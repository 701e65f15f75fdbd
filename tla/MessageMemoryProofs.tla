------------------------ MODULE MessageMemoryProofs ------------------------
(***************************************************************************)
(* Proofs about ArrayIterator, TypeConversion and MessageMemory, for all   *)
(* types and Datums.                                                       *)
(*                                                                         *)
(* The iterator gives each element of an array once: by induction on the   *)
(* number of calls, the position is that of the next element in the bitmap *)
(* and in the data.  What is sent of a Datum is what is meant (SentAll),   *)
(* and what is made of it when it comes back is the Datum (ReturnedAll):   *)
(* each is proved for the innermost call of the functions that call        *)
(* themselves, and from there outwards.  So is what is freed of a message, *)
(* and when.                                                               *)
(***************************************************************************)
EXTENDS MessageMemory, CommonProofs, FiniteSetTheorems

-----------------------------------------------------------------------------
(* The iterator.                                                           *)

Positions == [bitmap : Nat, bit : Nat, data : Nat]

\* f is the position after each number of calls.
Walks(f, array) ==
    /\ f[0] = FirstPosition
    /\ \A n \in Nat : f[n + 1] = NextPosition(array, f[n])
    /\ \A n \in Nat : f[n] \in Positions

-----------------------------------------------------------------------------
(* The positions.                                                          *)

\* A position stays a position, whatever the array.
LEMMA NextIsPosition ==
    ASSUME NEW array, NEW pos \in Positions
    PROVE  NextPosition(array, pos) \in Positions
  BY DEF Positions, NextPosition, NextData

\* Position is what its definition says: one step of the iterator for each call.
LEMMA PositionWalks ==
    ASSUME NEW array
    PROVE  Walks(Position(array), array)
  <1> DEFINE Body(u) == [n \in Nat |-> IF n = 0 THEN FirstPosition
                                       ELSE NextPosition(array, u[n - 1])]
             step == [p \in Nat \X Positions |-> NextPosition(array, p[2])]
  <1>1. step \in [Nat \X Positions -> Positions]
    BY NextIsPosition
  <1>2. FirstPosition \in Positions
    BY DEF FirstPosition, Positions
  <1>3. PICK f \in [Nat -> Positions] : Recursive(f, FirstPosition, step)
    <2> HIDE DEF step
    <2> QED BY <1>1, <1>2, Recursion
  <1>4. ASSUME NEW n \in Nat
        PROVE  f[n + 1] = NextPosition(array, f[n])
    <2>1. f[n + 1] = step[<<n + 1, f[n]>>]
      <3> HIDE DEF step
      <3> QED BY <1>3 DEF Recursive
    <2>2. <<n + 1, f[n]>> \in Nat \X Positions
      OBVIOUS
    <2> QED BY <2>1, <2>2
  <1>5. f = Body(f)
    <2>1. ASSUME NEW n \in Nat
          PROVE  f[n] = IF n = 0 THEN FirstPosition ELSE NextPosition(array, f[n - 1])
      <3>1. CASE n = 0
        BY <1>3, <3>1 DEF Recursive
      <3>2. CASE n # 0
        <4>1. n - 1 \in Nat /\ (n - 1) + 1 = n
          BY <3>2
        <4>2. f[(n - 1) + 1] = NextPosition(array, f[n - 1])
          BY <1>4, <4>1
        <4> QED BY <3>2, <4>1, <4>2
      <3> QED BY <3>1, <3>2
    <2> QED BY <2>1, Zenon
  <1> DEFINE g == Position(array)
  <1>6. g = Body(g)
    <2>1. g = CHOOSE v : v = Body(v)
      BY DEF Position
    <2> HIDE DEF Body, g
    <2> QED BY <1>5, <2>1
  <1>7. g[0] = FirstPosition /\ \A n \in Nat : g[n + 1] = NextPosition(array, g[n])
    <2>1. \A n \in Nat : Body(g)[n] = IF n = 0 THEN FirstPosition
                                      ELSE NextPosition(array, g[n - 1])
      <3> HIDE DEF g
      <3> QED BY Zenon
    <2> HIDE DEF g, Body
    <2>2. \A n \in Nat : g[n] = IF n = 0 THEN FirstPosition
                                ELSE NextPosition(array, g[n - 1])
      BY <1>6, <2>1
    <2>3. 0 \in Nat /\ \A n \in Nat : n + 1 \in Nat /\ n + 1 # 0 /\ (n + 1) - 1 = n
      OBVIOUS
    <2> QED BY <2>2, <2>3
  <1> DEFINE There == {n \in Nat : g[n] \in Positions}
  <1> HIDE DEF g
  <1>8. \A n \in Nat : n \in There
    <2>1. 0 \in There
      BY <1>2, <1>7
    <2>2. \A n \in Nat : n \in There => n + 1 \in There
      BY <1>7, NextIsPosition
    <2> HIDE DEF There
    <2> QED BY <2>1, <2>2, Induct
  <1>9. Walks(g, array)
    BY <1>7, <1>8 DEF Walks
  <1> QED BY <1>9 DEF g

-----------------------------------------------------------------------------
(* The bitmap.                                                             *)

\* Where the bit of the next element is after n calls.
LEMMA Bits ==
    ASSUME NEW n \in Nat
    PROVE  /\ n \div ByteBits \in Nat /\ n % ByteBits \in 0..(ByteBits - 1)
           /\ ByteBits * (n \div ByteBits) + (n % ByteBits) = n
           /\ IF (n % ByteBits) + 1 = ByteBits
              THEN /\ (n + 1) \div ByteBits = n \div ByteBits + 1
                   /\ (n + 1) % ByteBits = 0
              ELSE /\ (n + 1) \div ByteBits = n \div ByteBits
                   /\ (n + 1) % ByteBits = (n % ByteBits) + 1
  BY DEF ByteBits

\* The bit of each element says whether it is null.
LEMMA BitOfElement ==
    ASSUME NEW A, NEW elems \in Seq(A), NEW n \in 0..(Len(elems) - 1),
           NEW pos \in Positions,
           Stored(elems).bitmap # <<>> =>
              pos.bitmap = n \div ByteBits + 1 /\ pos.bit = n % ByteBits
    PROVE  IsNullAt(Stored(elems), pos) <=> elems[n + 1] = Null
  <1> DEFINE len == Len(elems)
             bytes == (len + ByteBits - 1) \div ByteBits
             map == [k \in 1..bytes |->
                        [b \in 0..(ByteBits - 1) |->
                           LET i == ByteBits * (k - 1) + b + 1
                           IN i <= len /\ elems[i] # Null]]
             array == Stored(elems)
  <1>1. array.bitmap = IF \A i \in 1..len : elems[i] # Null THEN <<>> ELSE map
    BY DEF Stored
  <1>2. len \in Nat /\ n \in Nat /\ n + 1 \in 1..len
    OBVIOUS
  <1>3. CASE \A i \in 1..len : elems[i] # Null
    BY <1>1, <1>2, <1>3 DEF IsNullAt
  <1>4. CASE ~(\A i \in 1..len : elems[i] # Null)
    <2> DEFINE k == n \div ByteBits + 1
               b == n % ByteBits
    <2>1. /\ k \in 1..bytes /\ b \in 0..(ByteBits - 1)
          /\ ByteBits * (k - 1) + b + 1 = n + 1
      BY <1>2, Bits DEF ByteBits
    <2>2. array.bitmap = map
      BY <1>1, <1>4
    <2> HIDE DEF array, bytes, k, b
    <2>3. map[k][b] <=> (n + 1 <= len /\ elems[n + 1] # Null)
      BY <2>1
    <2>4. map # <<>>
      <3>1. DOMAIN map = 1..bytes /\ DOMAIN <<>> = {}
        OBVIOUS
      <3> QED BY <2>1, <3>1
    <2> HIDE DEF map
    <2>5. pos.bitmap = k /\ pos.bit = b
      BY <2>2, <2>4 DEF array, k, b
    <2> QED BY <1>2, <2>2, <2>3, <2>4, <2>5 DEF IsNullAt, array
  <1> QED BY <1>3, <1>4

-----------------------------------------------------------------------------
(* The elements.                                                           *)

\* The position p is that of element n + 1, when u selects the elements stored.
PositionAt(p, n, array, u) ==
    /\ p.data = Len(u[n]) + 1
    /\ array.bitmap # <<>> => p.bitmap = n \div ByteBits + 1 /\ p.bit = n % ByteBits

\* An element takes a bit of the bitmap, and a place in the data unless it is
\* null.
LEMMA OneOn ==
    ASSUME NEW A, NEW elems \in Seq(A), NEW n \in 0..(Len(elems) - 1),
           NEW u, Selects(u, elems, A, NotNull(elems)),
           NEW p \in Positions, PositionAt(p, n, Stored(elems), u)
    PROVE  PositionAt(NextPosition(Stored(elems), p), n + 1, Stored(elems), u)
  <1> DEFINE array == Stored(elems)
             q == NextPosition(array, p)
  <1>1. IsNullAt(array, p) <=> elems[n + 1] = Null
    BY BitOfElement DEF PositionAt
  <1>2. /\ n \in 0..Len(elems) /\ n + 1 \in 1..Len(elems) /\ n \in Nat
        /\ (n + 1) - 1 = n
    OBVIOUS
  <1>3. elems[n + 1] \in NotNull(elems) <=> elems[n + 1] # Null
    BY <1>2 DEF NotNull
  <1>4. u[n + 1] = IF elems[n + 1] # Null THEN Append(u[n], elems[n + 1]) ELSE u[n]
    BY <1>2, <1>3 DEF Selects
  <1>5. u[n] \in Seq(A \cap NotNull(elems)) /\ Len(u[n]) \in Nat
    BY <1>2 DEF Selects
  <1>6. Len(u[n + 1]) = IF elems[n + 1] # Null THEN Len(u[n]) + 1 ELSE Len(u[n])
    <2>1. CASE elems[n + 1] # Null
      <3> DEFINE t == u[n]
                 e == elems[n + 1]
      <3>1. t \in Seq(A \cap NotNull(elems)) /\ e \in A \cap NotNull(elems)
        BY <1>2, <1>3, <1>5, <2>1
      <3>2. Len(Append(t, e)) = Len(t) + 1
        <4> HIDE DEF t, e
        <4> QED BY <3>1
      <3> QED BY <1>4, <2>1, <3>2
    <2>2. CASE elems[n + 1] = Null
      BY <1>4, <2>2
    <2> QED BY <2>1, <2>2
  <1> HIDE DEF array
  <1>7. q.data = Len(u[n + 1]) + 1
    <2>1. q.data = IF elems[n + 1] = Null THEN p.data ELSE p.data + 1
      BY <1>1 DEF NextPosition, NextData
    <2>2. p.data = Len(u[n]) + 1
      BY DEF PositionAt
    <2> QED BY <1>5, <1>6, <2>1, <2>2
  <1>8. ASSUME array.bitmap # <<>>
        PROVE  q.bitmap = (n + 1) \div ByteBits + 1 /\ q.bit = (n + 1) % ByteBits
    <2>1. p.bitmap = n \div ByteBits + 1 /\ p.bit = n % ByteBits
      BY <1>8 DEF PositionAt, array
    <2>2. /\ q.bitmap = IF p.bit + 1 = ByteBits THEN p.bitmap + 1 ELSE p.bitmap
          /\ q.bit = IF p.bit + 1 = ByteBits THEN 0 ELSE p.bit + 1
      BY <1>8 DEF NextPosition
    <2> QED BY <1>2, <2>1, <2>2, Bits
  <1>9. PositionAt(q, n + 1, array, u)
    BY <1>7, <1>8 DEF PositionAt
  <1> QED BY <1>9 DEF array

\* At each element the position is that of the element.
LEMMA AlwaysAt ==
    ASSUME NEW A, NEW elems \in Seq(A),
           NEW f, Walks(f, Stored(elems)),
           NEW u, Selects(u, elems, A, NotNull(elems))
    PROVE  \A n \in 0..Len(elems) : PositionAt(f[n], n, Stored(elems), u)
  <1> DEFINE array == Stored(elems)
             Good == {n \in Nat : n <= Len(elems) => PositionAt(f[n], n, array, u)}
  <1>1. 0 \in Good
    <2>1. f[0] = [bitmap |-> 1, bit |-> 0, data |-> 1] /\ Len(u[0]) = 0
      BY DEF Walks, FirstPosition, Selects
    <2>2. 0 \div ByteBits = 0 /\ 0 % ByteBits = 0
      BY DEF ByteBits
    <2> QED BY <2>1, <2>2 DEF PositionAt
  <1>2. ASSUME NEW n \in Nat, n \in Good
        PROVE  n + 1 \in Good
    <2> SUFFICES ASSUME n + 1 <= Len(elems) PROVE PositionAt(f[n + 1], n + 1, array, u)
      OBVIOUS
    <2>1. n \in 0..(Len(elems) - 1) /\ PositionAt(f[n], n, array, u)
      BY <1>2
    <2>2. f[n] \in Positions /\ f[n + 1] = NextPosition(array, f[n])
      BY DEF Walks
    <2> QED BY <2>1, <2>2, OneOn
  <1> HIDE DEF Good
  <1>3. \A n \in Nat : n \in Good
    BY <1>1, <1>2, Induct
  <1> QED BY <1>3 DEF Good

\* Whatever the length of an array and wherever its nulls are, the calls of
\* plc_backend_array_next give its elements, each once and in their order.
THEOREM IteratorGivesAll ==
    ASSUME NEW A, NEW elems \in Seq(A)
    PROVE  Items(Stored(elems), Len(elems)) = elems
  <1> DEFINE array == Stored(elems)
             T == NotNull(elems)
             u == SelectedUpTo(elems, T)
             f == Position(array)
  <1>1. Walks(f, array)
    BY PositionWalks
  <1>2. Selects(u, elems, A, T)
    BY SelectedStep
  <1>3. \A n \in 0..Len(elems) : PositionAt(f[n], n, array, u)
    <2> HIDE DEF f, u
    <2> QED BY <1>1, <1>2, AlwaysAt
  <1>4. array.data = Selected(elems, T)
    BY DEF Stored
  <1>5. ASSUME NEW i \in 1..Len(elems)
        PROVE  ItemAt(array, f[i - 1]) = elems[i]
    <2>1. /\ i - 1 \in 0..(Len(elems) - 1) /\ i - 1 \in 0..Len(elems)
          /\ i - 1 \in Nat /\ (i - 1) + 1 = i
      OBVIOUS
    <2>2. PositionAt(f[i - 1], i - 1, array, u) /\ f[i - 1] \in Positions
      BY <1>1, <1>3, <2>1 DEF Walks
    <2>3. IsNullAt(array, f[i - 1]) <=> elems[i] = Null
      <3> HIDE DEF f
      <3> QED BY <2>1, <2>2, BitOfElement DEF PositionAt
    <2>4. CASE elems[i] = Null
      BY <2>3, <2>4 DEF ItemAt
    <2>5. CASE elems[i] # Null
      <3>1. elems[i] \in T
        BY <2>5 DEF NotNull
      <3>2. Selected(elems, T)[Len(u[i - 1]) + 1] = elems[i]
        <4> HIDE DEF T
        <4> QED BY <3>1, SelectedAt DEF u
      <3>3. f[i - 1].data = Len(u[i - 1]) + 1
        BY <2>2 DEF PositionAt
      <3> QED BY <1>4, <2>3, <2>5, <3>2, <3>3 DEF ItemAt
    <2> QED BY <2>4, <2>5
  <1>6. Items(array, Len(elems)) = [i \in 1..Len(elems) |-> elems[i]]
    BY <1>5 DEF Items
  <1> QED BY <1>6

-----------------------------------------------------------------------------
(* Descriptions of types, and the Datums that they are for.                *)

\* The type t, where fill_type_info_inner comes upon it with these flags.
Fits(t, isArrayElement, isUDTElement) ==
    /\ isArrayElement => t.kind # "array"
    /\ ~isArrayElement => NoArrayInArray(t)
    /\ ~isUDTElement =>
          /\ t.kind = "row" => IsRowType(t)
          /\ ~isArrayElement /\ t.kind = "array" /\ t.elem.kind = "row" => IsRowType(t.elem)

\* What the outfunc makes of a Datum with its null flag.
AsObject(info, x) == UnlessNull(LAMBDA v : AsValue(info, v), x)

InfoTypes == {"fixed", "numeric", "BYTEA", "TEXT", "ARRAY", "UDT"}

-----------------------------------------------------------------------------
(* Values with their null flags.                                           *)

LEMMA Flags ==
    ASSUME NEW v
    PROVE  /\ Null.isnull = TRUE /\ Some(v).isnull = FALSE /\ Some(v).value = v
           /\ Null # Some(v)
  BY DEF Null, Some

LEMMA Flagged ==
    ASSUME NEW x, MayBeNull(x)
    PROVE  \/ x.isnull = TRUE /\ x = Null
           \/ x.isnull = FALSE /\ x = Some(x.value)
  BY Flags DEF MayBeNull

LEMMA SequenceOK ==
    ASSUME NEW s, IsSequence(s)
    PROVE  /\ Len(s) \in Nat /\ DOMAIN s = 1..Len(s)
           /\ s \in Seq({s[i] : i \in 1..Len(s)})
  <1> DEFINE n == Len(s)
             A == {s[i] : i \in 1..n}
             f == [i \in 1..n |-> s[i]]
  <1>1. n \in Nat /\ s = f
    BY DEF IsSequence
  <1>2. \A i \in 1..n : s[i] \in A
    OBVIOUS
  <1> HIDE DEF n, A
  <1>3. f \in Seq(A)
    BY <1>1, <1>2
  <1>4. DOMAIN f = 1..n
    OBVIOUS
  <1> HIDE DEF f
  <1> QED BY <1>1, <1>3, <1>4 DEF n, A

-----------------------------------------------------------------------------
(* Descriptions of types.                                                  *)

LEMMA ElementFits ==
    ASSUME NEW t, NEW u \in BOOLEAN, Fits(t, FALSE, u), t.kind = "array"
    PROVE  Fits(t.elem, TRUE, u)
  BY DEF Fits, NoArrayInArray

LEMMA ColumnFits ==
    ASSUME NEW t, NEW a \in BOOLEAN, Fits(t, a, FALSE), t.kind = "row",
           NEW i \in DOMAIN t.cols, ~t.cols[i].dropped
    PROVE  Fits(t.cols[i].type, FALSE, TRUE)
  BY DEF Fits, IsRowType

\* What is filled in for a scalar.
LEMMA ScalarInfos ==
    ASSUME NEW t, NEW a \in BOOLEAN, NEW u \in BOOLEAN
    PROVE  LET info == ScalarInfo(t, a, u) IN
           /\ info.type \in InfoTypes \ {"ARRAY", "UDT"}
           /\ info.sub = <<>>
           /\ info.ptr = (a /\ info.type \in Pointed)
           /\ t.kind = "numeric" <=> info.type = "numeric"
           /\ t.kind = "fixed" <=> info.type = "fixed"
           /\ t.kind = "bytea" <=> info.type = "BYTEA"
           /\ t.kind \notin {"numeric", "fixed", "bytea"} <=> info.type = "TEXT"
  BY DEF ScalarInfo, InfoTypes, Pointed

\* The description of a type is that of an array, of a row, or of a scalar.
LEMMA ArrayInfos ==
    ASSUME NEW t, NEW u \in BOOLEAN, t.kind = "array"
    PROVE  /\ Info1(t, FALSE, u) =
                 [type |-> "ARRAY", ptr |-> FALSE, sub |-> <<ScalarInfo(t.elem, TRUE, u)>>]
           /\ Info2(t, FALSE, u) =
                 [type |-> "ARRAY", ptr |-> FALSE, sub |-> <<Info1(t.elem, TRUE, u)>>]
           /\ TypeInfo(t) =
                 [type |-> "ARRAY", ptr |-> FALSE, sub |-> <<Info2(t.elem, TRUE, FALSE)>>]
  BY DEF Info1, Info2, TypeInfo, InfoOf

LEMMA OtherInfos ==
    ASSUME NEW t, NEW a \in BOOLEAN, NEW u \in BOOLEAN,
           t.kind = "array" => a, t.kind = "row" => u
    PROVE  /\ Info1(t, a, u) = ScalarInfo(t, a, u)
           /\ Info2(t, a, u) = ScalarInfo(t, a, u)
           /\ ~a /\ ~u => TypeInfo(t) = ScalarInfo(t, a, u)
  BY DEF Info1, Info2, TypeInfo, InfoOf

LEMMA ArrayFields ==
    ASSUME NEW t, NEW u \in BOOLEAN, t.kind = "array"
    PROVE  /\ Info1(t, FALSE, u).type = "ARRAY" /\ Info1(t, FALSE, u).ptr = FALSE
           /\ Info2(t, FALSE, u).type = "ARRAY" /\ Info2(t, FALSE, u).ptr = FALSE
           /\ TypeInfo(t).type = "ARRAY" /\ TypeInfo(t).ptr = FALSE
  BY DEF Info1, Info2, TypeInfo, InfoOf

LEMMA RowFields ==
    ASSUME NEW t, NEW a \in BOOLEAN, t.kind = "row"
    PROVE  /\ Info1(t, a, FALSE).type = "UDT" /\ Info1(t, a, FALSE).ptr = a
           /\ Info2(t, a, FALSE).type = "UDT" /\ Info2(t, a, FALSE).ptr = a
           /\ TypeInfo(t).type = "UDT" /\ TypeInfo(t).ptr = FALSE
           /\ Info2(t, a, FALSE).sub =
                 [i \in DOMAIN t.cols |-> IF t.cols[i].dropped THEN DroppedInfo
                                          ELSE Info1(t.cols[i].type, FALSE, TRUE)]
           /\ TypeInfo(t).sub =
                 [i \in DOMAIN t.cols |-> IF t.cols[i].dropped THEN DroppedInfo
                                          ELSE Info2(t.cols[i].type, FALSE, TRUE)]
  BY DEF Info1, Info2, TypeInfo, InfoOf

\* The types of descriptions; the address of a pointer is what infunc gets of
\* the elements that have one.
InfoOK(info, isArrayElement, isUDTElement) ==
    /\ info.type \in InfoTypes
    /\ isUDTElement => info.type # "UDT"
    /\ info.type \in Pointed => info.ptr = isArrayElement
    /\ info.type \notin Pointed => info.ptr = FALSE

LEMMA InfosOK ==
    ASSUME NEW t, NEW a \in BOOLEAN, NEW u \in BOOLEAN, a => t.kind # "array"
    PROVE  /\ InfoOK(ScalarInfo(t, a, u), a, u)
           /\ InfoOK(Info1(t, a, u), a, u)
           /\ InfoOK(Info2(t, a, u), a, u)
           /\ InfoOK(TypeInfo(t), FALSE, FALSE)
  <1>1. InfoOK(ScalarInfo(t, a, u), a, u)
    BY ScalarInfos DEF InfoOK, InfoTypes, Pointed
  <1>2. InfoOK(Info1(t, a, u), a, u) /\ InfoOK(Info2(t, a, u), a, u)
    <2>1. CASE t.kind = "array" /\ a = FALSE
      BY <2>1, ArrayFields DEF InfoOK, InfoTypes, Pointed
    <2>2. CASE t.kind = "row" /\ u = FALSE
      BY <2>2, RowFields DEF InfoOK, InfoTypes, Pointed
    <2>3. CASE (t.kind = "array" => a) /\ (t.kind = "row" => u)
      BY <1>1, <2>3, OtherInfos
    <2> QED BY <2>1, <2>2, <2>3
  <1>3. InfoOK(TypeInfo(t), FALSE, FALSE)
    <2>1. CASE t.kind = "array"
      BY <2>1, ArrayFields DEF InfoOK, InfoTypes, Pointed
    <2>2. CASE t.kind = "row"
      BY <2>2, RowFields DEF InfoOK, InfoTypes, Pointed
    <2>3. CASE t.kind \notin {"array", "row"}
      <3>1. TypeInfo(t) = ScalarInfo(t, FALSE, FALSE)
        BY <2>3, OtherInfos
      <3> QED BY <2>3, <3>1 DEF ScalarInfo, InfoOK, InfoTypes, Pointed
    <2> QED BY <2>1, <2>2, <2>3
  <1> QED BY <1>1, <1>2, <1>3

\* The columns of a row that are not dropped, by number.
KeptOf(cols) == Selected([i \in DOMAIN cols |-> i], {i \in DOMAIN cols : ~cols[i].dropped})

LEMMA KeptOK ==
    ASSUME NEW t, IsRowType(t)
    PROVE  /\ Len(KeptOf(t.cols)) \in Nat
           /\ DOMAIN KeptOf(t.cols) = 1..Len(KeptOf(t.cols))
           /\ \A j \in DOMAIN KeptOf(t.cols) :
                 KeptOf(t.cols)[j] \in DOMAIN t.cols /\ ~t.cols[KeptOf(t.cols)[j]].dropped
  <1> DEFINE T == {i \in DOMAIN t.cols : ~t.cols[i].dropped}
             all == [i \in DOMAIN t.cols |-> i]
  <1>1. all \in Seq(Nat)
    <2>1. DOMAIN t.cols = 1..Len(t.cols) /\ Len(t.cols) \in Nat
      BY SequenceOK DEF IsRowType
    <2>2. \A i \in 1..Len(t.cols) : i \in Nat
      BY <2>1
    <2> QED BY <2>1, <2>2
  <1>2. Selected(all, T) \in Seq(Nat \cap T)
    <2> HIDE DEF all, T
    <2> QED BY <1>1, SelectedType
  <1>3. KeptOf(t.cols) = Selected(all, T)
    BY DEF KeptOf
  <1>4. \A j \in DOMAIN KeptOf(t.cols) : KeptOf(t.cols)[j] \in T
    <2> DEFINE kept == KeptOf(t.cols)
    <2>1. kept \in Seq(Nat \cap T)
      BY <1>2, <1>3
    <2> HIDE DEF kept, T
    <2>2. \A j \in DOMAIN kept : kept[j] \in T
      BY <2>1
    <2> QED BY <2>2 DEF kept
  <1>5. Len(KeptOf(t.cols)) \in Nat /\ DOMAIN KeptOf(t.cols) = 1..Len(KeptOf(t.cols))
    <2> HIDE DEF all, T
    <2> QED BY <1>2, <1>3
  <1> QED BY <1>4, <1>5

LEMMA KeptOfInfos ==
    ASSUME NEW t, IsRowType(t), NEW sub, DOMAIN sub = DOMAIN t.cols,
           \A i \in DOMAIN t.cols :
              sub[i].type = "DROPPED" <=> t.cols[i].dropped
    PROVE  KeptColumns(sub) = KeptOf(t.cols)
  <1>1. {i \in DOMAIN sub : sub[i].type # "DROPPED"} = {i \in DOMAIN t.cols : ~t.cols[i].dropped}
    BY DEF IsRowType
  <1> QED BY <1>1 DEF KeptColumns, KeptOf

LEMMA KeptOfOne ==
    ASSUME NEW s, s.type # "DROPPED"
    PROVE  KeptColumns(<<s>>) = <<1>>
  <1> DEFINE all == [i \in DOMAIN <<s>> |-> i]
             T == {i \in DOMAIN <<s>> : <<s>>[i].type # "DROPPED"}
  <1>1. all \in Seq(Nat) /\ Len(all) = 1 /\ all[1] = 1 /\ 1 \in T
    OBVIOUS
  <1>2. \A i \in 1..Len(all) : all[i] \in T => i = 1
    BY <1>1
  <1> HIDE DEF all, T
  <1>3. Selected(all, T) = <<all[1]>>
    <2>1. 1 \in 1..Len(all) /\ all[1] \in T
      BY <1>1
    <2> QED BY <1>1, <1>2, <2>1, SelectedOnce
  <1> QED BY <1>1, <1>3 DEF KeptColumns, all, T

LEMMA KeptOfNone ==
    KeptColumns(<<>>) = <<>>
  <1> DEFINE none == <<>>
             all == [i \in DOMAIN none |-> i]
             T == {i \in DOMAIN none : none[i].type # "DROPPED"}
  <1>1. all \in Seq(Nat) /\ Len(all) = 0
    OBVIOUS
  <1>2. \A i \in 1..Len(all) : all[i] \notin T
    BY <1>1
  <1> HIDE DEF all, T
  <1>3. Selected(all, T) = <<>>
    BY <1>1, <1>2, SelectedNone
  <1> QED BY <1>3 DEF KeptColumns, all, T

\* What is sent of a description.
LEMMA CopyOfArray ==
    ASSUME NEW info, NEW s, info.sub = <<s>>, s.type # "DROPPED"
    PROVE  /\ Copy1(info) = [type |-> info.type, sub |-> <<Copy0(s)>>]
           /\ Copy2(info) = [type |-> info.type, sub |-> <<Copy1(s)>>]
           /\ CopyType(info) = [type |-> info.type, sub |-> <<Copy2(s)>>]
  <1>1. KeptColumns(info.sub) = <<1>>
    BY KeptOfOne
  <1>2. DOMAIN <<1>> = {1} /\ <<1>>[1] = 1 /\ info.sub[1] = s
    OBVIOUS
  <1>3. Copy1(info) = [type |-> info.type, sub |-> [j \in {1} |-> Copy0(s)]]
    BY <1>1, <1>2 DEF Copy1, CopyOf
  <1>4. Copy2(info) = [type |-> info.type, sub |-> [j \in {1} |-> Copy1(s)]]
    BY <1>1, <1>2 DEF Copy2, CopyOf
  <1>5. CopyType(info) = [type |-> info.type, sub |-> [j \in {1} |-> Copy2(s)]]
    BY <1>1, <1>2 DEF CopyType, CopyOf
  <1>6. \A c : [j \in {1} |-> c] = <<c>>
    OBVIOUS
  <1> QED BY <1>3, <1>4, <1>5, <1>6

LEMMA CopyOfScalar ==
    ASSUME NEW info, info.sub = <<>>
    PROVE  LET copy == [type |-> info.type, sub |-> <<>>] IN
           Copy1(info) = copy /\ Copy2(info) = copy /\ CopyType(info) = copy
  <1>1. KeptColumns(info.sub) = <<>>
    BY KeptOfNone
  <1> DEFINE kept == KeptColumns(info.sub)
  <1>2. DOMAIN kept = {} /\ <<>> = [j \in {} |-> 0]
    BY <1>1
  <1> HIDE DEF kept
  <1>3. /\ [j \in DOMAIN kept |-> Copy0(info.sub[kept[j]])] = <<>>
        /\ [j \in DOMAIN kept |-> Copy1(info.sub[kept[j]])] = <<>>
        /\ [j \in DOMAIN kept |-> Copy2(info.sub[kept[j]])] = <<>>
    BY <1>2
  <1> QED BY <1>3 DEF Copy1, Copy2, CopyType, CopyOf, kept

-----------------------------------------------------------------------------
(* What is sent.                                                           *)

IsArray(a) ==
    /\ a = [dims |-> a.dims, elems |-> a.elems]
    /\ IsSequence(a.dims) /\ IsSequence(a.elems)
    /\ SizeOf(a.dims) = Len(a.elems)

\* The elements of an array are given, each converted as its own type says.
LEMMA ElementsGiven ==
    ASSUME NEW info, info.type = "ARRAY", NEW a, IsArray(a)
    PROVE  Elements(AsValue(info, a)) =
              [i \in DOMAIN a.elems |-> AsObject(info.sub[1], a.elems[i])]
  <1> DEFINE iter == AsValue(info, a)
  <1>1. iter = [dims |-> a.dims, array |-> Stored(a.elems), subtyp |-> info.sub[1]]
    BY DEF AsValue, AsField, Iterator
  <1>2. Items(iter.array, SizeOf(iter.dims)) = a.elems
    <2>1. iter.array = Stored(a.elems) /\ SizeOf(iter.dims) = Len(a.elems)
      BY <1>1 DEF IsArray
    <2>2. Items(Stored(a.elems), Len(a.elems)) = a.elems
      BY SequenceOK, IteratorGivesAll DEF IsArray
    <2> QED BY <2>1, <2>2
  <1>3. iter.subtyp = info.sub[1]
    BY <1>1
  <1> HIDE DEF iter
  <1>4. Elements(iter) = [i \in DOMAIN a.elems |->
                            UnlessNull(LAMBDA v : AsValue(iter.subtyp, v), a.elems[i])]
    BY <1>2 DEF Elements
  <1> QED BY <1>3, <1>4 DEF AsObject, iter

\* The columns of a row are converted, each as its own type says.
LEMMA ColumnsGiven ==
    ASSUME NEW t, IsRowType(t), NEW info, info.type = "UDT", NEW row,
           KeptColumns(info.sub) = KeptOf(t.cols),
           \A i \in DOMAIN t.cols :
              ~t.cols[i].dropped => info.sub[i].type # "UDT"
    PROVE  AsValue(info, row) =
              [j \in DOMAIN KeptOf(t.cols) |->
                 AsObject(info.sub[KeptOf(t.cols)[j]], row[KeptOf(t.cols)[j]])]
  <1> DEFINE kept == KeptOf(t.cols)
  <1>1. AsValue(info, row) =
          [j \in DOMAIN kept |->
             UnlessNull(LAMBDA v : AsField(info.sub[kept[j]], v), row[kept[j]])]
    BY DEF AsValue, AsUdt
  <1>2. ASSUME NEW j \in DOMAIN kept
        PROVE  UnlessNull(LAMBDA v : AsField(info.sub[kept[j]], v), row[kept[j]])
                 = AsObject(info.sub[kept[j]], row[kept[j]])
    <2>1. info.sub[kept[j]].type # "UDT"
      BY KeptOK
    <2> HIDE DEF kept
    <2> QED BY <2>1 DEF AsObject, AsValue, UnlessNull
  <1> HIDE DEF kept
  <1> QED BY <1>1, <1>2 DEF kept

\* A scalar is sent as it is converted.
LEMMA WireOfScalar ==
    ASSUME NEW ct, ct.type \notin {"ARRAY", "UDT"}, NEW o, MayBeNull(o)
    PROVE  Wire1(ct, o) = o /\ Wire2(ct, o) = o /\ OnWire(ct, o) = o
  BY Flagged DEF Wire1, Wire2, OnWire, WireOf, UnlessNull

LEMMA MeantOfScalar ==
    ASSUME NEW t, t.kind # "array", NEW u \in BOOLEAN, t.kind = "row" => u,
           NEW a \in BOOLEAN, NEW x, MayBeNull(x)
    PROVE  LET o == AsObject(ScalarInfo(t, a, u), x) IN
           /\ MayBeNull(o)
           /\ o = Meant0(t, x, u) /\ o = Meant1(t, x, u) /\ o = Meant2(t, x, u)
           /\ ~u => o = Meant(t, x)
  <1> DEFINE info == ScalarInfo(t, a, u)
             o == AsObject(info, x)
  <1>1. CASE x = Null
    <2>1. x.isnull
      BY <1>1, Flags
    <2> QED BY <1>1, <2>1
            DEF AsObject, MayBeNull, UnlessNull, Meant0, Meant1, Meant2, Meant, MeantOf
  <1>2. CASE x # Null
    <2> DEFINE v == x.value
               m == CASE t.kind = "numeric" -> Float8(v)
                      [] t.kind \in {"fixed", "bytea"} -> v
                      [] OTHER -> Output(v)
    <2>1. x.isnull = FALSE
      BY <1>2, Flagged
    <2>2. AsValue(info, v) = m
      <3>1. info.type \notin {"UDT", "ARRAY"}
        BY ScalarInfos
      <3>2. AsValue(info, v) = CASE info.type = "numeric" -> Float8(v)
                                 [] info.type = "TEXT" -> Output(v)
                                 [] OTHER -> v
        BY <3>1 DEF AsValue, AsField
      <3>3. CASE t.kind = "numeric"
        BY <3>2, <3>3, ScalarInfos
      <3>4. CASE t.kind \in {"fixed", "bytea"}
        BY <3>2, <3>4, ScalarInfos
      <3>5. CASE t.kind \notin {"numeric", "fixed", "bytea"}
        BY <3>2, <3>5, ScalarInfos
      <3> QED BY <3>3, <3>4, <3>5
    <2>3. o = Some(m)
      BY <2>1, <2>2 DEF AsObject, UnlessNull
    <2>4. o.value = m
      BY <2>3, Flags
    <2>5. /\ Meant0(t, x, u) = Some(m) /\ Meant1(t, x, u) = Some(m)
          /\ Meant2(t, x, u) = Some(m)
          /\ ~u => Meant(t, x) = Some(m)
      BY <2>1 DEF UnlessNull, Meant0, Meant1, Meant2, Meant, MeantOf
    <2> HIDE DEF m
    <2> QED BY <2>3, <2>4, <2>5 DEF MayBeNull
  <1> QED BY <1>1, <1>2

\* What is sent of a Datum, at each depth, is what is meant.
LEMMA Sent0 ==
    ASSUME NEW t, t.kind # "array", NEW x, Datum0(t, x)
    PROVE  LET info == ScalarInfo(t, TRUE, TRUE) IN
           Wire0(Copy0(info), AsObject(info, x)) = Meant0(t, x, TRUE)
  BY MeantOfScalar DEF Wire0, Datum0

LEMMA Sent1 ==
    ASSUME NEW t, NEW a \in BOOLEAN, Fits(t, a, TRUE),
           NEW x, Datum1(t, x)
    PROVE  LET info == Info1(t, a, TRUE) IN
           Wire1(Copy1(info), AsObject(info, x)) = Meant1(t, x, TRUE)
  <1> DEFINE info == Info1(t, a, TRUE)
             v == x.value
  <1>1. MayBeNull(x) /\ Fits(t, a, TRUE)
    BY DEF Datum1, DatumOf
  <1>2. CASE x = Null
    <2>1. x.isnull
      BY <1>2, Flags
    <2>2. AsObject(info, x) = Null
      BY <2>1 DEF AsObject, UnlessNull
    <2>3. Meant1(t, x, TRUE) = Null
      BY <2>1 DEF Meant1, MeantOf, UnlessNull
    <2> QED BY <2>2, <2>3, Flags DEF Wire1, WireOf, UnlessNull
  <1>3. CASE t.kind # "array"
    <2>1. info = ScalarInfo(t, a, TRUE)
      BY <1>3, OtherInfos
    <2>2. info.sub = <<>> /\ info.type \notin {"ARRAY", "UDT"}
      <3> HIDE DEF info
      <3> QED BY <2>1, ScalarInfos
    <2>3. Copy1(info) = [type |-> info.type, sub |-> <<>>]
      BY <2>2, CopyOfScalar
    <2>4. MayBeNull(AsObject(info, x)) /\ AsObject(info, x) = Meant1(t, x, TRUE)
      <3> HIDE DEF info
      <3> QED BY <1>1, <1>3, <2>1, MeantOfScalar
    <2>5. Wire1(Copy1(info), AsObject(info, x)) = Meant1(t, x, TRUE)
      <3> HIDE DEF info
      <3>1. Copy1(info).type \notin {"ARRAY", "UDT"}
        BY <2>2, <2>3
      <3> QED BY <2>4, <3>1, WireOfScalar
    <2> QED BY <2>5
  <1>4. CASE x # Null /\ t.kind = "array"
    <2> DEFINE s == ScalarInfo(t.elem, TRUE, TRUE)
               elems == v.elems
    <2>1. a = FALSE /\ Fits(t.elem, TRUE, TRUE)
      BY <1>1, <1>4, ElementFits DEF Fits
    <2>2. x.isnull = FALSE /\ IsArray(v) /\ \A i \in DOMAIN elems : Datum0(t.elem, elems[i])
      BY <1>1, <1>4, Flagged DEF Datum1, DatumOf, IsArray
    <2>3. info.type = "ARRAY" /\ info.sub = <<s>> /\ s.type # "DROPPED"
      <3>1. info = [type |-> "ARRAY", ptr |-> FALSE, sub |-> <<s>>]
        BY <1>4, <2>1, ArrayInfos
      <3>2. s.type \in InfoTypes
        BY <2>1, InfosOK DEF Fits, InfoOK
      <3> HIDE DEF info, s
      <3> QED BY <3>1, <3>2 DEF InfoTypes
    <2> HIDE DEF info, s
    <2>4. Copy1(info) = [type |-> "ARRAY", sub |-> <<Copy0(s)>>]
      BY <2>3, CopyOfArray
    <2>5. Elements(AsValue(info, v)) = [i \in DOMAIN elems |-> AsObject(s, elems[i])]
      BY <2>2, <2>3, ElementsGiven
    <2>6. AsObject(info, x) = Some(AsValue(info, v)) /\ AsValue(info, v).dims = v.dims
      BY <2>2, <2>3 DEF AsObject, UnlessNull, AsValue, AsField, Iterator
    <2>7. Wire1(Copy1(info), AsObject(info, x)) =
             Some([dims |-> v.dims,
                   elems |-> [i \in DOMAIN elems |-> Wire0(Copy0(s), AsObject(s, elems[i]))]])
      <3> DEFINE y == AsValue(info, v)
                 ct == Copy1(info)
      <3>1. ct.type = "ARRAY" /\ ct.sub[1] = Copy0(s)
        BY <2>4
      <3>2. Wire1(ct, Some(y)) =
               Some([dims |-> y.dims,
                     elems |-> [i \in DOMAIN Elements(y) |-> Wire0(ct.sub[1], Elements(y)[i])]])
        <4> HIDE DEF y, ct
        <4> QED BY <3>1, Flags DEF Wire1, WireOf, UnlessNull
      <3> QED BY <2>5, <2>6, <3>1, <3>2
    <2>8. ASSUME NEW i \in DOMAIN elems
          PROVE  Wire0(Copy0(s), AsObject(s, elems[i])) = Meant0(t.elem, elems[i], TRUE)
      BY <2>1, <2>2, Sent0 DEF s, Fits
    <2>9. Meant1(t, x, TRUE) =
             Some([dims |-> v.dims,
                   elems |-> [i \in DOMAIN elems |-> Meant0(t.elem, elems[i], TRUE)]])
      BY <1>4, <2>2 DEF Meant1, MeantOf, UnlessNull
    <2>10. Wire1(Copy1(info), AsObject(info, x)) = Meant1(t, x, TRUE)
      BY <2>7, <2>8, <2>9
    <2> QED BY <2>10 DEF info
  <1> QED BY <1>2, <1>3, <1>4

LEMMA Sent2 ==
    ASSUME NEW t, NEW a \in BOOLEAN, NEW u \in BOOLEAN, a \/ u, Fits(t, a, u),
           NEW x, Datum2(t, x)
    PROVE  LET info == Info2(t, a, u) IN
           Wire2(Copy2(info), AsObject(info, x)) = Meant2(t, x, u)
  <1> DEFINE info == Info2(t, a, u)
             v == x.value
  <1>1. MayBeNull(x) /\ Fits(t, a, u)
    BY DEF Datum2, DatumOf
  <1>2. CASE x = Null
    <2>1. x.isnull
      BY <1>2, Flags
    <2>2. AsObject(info, x) = Null
      BY <2>1 DEF AsObject, UnlessNull
    <2>3. Meant2(t, x, u) = Null
      BY <2>1 DEF Meant2, MeantOf, UnlessNull
    <2> QED BY <2>2, <2>3, Flags DEF Wire2, WireOf, UnlessNull
  <1>3. CASE t.kind # "array" /\ (t.kind = "row" => u)
    <2>1. info = ScalarInfo(t, a, u)
      BY <1>3, OtherInfos
    <2>2. info.sub = <<>> /\ info.type \notin {"ARRAY", "UDT"}
      <3> HIDE DEF info
      <3> QED BY <2>1, ScalarInfos
    <2>3. Copy2(info) = [type |-> info.type, sub |-> <<>>]
      BY <2>2, CopyOfScalar
    <2>4. MayBeNull(AsObject(info, x)) /\ AsObject(info, x) = Meant2(t, x, u)
      <3> HIDE DEF info
      <3> QED BY <1>1, <1>3, <2>1, MeantOfScalar
    <2>5. Wire2(Copy2(info), AsObject(info, x)) = Meant2(t, x, u)
      <3> HIDE DEF info
      <3>1. Copy2(info).type \notin {"ARRAY", "UDT"}
        BY <2>2, <2>3
      <3> QED BY <2>4, <3>1, WireOfScalar
    <2> QED BY <2>5
  <1>4. CASE x # Null /\ t.kind = "array"
    <2> DEFINE s == Info1(t.elem, TRUE, u)
               elems == v.elems
    <2>1. a = FALSE /\ Fits(t.elem, TRUE, u)
      BY <1>1, <1>4, ElementFits DEF Fits
    <2>2. x.isnull = FALSE /\ IsArray(v) /\ \A i \in DOMAIN elems : Datum1(t.elem, elems[i])
      BY <1>1, <1>4, Flagged DEF Datum2, DatumOf, IsArray
    <2>3. info.type = "ARRAY" /\ info.sub = <<s>> /\ s.type # "DROPPED"
      <3>1. info = [type |-> "ARRAY", ptr |-> FALSE, sub |-> <<s>>]
        BY <1>4, <2>1, ArrayInfos
      <3>2. s.type \in InfoTypes
        BY <2>1, InfosOK DEF Fits, InfoOK
      <3> HIDE DEF info, s
      <3> QED BY <3>1, <3>2 DEF InfoTypes
    <2> HIDE DEF info, s
    <2>4. Copy2(info) = [type |-> "ARRAY", sub |-> <<Copy1(s)>>]
      BY <2>3, CopyOfArray
    <2>5. Elements(AsValue(info, v)) = [i \in DOMAIN elems |-> AsObject(s, elems[i])]
      BY <2>2, <2>3, ElementsGiven
    <2>6. AsObject(info, x) = Some(AsValue(info, v)) /\ AsValue(info, v).dims = v.dims
      BY <2>2, <2>3 DEF AsObject, UnlessNull, AsValue, AsField, Iterator
    <2>7. Wire2(Copy2(info), AsObject(info, x)) =
             Some([dims |-> v.dims,
                   elems |-> [i \in DOMAIN elems |-> Wire1(Copy1(s), AsObject(s, elems[i]))]])
      <3> DEFINE y == AsValue(info, v)
                 ct == Copy2(info)
      <3>1. ct.type = "ARRAY" /\ ct.sub[1] = Copy1(s)
        BY <2>4
      <3>2. Wire2(ct, Some(y)) =
               Some([dims |-> y.dims,
                     elems |-> [i \in DOMAIN Elements(y) |-> Wire1(ct.sub[1], Elements(y)[i])]])
        <4> HIDE DEF y, ct
        <4> QED BY <3>1, Flags DEF Wire2, WireOf, UnlessNull
      <3> QED BY <2>5, <2>6, <3>1, <3>2
    <2>8. ASSUME NEW i \in DOMAIN elems
          PROVE  Wire1(Copy1(s), AsObject(s, elems[i])) = Meant1(t.elem, elems[i], u)
      BY <2>1, <2>2, Sent1 DEF s
    <2>9. Meant2(t, x, u) =
             Some([dims |-> v.dims,
                   elems |-> [i \in DOMAIN elems |-> Meant1(t.elem, elems[i], u)]])
      BY <1>4, <2>2 DEF Meant2, MeantOf, UnlessNull
    <2>10. Wire2(Copy2(info), AsObject(info, x)) = Meant2(t, x, u)
      BY <2>7, <2>8, <2>9
    <2> QED BY <2>10 DEF info
  <1>5. CASE x # Null /\ t.kind = "row" /\ u = FALSE
    <2> DEFINE kept == KeptOf(t.cols)
               s(j) == Info1(t.cols[kept[j]].type, FALSE, TRUE)
    <2>1. IsRowType(t) /\ Fits(t, a, FALSE)
      BY <1>1, <1>5 DEF Fits
    <2>2. \A i \in DOMAIN t.cols : ~t.cols[i].dropped =>
             /\ Fits(t.cols[i].type, FALSE, TRUE)
             /\ Info1(t.cols[i].type, FALSE, TRUE).type \in InfoTypes \ {"UDT"}
      BY <1>5, <2>1, ColumnFits, InfosOK DEF InfoOK
    <2>3. x.isnull = FALSE /\ \A i \in DOMAIN t.cols :
             ~t.cols[i].dropped => Datum1(t.cols[i].type, v[i])
      BY <1>1, <1>5, Flagged DEF Datum2, DatumOf
    <2>13. info = Info2(t, a, FALSE)
      BY <1>5
    <2>4. info.sub = [i \in DOMAIN t.cols |->
                         IF t.cols[i].dropped THEN DroppedInfo
                         ELSE Info1(t.cols[i].type, FALSE, TRUE)]
      <3> HIDE DEF info
      <3> QED BY <1>5, <2>13, RowFields
    <2>14. info.type = "UDT"
      <3> HIDE DEF info
      <3> QED BY <1>5, <2>13, RowFields
    <2> HIDE DEF info
    <2>5. KeptColumns(info.sub) = kept
      <3>1. \A i \in DOMAIN t.cols : info.sub[i].type = "DROPPED" <=> t.cols[i].dropped
        <4>1. ASSUME NEW i \in DOMAIN t.cols
              PROVE  info.sub[i].type = "DROPPED" <=> t.cols[i].dropped
          <5>1. t.cols[i].dropped => info.sub[i].type = "DROPPED"
            <6>1. SUFFICES ASSUME t.cols[i].dropped PROVE info.sub[i].type = "DROPPED"
              OBVIOUS
            <6>2. info.sub[i] = DroppedInfo
              BY <2>4, <6>1
            <6> QED BY <6>2 DEF DroppedInfo
          <5>2. ~t.cols[i].dropped => info.sub[i].type # "DROPPED"
            BY <2>2, <2>4 DEF InfoTypes
          <5> QED BY <2>1, <5>1, <5>2 DEF IsRowType
        <4> QED BY <4>1
      <3>2. DOMAIN info.sub = DOMAIN t.cols
        BY <2>4
      <3> QED BY <2>1, <3>1, <3>2, KeptOfInfos
    <2>6. \A j \in DOMAIN kept :
             kept[j] \in DOMAIN t.cols /\ ~t.cols[kept[j]].dropped /\ info.sub[kept[j]] = s(j)
      BY <2>1, <2>4, KeptOK
    <2>7. AsValue(info, v) = [j \in DOMAIN kept |-> AsObject(info.sub[kept[j]], v[kept[j]])]
      <3>1. \A i \in DOMAIN t.cols : ~t.cols[i].dropped => info.sub[i].type # "UDT"
        BY <2>2, <2>4
      <3> QED BY <2>1, <2>5, <2>14, <3>1, ColumnsGiven
    <2> HIDE DEF kept
    <2>8. /\ Copy2(info).type = "UDT"
          /\ Copy2(info).sub = [j \in DOMAIN kept |-> Copy1(info.sub[kept[j]])]
      BY <2>5, <2>14 DEF Copy2, CopyOf
    <2>9. Wire2(Copy2(info), AsObject(info, x)) =
             Some([j \in DOMAIN kept |->
                     Wire1(Copy1(info.sub[kept[j]]), AsObject(info.sub[kept[j]], v[kept[j]]))])
      <3> DEFINE y == AsValue(info, v)
                 ct == Copy2(info)
      <3>1. AsObject(info, x) = Some(y)
        BY <2>3 DEF AsObject, UnlessNull
      <3>2. Wire2(ct, Some(y)) = Some([j \in DOMAIN ct.sub |-> Wire1(ct.sub[j], y[j])])
        <4>1. ct.type = "UDT"
          BY <2>8
        <4> HIDE DEF y, ct
        <4> QED BY <4>1, Flags DEF Wire2, WireOf, UnlessNull
      <3> QED BY <2>7, <2>8, <3>1, <3>2
    <2>10. ASSUME NEW j \in DOMAIN kept
           PROVE  Wire1(Copy1(info.sub[kept[j]]), AsObject(info.sub[kept[j]], v[kept[j]]))
                    = Meant1(t.cols[kept[j]].type, v[kept[j]], TRUE)
      <3>1. Fits(t.cols[kept[j]].type, FALSE, TRUE) /\ Datum1(t.cols[kept[j]].type, v[kept[j]])
        BY <2>2, <2>3, <2>6
      <3>2. Wire1(Copy1(s(j)), AsObject(s(j), v[kept[j]])) = Meant1(t.cols[kept[j]].type, v[kept[j]], TRUE)
        BY <3>1, Sent1
      <3> HIDE DEF s
      <3> QED BY <2>6, <3>2
    <2>11. Meant2(t, x, u) =
             Some([j \in DOMAIN kept |-> Meant1(t.cols[kept[j]].type, v[kept[j]], TRUE)])
      BY <1>5, <2>3 DEF Meant2, MeantOf, UnlessNull, KeptOf, kept
    <2>12. Wire2(Copy2(info), AsObject(info, x)) = Meant2(t, x, u)
      BY <2>9, <2>10, <2>11
    <2> QED BY <2>12 DEF info
  <1> QED BY <1>2, <1>3, <1>4, <1>5

LEMMA SentAll ==
    ASSUME NEW t, IsType(t),
           NEW x, IsDatum(t, x)
    PROVE  LET info == TypeInfo(t) IN
           OnWire(CopyType(info), AsObject(info, x)) = Meant(t, x)
  <1> DEFINE info == TypeInfo(t)
             v == x.value
  <1>1. MayBeNull(x) /\ Fits(t, FALSE, FALSE)
    BY DEF IsDatum, DatumOf, Fits, IsType
  <1>2. CASE x = Null
    <2>1. x.isnull
      BY <1>2, Flags
    <2>2. AsObject(info, x) = Null
      BY <2>1 DEF AsObject, UnlessNull
    <2>3. Meant(t, x) = Null
      BY <2>1 DEF Meant, MeantOf, UnlessNull
    <2> QED BY <2>2, <2>3, Flags DEF OnWire, WireOf, UnlessNull
  <1>3. CASE t.kind # "array" /\ (t.kind = "row" => FALSE)
    <2>1. info = ScalarInfo(t, FALSE, FALSE)
      BY <1>3, OtherInfos
    <2>2. info.sub = <<>> /\ info.type \notin {"ARRAY", "UDT"}
      <3> HIDE DEF info
      <3> QED BY <2>1, ScalarInfos
    <2>3. CopyType(info) = [type |-> info.type, sub |-> <<>>]
      BY <2>2, CopyOfScalar
    <2>4. MayBeNull(AsObject(info, x)) /\ AsObject(info, x) = Meant(t, x)
      <3> HIDE DEF info
      <3> QED BY <1>1, <1>3, <2>1, MeantOfScalar
    <2>5. OnWire(CopyType(info), AsObject(info, x)) = Meant(t, x)
      <3> HIDE DEF info
      <3>1. CopyType(info).type \notin {"ARRAY", "UDT"}
        BY <2>2, <2>3
      <3> QED BY <2>4, <3>1, WireOfScalar
    <2> QED BY <2>5
  <1>4. CASE x # Null /\ t.kind = "array"
    <2> DEFINE s == Info2(t.elem, TRUE, FALSE)
               elems == v.elems
    <2>1. FALSE = FALSE /\ Fits(t.elem, TRUE, FALSE)
      BY <1>1, <1>4, ElementFits DEF Fits
    <2>2. x.isnull = FALSE /\ IsArray(v) /\ \A i \in DOMAIN elems : Datum2(t.elem, elems[i])
      BY <1>1, <1>4, Flagged DEF IsDatum, DatumOf, IsArray
    <2>3. info.type = "ARRAY" /\ info.sub = <<s>> /\ s.type # "DROPPED"
      <3>1. info = [type |-> "ARRAY", ptr |-> FALSE, sub |-> <<s>>]
        BY <1>4, <2>1, ArrayInfos
      <3>2. s.type \in InfoTypes
        BY <2>1, InfosOK DEF Fits, InfoOK
      <3> HIDE DEF info, s
      <3> QED BY <3>1, <3>2 DEF InfoTypes
    <2> HIDE DEF info, s
    <2>4. CopyType(info) = [type |-> "ARRAY", sub |-> <<Copy2(s)>>]
      BY <2>3, CopyOfArray
    <2>5. Elements(AsValue(info, v)) = [i \in DOMAIN elems |-> AsObject(s, elems[i])]
      BY <2>2, <2>3, ElementsGiven
    <2>6. AsObject(info, x) = Some(AsValue(info, v)) /\ AsValue(info, v).dims = v.dims
      BY <2>2, <2>3 DEF AsObject, UnlessNull, AsValue, AsField, Iterator
    <2>7. OnWire(CopyType(info), AsObject(info, x)) =
             Some([dims |-> v.dims,
                   elems |-> [i \in DOMAIN elems |-> Wire2(Copy2(s), AsObject(s, elems[i]))]])
      <3> DEFINE y == AsValue(info, v)
                 ct == CopyType(info)
      <3>1. ct.type = "ARRAY" /\ ct.sub[1] = Copy2(s)
        BY <2>4
      <3>2. OnWire(ct, Some(y)) =
               Some([dims |-> y.dims,
                     elems |-> [i \in DOMAIN Elements(y) |-> Wire2(ct.sub[1], Elements(y)[i])]])
        <4> HIDE DEF y, ct
        <4> QED BY <3>1, Flags DEF OnWire, WireOf, UnlessNull
      <3> QED BY <2>5, <2>6, <3>1, <3>2
    <2>8. ASSUME NEW i \in DOMAIN elems
          PROVE  Wire2(Copy2(s), AsObject(s, elems[i])) = Meant2(t.elem, elems[i], FALSE)
      BY <2>1, <2>2, Sent2 DEF s
    <2>9. Meant(t, x) =
             Some([dims |-> v.dims,
                   elems |-> [i \in DOMAIN elems |-> Meant2(t.elem, elems[i], FALSE)]])
      BY <1>4, <2>2 DEF Meant, MeantOf, UnlessNull
    <2>10. OnWire(CopyType(info), AsObject(info, x)) = Meant(t, x)
      BY <2>7, <2>8, <2>9
    <2> QED BY <2>10 DEF info
  <1>5. CASE x # Null /\ t.kind = "row" /\ FALSE = FALSE
    <2> DEFINE kept == KeptOf(t.cols)
               s(j) == Info2(t.cols[kept[j]].type, FALSE, TRUE)
    <2>1. IsRowType(t) /\ Fits(t, FALSE, FALSE)
      BY <1>1, <1>5 DEF Fits
    <2>2. \A i \in DOMAIN t.cols : ~t.cols[i].dropped =>
             /\ Fits(t.cols[i].type, FALSE, TRUE)
             /\ Info2(t.cols[i].type, FALSE, TRUE).type \in InfoTypes \ {"UDT"}
      BY <1>5, <2>1, ColumnFits, InfosOK DEF InfoOK
    <2>3. x.isnull = FALSE /\ \A i \in DOMAIN t.cols :
             ~t.cols[i].dropped => Datum2(t.cols[i].type, v[i])
      BY <1>1, <1>5, Flagged DEF IsDatum, DatumOf
    <2>13. info = TypeInfo(t)
      BY <1>5
    <2>4. info.sub = [i \in DOMAIN t.cols |->
                         IF t.cols[i].dropped THEN DroppedInfo
                         ELSE Info2(t.cols[i].type, FALSE, TRUE)]
      <3> HIDE DEF info
      <3> QED BY <1>5, <2>13, RowFields
    <2>14. info.type = "UDT"
      <3> HIDE DEF info
      <3> QED BY <1>5, <2>13, RowFields
    <2> HIDE DEF info
    <2>5. KeptColumns(info.sub) = kept
      <3>1. \A i \in DOMAIN t.cols : info.sub[i].type = "DROPPED" <=> t.cols[i].dropped
        <4>1. ASSUME NEW i \in DOMAIN t.cols
              PROVE  info.sub[i].type = "DROPPED" <=> t.cols[i].dropped
          <5>1. t.cols[i].dropped => info.sub[i].type = "DROPPED"
            <6>1. SUFFICES ASSUME t.cols[i].dropped PROVE info.sub[i].type = "DROPPED"
              OBVIOUS
            <6>2. info.sub[i] = DroppedInfo
              BY <2>4, <6>1
            <6> QED BY <6>2 DEF DroppedInfo
          <5>2. ~t.cols[i].dropped => info.sub[i].type # "DROPPED"
            BY <2>2, <2>4 DEF InfoTypes
          <5> QED BY <2>1, <5>1, <5>2 DEF IsRowType
        <4> QED BY <4>1
      <3>2. DOMAIN info.sub = DOMAIN t.cols
        BY <2>4
      <3> QED BY <2>1, <3>1, <3>2, KeptOfInfos
    <2>6. \A j \in DOMAIN kept :
             kept[j] \in DOMAIN t.cols /\ ~t.cols[kept[j]].dropped /\ info.sub[kept[j]] = s(j)
      BY <2>1, <2>4, KeptOK
    <2>7. AsValue(info, v) = [j \in DOMAIN kept |-> AsObject(info.sub[kept[j]], v[kept[j]])]
      <3>1. \A i \in DOMAIN t.cols : ~t.cols[i].dropped => info.sub[i].type # "UDT"
        BY <2>2, <2>4
      <3> QED BY <2>1, <2>5, <2>14, <3>1, ColumnsGiven
    <2> HIDE DEF kept
    <2>8. /\ CopyType(info).type = "UDT"
          /\ CopyType(info).sub = [j \in DOMAIN kept |-> Copy2(info.sub[kept[j]])]
      BY <2>5, <2>14 DEF CopyType, CopyOf
    <2>9. OnWire(CopyType(info), AsObject(info, x)) =
             Some([j \in DOMAIN kept |->
                     Wire2(Copy2(info.sub[kept[j]]), AsObject(info.sub[kept[j]], v[kept[j]]))])
      <3> DEFINE y == AsValue(info, v)
                 ct == CopyType(info)
      <3>1. AsObject(info, x) = Some(y)
        BY <2>3 DEF AsObject, UnlessNull
      <3>2. OnWire(ct, Some(y)) = Some([j \in DOMAIN ct.sub |-> Wire2(ct.sub[j], y[j])])
        <4>1. ct.type = "UDT"
          BY <2>8
        <4> HIDE DEF y, ct
        <4> QED BY <4>1, Flags DEF OnWire, WireOf, UnlessNull
      <3> QED BY <2>7, <2>8, <3>1, <3>2
    <2>10. ASSUME NEW j \in DOMAIN kept
           PROVE  Wire2(Copy2(info.sub[kept[j]]), AsObject(info.sub[kept[j]], v[kept[j]]))
                    = Meant2(t.cols[kept[j]].type, v[kept[j]], TRUE)
      <3>1. Fits(t.cols[kept[j]].type, FALSE, TRUE) /\ Datum2(t.cols[kept[j]].type, v[kept[j]])
        BY <2>2, <2>3, <2>6
      <3>2. Wire2(Copy2(s(j)), AsObject(s(j), v[kept[j]])) = Meant2(t.cols[kept[j]].type, v[kept[j]], TRUE)
        BY <3>1, Sent2
      <3> HIDE DEF s
      <3> QED BY <2>6, <3>2
    <2>11. Meant(t, x) =
             Some([j \in DOMAIN kept |-> Meant2(t.cols[kept[j]].type, v[kept[j]], TRUE)])
      BY <1>5, <2>3 DEF Meant, MeantOf, UnlessNull, KeptOf, kept
    <2>12. OnWire(CopyType(info), AsObject(info, x)) = Meant(t, x)
      BY <2>9, <2>10, <2>11
    <2> QED BY <2>12 DEF info
  <1> QED BY <1>2, <1>3, <1>4, <1>5

-----------------------------------------------------------------------------
(* What is returned.                                                       *)

\* What infunc is given for a value: in an array, of some types, a pointer to it.
SlotOf(info, v) == IF info.ptr THEN [pointer |-> v] ELSE v

LEMMA SlotRead ==
    ASSUME NEW info, info.ptr \in BOOLEAN, NEW v
    PROVE  /\ (IF info.ptr THEN SlotOf(info, v).pointer ELSE SlotOf(info, v)) = v
           /\ info.type = "TEXT" => FromScalar(info, SlotOf(info, v)) = Input(v)
           /\ info.type \in {"fixed", "numeric", "BYTEA"} =>
                 FromScalar(info, SlotOf(info, v)) = v
  <1>1. (IF info.ptr THEN SlotOf(info, v).pointer ELSE SlotOf(info, v)) = v
    BY DEF SlotOf
  <1> QED BY <1>1 DEF FromScalar

Slotted(info, r) == UnlessNull(LAMBDA v : SlotOf(info, v), r)

LEMMA MeantNull ==
    ASSUME NEW t, NEW x, MayBeNull(x), NEW u \in BOOLEAN
    PROVE  /\ Meant0(t, x, u).isnull = x.isnull
           /\ Meant1(t, x, u).isnull = x.isnull
           /\ Meant2(t, x, u).isnull = x.isnull
  <1>1. CASE x.isnull = TRUE
    BY <1>1, Flags DEF Meant0, Meant1, Meant2, MeantOf, UnlessNull
  <1>2. CASE x.isnull = FALSE
    <2>1. \A y : Some(y).isnull = FALSE
      BY Flags
    <2> QED BY <1>2, <2>1 DEF Meant0, Meant1, Meant2, MeantOf, UnlessNull
  <1> QED BY <1>1, <1>2, Flagged

\* r, of the type that info describes and ct names, is the i-th element of arr.
IsEntry(info, ct, r, arr, i) ==
    /\ info.type \in Pointed => info.ptr = TRUE
    /\ info.type \notin Pointed => info.ptr = FALSE
    /\ ct.type = info.type
    /\ MayBeNull(r)
    /\ arr.nulls[i] = r.isnull
    /\ arr.data[i] = Entry(ct, r)

\* An element of a received array is given to infunc from where it was put.
LEMMA ElementReturned ==
    ASSUME NEW info, NEW ct, NEW r, NEW arr, NEW i, IsEntry(info, ct, r, arr, i)
    PROVE  ElementAt(arr, i) = Slotted(info, r)
  <1>1. CASE r.isnull = TRUE
    BY <1>1 DEF IsEntry, ElementAt, Slotted, UnlessNull
  <1>2. CASE r.isnull = FALSE
    <2>1. Entry(ct, r) = SlotOf(info, r.value)
      <3>1. CASE info.type \in Pointed
        BY <1>2, <3>1 DEF IsEntry, Entry, SlotOf
      <3>2. CASE info.type \notin Pointed
        BY <1>2, <3>2 DEF IsEntry, Entry, SlotOf
      <3> QED BY <3>1, <3>2
    <2> QED BY <1>2, <2>1 DEF IsEntry, ElementAt, Slotted, UnlessNull
  <1> QED BY <1>1, <1>2, Flagged DEF IsEntry

\* A scalar is received as it was sent, and is the value that was meant.
LEMMA ReceivedScalar ==
    ASSUME NEW ct, ct.type \notin {"ARRAY", "UDT"}, NEW w, MayBeNull(w)
    PROVE  Received1(ct, w) = w /\ Received2(ct, w) = w /\ Received(ct, w) = w
  BY Flagged DEF Received1, Received2, Received, ReceivedOf, UnlessNull

\* A value with its null flag, returned.
Returns(From(_, _), info, r) == UnlessNull(LAMBDA v : From(info, SlotOf(info, v)), r)

LEMMA ScalarReturned ==
    ASSUME NEW t, t.kind # "array", NEW u \in BOOLEAN, t.kind = "row" => u,
           NEW a \in BOOLEAN, NEW x, MayBeNull(x)
    PROVE  LET info == ScalarInfo(t, a, u)
               w == Meant0(t, x, u) IN
           /\ MayBeNull(w) /\ w.isnull = x.isnull
           /\ w = Meant1(t, x, u) /\ w = Meant2(t, x, u) /\ (~u => w = Meant(t, x))
           /\ Returns(FromScalar, info, w) = Rounded0(t, x, u)
           /\ Returns(From1, info, w) = Rounded1(t, x, u)
           /\ Returns(From2, info, w) = Rounded2(t, x, u)
           /\ ~u => Returns(FromValue, info, w) = Rounded(t, x)
  <1> DEFINE info == ScalarInfo(t, a, u)
             w == Meant0(t, x, u)
  <1>1. CASE x.isnull = TRUE
    <2>1. w = Null
      BY <1>1 DEF Meant0, MeantOf, UnlessNull
    <2>2. w.isnull = TRUE /\ MayBeNull(w)
      BY <2>1, Flags DEF MayBeNull
    <2>3. /\ w = Meant1(t, x, u) /\ w = Meant2(t, x, u) /\ (~u => w = Meant(t, x))
      BY <1>1, <2>1 DEF Meant1, Meant2, Meant, MeantOf, UnlessNull
    <2>4. /\ Rounded0(t, x, u) = Null /\ Rounded1(t, x, u) = Null
          /\ Rounded2(t, x, u) = Null /\ Rounded(t, x) = Null
      BY <1>1 DEF Rounded0, Rounded1, Rounded2, Rounded, RoundedOf, UnlessNull
    <2> HIDE DEF w, info
    <2>5. /\ Returns(FromScalar, info, w) = Null /\ Returns(From1, info, w) = Null
          /\ Returns(From2, info, w) = Null /\ Returns(FromValue, info, w) = Null
      BY <2>2 DEF Returns, UnlessNull
    <2> QED BY <1>1, <2>2, <2>3, <2>4, <2>5 DEF w, info
  <1>2. CASE x.isnull = FALSE
    <2> DEFINE v == x.value
               m == CASE t.kind = "numeric" -> Float8(v)
                      [] t.kind \in {"fixed", "bytea"} -> v
                      [] OTHER -> Output(v)
               q == IF t.kind = "numeric" THEN Float8(v) ELSE v
    <2>1. w = Some(m)
      BY <1>2 DEF Meant0, MeantOf, UnlessNull
    <2>2. w = Meant1(t, x, u) /\ w = Meant2(t, x, u) /\ (~u => w = Meant(t, x))
      BY <1>2, <2>1 DEF Meant1, Meant2, Meant, MeantOf, UnlessNull
    <2>3. /\ Rounded0(t, x, u) = Some(q) /\ Rounded1(t, x, u) = Some(q)
          /\ Rounded2(t, x, u) = Some(q) /\ (~u => Rounded(t, x) = Some(q))
      BY <1>2 DEF Rounded0, Rounded1, Rounded2, Rounded, RoundedOf, UnlessNull
    <2>4. info.type \notin {"UDT", "ARRAY"} /\ info.ptr \in BOOLEAN
      BY ScalarInfos
    <2>5. FromScalar(info, SlotOf(info, m)) = q
      <3>1. CASE t.kind = "numeric"
        <4>1. info.type = "numeric" /\ m = Float8(v) /\ q = Float8(v)
          BY <3>1, ScalarInfos
        <4> HIDE DEF info, m, q
        <4> QED BY <2>4, <4>1, SlotRead
      <3>2. CASE t.kind \in {"fixed", "bytea"}
        <4>1. info.type \in {"fixed", "BYTEA"} /\ m = v /\ q = v
          BY <3>2, ScalarInfos
        <4> HIDE DEF info, m, q
        <4> QED BY <2>4, <4>1, SlotRead
      <3>3. CASE t.kind \notin {"numeric", "fixed", "bytea"}
        <4>1. info.type = "TEXT" /\ m = Output(v) /\ q = v
          BY <3>3, ScalarInfos
        <4> HIDE DEF info, m, q
        <4>2. FromScalar(info, SlotOf(info, m)) = Input(m)
          BY <2>4, <4>1, SlotRead
        <4> QED BY <4>1, <4>2 DEF Input, Output
      <3> QED BY <3>1, <3>2, <3>3
    <2> HIDE DEF info, m, q
    <2>6. \A y : /\ From1(info, y) = FromScalar(info, y)
                 /\ From2(info, y) = FromScalar(info, y)
                 /\ FromValue(info, y) = FromScalar(info, y)
      BY <2>4 DEF From1, From2, FromValue, FromOf
    <2>7. w.isnull = FALSE /\ w.value = m /\ MayBeNull(w)
      BY <2>1, Flags DEF MayBeNull
    <2> HIDE DEF w
    <2>8. /\ Returns(FromScalar, info, w) = Some(q) /\ Returns(From1, info, w) = Some(q)
          /\ Returns(From2, info, w) = Some(q) /\ Returns(FromValue, info, w) = Some(q)
      BY <2>5, <2>6, <2>7 DEF Returns, UnlessNull
    <2> QED BY <1>2, <2>2, <2>3, <2>7, <2>8 DEF w, info
  <1> QED BY <1>1, <1>2, Flagged

\* No column is dropped: all are kept, in their places.
LEMMA AllKept ==
    ASSUME NEW t, IsRowType(t), \A i \in DOMAIN t.cols : ~t.cols[i].dropped
    PROVE  /\ DOMAIN KeptOf(t.cols) = DOMAIN t.cols
           /\ \A j \in DOMAIN t.cols : KeptOf(t.cols)[j] = j
  <1> DEFINE n == Len(t.cols)
             T == {i \in DOMAIN t.cols : ~t.cols[i].dropped}
             all == [i \in DOMAIN t.cols |-> i]
  <1>1. DOMAIN t.cols = 1..n /\ n \in Nat
    BY SequenceOK DEF IsRowType
  <1>2. all \in Seq(Nat) /\ Len(all) = n /\ \A i \in 1..n : all[i] = i /\ i \in T
    <2>1. \A i \in 1..n : i \in Nat
      BY <1>1
    <2> HIDE DEF n
    <2>2. [i \in 1..n |-> i] \in Seq(Nat) /\ Len([i \in 1..n |-> i]) = n
      BY <1>1, <2>1
    <2> QED BY <1>1, <2>2
  <1>3. KeptOf(t.cols) = Selected(all, T)
    BY DEF KeptOf
  <1> HIDE DEF all, T, n
  <1>4. /\ Len(Selected(all, T)) = n
        /\ \A j \in 1..n : Selected(all, T)[j] = all[j]
    <2>1. n + 1 \in 1..(Len(all) + 1) /\ \A i \in 1..Len(all) : all[i] \in T <=> i # n + 1
      BY <1>1, <1>2
    <2>2. /\ Len(Selected(all, T)) = IF n + 1 <= Len(all) THEN Len(all) - 1 ELSE Len(all)
          /\ \A j \in 1..Len(Selected(all, T)) :
                Selected(all, T)[j] = IF j < n + 1 THEN all[j] ELSE all[j + 1]
      BY <1>2, <2>1, SelectedBut
    <2> QED BY <1>1, <1>2, <2>2
  <1>5. DOMAIN Selected(all, T) = 1..Len(Selected(all, T))
    BY <1>2, SelectedType
  <1> QED BY <1>1, <1>2, <1>3, <1>4, <1>5

\* plc_datum_from_udt takes for each column its own description and value.
LEMMA NumbersKept ==
    ASSUME NEW sub, NEW n \in Nat, DOMAIN sub = 1..n,
           \A i \in 1..n : sub[i].type # "DROPPED", NEW i \in 1..n
    PROVE  Cardinality({k \in 1..i : sub[k].type # "DROPPED"}) = i
  <1>1. {k \in 1..i : sub[k].type # "DROPPED"} = 1..i
    OBVIOUS
  <1>2. Cardinality(1..i) = i
    BY FS_Interval
  <1> QED BY <1>1, <1>2

\* What is returned for a Datum, at each depth: it itself, but for precision.
LEMMA Returned0 ==
    ASSUME NEW t, t.kind # "array", NEW x, Datum0(t, x)
    PROVE  LET info == ScalarInfo(t, TRUE, TRUE)
               r == Received0(Copy0(info), Meant0(t, x, TRUE)) IN
           /\ MayBeNull(r) /\ r.isnull = x.isnull
           /\ Returns(FromScalar, info, r) = Rounded0(t, x, TRUE)
  BY ScalarReturned DEF Received0, Datum0

LEMMA Returned1 ==
    ASSUME NEW t, NEW a \in BOOLEAN, Fits(t, a, TRUE),
           NEW x, Datum1(t, x)
    PROVE  LET info == Info1(t, a, TRUE)
               r == Received1(Copy1(info), Meant1(t, x, TRUE)) IN
           /\ MayBeNull(r) /\ r.isnull = x.isnull
           /\ Returns(From1, info, r) = Rounded1(t, x, TRUE)
  <1> DEFINE info == Info1(t, a, TRUE)
             v == x.value
             r == Received1(Copy1(info), Meant1(t, x, TRUE))
             OK == /\ MayBeNull(r) /\ r.isnull = x.isnull
                   /\ Returns(From1, info, r) = Rounded1(t, x, TRUE)
  <1>1. MayBeNull(x) /\ Fits(t, a, TRUE)
    BY DEF Datum1, DatumOf
  <1>2. CASE x.isnull = TRUE
    <2>1. Meant1(t, x, TRUE) = Null /\ Rounded1(t, x, TRUE) = Null
      BY <1>2 DEF Meant1, MeantOf, Rounded1, RoundedOf, UnlessNull
    <2>2. r = Null
      BY <2>1, Flags DEF Received1, ReceivedOf, UnlessNull
    <2> HIDE DEF info, r
    <2>3. Returns(From1, info, r) = Null
      BY <2>2, Flags DEF Returns, UnlessNull
    <2>4. OK
      BY <1>2, <2>1, <2>2, <2>3, Flags DEF MayBeNull
    <2> QED BY <2>4 DEF r, info
  <1>3. CASE t.kind # "array"
    <2>1. info = ScalarInfo(t, a, TRUE)
      BY <1>3, OtherInfos
    <2>2. info.sub = <<>> /\ info.type \notin {"ARRAY", "UDT"}
      <3> HIDE DEF info
      <3> QED BY <2>1, ScalarInfos
    <2> DEFINE s == ScalarInfo(t, a, TRUE)
               w == Meant0(t, x, TRUE)
    <2>3. /\ MayBeNull(w) /\ w.isnull = x.isnull /\ w = Meant1(t, x, TRUE)
          /\ Returns(From1, s, w) = Rounded1(t, x, TRUE)
      <3> HIDE DEF s, w
      <3> DEFINE u == TRUE
      <3>1. u \in BOOLEAN /\ (t.kind = "row" => u) /\ MayBeNull(x)
            /\ s = ScalarInfo(t, a, u) /\ w = Meant0(t, x, u)
        BY <1>1 DEF s, w
      <3> HIDE DEF u
      <3>2. /\ MayBeNull(w) /\ w.isnull = x.isnull
            /\ w = Meant1(t, x, u) /\ w = Meant2(t, x, u) /\ (~u => w = Meant(t, x))
            /\ Returns(FromScalar, s, w) = Rounded0(t, x, u)
            /\ Returns(From1, s, w) = Rounded1(t, x, u)
            /\ Returns(From2, s, w) = Rounded2(t, x, u)
            /\ ~u => Returns(FromValue, s, w) = Rounded(t, x)
        BY <1>3, <3>1, ScalarReturned
      <3> QED BY <3>2 DEF u
    <2>4. r = w
      <3> HIDE DEF info, w
      <3>1. Copy1(info).type \notin {"ARRAY", "UDT"}
        BY <2>2, CopyOfScalar
      <3> QED BY <2>3, <3>1, ReceivedScalar
    <2> HIDE DEF info, w, r, s
    <2>5. OK
      BY <2>1, <2>3, <2>4 DEF s
    <2> QED BY <2>5 DEF r, info
  <1>4. CASE x.isnull = FALSE /\ t.kind = "array"
    <2> DEFINE s == ScalarInfo(t.elem, TRUE, TRUE)
               elems == v.elems
               w(i) == Meant0(t.elem, elems[i], TRUE)
               rr(i) == Received0(Copy0(s), w(i))
               q(i) == Rounded0(t.elem, elems[i], TRUE)
               arr == [dims |-> v.dims,
                       nulls |-> [i \in DOMAIN elems |-> w(i).isnull],
                       data |-> [i \in DOMAIN elems |-> Entry(Copy0(s), rr(i))]]
    <2>1. a = FALSE /\ Fits(t.elem, TRUE, TRUE) /\ t.elem.kind # "array"
      BY <1>1, <1>4, ElementFits DEF Fits
    <2>2. IsArray(v) /\ \A i \in DOMAIN elems : Datum0(t.elem, elems[i])
      BY <1>1, <1>4 DEF Datum1, DatumOf, IsArray
    <2>3. InfoOK(s, TRUE, TRUE)
      BY <2>1, InfosOK DEF Fits
    <2>4. info.type = "ARRAY" /\ info.ptr = FALSE /\ info.sub = <<s>> /\ s.type # "DROPPED"
      <3>1. info = [type |-> "ARRAY", ptr |-> FALSE, sub |-> <<s>>]
        BY <1>4, <2>1, ArrayInfos
      <3> HIDE DEF info, s
      <3> QED BY <2>3, <3>1 DEF InfoOK, InfoTypes
    <2>5. \A i \in DOMAIN elems :
             /\ MayBeNull(rr(i)) /\ rr(i).isnull = elems[i].isnull
             /\ Returns(FromScalar, s, rr(i)) = q(i)
      <3>1. ASSUME NEW i \in DOMAIN elems
            PROVE  /\ MayBeNull(rr(i)) /\ rr(i).isnull = elems[i].isnull
                   /\ Returns(FromScalar, s, rr(i)) = q(i)
        BY <2>1, <2>2, Returned0
      <3> QED BY <3>1
    <2>6. \A i \in DOMAIN elems : w(i).isnull = elems[i].isnull
      <3>1. \A i \in DOMAIN elems : MayBeNull(elems[i])
        BY <2>2 DEF Datum0
      <3> HIDE DEF elems
      <3>2. ASSUME NEW i \in DOMAIN elems PROVE w(i).isnull = elems[i].isnull
        <4> DEFINE e == elems[i]
                   u == TRUE
        <4>1. MayBeNull(e) /\ u \in BOOLEAN
          BY <3>1
        <4> HIDE DEF e, u
        <4>2. /\ Meant0(t.elem, e, u).isnull = e.isnull
              /\ Meant1(t.elem, e, u).isnull = e.isnull
              /\ Meant2(t.elem, e, u).isnull = e.isnull
          BY <4>1, MeantNull
        <4> QED BY <4>2 DEF e, u
      <3> QED BY <3>2
    <2>7. Meant1(t, x, TRUE) = Some([dims |-> v.dims, elems |-> [i \in DOMAIN elems |-> w(i)]])
      BY <1>4 DEF Meant1, MeantOf, UnlessNull
    <2>8. Rounded1(t, x, TRUE) = Some([dims |-> v.dims, elems |-> [i \in DOMAIN elems |-> q(i)]])
      <3> DEFINE new == [i \in DOMAIN elems |-> q(i)]
      <3>1. Rounded1(t, x, TRUE) = Some([v EXCEPT !.elems = new])
        BY <1>4 DEF Rounded1, RoundedOf, UnlessNull
      <3>2. v = [dims |-> v.dims, elems |-> v.elems]
        BY <2>2 DEF IsArray
      <3> HIDE DEF new, v
      <3>3. [v EXCEPT !.elems = new] = [dims |-> v.dims, elems |-> new]
        BY <3>2
      <3> QED BY <3>1, <3>3 DEF new, v
    <2> HIDE DEF info, s, w, q, v
    <2>9. Copy1(info) = [type |-> "ARRAY", sub |-> <<Copy0(s)>>]
      BY <2>4, CopyOfArray
    <2>10. r = Some(arr)
      <3> DEFINE ct == Copy1(info)
                 y == [dims |-> v.dims, elems |-> [i \in DOMAIN elems |-> w(i)]]
      <3>1. ct.type = "ARRAY" /\ ct.sub[1] = Copy0(s)
        BY <2>9
      <3>2. y.dims = v.dims /\ DOMAIN y.elems = DOMAIN elems /\ \A i \in DOMAIN elems : y.elems[i] = w(i)
        OBVIOUS
      <3>3. r = Received1(ct, Some(y))
        BY <2>7
      <3> HIDE DEF ct, y, r
      <3>4. Received1(ct, Some(y)) =
               Some([dims |-> y.dims,
                     nulls |-> [i \in DOMAIN y.elems |-> y.elems[i].isnull],
                     data |-> [i \in DOMAIN y.elems |->
                                 Entry(ct.sub[1], Received0(ct.sub[1], y.elems[i]))]])
        BY <3>1, Flags DEF Received1, ReceivedOf, UnlessNull
      <3> QED BY <3>1, <3>2, <3>3, <3>4
    <2>11. \A i \in DOMAIN elems :
              ElementAt(arr, i) = Slotted(s, rr(i))
      <3>1. ASSUME NEW i \in DOMAIN elems
            PROVE  ElementAt(arr, i) = Slotted(s, rr(i))
        <4> DEFINE ct == Copy0(s)
        <4>1. arr.nulls[i] = w(i).isnull /\ arr.data[i] = Entry(ct, rr(i))
          OBVIOUS
        <4>2. ct.type = s.type
          BY DEF Copy0
        <4>3. MayBeNull(rr(i)) /\ rr(i).isnull = w(i).isnull
          BY <2>5, <2>6
        <4>4. /\ s.type \in Pointed => s.ptr = TRUE
              /\ s.type \notin Pointed => s.ptr = FALSE
          BY <2>3 DEF InfoOK
        <4> DEFINE e == rr(i)
        <4> HIDE DEF ct, arr, rr, e
        <4>5. IsEntry(s, ct, e, arr, i)
          BY <4>1, <4>2, <4>3, <4>4 DEF IsEntry, e
        <4>6. ElementAt(arr, i) = Slotted(s, e)
          BY <4>5, ElementReturned
        <4> QED BY <4>6 DEF e
      <3> QED BY <3>1
    <2>12. Returns(From1, info, r) = Some(FromArray(FromScalar, info, arr))
      <3> HIDE DEF arr
      <3>1. Returns(From1, info, r) = Some(From1(info, SlotOf(info, arr)))
        BY <2>10, Flags DEF Returns, UnlessNull
      <3>2. info.type = "ARRAY" /\ info.ptr \in BOOLEAN
        BY <2>4
      <3>4. (IF info.ptr THEN SlotOf(info, arr).pointer ELSE SlotOf(info, arr)) = arr
        BY <3>2, SlotRead
      <3>3. From1(info, SlotOf(info, arr)) = FromArray(FromScalar, info, arr)
        BY <3>2, <3>4 DEF From1, FromOf
      <3> QED BY <3>1, <3>3
    <2>13. FromArray(FromScalar, info, arr) = [dims |-> v.dims, elems |-> [i \in DOMAIN elems |-> q(i)]]
      <3>1. arr.dims = v.dims /\ DOMAIN arr.nulls = DOMAIN elems /\ info.sub[1] = s
        BY <2>4
      <3>2. \A i \in DOMAIN elems :
               UnlessNull(LAMBDA y : FromScalar(s, y), ElementAt(arr, i)) = q(i)
        <4> HIDE DEF arr, rr, elems
        <4>1. ASSUME NEW i \in DOMAIN elems
              PROVE  UnlessNull(LAMBDA y : FromScalar(s, y), ElementAt(arr, i)) = q(i)
          <5>1. UnlessNull(LAMBDA y : FromScalar(s, y), Slotted(s, rr(i))) = Returns(FromScalar, s, rr(i))
            BY Flags DEF Returns, Slotted, UnlessNull
          <5> QED BY <2>5, <2>11, <5>1
        <4> QED BY <4>1
      <3> HIDE DEF arr, elems
      <3>3. FromArray(FromScalar, info, arr) =
               [dims |-> arr.dims,
                elems |-> [i \in DOMAIN arr.nulls |->
                             UnlessNull(LAMBDA y : FromScalar(info.sub[1], y), ElementAt(arr, i))]]
        BY DEF FromArray
      <3>4. \A i \in DOMAIN elems :
               UnlessNull(LAMBDA y : FromScalar(info.sub[1], y), ElementAt(arr, i)) = q(i)
        BY <3>1, <3>2 DEF UnlessNull
      <3> QED BY <3>1, <3>3, <3>4
    <2> HIDE DEF arr, r
    <2>14. OK
      BY <1>4, <2>8, <2>10, <2>12, <2>13, Flags DEF MayBeNull
    <2> QED BY <2>14 DEF r, info
  <1> QED BY <1>1, <1>2, <1>3, <1>4, Flagged

LEMMA Returned2 ==
    ASSUME NEW t, NEW a \in BOOLEAN, NEW u \in BOOLEAN, a \/ u, Fits(t, a, u),
           u \/ NoneDropped(t),
           NEW x, Datum2(t, x)
    PROVE  LET info == Info2(t, a, u)
               r == Received2(Copy2(info), Meant2(t, x, u)) IN
           /\ MayBeNull(r) /\ r.isnull = x.isnull
           /\ Returns(From2, info, r) = Rounded2(t, x, u)
  <1> DEFINE info == Info2(t, a, u)
             v == x.value
             r == Received2(Copy2(info), Meant2(t, x, u))
             OK == /\ MayBeNull(r) /\ r.isnull = x.isnull
                   /\ Returns(From2, info, r) = Rounded2(t, x, u)
  <1>1. MayBeNull(x) /\ Fits(t, a, u)
    BY DEF Datum2, DatumOf
  <1>2. CASE x.isnull = TRUE
    <2>1. Meant2(t, x, u) = Null /\ Rounded2(t, x, u) = Null
      BY <1>2 DEF Meant2, MeantOf, Rounded2, RoundedOf, UnlessNull
    <2>2. r = Null
      BY <2>1, Flags DEF Received2, ReceivedOf, UnlessNull
    <2> HIDE DEF info, r
    <2>3. Returns(From2, info, r) = Null
      BY <2>2, Flags DEF Returns, UnlessNull
    <2>4. OK
      BY <1>2, <2>1, <2>2, <2>3, Flags DEF MayBeNull
    <2> QED BY <2>4 DEF r, info
  <1>3. CASE t.kind # "array" /\ (t.kind = "row" => u)
    <2>1. info = ScalarInfo(t, a, u)
      BY <1>3, OtherInfos
    <2>2. info.sub = <<>> /\ info.type \notin {"ARRAY", "UDT"}
      <3> HIDE DEF info
      <3> QED BY <2>1, ScalarInfos
    <2> DEFINE s == ScalarInfo(t, a, u)
               w == Meant0(t, x, u)
    <2>3. /\ MayBeNull(w) /\ w.isnull = x.isnull /\ w = Meant2(t, x, u)
          /\ Returns(From2, s, w) = Rounded2(t, x, u)
      BY <1>1, <1>3, ScalarReturned
    <2>4. r = w
      <3> HIDE DEF info, w
      <3>1. Copy2(info).type \notin {"ARRAY", "UDT"}
        BY <2>2, CopyOfScalar
      <3> QED BY <2>3, <3>1, ReceivedScalar
    <2> HIDE DEF info, w, r, s
    <2>5. OK
      BY <2>1, <2>3, <2>4 DEF s
    <2> QED BY <2>5 DEF r, info
  <1>4. CASE x.isnull = FALSE /\ t.kind = "array"
    <2> DEFINE s == Info1(t.elem, TRUE, u)
               elems == v.elems
               w(i) == Meant1(t.elem, elems[i], u)
               rr(i) == Received1(Copy1(s), w(i))
               q(i) == Rounded1(t.elem, elems[i], u)
               arr == [dims |-> v.dims,
                       nulls |-> [i \in DOMAIN elems |-> w(i).isnull],
                       data |-> [i \in DOMAIN elems |-> Entry(Copy1(s), rr(i))]]
    <2>1. a = FALSE /\ Fits(t.elem, TRUE, u) /\ t.elem.kind # "array"
      BY <1>1, <1>4, ElementFits DEF Fits
    <2>2. IsArray(v) /\ \A i \in DOMAIN elems : Datum1(t.elem, elems[i])
      BY <1>1, <1>4 DEF Datum2, DatumOf, IsArray
    <2>3. InfoOK(s, TRUE, u)
      BY <2>1, InfosOK DEF Fits
    <2>4. info.type = "ARRAY" /\ info.ptr = FALSE /\ info.sub = <<s>> /\ s.type # "DROPPED"
      <3>1. info = [type |-> "ARRAY", ptr |-> FALSE, sub |-> <<s>>]
        BY <1>4, <2>1, ArrayInfos
      <3> HIDE DEF info, s
      <3> QED BY <2>3, <3>1 DEF InfoOK, InfoTypes
    <2>5. \A i \in DOMAIN elems :
             /\ MayBeNull(rr(i)) /\ rr(i).isnull = elems[i].isnull
             /\ Returns(From1, s, rr(i)) = q(i)
      <3>1. ASSUME NEW i \in DOMAIN elems
            PROVE  /\ MayBeNull(rr(i)) /\ rr(i).isnull = elems[i].isnull
                   /\ Returns(From1, s, rr(i)) = q(i)
        <4>1. u \/ NoneDropped(t.elem)
          BY <1>4, <2>1 DEF NoneDropped
        <4> QED BY <2>1, <2>2, <4>1, Returned1
      <3> QED BY <3>1
    <2>6. \A i \in DOMAIN elems : w(i).isnull = elems[i].isnull
      <3>1. \A i \in DOMAIN elems : MayBeNull(elems[i])
        BY <2>2 DEF Datum1, DatumOf
      <3> HIDE DEF elems
      <3> QED BY <3>1, MeantNull
    <2>7. Meant2(t, x, u) = Some([dims |-> v.dims, elems |-> [i \in DOMAIN elems |-> w(i)]])
      BY <1>4 DEF Meant2, MeantOf, UnlessNull
    <2>8. Rounded2(t, x, u) = Some([dims |-> v.dims, elems |-> [i \in DOMAIN elems |-> q(i)]])
      <3> DEFINE new == [i \in DOMAIN elems |-> q(i)]
      <3>1. Rounded2(t, x, u) = Some([v EXCEPT !.elems = new])
        BY <1>4 DEF Rounded2, RoundedOf, UnlessNull
      <3>2. v = [dims |-> v.dims, elems |-> v.elems]
        BY <2>2 DEF IsArray
      <3> HIDE DEF new, v
      <3>3. [v EXCEPT !.elems = new] = [dims |-> v.dims, elems |-> new]
        BY <3>2
      <3> QED BY <3>1, <3>3 DEF new, v
    <2> HIDE DEF info, s, w, q, v
    <2>9. Copy2(info) = [type |-> "ARRAY", sub |-> <<Copy1(s)>>]
      BY <2>4, CopyOfArray
    <2>10. r = Some(arr)
      <3> DEFINE ct == Copy2(info)
                 y == [dims |-> v.dims, elems |-> [i \in DOMAIN elems |-> w(i)]]
      <3>1. ct.type = "ARRAY" /\ ct.sub[1] = Copy1(s)
        BY <2>9
      <3>2. y.dims = v.dims /\ DOMAIN y.elems = DOMAIN elems /\ \A i \in DOMAIN elems : y.elems[i] = w(i)
        OBVIOUS
      <3>3. r = Received2(ct, Some(y))
        BY <2>7
      <3> HIDE DEF ct, y, r
      <3>4. Received2(ct, Some(y)) =
               Some([dims |-> y.dims,
                     nulls |-> [i \in DOMAIN y.elems |-> y.elems[i].isnull],
                     data |-> [i \in DOMAIN y.elems |->
                                 Entry(ct.sub[1], Received1(ct.sub[1], y.elems[i]))]])
        BY <3>1, Flags DEF Received2, ReceivedOf, UnlessNull
      <3> QED BY <3>1, <3>2, <3>3, <3>4
    <2>11. \A i \in DOMAIN elems :
              ElementAt(arr, i) = Slotted(s, rr(i))
      <3>1. ASSUME NEW i \in DOMAIN elems
            PROVE  ElementAt(arr, i) = Slotted(s, rr(i))
        <4> DEFINE ct == Copy1(s)
        <4>1. arr.nulls[i] = w(i).isnull /\ arr.data[i] = Entry(ct, rr(i))
          OBVIOUS
        <4>2. ct.type = s.type
          BY DEF Copy1, CopyOf
        <4>3. MayBeNull(rr(i)) /\ rr(i).isnull = w(i).isnull
          BY <2>5, <2>6
        <4>4. /\ s.type \in Pointed => s.ptr = TRUE
              /\ s.type \notin Pointed => s.ptr = FALSE
          BY <2>3 DEF InfoOK
        <4> DEFINE e == rr(i)
        <4> HIDE DEF ct, arr, rr, e
        <4>5. IsEntry(s, ct, e, arr, i)
          BY <4>1, <4>2, <4>3, <4>4 DEF IsEntry, e
        <4>6. ElementAt(arr, i) = Slotted(s, e)
          BY <4>5, ElementReturned
        <4> QED BY <4>6 DEF e
      <3> QED BY <3>1
    <2>12. Returns(From2, info, r) = Some(FromArray(From1, info, arr))
      <3> HIDE DEF arr
      <3>1. Returns(From2, info, r) = Some(From2(info, SlotOf(info, arr)))
        BY <2>10, Flags DEF Returns, UnlessNull
      <3>2. info.type = "ARRAY" /\ info.ptr \in BOOLEAN
        BY <2>4
      <3>4. (IF info.ptr THEN SlotOf(info, arr).pointer ELSE SlotOf(info, arr)) = arr
        BY <3>2, SlotRead
      <3>3. From2(info, SlotOf(info, arr)) = FromArray(From1, info, arr)
        BY <3>2, <3>4 DEF From2, FromOf
      <3> QED BY <3>1, <3>3
    <2>13. FromArray(From1, info, arr) = [dims |-> v.dims, elems |-> [i \in DOMAIN elems |-> q(i)]]
      <3>1. arr.dims = v.dims /\ DOMAIN arr.nulls = DOMAIN elems /\ info.sub[1] = s
        BY <2>4
      <3>2. \A i \in DOMAIN elems :
               UnlessNull(LAMBDA y : From1(s, y), ElementAt(arr, i)) = q(i)
        <4> HIDE DEF arr, rr, elems
        <4>1. ASSUME NEW i \in DOMAIN elems
              PROVE  UnlessNull(LAMBDA y : From1(s, y), ElementAt(arr, i)) = q(i)
          <5>1. UnlessNull(LAMBDA y : From1(s, y), Slotted(s, rr(i))) = Returns(From1, s, rr(i))
            BY Flags DEF Returns, Slotted, UnlessNull
          <5> QED BY <2>5, <2>11, <5>1
        <4> QED BY <4>1
      <3> HIDE DEF arr, elems
      <3>3. FromArray(From1, info, arr) =
               [dims |-> arr.dims,
                elems |-> [i \in DOMAIN arr.nulls |->
                             UnlessNull(LAMBDA y : From1(info.sub[1], y), ElementAt(arr, i))]]
        BY DEF FromArray
      <3>4. \A i \in DOMAIN elems :
               UnlessNull(LAMBDA y : From1(info.sub[1], y), ElementAt(arr, i)) = q(i)
        BY <3>1, <3>2 DEF UnlessNull
      <3> QED BY <3>1, <3>3, <3>4
    <2> HIDE DEF arr, r
    <2>14. OK
      BY <1>4, <2>8, <2>10, <2>12, <2>13, Flags DEF MayBeNull
    <2> QED BY <2>14 DEF r, info
  <1>5. CASE x.isnull = FALSE /\ t.kind = "row" /\ u = FALSE
    <2> DEFINE n == Len(t.cols)
               s(i) == Info1(t.cols[i].type, FALSE, TRUE)
               w(i) == Meant1(t.cols[i].type, v[i], TRUE)
               rr(i) == Received1(Copy1(s(i)), w(i))
               q(i) == Rounded1(t.cols[i].type, v[i], TRUE)
    <2>1. IsRowType(t) /\ Fits(t, a, FALSE)
      BY <1>1, <1>5 DEF Fits
    <2>2. DOMAIN t.cols = 1..n /\ n \in Nat /\ \A i \in 1..n : t.cols[i].dropped = FALSE
      BY <1>5, <2>1, SequenceOK DEF IsRowType, NoneDropped
    <2>3. \A i \in 1..n : Fits(t.cols[i].type, FALSE, TRUE) /\ Datum1(t.cols[i].type, v[i])
      BY <1>1, <1>5, <2>1, <2>2, ColumnFits DEF Datum2, DatumOf
    <2>4. DOMAIN v = 1..n
      BY <1>1, <1>5, <2>2, SequenceOK DEF Datum2, DatumOf
    <2>5. \A i \in 1..n : InfoOK(s(i), FALSE, TRUE)
      BY InfosOK DEF Fits
    <2>6. \A i \in 1..n :
             /\ MayBeNull(rr(i)) /\ rr(i).isnull = v[i].isnull
             /\ Returns(From1, s(i), rr(i)) = q(i)
      <3>1. ASSUME NEW i \in 1..n
            PROVE  /\ MayBeNull(rr(i)) /\ rr(i).isnull = v[i].isnull
                   /\ Returns(From1, s(i), rr(i)) = q(i)
        BY <2>3, Returned1
      <3> QED BY <3>1
    <2>7. DOMAIN KeptOf(t.cols) = 1..n /\ \A j \in 1..n : KeptOf(t.cols)[j] = j
      BY <2>1, <2>2, AllKept
    <2>8. Meant2(t, x, u) = Some([i \in 1..n |-> w(i)])
      <3> DEFINE kept == KeptOf(t.cols)
      <3>1. Meant2(t, x, u) = Some([j \in DOMAIN kept |-> Meant1(t.cols[kept[j]].type, v[kept[j]], TRUE)])
        BY <1>5 DEF Meant2, MeantOf, UnlessNull, KeptOf
      <3> HIDE DEF kept, n, v
      <3> QED BY <2>7, <3>1 DEF kept
    <2>9. Rounded2(t, x, u) = Some([i \in 1..n |-> q(i)])
      <3>1. Rounded2(t, x, u) = Some([i \in DOMAIN v |-> q(i)])
        BY <1>5 DEF Rounded2, RoundedOf, UnlessNull
      <3> QED BY <2>4, <3>1
    <2>10. info = Info2(t, a, FALSE)
      BY <1>5
    <2>11. info.type = "UDT" /\ info.ptr \in BOOLEAN
           /\ info.sub = [i \in DOMAIN t.cols |->
                              IF t.cols[i].dropped THEN DroppedInfo ELSE s(i)]
      <3> HIDE DEF info
      <3> QED BY <1>5, <2>10, RowFields
    <2> HIDE DEF info, v, n, s, w, q
    <2>12. DOMAIN info.sub = 1..n /\ \A i \in 1..n :
              info.sub[i] = s(i) /\ info.sub[i].type # "DROPPED"
      <3>1. DOMAIN info.sub = 1..n /\ \A i \in 1..n : info.sub[i] = s(i)
        BY <2>2, <2>11
      <3>2. \A i \in 1..n : s(i).type # "DROPPED"
        BY <2>5 DEF InfoOK, InfoTypes
      <3> QED BY <3>1, <3>2
    <2>13. KeptColumns(info.sub) = KeptOf(t.cols)
      BY <2>1, <2>2, <2>12, KeptOfInfos
    <2>14. /\ Copy2(info).type = "UDT"
           /\ Copy2(info).sub = [i \in 1..n |-> Copy1(s(i))]
      <3> DEFINE kept == KeptOf(t.cols)
      <3>1. Copy2(info).type = "UDT"
            /\ Copy2(info).sub = [j \in DOMAIN kept |-> Copy1(info.sub[kept[j]])]
        BY <2>11, <2>13 DEF Copy2, CopyOf
      <3> HIDE DEF kept
      <3> QED BY <2>7, <2>12, <3>1 DEF kept
    <2>15. r = Some([i \in 1..n |-> rr(i)])
      <3> DEFINE ct == Copy2(info)
                 y == [i \in 1..n |-> w(i)]
      <3>1. r = Received2(ct, Some(y))
        BY <2>8
      <3>2. ct.type = "UDT" /\ ct.sub = [i \in 1..n |-> Copy1(s(i))]
        BY <2>14
      <3>3. \A i \in 1..n : y[i] = w(i)
        OBVIOUS
      <3> HIDE DEF ct, y, r
      <3>4. Received2(ct, Some(y)) = Some([j \in DOMAIN ct.sub |-> Received1(ct.sub[j], y[j])])
        BY <3>2, Flags DEF Received2, ReceivedOf, UnlessNull
      <3> QED BY <3>1, <3>2, <3>3, <3>4
    <2> DEFINE udt == [i \in 1..n |-> rr(i)]
    <2>16. Returns(From2, info, r) = Some(FromUdt(From1, info, udt))
      <3>1. r = Some(udt)
        BY <2>15
      <3> HIDE DEF udt, r
      <3>2. Returns(From2, info, r) = Some(From2(info, SlotOf(info, udt)))
        BY <3>1, Flags DEF Returns, UnlessNull
      <3>3. From2(info, SlotOf(info, udt)) = FromUdt(From1, info, udt)
        BY <2>11, SlotRead DEF From2, FromOf
      <3> QED BY <3>2, <3>3
    <2>17. FromUdt(From1, info, udt) = [i \in 1..n |-> q(i)]
      <3> DEFINE j(i) == Cardinality({m \in 1..i : info.sub[m].type # "DROPPED"})
      <3>1. \A i \in 1..n : j(i) = i
        <4> DEFINE sub == info.sub
        <4>1. DOMAIN sub = 1..n /\ n \in Nat /\ \A i \in 1..n : sub[i].type # "DROPPED"
          BY <2>2, <2>12
        <4> HIDE DEF sub
        <4>2. ASSUME NEW i \in 1..n
              PROVE  Cardinality({m \in 1..i : sub[m].type # "DROPPED"}) = i
          BY <4>1, NumbersKept
        <4> QED BY <4>2 DEF sub
      <3>2. FromUdt(From1, info, udt) =
               [i \in 1..n |->
                  IF info.sub[i].type = "DROPPED" THEN Garbage
                  ELSE UnlessNull(LAMBDA y : From1(info.sub[j(i)], y), udt[j(i)])]
        BY <2>12 DEF FromUdt
      <3>3. \A i \in 1..n : udt[i] = rr(i)
        OBVIOUS
      <3> HIDE DEF j, udt, rr
      <3>4. ASSUME NEW i \in 1..n
            PROVE  UnlessNull(LAMBDA y : From1(info.sub[j(i)], y), udt[j(i)]) = q(i)
        <4>1. info.sub[j(i)] = s(i) /\ udt[j(i)] = rr(i)
          BY <2>12, <3>1, <3>3
        <4>2. \A y : SlotOf(s(i), y) = y
          BY <2>5 DEF SlotOf, InfoOK
        <4>3. UnlessNull(LAMBDA y : From1(s(i), y), rr(i)) = Returns(From1, s(i), rr(i))
          BY <4>2 DEF Returns, UnlessNull
        <4> QED BY <2>6, <4>1, <4>3
      <3> QED BY <2>12, <3>2, <3>4
    <2> HIDE DEF udt, r
    <2>18. OK
      BY <1>5, <2>9, <2>15, <2>16, <2>17, Flags DEF MayBeNull
    <2> QED BY <2>18 DEF r, info
  <1> QED BY <1>1, <1>2, <1>3, <1>4, <1>5, Flagged

LEMMA ReturnedAll ==
    ASSUME NEW t, IsType(t), NoneDropped(t),
           NEW x, IsDatum(t, x)
    PROVE  LET info == TypeInfo(t)
               r == Received(CopyType(info), Meant(t, x)) IN
           /\ MayBeNull(r) /\ r.isnull = x.isnull
           /\ Returns(FromValue, info, r) = Rounded(t, x)
  <1> DEFINE info == TypeInfo(t)
             v == x.value
             r == Received(CopyType(info), Meant(t, x))
             OK == /\ MayBeNull(r) /\ r.isnull = x.isnull
                   /\ Returns(FromValue, info, r) = Rounded(t, x)
  <1>1. MayBeNull(x) /\ Fits(t, FALSE, FALSE)
    BY DEF IsDatum, DatumOf, Fits, IsType
  <1>2. CASE x.isnull = TRUE
    <2>1. Meant(t, x) = Null /\ Rounded(t, x) = Null
      BY <1>2 DEF Meant, MeantOf, Rounded, RoundedOf, UnlessNull
    <2>2. r = Null
      BY <2>1, Flags DEF Received, ReceivedOf, UnlessNull
    <2> HIDE DEF info, r
    <2>3. Returns(FromValue, info, r) = Null
      BY <2>2, Flags DEF Returns, UnlessNull
    <2>4. OK
      BY <1>2, <2>1, <2>2, <2>3, Flags DEF MayBeNull
    <2> QED BY <2>4 DEF r, info
  <1>3. CASE t.kind # "array" /\ (t.kind = "row" => FALSE)
    <2>1. info = ScalarInfo(t, FALSE, FALSE)
      BY <1>3, OtherInfos
    <2>2. info.sub = <<>> /\ info.type \notin {"ARRAY", "UDT"}
      <3> HIDE DEF info
      <3> QED BY <2>1, ScalarInfos
    <2> DEFINE s == ScalarInfo(t, FALSE, FALSE)
               w == Meant0(t, x, FALSE)
    <2>3. /\ MayBeNull(w) /\ w.isnull = x.isnull /\ w = Meant(t, x)
          /\ Returns(FromValue, s, w) = Rounded(t, x)
      <3> HIDE DEF s, w
      <3>1. FALSE \in BOOLEAN /\ (t.kind = "row" => FALSE) /\ MayBeNull(x)
        BY <1>1, <1>3
      <3>2. /\ MayBeNull(w) /\ w.isnull = x.isnull
            /\ w = Meant1(t, x, FALSE) /\ w = Meant2(t, x, FALSE) /\ (~FALSE => w = Meant(t, x))
            /\ Returns(FromScalar, s, w) = Rounded0(t, x, FALSE)
            /\ Returns(From1, s, w) = Rounded1(t, x, FALSE)
            /\ Returns(From2, s, w) = Rounded2(t, x, FALSE)
            /\ ~FALSE => Returns(FromValue, s, w) = Rounded(t, x)
        BY <1>3, <3>1, ScalarReturned DEF s, w
      <3> QED BY <3>2
    <2>4. r = w
      <3> HIDE DEF info, w
      <3>1. CopyType(info).type \notin {"ARRAY", "UDT"}
        BY <2>2, CopyOfScalar
      <3> QED BY <2>3, <3>1, ReceivedScalar
    <2> HIDE DEF info, w, r, s
    <2>5. OK
      BY <2>1, <2>3, <2>4 DEF s
    <2> QED BY <2>5 DEF r, info
  <1>4. CASE x.isnull = FALSE /\ t.kind = "array"
    <2> DEFINE s == Info2(t.elem, TRUE, FALSE)
               elems == v.elems
               w(i) == Meant2(t.elem, elems[i], FALSE)
               rr(i) == Received2(Copy2(s), w(i))
               q(i) == Rounded2(t.elem, elems[i], FALSE)
               arr == [dims |-> v.dims,
                       nulls |-> [i \in DOMAIN elems |-> w(i).isnull],
                       data |-> [i \in DOMAIN elems |-> Entry(Copy2(s), rr(i))]]
    <2>1. FALSE = FALSE /\ Fits(t.elem, TRUE, FALSE) /\ t.elem.kind # "array"
      BY <1>1, <1>4, ElementFits DEF Fits
    <2>2. IsArray(v) /\ \A i \in DOMAIN elems : Datum2(t.elem, elems[i])
      BY <1>1, <1>4 DEF IsDatum, DatumOf, IsArray
    <2>3. InfoOK(s, TRUE, FALSE)
      BY <2>1, InfosOK DEF Fits
    <2>4. info.type = "ARRAY" /\ info.ptr = FALSE /\ info.sub = <<s>> /\ s.type # "DROPPED"
      <3>1. info = [type |-> "ARRAY", ptr |-> FALSE, sub |-> <<s>>]
        BY <1>4, <2>1, ArrayInfos
      <3> HIDE DEF info, s
      <3> QED BY <2>3, <3>1 DEF InfoOK, InfoTypes
    <2>5. \A i \in DOMAIN elems :
             /\ MayBeNull(rr(i)) /\ rr(i).isnull = elems[i].isnull
             /\ Returns(From2, s, rr(i)) = q(i)
      <3>1. ASSUME NEW i \in DOMAIN elems
            PROVE  /\ MayBeNull(rr(i)) /\ rr(i).isnull = elems[i].isnull
                   /\ Returns(From2, s, rr(i)) = q(i)
        <4>1. NoneDropped(t.elem)
          BY <1>4, <2>1 DEF NoneDropped
        <4> QED BY <2>1, <2>2, <4>1, Returned2
      <3> QED BY <3>1
    <2>6. \A i \in DOMAIN elems : w(i).isnull = elems[i].isnull
      <3>1. \A i \in DOMAIN elems : MayBeNull(elems[i])
        BY <2>2 DEF Datum2, DatumOf
      <3> HIDE DEF elems
      <3>2. ASSUME NEW i \in DOMAIN elems PROVE w(i).isnull = elems[i].isnull
        <4>1. MayBeNull(elems[i]) /\ FALSE \in BOOLEAN
          BY <3>1
        <4> DEFINE e == elems[i]
        <4> HIDE DEF e
        <4>2. /\ Meant0(t.elem, e, FALSE).isnull = e.isnull
              /\ Meant1(t.elem, e, FALSE).isnull = e.isnull
              /\ Meant2(t.elem, e, FALSE).isnull = e.isnull
          BY <4>1, MeantNull DEF e
        <4> QED BY <4>2 DEF e
      <3> QED BY <3>2
    <2>7. Meant(t, x) = Some([dims |-> v.dims, elems |-> [i \in DOMAIN elems |-> w(i)]])
      BY <1>4 DEF Meant, MeantOf, UnlessNull
    <2>8. Rounded(t, x) = Some([dims |-> v.dims, elems |-> [i \in DOMAIN elems |-> q(i)]])
      <3> DEFINE new == [i \in DOMAIN elems |-> q(i)]
      <3>1. Rounded(t, x) = Some([v EXCEPT !.elems = new])
        BY <1>4 DEF Rounded, RoundedOf, UnlessNull
      <3>2. v = [dims |-> v.dims, elems |-> v.elems]
        BY <2>2 DEF IsArray
      <3> HIDE DEF new, v
      <3>3. [v EXCEPT !.elems = new] = [dims |-> v.dims, elems |-> new]
        BY <3>2
      <3> QED BY <3>1, <3>3 DEF new, v
    <2> HIDE DEF info, s, w, q, v
    <2>9. CopyType(info) = [type |-> "ARRAY", sub |-> <<Copy2(s)>>]
      BY <2>4, CopyOfArray
    <2>10. r = Some(arr)
      <3> DEFINE ct == CopyType(info)
                 y == [dims |-> v.dims, elems |-> [i \in DOMAIN elems |-> w(i)]]
      <3>1. ct.type = "ARRAY" /\ ct.sub[1] = Copy2(s)
        BY <2>9
      <3>2. y.dims = v.dims /\ DOMAIN y.elems = DOMAIN elems /\ \A i \in DOMAIN elems : y.elems[i] = w(i)
        OBVIOUS
      <3>3. r = Received(ct, Some(y))
        BY <2>7
      <3> HIDE DEF ct, y, r
      <3>4. Received(ct, Some(y)) =
               Some([dims |-> y.dims,
                     nulls |-> [i \in DOMAIN y.elems |-> y.elems[i].isnull],
                     data |-> [i \in DOMAIN y.elems |->
                                 Entry(ct.sub[1], Received2(ct.sub[1], y.elems[i]))]])
        BY <3>1, Flags DEF Received, ReceivedOf, UnlessNull
      <3> QED BY <3>1, <3>2, <3>3, <3>4
    <2>11. \A i \in DOMAIN elems :
              ElementAt(arr, i) = Slotted(s, rr(i))
      <3>1. ASSUME NEW i \in DOMAIN elems
            PROVE  ElementAt(arr, i) = Slotted(s, rr(i))
        <4> DEFINE ct == Copy2(s)
        <4>1. arr.nulls[i] = w(i).isnull /\ arr.data[i] = Entry(ct, rr(i))
          OBVIOUS
        <4>2. ct.type = s.type
          BY DEF Copy2, CopyOf
        <4>3. MayBeNull(rr(i)) /\ rr(i).isnull = w(i).isnull
          BY <2>5, <2>6
        <4>4. /\ s.type \in Pointed => s.ptr = TRUE
              /\ s.type \notin Pointed => s.ptr = FALSE
          BY <2>3 DEF InfoOK
        <4> DEFINE e == rr(i)
        <4> HIDE DEF ct, arr, rr, e
        <4>5. IsEntry(s, ct, e, arr, i)
          BY <4>1, <4>2, <4>3, <4>4 DEF IsEntry, e
        <4>6. ElementAt(arr, i) = Slotted(s, e)
          BY <4>5, ElementReturned
        <4> QED BY <4>6 DEF e
      <3> QED BY <3>1
    <2>12. Returns(FromValue, info, r) = Some(FromArray(From2, info, arr))
      <3> HIDE DEF arr
      <3>1. Returns(FromValue, info, r) = Some(FromValue(info, SlotOf(info, arr)))
        BY <2>10, Flags DEF Returns, UnlessNull
      <3>2. info.type = "ARRAY" /\ info.ptr \in BOOLEAN
        BY <2>4
      <3>4. (IF info.ptr THEN SlotOf(info, arr).pointer ELSE SlotOf(info, arr)) = arr
        BY <3>2, SlotRead
      <3>3. FromValue(info, SlotOf(info, arr)) = FromArray(From2, info, arr)
        BY <3>2, <3>4 DEF FromValue, FromOf
      <3> QED BY <3>1, <3>3
    <2>13. FromArray(From2, info, arr) = [dims |-> v.dims, elems |-> [i \in DOMAIN elems |-> q(i)]]
      <3>1. arr.dims = v.dims /\ DOMAIN arr.nulls = DOMAIN elems /\ info.sub[1] = s
        BY <2>4
      <3>2. \A i \in DOMAIN elems :
               UnlessNull(LAMBDA y : From2(s, y), ElementAt(arr, i)) = q(i)
        <4> HIDE DEF arr, rr, elems
        <4>1. ASSUME NEW i \in DOMAIN elems
              PROVE  UnlessNull(LAMBDA y : From2(s, y), ElementAt(arr, i)) = q(i)
          <5>1. UnlessNull(LAMBDA y : From2(s, y), Slotted(s, rr(i))) = Returns(From2, s, rr(i))
            BY Flags DEF Returns, Slotted, UnlessNull
          <5> QED BY <2>5, <2>11, <5>1
        <4> QED BY <4>1
      <3> HIDE DEF arr, elems
      <3>3. FromArray(From2, info, arr) =
               [dims |-> arr.dims,
                elems |-> [i \in DOMAIN arr.nulls |->
                             UnlessNull(LAMBDA y : From2(info.sub[1], y), ElementAt(arr, i))]]
        BY DEF FromArray
      <3>4. \A i \in DOMAIN elems :
               UnlessNull(LAMBDA y : From2(info.sub[1], y), ElementAt(arr, i)) = q(i)
        BY <3>1, <3>2 DEF UnlessNull
      <3> QED BY <3>1, <3>3, <3>4
    <2> HIDE DEF arr, r
    <2>14. OK
      BY <1>4, <2>8, <2>10, <2>12, <2>13, Flags DEF MayBeNull
    <2> QED BY <2>14 DEF r, info
  <1>5. CASE x.isnull = FALSE /\ t.kind = "row" /\ FALSE = FALSE
    <2> DEFINE n == Len(t.cols)
               s(i) == Info2(t.cols[i].type, FALSE, TRUE)
               w(i) == Meant2(t.cols[i].type, v[i], TRUE)
               rr(i) == Received2(Copy2(s(i)), w(i))
               q(i) == Rounded2(t.cols[i].type, v[i], TRUE)
    <2>1. IsRowType(t) /\ Fits(t, FALSE, FALSE)
      BY <1>1, <1>5 DEF Fits
    <2>2. DOMAIN t.cols = 1..n /\ n \in Nat /\ \A i \in 1..n : t.cols[i].dropped = FALSE
      BY <1>5, <2>1, SequenceOK DEF IsRowType, NoneDropped
    <2>3. \A i \in 1..n : Fits(t.cols[i].type, FALSE, TRUE) /\ Datum2(t.cols[i].type, v[i])
      BY <1>1, <1>5, <2>1, <2>2, ColumnFits DEF IsDatum, DatumOf
    <2>4. DOMAIN v = 1..n
      BY <1>1, <1>5, <2>2, SequenceOK DEF IsDatum, DatumOf
    <2>5. \A i \in 1..n : InfoOK(s(i), FALSE, TRUE)
      BY InfosOK DEF Fits
    <2>6. \A i \in 1..n :
             /\ MayBeNull(rr(i)) /\ rr(i).isnull = v[i].isnull
             /\ Returns(From2, s(i), rr(i)) = q(i)
      <3>1. ASSUME NEW i \in 1..n
            PROVE  /\ MayBeNull(rr(i)) /\ rr(i).isnull = v[i].isnull
                   /\ Returns(From2, s(i), rr(i)) = q(i)
        BY <2>3, Returned2
      <3> QED BY <3>1
    <2>7. DOMAIN KeptOf(t.cols) = 1..n /\ \A j \in 1..n : KeptOf(t.cols)[j] = j
      BY <2>1, <2>2, AllKept
    <2>8. Meant(t, x) = Some([i \in 1..n |-> w(i)])
      <3> DEFINE kept == KeptOf(t.cols)
      <3>1. Meant(t, x) = Some([j \in DOMAIN kept |-> Meant2(t.cols[kept[j]].type, v[kept[j]], TRUE)])
        BY <1>5 DEF Meant, MeantOf, UnlessNull, KeptOf
      <3> HIDE DEF kept, n, v
      <3> QED BY <2>7, <3>1 DEF kept
    <2>9. Rounded(t, x) = Some([i \in 1..n |-> q(i)])
      <3>1. Rounded(t, x) = Some([i \in DOMAIN v |-> q(i)])
        BY <1>5 DEF Rounded, RoundedOf, UnlessNull
      <3> QED BY <2>4, <3>1
    <2>10. info = TypeInfo(t)
      BY <1>5
    <2>11. info.type = "UDT" /\ info.ptr \in BOOLEAN
           /\ info.sub = [i \in DOMAIN t.cols |->
                              IF t.cols[i].dropped THEN DroppedInfo ELSE s(i)]
      <3> HIDE DEF info
      <3> QED BY <1>5, <2>10, RowFields
    <2> HIDE DEF info, v, n, s, w, q
    <2>12. DOMAIN info.sub = 1..n /\ \A i \in 1..n :
              info.sub[i] = s(i) /\ info.sub[i].type # "DROPPED"
      <3>1. DOMAIN info.sub = 1..n /\ \A i \in 1..n : info.sub[i] = s(i)
        BY <2>2, <2>11
      <3>2. \A i \in 1..n : s(i).type # "DROPPED"
        BY <2>5 DEF InfoOK, InfoTypes
      <3> QED BY <3>1, <3>2
    <2>13. KeptColumns(info.sub) = KeptOf(t.cols)
      BY <2>1, <2>2, <2>12, KeptOfInfos
    <2>14. /\ CopyType(info).type = "UDT"
           /\ CopyType(info).sub = [i \in 1..n |-> Copy2(s(i))]
      <3> DEFINE kept == KeptOf(t.cols)
      <3>1. CopyType(info).type = "UDT"
            /\ CopyType(info).sub = [j \in DOMAIN kept |-> Copy2(info.sub[kept[j]])]
        BY <2>11, <2>13 DEF CopyType, CopyOf
      <3> HIDE DEF kept
      <3> QED BY <2>7, <2>12, <3>1 DEF kept
    <2>15. r = Some([i \in 1..n |-> rr(i)])
      <3> DEFINE ct == CopyType(info)
                 y == [i \in 1..n |-> w(i)]
      <3>1. r = Received(ct, Some(y))
        BY <2>8
      <3>2. ct.type = "UDT" /\ ct.sub = [i \in 1..n |-> Copy2(s(i))]
        BY <2>14
      <3>3. \A i \in 1..n : y[i] = w(i)
        OBVIOUS
      <3> HIDE DEF ct, y, r
      <3>4. Received(ct, Some(y)) = Some([j \in DOMAIN ct.sub |-> Received2(ct.sub[j], y[j])])
        BY <3>2, Flags DEF Received, ReceivedOf, UnlessNull
      <3> QED BY <3>1, <3>2, <3>3, <3>4
    <2> DEFINE udt == [i \in 1..n |-> rr(i)]
    <2>16. Returns(FromValue, info, r) = Some(FromUdt(From2, info, udt))
      <3>1. r = Some(udt)
        BY <2>15
      <3> HIDE DEF udt, r
      <3>2. Returns(FromValue, info, r) = Some(FromValue(info, SlotOf(info, udt)))
        BY <3>1, Flags DEF Returns, UnlessNull
      <3>3. FromValue(info, SlotOf(info, udt)) = FromUdt(From2, info, udt)
        BY <2>11, SlotRead DEF FromValue, FromOf
      <3> QED BY <3>2, <3>3
    <2>17. FromUdt(From2, info, udt) = [i \in 1..n |-> q(i)]
      <3> DEFINE j(i) == Cardinality({m \in 1..i : info.sub[m].type # "DROPPED"})
      <3>1. \A i \in 1..n : j(i) = i
        <4> DEFINE sub == info.sub
        <4>1. DOMAIN sub = 1..n /\ n \in Nat /\ \A i \in 1..n : sub[i].type # "DROPPED"
          BY <2>2, <2>12
        <4> HIDE DEF sub
        <4>2. ASSUME NEW i \in 1..n
              PROVE  Cardinality({m \in 1..i : sub[m].type # "DROPPED"}) = i
          BY <4>1, NumbersKept
        <4> QED BY <4>2 DEF sub
      <3>2. FromUdt(From2, info, udt) =
               [i \in 1..n |->
                  IF info.sub[i].type = "DROPPED" THEN Garbage
                  ELSE UnlessNull(LAMBDA y : From2(info.sub[j(i)], y), udt[j(i)])]
        BY <2>12 DEF FromUdt
      <3>3. \A i \in 1..n : udt[i] = rr(i)
        OBVIOUS
      <3> HIDE DEF j, udt, rr
      <3>4. ASSUME NEW i \in 1..n
            PROVE  UnlessNull(LAMBDA y : From2(info.sub[j(i)], y), udt[j(i)]) = q(i)
        <4>1. info.sub[j(i)] = s(i) /\ udt[j(i)] = rr(i)
          BY <2>12, <3>1, <3>3
        <4>2. \A y : SlotOf(s(i), y) = y
          BY <2>5 DEF SlotOf, InfoOK
        <4>3. UnlessNull(LAMBDA y : From2(s(i), y), rr(i)) = Returns(From2, s(i), rr(i))
          BY <4>2 DEF Returns, UnlessNull
        <4> QED BY <2>6, <4>1, <4>3
      <3> QED BY <2>12, <3>2, <3>4
    <2> HIDE DEF udt, r
    <2>18. OK
      BY <1>5, <2>9, <2>15, <2>16, <2>17, Flags DEF MayBeNull
    <2> QED BY <2>18 DEF r, info
  <1> QED BY <1>1, <1>2, <1>3, <1>4, <1>5, Flagged

-----------------------------------------------------------------------------
(* What is sent of a type.                                                 *)

\* What is sent of a row: the columns that are not dropped.
LEMMA CopyOfRow ==
    ASSUME NEW t, NEW a \in BOOLEAN, Fits(t, a, FALSE), t.kind = "row"
    PROVE  /\ Copy2(Info2(t, a, FALSE)).sub =
                 [j \in DOMAIN KeptOf(t.cols) |->
                    Copy1(Info1(t.cols[KeptOf(t.cols)[j]].type, FALSE, TRUE))]
           /\ CopyType(TypeInfo(t)).sub =
                 [j \in DOMAIN KeptOf(t.cols) |->
                    Copy2(Info2(t.cols[KeptOf(t.cols)[j]].type, FALSE, TRUE))]
  <1> DEFINE kept == KeptOf(t.cols)
             col(j) == t.cols[kept[j]].type
  <1>1. IsRowType(t)
    BY DEF Fits
  <1>2. \A j \in DOMAIN kept : kept[j] \in DOMAIN t.cols /\ ~t.cols[kept[j]].dropped
    BY <1>1, KeptOK
  <1>3. \A i \in DOMAIN t.cols : ~t.cols[i].dropped =>
           /\ InfoOK(Info1(t.cols[i].type, FALSE, TRUE), FALSE, TRUE)
           /\ InfoOK(Info2(t.cols[i].type, FALSE, TRUE), FALSE, TRUE)
    BY InfosOK
  <1>4. Copy2(Info2(t, a, FALSE)).sub = [j \in DOMAIN kept |-> Copy1(Info1(col(j), FALSE, TRUE))]
    <2> DEFINE info == Info2(t, a, FALSE)
    <2>1. info.sub = [i \in DOMAIN t.cols |->
                         IF t.cols[i].dropped THEN DroppedInfo
                         ELSE Info1(t.cols[i].type, FALSE, TRUE)]
      BY RowFields
    <2> HIDE DEF info
    <2>2. KeptColumns(info.sub) = kept
      <3>1. ASSUME NEW i \in DOMAIN t.cols
            PROVE  info.sub[i].type = "DROPPED" <=> t.cols[i].dropped
        <4>1. CASE t.cols[i].dropped
          <5>1. info.sub[i] = DroppedInfo
            BY <2>1, <4>1
          <5> QED BY <4>1, <5>1 DEF DroppedInfo
        <4>2. CASE ~t.cols[i].dropped
          BY <1>3, <2>1, <4>2 DEF InfoOK, InfoTypes
        <4> QED BY <4>1, <4>2
      <3>2. DOMAIN info.sub = DOMAIN t.cols
        BY <2>1
      <3> QED BY <1>1, <3>1, <3>2, KeptOfInfos
    <2>3. \A j \in DOMAIN kept : info.sub[kept[j]] = Info1(col(j), FALSE, TRUE)
      BY <1>2, <2>1
    <2> HIDE DEF kept
    <2>4. Copy2(info).sub = [j \in DOMAIN kept |-> Copy1(info.sub[kept[j]])]
      BY <2>2 DEF Copy2, CopyOf
    <2> HIDE DEF col
    <2>5. Copy2(info).sub = [j \in DOMAIN kept |-> Copy1(Info1(col(j), FALSE, TRUE))]
      BY <2>3, <2>4
    <2> QED BY <2>5 DEF info
  <1>5. CopyType(TypeInfo(t)).sub = [j \in DOMAIN kept |-> Copy2(Info2(col(j), FALSE, TRUE))]
    <2> DEFINE info == TypeInfo(t)
    <2>1. info.sub = [i \in DOMAIN t.cols |->
                         IF t.cols[i].dropped THEN DroppedInfo
                         ELSE Info2(t.cols[i].type, FALSE, TRUE)]
      BY RowFields
    <2> HIDE DEF info
    <2>2. KeptColumns(info.sub) = kept
      <3>1. ASSUME NEW i \in DOMAIN t.cols
            PROVE  info.sub[i].type = "DROPPED" <=> t.cols[i].dropped
        <4>1. CASE t.cols[i].dropped
          <5>1. info.sub[i] = DroppedInfo
            BY <2>1, <4>1
          <5> QED BY <4>1, <5>1 DEF DroppedInfo
        <4>2. CASE ~t.cols[i].dropped
          BY <1>3, <2>1, <4>2 DEF InfoOK, InfoTypes
        <4> QED BY <4>1, <4>2
      <3>2. DOMAIN info.sub = DOMAIN t.cols
        BY <2>1
      <3> QED BY <1>1, <3>1, <3>2, KeptOfInfos
    <2>3. \A j \in DOMAIN kept : info.sub[kept[j]] = Info2(col(j), FALSE, TRUE)
      BY <1>2, <2>1
    <2> HIDE DEF kept
    <2>4. CopyType(info).sub = [j \in DOMAIN kept |-> Copy2(info.sub[kept[j]])]
      BY <2>2 DEF CopyType, CopyOf
    <2> HIDE DEF col
    <2>5. CopyType(info).sub = [j \in DOMAIN kept |-> Copy2(Info2(col(j), FALSE, TRUE))]
      BY <2>3, <2>4
    <2> QED BY <2>5 DEF info
  <1> QED BY <1>4, <1>5

\* The copy of a description has its type.
LEMMA CopyTypes ==
    ASSUME NEW info
    PROVE  /\ Copy0(info).type = info.type /\ Copy0(info).sub = <<>>
           /\ Copy1(info).type = info.type
           /\ Copy2(info).type = info.type /\ CopyType(info).type = info.type
  BY DEF Copy0, Copy1, Copy2, CopyType, CopyOf

-----------------------------------------------------------------------------
(* Blocks and paths.                                                       *)

StartsWith(q, p) == Len(p) <= Len(q) /\ \A k \in 1..Len(p) : q[k] = p[k]

\* The blocks with a use in U at p and below.
Under(U, p) == {b \in U \X Seq(Nat) : StartsWith(b[2], p)}

\* A path and an index make a longer path.
LEMMA Paths ==
    ASSUME NEW p \in Seq(Nat), NEW i \in Nat
    PROVE  /\ At(p, i) \in Seq(Nat)
           /\ Len(At(p, i)) = Len(p) + 1
           /\ \A k \in 1..Len(p) : At(p, i)[k] = p[k]
           /\ At(p, i)[Len(p) + 1] = i
  BY DEF At

\* What is at a path is at the path or below.
LEMMA UnderThis ==
    ASSUME NEW U, NEW p \in Seq(Nat)
    PROVE  U \X {p} \subseteq Under(U, p)
  BY DEF Under, StartsWith

\* What is below the i-th value at p is below p, and not at p.
LEMMA UnderBelow ==
    ASSUME NEW U, NEW p \in Seq(Nat), NEW i \in Nat
    PROVE  /\ Under(U, At(p, i)) \subseteq Under(U, p)
           /\ \A V : Under(U, At(p, i)) \cap (V \X {p}) = {}
  <1>1. ASSUME NEW b \in Under(U, At(p, i))
        PROVE  b \in Under(U, p) /\ b[2] # p
    <2>1. b \in U \X Seq(Nat) /\ b[2] \in Seq(Nat) /\ StartsWith(b[2], At(p, i))
      BY DEF Under
    <2>2. Len(p) + 1 <= Len(b[2]) /\ \A k \in 1..(Len(p) + 1) : b[2][k] = At(p, i)[k]
      BY <2>1, Paths DEF StartsWith
    <2>3. Len(p) \in Nat /\ Len(b[2]) \in Nat
      BY <2>1
    <2>4. Len(p) <= Len(b[2]) /\ \A k \in 1..Len(p) : b[2][k] = p[k]
      <3>1. ASSUME NEW k \in 1..Len(p) PROVE b[2][k] = p[k]
        <4>1. k \in 1..(Len(p) + 1)
          BY <2>3
        <4>2. At(p, i)[k] = p[k]
          BY Paths
        <4> QED BY <2>2, <4>1, <4>2
      <3> QED BY <2>2, <2>3, <3>1
    <2> QED BY <2>1, <2>2, <2>3, <2>4 DEF Under, StartsWith
  <1> QED BY <1>1

\* Different values at p have nothing in common.
LEMMA UnderApart ==
    ASSUME NEW U, NEW V, NEW p \in Seq(Nat), NEW i \in Nat, NEW j \in Nat, i # j
    PROVE  Under(U, At(p, i)) \cap Under(V, At(p, j)) = {}
  <1>1. ASSUME NEW b \in Under(U, At(p, i)), b \in Under(V, At(p, j)) PROVE FALSE
    <2>1. StartsWith(b[2], At(p, i)) /\ StartsWith(b[2], At(p, j))
      BY <1>1 DEF Under
    <2>2. Len(p) \in Nat /\ Len(p) + 1 \in 1..(Len(p) + 1)
      OBVIOUS
    <2>3. b[2][Len(p) + 1] = i /\ b[2][Len(p) + 1] = j
      BY <2>1, <2>2, Paths DEF StartsWith
    <2> QED BY <2>3
  <1> QED BY <1>1

-----------------------------------------------------------------------------
(* Allocating, freeing and reading.                                        *)

Blocks == Uses \X Seq(Nat)

\* The fields of a memory.
LEMMA MemoryFields ==
    ASSUME NEW m \in Memory
    PROVE  /\ m.live \subseteq Blocks /\ m.wild \subseteq Blocks
           /\ m.left \in 0..Unlimited /\ m.failed \in BOOLEAN
           /\ m = [live |-> m.live, wild |-> m.wild, left |-> m.left, failed |-> m.failed]
  BY DEF Memory, Blocks

\* What reading does, field by field.
LEMMA ReadOK ==
    ASSUME NEW m \in Memory, NEW A, A \subseteq Blocks
    PROVE  /\ Read(m, A) \in Memory
           /\ Read(m, A) = [live |-> m.live, wild |-> m.wild \cup (A \ m.live),
                            left |-> m.left, failed |-> m.failed]
  <1> DEFINE live == m.live  wild == m.wild  left == m.left  failed == m.failed
             all == m.wild \cup (A \ m.live)
  <1>1. m = [live |-> live, wild |-> wild, left |-> left, failed |-> failed]
    BY MemoryFields
  <1>2. Read(m, A) = [m EXCEPT !.wild = all]
    BY DEF Read
  <1>3. live \subseteq Blocks /\ all \subseteq Blocks
    BY MemoryFields
  <1>4. left \in 0..Unlimited /\ failed \in BOOLEAN
    BY MemoryFields
  <1> HIDE DEF live, wild, left, failed, all
  <1>5. Read(m, A) = [live |-> live, wild |-> all, left |-> left, failed |-> failed]
    BY <1>1, <1>2
  <1>6. Read(m, A) \in Memory
    BY <1>3, <1>4, <1>5 DEF Memory, Blocks
  <1> QED BY <1>5, <1>6 DEF live, left, failed, all

\* What freeing does, field by field.
LEMMA FreeOK ==
    ASSUME NEW m \in Memory, NEW A, A \subseteq Blocks
    PROVE  /\ Free(m, A) \in Memory
           /\ Free(m, A) = [live |-> m.live \ A, wild |-> m.wild \cup (A \ m.live),
                            left |-> m.left, failed |-> m.failed]
  <1> DEFINE n == Read(m, A)
  <1>1. n = [live |-> m.live, wild |-> m.wild \cup (A \ m.live),
             left |-> m.left, failed |-> m.failed]
    BY ReadOK
  <1>2. Free(m, A) = [n EXCEPT !.live = @ \ A]
    BY DEF Free
  <1> HIDE DEF n
  <1>3. Free(m, A) = [live |-> m.live \ A, wild |-> m.wild \cup (A \ m.live),
                      left |-> m.left, failed |-> m.failed]
    BY <1>1, <1>2
  <1>4. m.live \ A \subseteq Blocks /\ m.wild \cup (A \ m.live) \subseteq Blocks
    BY MemoryFields
  <1> QED BY <1>3, <1>4, MemoryFields DEF Memory, Blocks

\* Freeing nothing changes nothing.
LEMMA FreeNone ==
    ASSUME NEW m \in Memory
    PROVE  Free(m, {}) = m
  <1>1. m.live \ {} = m.live /\ m.wild \cup ({} \ m.live) = m.wild /\ {} \subseteq Blocks
    OBVIOUS
  <1>2. Free(m, {}) = [live |-> m.live \ {}, wild |-> m.wild \cup ({} \ m.live),
                       left |-> m.left, failed |-> m.failed]
    BY <1>1, FreeOK
  <1> QED BY <1>1, <1>2, MemoryFields

\* To free twice what has nothing in common is to free it at once.
LEMMA FreeBoth ==
    ASSUME NEW m \in Memory, NEW A, A \subseteq Blocks, NEW B, B \subseteq Blocks,
           A \cap B = {}
    PROVE  Free(Free(m, A), B) = Free(m, A \cup B)
  <1> DEFINE n == Free(m, A)
  <1>1. n \in Memory /\ n.live = m.live \ A /\ n.wild = m.wild \cup (A \ m.live)
        /\ n.left = m.left /\ n.failed = m.failed
    BY FreeOK
  <1> HIDE DEF n
  <1>2. n.live \ B = m.live \ (A \cup B)
    BY <1>1
  <1>3. n.wild \cup (B \ n.live) = m.wild \cup ((A \cup B) \ m.live)
    BY <1>1
  <1>4. Free(n, B) = [live |-> n.live \ B, wild |-> n.wild \cup (B \ n.live),
                      left |-> n.left, failed |-> n.failed]
    BY <1>1, FreeOK
  <1>5. Free(m, A \cup B) =
           [live |-> m.live \ (A \cup B), wild |-> m.wild \cup ((A \cup B) \ m.live),
            left |-> m.left, failed |-> m.failed]
    <2>1. A \cup B \subseteq Blocks
      OBVIOUS
    <2> QED BY <2>1, FreeOK
  <1> QED BY <1>1, <1>2, <1>3, <1>4, <1>5 DEF n

\* What every step keeps true, all of them keep true.
LEMMA EachOK ==
    ASSUME NEW m, NEW n \in Nat, NEW step, NEW Inv, <<0, m>> \in Inv,
           \A i \in 1..n : \A x : <<i - 1, x>> \in Inv => <<i, step[i][x]>> \in Inv
    PROVE  <<n, InTurn(step, m, n)>> \in Inv
  <1> DEFINE Body(g, k) == [i \in 0..k |-> IF i = 0 THEN m ELSE step[i][g[i - 1]]]
             after == CHOOSE g : g = Body(g, n)
  <1>1. \E g : g = Body(g, n)
    <2> DEFINE T == {k \in Nat : \E g : g = Body(g, k)}
    <2>1. 0 \in T
      <3> DEFINE g == [i \in 0..0 |-> m]
      <3>1. g = Body(g, 0)
        OBVIOUS
      <3> QED BY <3>1
    <2>2. ASSUME NEW k \in Nat, k \in T PROVE k + 1 \in T
      <3>1. PICK g : g = Body(g, k)
        BY <2>2
      <3> DEFINE h == [i \in 0..(k + 1) |-> IF i = k + 1 THEN step[i][g[k]] ELSE g[i]]
      <3>2. ASSUME NEW i \in 0..(k + 1)
            PROVE  h[i] = IF i = 0 THEN m ELSE step[i][h[i - 1]]
        <4>1. CASE i = 0
          BY <3>1, <4>1
        <4>2. CASE i = k + 1
          <5>1. h[i] = step[i][g[k]] /\ h[k] = g[k] /\ i - 1 = k
            BY <4>2
          <5> QED BY <4>2, <5>1
        <4>3. CASE i # 0 /\ i # k + 1
          <5>1. i \in 0..k /\ i - 1 \in 0..k /\ i - 1 # k + 1 /\ i - 1 \in 0..(k + 1)
            BY <4>3
          <5>2. h[i] = g[i] /\ h[i - 1] = g[i - 1]
            BY <4>3, <5>1
          <5>3. g[i] = step[i][g[i - 1]]
            BY <3>1, <4>3, <5>1
          <5> QED BY <4>3, <5>2, <5>3
        <4> QED BY <4>1, <4>2, <4>3
      <3>3. h = Body(h, k + 1)
        BY <3>2
      <3> HIDE DEF h, Body
      <3> QED BY <3>3
    <2> HIDE DEF T
    <2>3. n \in T
      BY <2>1, <2>2, Induct
    <2> QED BY <2>3 DEF T
  <1>2. after = Body(after, n)
    BY <1>1
  <1> HIDE DEF after
  <1>3. after[0] = m /\ \A i \in 1..n : after[i] = step[i][after[i - 1]]
    BY <1>2
  <1> DEFINE T == {i \in Nat : i <= n => <<i, after[i]>> \in Inv}
  <1>4. 0 \in T
    BY <1>3
  <1>5. ASSUME NEW i \in Nat, i \in T PROVE i + 1 \in T
    <2>1. SUFFICES ASSUME i + 1 <= n PROVE <<i + 1, after[i + 1]>> \in Inv
      OBVIOUS
    <2>2. i + 1 \in 1..n /\ (i + 1) - 1 = i /\ <<i, after[i]>> \in Inv
      BY <1>5, <2>1
    <2>3. after[i + 1] = step[i + 1][after[i]]
      BY <1>3, <2>2
    <2> QED BY <2>2, <2>3
  <1> HIDE DEF T
  <1>6. n \in T
    BY <1>4, <1>5, Induct
  <1>7. InTurn(step, m, n) = after[n]
    BY DEF InTurn, after
  <1> QED BY <1>6, <1>7 DEF T

\* The blocks of n steps.
AllOf(B, n) == UNION {B[i] : i \in 1..n}

\* Steps that free blocks of their own free all of these.
LEMMA FreeEach ==
    ASSUME NEW m \in Memory, NEW n \in Nat, NEW B, NEW step,
           \A i \in 1..n : B[i] \subseteq Blocks,
           \A i, j \in 1..n : i # j => B[i] \cap B[j] = {},
           \A i \in 1..n : \A x \in Memory : step[i][x] = Free(x, B[i])
    PROVE  InTurn(step, m, n) = Free(m, AllOf(B, n))
  <1> DEFINE Freed(i) == AllOf(B, i)
             Inv == {y \in (0..n) \X Memory : y[2] = Free(m, Freed(y[1]))}
  <1>1. <<0, m>> \in Inv
    <2>1. Freed(0) = {}
      BY DEF AllOf
    <2> HIDE DEF Freed
    <2>2. m = Free(m, Freed(0)) /\ 0 \in 0..n
      BY <2>1, FreeNone
    <2> QED BY <2>2
  <1>2. ASSUME NEW i \in 1..n, NEW x, <<i - 1, x>> \in Inv
        PROVE  <<i, step[i][x]>> \in Inv
    <2>1. x \in Memory /\ x = Free(m, Freed(i - 1)) /\ i - 1 \in 0..n
      BY <1>2
    <2>2. Freed(i) = Freed(i - 1) \cup B[i]
      <3>1. 1..i = 1..(i - 1) \cup {i}
        OBVIOUS
      <3> QED BY <3>1 DEF AllOf
    <2>3. Freed(i - 1) \subseteq Blocks /\ Freed(i - 1) \cap B[i] = {}
      <3>1. \A k \in 1..(i - 1) : k \in 1..n /\ k # i
        OBVIOUS
      <3> QED BY <3>1 DEF AllOf
    <2> HIDE DEF Freed
    <2>4. step[i][x] = Free(x, B[i]) /\ B[i] \subseteq Blocks
      BY <2>1
    <2>5. Free(x, B[i]) = Free(m, Freed(i))
      BY <2>1, <2>2, <2>3, <2>4, FreeBoth
    <2>6. Free(x, B[i]) \in Memory
      BY <2>1, <2>4, FreeOK
    <2> QED BY <2>4, <2>5, <2>6
  <1> HIDE DEF Inv
  <1>3. <<n, InTurn(step, m, n)>> \in Inv
    BY <1>1, <1>2, EachOK
  <1> QED BY <1>3 DEF Inv

\* n steps, each of which frees blocks below a path of its own under p.
FreesBelow(step, B, n, U, p) ==
    \A i \in 1..n :
        /\ B[i] \subseteq Under(U, At(p, i))
        /\ \A x \in Memory : step[i][x] = Free(x, B[i])

\* What is freed below a path, and then at the path itself.
LEMMA FreeTree ==
    ASSUME NEW U \in SUBSET Uses, NEW p \in Seq(Nat), NEW Top \in SUBSET (U \X {p}),
           NEW m \in Memory, NEW n \in Nat, NEW B, NEW step,
           FreesBelow(step, B, n, U, p)
    PROVE  /\ Free(InTurn(step, m, n), Top) = Free(m, Top \cup AllOf(B, n))
           /\ Top \cup AllOf(B, n) \subseteq Under(U, p)
  <1> DEFINE All == AllOf(B, n)
  <1>1. \A i \in 1..n : B[i] \subseteq Under(U, p) /\ B[i] \cap Top = {}
    <2>1. ASSUME NEW i \in 1..n PROVE B[i] \subseteq Under(U, p) /\ B[i] \cap Top = {}
      <3>1. Under(U, At(p, i)) \subseteq Under(U, p) /\ Under(U, At(p, i)) \cap (U \X {p}) = {}
        BY UnderBelow
      <3>2. B[i] \subseteq Under(U, At(p, i))
        BY DEF FreesBelow
      <3> QED BY <3>1, <3>2
    <2> QED BY <2>1
  <1>2. \A i, j \in 1..n : i # j => B[i] \cap B[j] = {}
    <2>1. ASSUME NEW i \in 1..n, NEW j \in 1..n, i # j PROVE B[i] \cap B[j] = {}
      <3>1. Under(U, At(p, i)) \cap Under(U, At(p, j)) = {}
        BY <2>1, UnderApart
      <3>2. B[i] \subseteq Under(U, At(p, i)) /\ B[j] \subseteq Under(U, At(p, j))
        BY DEF FreesBelow
      <3> QED BY <3>1, <3>2
    <2> QED BY <2>1
  <1>3. Under(U, p) \subseteq Blocks
    BY DEF Under, Blocks
  <1>4. Top \subseteq Under(U, p)
    BY UnderThis
  <1>5. \A i \in 1..n : B[i] \subseteq Blocks
    BY <1>1, <1>3
  <1>6. All \subseteq Under(U, p) /\ All \cap Top = {}
    BY <1>1 DEF AllOf
  <1>7. \A i \in 1..n : \A x \in Memory : step[i][x] = Free(x, B[i])
    BY DEF FreesBelow
  <1>10. InTurn(step, m, n) = Free(m, All)
    BY <1>2, <1>5, <1>7, FreeEach
  <1> HIDE DEF All
  <1>8. Free(Free(m, All), Top) = Free(m, All \cup Top)
    BY <1>3, <1>4, <1>6, FreeBoth
  <1>9. All \cup Top = Top \cup All
    OBVIOUS
  <1> QED BY <1>4, <1>6, <1>8, <1>9, <1>10 DEF All
-----------------------------------------------------------------------------
(* Descriptions of types.                                                  *)

\* What has no subTypes has no blocks.
LEMMA FreeType0OK ==
    ASSUME NEW use \in Uses, NEW m \in Memory, NEW t, NEW p \in Seq(Nat)
    PROVE  /\ FreeType0(m, use, t, p) = Free(m, TypeBlocks0(use, t, p))
           /\ TypeBlocks0(use, t, p) \subseteq Under({use}, p)
  BY FreeNone DEF FreeType0, TypeBlocks0

\* Descriptions whose subTypes are sequences, as deep as they are freed.
Deep1(t) == IsSequence(t.sub)
Deep2(t) == IsSequence(t.sub) /\ \A i \in DOMAIN t.sub : Deep1(t.sub[i])
Deep3(t) == IsSequence(t.sub) /\ \A i \in DOMAIN t.sub : Deep2(t.sub[i])

\* The blocks of a type are named by paths of their own, and all are freed.
LEMMA FreeType1OK ==
    ASSUME NEW use \in Uses, NEW m \in Memory, NEW t, Deep1(t), NEW p \in Seq(Nat)
    PROVE  /\ FreeType1(m, use, t, p) = Free(m, TypeBlocks1(use, t, p))
           /\ TypeBlocks1(use, t, p) \subseteq Under({use}, p)
  <1>1. CASE t.sub = <<>>
    BY <1>1, FreeNone DEF FreeType1, FreeTypeOf, TypeBlocks1, TypeBlocksOf
  <1>2. CASE t.sub # <<>>
    <2> DEFINE n == Len(t.sub)
               B == [i \in 1..n |-> TypeBlocks0(use, t.sub[i], At(p, i))]
               step == [i \in 1..n |-> [x \in Memory |-> FreeType0(x, use, t.sub[i], At(p, i))]]
               Top == {Block(use, p)}
               U == {use}
    <2>1. n \in Nat /\ DOMAIN t.sub = 1..n
      BY SequenceOK DEF Deep1
    <2>2. \A i \in 1..n : At(p, i) \in Seq(Nat)
      BY Paths
    <2>3. \A i \in 1..n : B[i] \subseteq Under(U, At(p, i))
      BY <2>2, FreeType0OK
    <2>4. \A i \in 1..n : \A x \in Memory : step[i][x] = Free(x, B[i])
      BY <2>2, FreeType0OK
    <2>9. FreesBelow(step, B, n, U, p)
      <3> HIDE DEF n, B, step, Top, U
      <3> QED BY <2>3, <2>4 DEF FreesBelow
    <2>5. FreeType1(m, use, t, p) = Free(InTurn(step, m, n), Top)
      BY <1>2, <2>1 DEF FreeType1, FreeTypeOf
    <2>6. TypeBlocks1(use, t, p) = Top \cup AllOf(B, n)
      BY <1>2, <2>1 DEF TypeBlocks1, TypeBlocksOf, AllOf
    <2>7. Top \in SUBSET (U \X {p}) /\ U \in SUBSET Uses
      BY DEF Block
    <2> HIDE DEF n, B, step, Top, U
    <2>8. /\ Free(InTurn(step, m, n), Top) = Free(m, Top \cup AllOf(B, n))
          /\ Top \cup AllOf(B, n) \subseteq Under(U, p)
      BY <2>1, <2>7, <2>9, FreeTree
    <2> QED BY <2>5, <2>6, <2>8 DEF U
  <1> QED BY <1>1, <1>2

\* One level more.
LEMMA FreeType2OK ==
    ASSUME NEW use \in Uses, NEW m \in Memory, NEW t, Deep2(t), NEW p \in Seq(Nat)
    PROVE  /\ FreeType2(m, use, t, p) = Free(m, TypeBlocks2(use, t, p))
           /\ TypeBlocks2(use, t, p) \subseteq Under({use}, p)
  <1>1. CASE t.sub = <<>>
    BY <1>1, FreeNone DEF FreeType2, FreeTypeOf, TypeBlocks2, TypeBlocksOf
  <1>2. CASE t.sub # <<>>
    <2> DEFINE n == Len(t.sub)
               B == [i \in 1..n |-> TypeBlocks1(use, t.sub[i], At(p, i))]
               step == [i \in 1..n |-> [x \in Memory |-> FreeType1(x, use, t.sub[i], At(p, i))]]
               Top == {Block(use, p)}
               U == {use}
    <2>1. n \in Nat /\ DOMAIN t.sub = 1..n
      BY SequenceOK DEF Deep2
    <2>2. \A i \in 1..n : At(p, i) \in Seq(Nat) /\ Deep1(t.sub[i])
      <3>1. \A i \in 1..n : Deep1(t.sub[i])
        BY <2>1 DEF Deep2
      <3>2. \A i \in 1..n : At(p, i) \in Seq(Nat)
        BY Paths
      <3> QED BY <3>1, <3>2
    <2>3. \A i \in 1..n : B[i] \subseteq Under(U, At(p, i))
      BY <2>2, FreeType1OK
    <2>4. \A i \in 1..n : \A x \in Memory : step[i][x] = Free(x, B[i])
      BY <2>2, FreeType1OK
    <2>9. FreesBelow(step, B, n, U, p)
      <3> HIDE DEF n, B, step, Top, U
      <3> QED BY <2>3, <2>4 DEF FreesBelow
    <2>5. FreeType2(m, use, t, p) = Free(InTurn(step, m, n), Top)
      BY <1>2, <2>1 DEF FreeType2, FreeTypeOf
    <2>6. TypeBlocks2(use, t, p) = Top \cup AllOf(B, n)
      BY <1>2, <2>1 DEF TypeBlocks2, TypeBlocksOf, AllOf
    <2>7. Top \in SUBSET (U \X {p}) /\ U \in SUBSET Uses
      BY DEF Block
    <2> HIDE DEF n, B, step, Top, U
    <2>8. /\ Free(InTurn(step, m, n), Top) = Free(m, Top \cup AllOf(B, n))
          /\ Top \cup AllOf(B, n) \subseteq Under(U, p)
      BY <2>1, <2>7, <2>9, FreeTree
    <2> QED BY <2>5, <2>6, <2>8 DEF U
  <1> QED BY <1>1, <1>2

\* And the last, for the whole type of a message.
LEMMA FreeType3OK ==
    ASSUME NEW use \in Uses, NEW m \in Memory, NEW t, Deep3(t), NEW p \in Seq(Nat)
    PROVE  /\ FreeType(m, use, t, p) = Free(m, TypeBlocks(use, t, p))
           /\ TypeBlocks(use, t, p) \subseteq Under({use}, p)
  <1>1. CASE t.sub = <<>>
    BY <1>1, FreeNone DEF FreeType, FreeTypeOf, TypeBlocks, TypeBlocksOf
  <1>2. CASE t.sub # <<>>
    <2> DEFINE n == Len(t.sub)
               B == [i \in 1..n |-> TypeBlocks2(use, t.sub[i], At(p, i))]
               step == [i \in 1..n |-> [x \in Memory |-> FreeType2(x, use, t.sub[i], At(p, i))]]
               Top == {Block(use, p)}
               U == {use}
    <2>1. n \in Nat /\ DOMAIN t.sub = 1..n
      BY SequenceOK DEF Deep3
    <2>2. \A i \in 1..n : At(p, i) \in Seq(Nat) /\ Deep2(t.sub[i])
      <3>1. \A i \in 1..n : Deep2(t.sub[i])
        BY <2>1 DEF Deep3
      <3>2. \A i \in 1..n : At(p, i) \in Seq(Nat)
        BY Paths
      <3> QED BY <3>1, <3>2
    <2>3. \A i \in 1..n : B[i] \subseteq Under(U, At(p, i))
      BY <2>2, FreeType2OK
    <2>4. \A i \in 1..n : \A x \in Memory : step[i][x] = Free(x, B[i])
      BY <2>2, FreeType2OK
    <2>9. FreesBelow(step, B, n, U, p)
      <3> HIDE DEF n, B, step, Top, U
      <3> QED BY <2>3, <2>4 DEF FreesBelow
    <2>5. FreeType(m, use, t, p) = Free(InTurn(step, m, n), Top)
      BY <1>2, <2>1 DEF FreeType, FreeTypeOf
    <2>6. TypeBlocks(use, t, p) = Top \cup AllOf(B, n)
      BY <1>2, <2>1 DEF TypeBlocks, TypeBlocksOf, AllOf
    <2>7. Top \in SUBSET (U \X {p}) /\ U \in SUBSET Uses
      BY DEF Block
    <2> HIDE DEF n, B, step, Top, U
    <2>8. /\ Free(InTurn(step, m, n), Top) = Free(m, Top \cup AllOf(B, n))
          /\ Top \cup AllOf(B, n) \subseteq Under(U, p)
      BY <2>1, <2>7, <2>9, FreeTree
    <2> QED BY <2>5, <2>6, <2>8 DEF U
  <1> QED BY <1>1, <1>2
-----------------------------------------------------------------------------
(* The types of messages, and what is in them.                             *)

IsLeaf(ct) == ct.type \notin {"ARRAY", "UDT"} /\ ct.sub = <<>>
IsLeafArray(ct) == ct.type = "ARRAY" /\ ct.sub = <<ct.sub[1]>> /\ IsLeaf(ct.sub[1])

\* A column is sent as a scalar, or as an array of scalars.
IsColumn(ct) == IsLeaf(ct) \/ IsLeafArray(ct)
IsRow(ct) == ct.type = "UDT" /\ IsSequence(ct.sub) /\ \A j \in DOMAIN ct.sub : IsColumn(ct.sub[j])
IsRowArray(ct) == ct.type = "ARRAY" /\ ct.sub = <<ct.sub[1]>> /\ IsRow(ct.sub[1])
IsMessage(ct) == IsColumn(ct) \/ IsRow(ct) \/ IsRowArray(ct)

\* What is not an array, and is not a row except within a row, is sent as a leaf.
LEMMA LeafIs ==
    ASSUME NEW t, t.kind # "array", NEW a \in BOOLEAN, NEW u \in BOOLEAN, t.kind = "row" => u
    PROVE  /\ IsLeaf(Copy0(ScalarInfo(t, a, u)))
           /\ IsLeaf(Copy1(Info1(t, a, u)))
           /\ IsLeaf(Copy2(Info2(t, a, u)))
           /\ ~a /\ ~u => IsLeaf(CopyType(TypeInfo(t)))
  <1> DEFINE s == ScalarInfo(t, a, u)
  <1>1. Info1(t, a, u) = s /\ Info2(t, a, u) = s /\ (~a /\ ~u => TypeInfo(t) = s)
    BY OtherInfos
  <1>2. s.sub = <<>> /\ s.type \notin {"ARRAY", "UDT"}
    BY ScalarInfos DEF InfoTypes
  <1> HIDE DEF s
  <1>3. Copy1(s) = [type |-> s.type, sub |-> <<>>] /\ Copy2(s) = Copy1(s)
        /\ CopyType(s) = Copy1(s) /\ Copy0(s) = Copy1(s)
    BY <1>2, CopyOfScalar DEF Copy0
  <1>4. IsLeaf(Copy1(s))
    BY <1>2, <1>3 DEF IsLeaf
  <1>5. IsLeaf(Copy0(s)) /\ IsLeaf(Copy2(s)) /\ IsLeaf(CopyType(s))
    BY <1>3, <1>4
  <1> QED BY <1>1, <1>4, <1>5 DEF s

\* An array of scalars, or of what is a scalar in a row.
LEMMA LeafArrayIs ==
    ASSUME NEW t, t.kind = "array", t.elem.kind # "array", NEW u \in BOOLEAN,
           t.elem.kind = "row" => u
    PROVE  /\ IsLeafArray(Copy1(Info1(t, FALSE, u)))
           /\ IsLeafArray(Copy2(Info2(t, FALSE, u)))
           /\ ~u => IsLeafArray(CopyType(TypeInfo(t)))
  <1> DEFINE i1 == Info1(t, FALSE, u)
             i2 == Info2(t, FALSE, u)
             i3 == TypeInfo(t)
             s0 == ScalarInfo(t.elem, TRUE, u)
             s1 == Info1(t.elem, TRUE, u)
             s2 == Info2(t.elem, TRUE, u)
  <1>1. i1 = [type |-> "ARRAY", ptr |-> FALSE, sub |-> <<s0>>]
        /\ i2 = [type |-> "ARRAY", ptr |-> FALSE, sub |-> <<s1>>]
        /\ (~u => i3 = [type |-> "ARRAY", ptr |-> FALSE, sub |-> <<s2>>])
    BY ArrayInfos
  <1>2. s0.type # "DROPPED" /\ s1.type # "DROPPED" /\ s2.type # "DROPPED"
    <2>1. s1 = s0 /\ s2 = s0
      BY OtherInfos
    <2>2. s0.type # "DROPPED"
      BY ScalarInfos DEF InfoTypes
    <2> QED BY <2>1, <2>2
  <1>3. IsLeaf(Copy0(s0)) /\ IsLeaf(Copy1(s1)) /\ IsLeaf(Copy2(s2))
    <2> DEFINE a == TRUE
               e == t.elem
    <2>1. a \in BOOLEAN /\ e.kind # "array" /\ (e.kind = "row" => u)
      OBVIOUS
    <2> HIDE DEF a, e
    <2>2. /\ IsLeaf(Copy0(ScalarInfo(e, a, u)))
          /\ IsLeaf(Copy1(Info1(e, a, u)))
          /\ IsLeaf(Copy2(Info2(e, a, u)))
          /\ ~a /\ ~u => IsLeaf(CopyType(TypeInfo(e)))
      BY <2>1, LeafIs
    <2> QED BY <2>2 DEF a, e
  <1> HIDE DEF i1, i2, i3, s0, s1, s2
  <1>4. /\ Copy1(i1) = [type |-> "ARRAY", sub |-> <<Copy0(s0)>>]
        /\ Copy2(i2) = [type |-> "ARRAY", sub |-> <<Copy1(s1)>>]
        /\ ~u => CopyType(i3) = [type |-> "ARRAY", sub |-> <<Copy2(s2)>>]
    <2>1. Copy1(i1) = [type |-> "ARRAY", sub |-> <<Copy0(s0)>>]
      BY <1>1, <1>2, CopyOfArray
    <2>2. Copy2(i2) = [type |-> "ARRAY", sub |-> <<Copy1(s1)>>]
      BY <1>1, <1>2, CopyOfArray
    <2>3. ASSUME ~u PROVE CopyType(i3) = [type |-> "ARRAY", sub |-> <<Copy2(s2)>>]
      BY <1>1, <1>2, <2>3, CopyOfArray
    <2> QED BY <2>1, <2>2, <2>3
  <1>5. ASSUME NEW c, NEW s, c = [type |-> "ARRAY", sub |-> <<s>>], IsLeaf(s)
        PROVE  IsLeafArray(c)
    BY <1>5 DEF IsLeafArray
  <1> QED BY <1>3, <1>4, <1>5 DEF i1, i2, i3

\* Every type that a column may have is sent as a column.
LEMMA ColumnIs ==
    ASSUME NEW t, Fits(t, FALSE, TRUE)
    PROVE  IsColumn(Copy1(Info1(t, FALSE, TRUE))) /\ IsColumn(Copy2(Info2(t, FALSE, TRUE)))
  <1>1. CASE t.kind # "array"
    BY <1>1, LeafIs DEF IsColumn
  <1>2. CASE t.kind = "array"
    <2>1. t.elem.kind # "array"
      BY <1>2 DEF Fits, NoArrayInArray
    <2> QED BY <1>2, <2>1, LeafArrayIs DEF IsColumn
  <1> QED BY <1>1, <1>2

\* A row is sent as a row.
LEMMA RowIs ==
    ASSUME NEW t, NEW a \in BOOLEAN, Fits(t, a, FALSE), t.kind = "row"
    PROVE  /\ IsRow(Copy2(Info2(t, a, FALSE)))
           /\ ~a => IsRow(CopyType(TypeInfo(t)))
  <1> DEFINE kept == KeptOf(t.cols)
             c2 == Copy2(Info2(t, a, FALSE))
             c3 == CopyType(TypeInfo(t))
             col1(j) == Copy1(Info1(t.cols[kept[j]].type, FALSE, TRUE))
             col2(j) == Copy2(Info2(t.cols[kept[j]].type, FALSE, TRUE))
  <1>1. c2.type = "UDT" /\ c3.type = "UDT"
    <2>1. Info2(t, a, FALSE).type = "UDT" /\ TypeInfo(t).type = "UDT"
      BY RowFields
    <2> QED BY <2>1, CopyTypes
  <1>2. c2.sub = [j \in DOMAIN kept |-> col1(j)] /\ c3.sub = [j \in DOMAIN kept |-> col2(j)]
    BY CopyOfRow
  <1>3. Len(kept) \in Nat /\ DOMAIN kept = 1..Len(kept)
    BY KeptOK DEF Fits
  <1>4. \A j \in DOMAIN kept : IsColumn(col1(j)) /\ IsColumn(col2(j))
    <2>1. \A j \in DOMAIN kept : Fits(t.cols[kept[j]].type, FALSE, TRUE)
      BY KeptOK, ColumnFits DEF Fits
    <2> QED BY <2>1, ColumnIs
  <1> HIDE DEF kept, c2, c3, col1, col2
  <1>6. IsSequence(c2.sub) /\ IsSequence(c3.sub) /\ DOMAIN c2.sub = DOMAIN kept
        /\ DOMAIN c3.sub = DOMAIN kept
    BY <1>2, <1>3 DEF IsSequence
  <1> QED BY <1>1, <1>2, <1>4, <1>6 DEF IsRow, c2, c3

\* No message has a row within a row, or an array within an array.
LEMMA MessageIs ==
    ASSUME NEW t, IsType(t)
    PROVE  IsMessage(CopyType(TypeInfo(t)))
  <1>1. Fits(t, FALSE, FALSE)
    BY DEF Fits, IsType
  <1>2. CASE t.kind = "row"
    BY <1>1, <1>2, RowIs DEF IsMessage
  <1>3. CASE t.kind = "array" /\ t.elem.kind # "row"
    <2>1. t.elem.kind # "array"
      BY <1>1, <1>3 DEF Fits, NoArrayInArray
    <2> QED BY <1>3, <2>1, LeafArrayIs DEF IsMessage, IsColumn
  <1>4. CASE t.kind = "array" /\ t.elem.kind = "row"
    <2> DEFINE s == Info2(t.elem, TRUE, FALSE)
               info == TypeInfo(t)
    <2>1. Fits(t.elem, TRUE, FALSE)
      BY <1>1, <1>4, ElementFits
    <2>2. info.sub = <<s>> /\ info.type = "ARRAY"
      <3>1. info = [type |-> "ARRAY", ptr |-> FALSE, sub |-> <<s>>]
        BY <1>4, ArrayInfos
      <3> HIDE DEF info, s
      <3> QED BY <3>1
    <2>3. s.type # "DROPPED"
      BY <1>4, RowFields
    <2>4. IsRow(Copy2(s))
      BY <1>4, <2>1, RowIs
    <2> HIDE DEF info, s
    <2>5. CopyType(info) = [type |-> "ARRAY", sub |-> <<Copy2(s)>>]
      BY <2>2, <2>3, CopyOfArray
    <2> QED BY <2>4, <2>5 DEF info, IsMessage, IsRowArray
  <1>5. CASE t.kind \notin {"row", "array"}
    BY <1>5, LeafIs DEF IsMessage, IsColumn
  <1> QED BY <1>2, <1>3, <1>4, <1>5

\* No message is deeper than the code that frees it looks.
LEMMA MessageTypesOK ==
    ASSUME NEW ct, IsMessage(ct)
    PROVE  /\ ct.type = "UDT" => RowOK(ct)
           /\ ct.type = "ARRAY" =>
                 (ct.sub[1].sub # <<>> => ct.sub[1].type = "UDT" /\ RowOK(ct.sub[1]))
  <1>1. ASSUME NEW c, IsColumn(c), c.sub # <<>>
        PROVE  c.type = "ARRAY" /\ c.sub[1].sub = <<>>
    BY <1>1 DEF IsColumn, IsLeaf, IsLeafArray
  <1>2. ASSUME NEW r, IsRow(r) PROVE RowOK(r)
    BY <1>1, <1>2 DEF IsRow, RowOK
  <1>3. CASE IsColumn(ct)
    BY <1>3 DEF IsColumn, IsLeaf, IsLeafArray
  <1>4. CASE IsRow(ct)
    BY <1>2, <1>4 DEF IsRow
  <1>5. CASE IsRowArray(ct)
    BY <1>2, <1>5 DEF IsRowArray, IsRow
  <1> QED BY <1>3, <1>4, <1>5 DEF IsMessage

\* Messages are not deeper than free_type goes.
LEMMA MessageDeep ==
    ASSUME NEW ct, IsMessage(ct)
    PROVE  Deep3(ct)
  <1> DEFINE Seq1(s) == s = <<>> \/ s = <<s[1]>>
  <1>1. \A s : Seq1(s) => IsSequence(s) /\ DOMAIN s \subseteq {1}
    <2>1. IsSequence(<<>>) /\ DOMAIN <<>> = {}
      BY DEF IsSequence
    <2>2. \A x : IsSequence(<<x>>) /\ DOMAIN <<x>> = {1}
      BY DEF IsSequence
    <2> QED BY <2>1, <2>2
  <1>2. \A c : IsLeaf(c) => Deep1(c) /\ Deep2(c) /\ Deep3(c)
    BY <1>1 DEF IsLeaf, Deep1, Deep2, Deep3
  <1>3. \A c : IsLeafArray(c) => Deep2(c) /\ Deep3(c) /\ Deep1(c)
    BY <1>1, <1>2 DEF IsLeafArray, Deep1, Deep2, Deep3
  <1>4. \A c : IsColumn(c) => Deep2(c) /\ Deep1(c) /\ Deep3(c)
    BY <1>2, <1>3 DEF IsColumn
  <1>5. \A c : IsRow(c) => Deep2(c) /\ Deep3(c)
    BY <1>4 DEF IsRow, Deep2, Deep3
  <1>6. \A c : IsRowArray(c) => Deep3(c)
    BY <1>1, <1>5 DEF IsRowArray, Deep3
  <1> QED BY <1>4, <1>5, <1>6 DEF IsMessage

\* What an iterator gives, one after the other.
GivesAll(iter) ==
    /\ Len(iter.dims) \in Nat
    /\ IsSequence(Elements(iter))
    /\ \A i \in DOMAIN Elements(iter) : Elements(iter)[i].isnull \in BOOLEAN

\* The structures of the messages of these types, before they are sent.
LeafObject(o) == o.isnull \in BOOLEAN
ColumnObject(ct, o) ==
    /\ o.isnull \in BOOLEAN
    /\ ct.type = "ARRAY" /\ ~o.isnull => GivesAll(o.value)
RowObject(ct, o) ==
    /\ o.isnull \in BOOLEAN
    /\ ~o.isnull => \A j \in DOMAIN ct.sub : ColumnObject(ct.sub[j], o.value[j])
RowsObject(ct, o) ==
    /\ o.isnull \in BOOLEAN
    /\ ~o.isnull =>
          /\ GivesAll(o.value)
          /\ \A i \in DOMAIN Elements(o.value) : RowObject(ct.sub[1], Elements(o.value)[i])

MessageObject(ct, o) ==
    /\ IsColumn(ct) => ColumnObject(ct, o)
    /\ IsRow(ct) => RowObject(ct, o)
    /\ IsRowArray(ct) => RowsObject(ct, o)

\* An array, whose elements may be null.
ArrayDatum(a) == IsArray(a) /\ \A i \in DOMAIN a.elems : MayBeNull(a.elems[i])

\* A value is null in C when it is null in SQL.
LEMMA ObjectFlag ==
    ASSUME NEW info, NEW x, MayBeNull(x)
    PROVE  /\ AsObject(info, x).isnull \in BOOLEAN
           /\ x.isnull \in BOOLEAN
           /\ AsObject(info, x).isnull = x.isnull
           /\ ~x.isnull => AsObject(info, x).value = AsValue(info, x.value)
  BY Flagged, Flags DEF AsObject, UnlessNull

\* The iterator of an array gives all of its elements.
LEMMA ArrayGiven ==
    ASSUME NEW info, info.type = "ARRAY", NEW a, ArrayDatum(a)
    PROVE  /\ GivesAll(AsValue(info, a))
           /\ DOMAIN Elements(AsValue(info, a)) = DOMAIN a.elems
           /\ \A i \in DOMAIN a.elems :
                 Elements(AsValue(info, a))[i] = AsObject(info.sub[1], a.elems[i])
  <1> DEFINE iter == AsValue(info, a)
             e == Elements(iter)
  <1>1. e = [i \in DOMAIN a.elems |-> AsObject(info.sub[1], a.elems[i])]
    BY ElementsGiven DEF ArrayDatum
  <1>2. Len(a.elems) \in Nat /\ DOMAIN a.elems = 1..Len(a.elems)
    BY SequenceOK DEF ArrayDatum, IsArray
  <1>3. IsSequence(e)
    <2> HIDE DEF e
    <2> QED BY <1>1, <1>2 DEF IsSequence
  <1>4. \A i \in DOMAIN a.elems : AsObject(info.sub[1], a.elems[i]).isnull \in BOOLEAN
    BY ObjectFlag DEF ArrayDatum
  <1>5. Len(iter.dims) \in Nat
    <2>1. iter.dims = a.dims
      BY DEF AsValue, AsField, Iterator
    <2> QED BY <2>1 DEF ArrayDatum, IsArray, IsSequence
  <1> HIDE DEF iter, e
  <1>6. GivesAll(iter)
    BY <1>1, <1>3, <1>4, <1>5 DEF GivesAll, e
  <1> QED BY <1>1, <1>6 DEF iter, e

\* The column of a Datum.
ColumnDatum(t, x) ==
    /\ MayBeNull(x)
    /\ t.kind = "array" /\ ~x.isnull => ArrayDatum(x.value)

\* A Datum of an array type is an array whose elements may be null.
LEMMA DatumArray ==
    ASSUME NEW t, NEW x
    PROVE  /\ Datum1(t, x) => ColumnDatum(t, x)
           /\ Datum2(t, x) => ColumnDatum(t, x)
           /\ IsDatum(t, x) => ColumnDatum(t, x)
  <1>1. Datum1(t, x) => ColumnDatum(t, x)
    BY DEF Datum1, DatumOf, Datum0, ColumnDatum, ArrayDatum, IsArray
  <1>2. Datum2(t, x) => ColumnDatum(t, x)
    <2>1. \A s, y : Datum1(s, y) => MayBeNull(y)
      BY DEF Datum1, DatumOf
    <2> QED BY <2>1 DEF Datum2, DatumOf, ColumnDatum, ArrayDatum, IsArray
  <1>3. IsDatum(t, x) => ColumnDatum(t, x)
    <2>1. \A s, y : Datum2(s, y) => MayBeNull(y)
      BY DEF Datum2, DatumOf
    <2> QED BY <2>1 DEF IsDatum, DatumOf, ColumnDatum, ArrayDatum, IsArray
  <1> QED BY <1>1, <1>2, <1>3

\* info describes a column of type t.
Describes(info, t) ==
    /\ info.type # "UDT"
    /\ info.type = "ARRAY" => t.kind = "array"

\* The description of a column describes it.
LEMMA ColumnDescribes ==
    ASSUME NEW t, Fits(t, FALSE, TRUE)
    PROVE  /\ Describes(Info1(t, FALSE, TRUE), t)
           /\ Describes(Info2(t, FALSE, TRUE), t)
           /\ t.kind # "row" => Describes(TypeInfo(t), t)
  <1>1. CASE t.kind = "array"
    BY <1>1, ArrayFields DEF Describes
  <1>2. CASE t.kind # "array"
    <2>1. Info1(t, FALSE, TRUE) = ScalarInfo(t, FALSE, TRUE)
          /\ Info2(t, FALSE, TRUE) = ScalarInfo(t, FALSE, TRUE)
          /\ (t.kind # "row" => TypeInfo(t) = ScalarInfo(t, FALSE, FALSE))
      BY <1>2, OtherInfos
    <2>2. \A u \in BOOLEAN : ScalarInfo(t, FALSE, u).type \notin {"ARRAY", "UDT"}
      BY ScalarInfos DEF InfoTypes
    <2> QED BY <2>1, <2>2 DEF Describes
  <1> QED BY <1>1, <1>2

\* A column is converted to what a column is sent from.
LEMMA ColumnGiven ==
    ASSUME NEW info, NEW t, Describes(info, t), NEW x, ColumnDatum(t, x),
           NEW ct, ct.type = info.type
    PROVE  ColumnObject(ct, AsObject(info, x))
  <1> DEFINE o == AsObject(info, x)
  <1>1. /\ o.isnull \in BOOLEAN /\ o.isnull = x.isnull
        /\ ~x.isnull => o.value = AsValue(info, x.value)
    BY ObjectFlag DEF ColumnDatum
  <1>2. ASSUME ct.type = "ARRAY", ~x.isnull PROVE GivesAll(AsValue(info, x.value))
    <2>1. ArrayDatum(x.value)
      BY <1>2 DEF Describes, ColumnDatum
    <2> QED BY <1>2, <2>1, ArrayGiven
  <1> HIDE DEF o
  <1> QED BY <1>1, <1>2 DEF ColumnObject, o

\* info describes the columns of a row of type t.
DescribesRow(info, t) ==
    /\ info.type = "UDT"
    /\ KeptColumns(info.sub) = KeptOf(t.cols)
    /\ \A i \in DOMAIN t.cols : ~t.cols[i].dropped => Describes(info.sub[i], t.cols[i].type)

\* ct is what is sent of the columns that info describes.
CopiesRow(ct, info, t) ==
    /\ DOMAIN ct.sub = DOMAIN KeptOf(t.cols)
    /\ \A j \in DOMAIN ct.sub : ct.sub[j].type = info.sub[KeptOf(t.cols)[j]].type

\* The description of a row describes its columns.
LEMMA RowDescribes ==
    ASSUME NEW t, NEW a \in BOOLEAN, Fits(t, a, FALSE), t.kind = "row"
    PROVE  /\ DescribesRow(Info2(t, a, FALSE), t)
           /\ DescribesRow(TypeInfo(t), t)
           /\ CopiesRow(Copy2(Info2(t, a, FALSE)), Info2(t, a, FALSE), t)
           /\ CopiesRow(CopyType(TypeInfo(t)), TypeInfo(t), t)
  <1> DEFINE i2 == Info2(t, a, FALSE)
             i3 == TypeInfo(t)
             c2 == Copy2(i2)
             c3 == CopyType(i3)
             kept == KeptOf(t.cols)
             col1(i) == Info1(t.cols[i].type, FALSE, TRUE)
             col2(i) == Info2(t.cols[i].type, FALSE, TRUE)
  <1>1. IsRowType(t)
    BY DEF Fits
  <1>2. /\ i2.sub = [i \in DOMAIN t.cols |-> IF t.cols[i].dropped THEN DroppedInfo ELSE col1(i)]
        /\ i3.sub = [i \in DOMAIN t.cols |-> IF t.cols[i].dropped THEN DroppedInfo ELSE col2(i)]
        /\ i2.type = "UDT" /\ i3.type = "UDT"
    BY RowFields
  <1>3. ASSUME NEW i \in DOMAIN t.cols, ~t.cols[i].dropped
        PROVE  /\ Describes(col1(i), t.cols[i].type) /\ col1(i).type # "DROPPED"
               /\ Describes(col2(i), t.cols[i].type) /\ col2(i).type # "DROPPED"
    <2>1. Fits(t.cols[i].type, FALSE, TRUE)
      BY <1>3, ColumnFits
    <2>2. InfoOK(col1(i), FALSE, TRUE) /\ InfoOK(col2(i), FALSE, TRUE)
      BY InfosOK
    <2>3. Describes(col1(i), t.cols[i].type) /\ Describes(col2(i), t.cols[i].type)
      BY <2>1, ColumnDescribes
    <2> HIDE DEF col1, col2
    <2> QED BY <2>2, <2>3 DEF InfoOK, InfoTypes
  <1>4. \A j \in DOMAIN kept : kept[j] \in DOMAIN t.cols /\ ~t.cols[kept[j]].dropped
    BY <1>1, KeptOK
  <1>5. /\ c2.sub = [j \in DOMAIN kept |-> Copy1(col1(kept[j]))]
        /\ c3.sub = [j \in DOMAIN kept |-> Copy2(col2(kept[j]))]
    BY CopyOfRow
  <1>6. \A i \in DOMAIN t.cols :
           /\ i2.sub[i].type = "DROPPED" <=> t.cols[i].dropped
           /\ i3.sub[i].type = "DROPPED" <=> t.cols[i].dropped
    <2> HIDE DEF i2, i3, col1, col2
    <2> QED BY <1>2, <1>3 DEF DroppedInfo
  <1>7. DOMAIN i2.sub = DOMAIN t.cols /\ DOMAIN i3.sub = DOMAIN t.cols
    <2> HIDE DEF i2, i3, col1, col2
    <2> QED BY <1>2
  <1>8. KeptColumns(i2.sub) = kept /\ KeptColumns(i3.sub) = kept
    <2> DEFINE s2 == i2.sub
               s3 == i3.sub
    <2>1. \A i \in DOMAIN t.cols : s2[i].type = "DROPPED" <=> t.cols[i].dropped
      BY <1>6
    <2>2. \A i \in DOMAIN t.cols : s3[i].type = "DROPPED" <=> t.cols[i].dropped
      BY <1>6
    <2>3. DOMAIN s2 = DOMAIN t.cols /\ DOMAIN s3 = DOMAIN t.cols
      BY <1>7
    <2> HIDE DEF i2, i3, s2, s3
    <2>4. KeptColumns(s2) = kept
      BY <1>1, <2>1, <2>3, KeptOfInfos
    <2>5. KeptColumns(s3) = kept
      BY <1>1, <2>2, <2>3, KeptOfInfos
    <2> QED BY <2>4, <2>5 DEF s2, s3
  <1> HIDE DEF i2, i3, c2, c3, kept, col1, col2
  <1>9. DescribesRow(i2, t) /\ DescribesRow(i3, t)
    BY <1>2, <1>3, <1>8 DEF DescribesRow, kept
  <1>10. CopiesRow(c2, i2, t) /\ CopiesRow(c3, i3, t)
    BY <1>2, <1>4, <1>5, CopyTypes DEF CopiesRow, kept
  <1> QED BY <1>9, <1>10 DEF i2, i3, c2, c3

\* The columns of a Datum.
RowDatum(t, x) ==
    /\ MayBeNull(x)
    /\ ~x.isnull => \A i \in DOMAIN t.cols :
          ~t.cols[i].dropped => ColumnDatum(t.cols[i].type, x.value[i])

\* A row is converted to what a row is sent from.
LEMMA RowGiven ==
    ASSUME NEW t, IsRowType(t), NEW info, DescribesRow(info, t),
           NEW ct, CopiesRow(ct, info, t), NEW x, RowDatum(t, x)
    PROVE  RowObject(ct, AsObject(info, x))
  <1> DEFINE o == AsObject(info, x)
             kept == KeptOf(t.cols)
  <1>1. /\ o.isnull \in BOOLEAN /\ o.isnull = x.isnull
        /\ ~x.isnull => o.value = AsValue(info, x.value)
    BY ObjectFlag DEF RowDatum
  <1>2. AsValue(info, x.value) =
          [j \in DOMAIN kept |-> AsObject(info.sub[kept[j]], x.value[kept[j]])]
    <2>1. \A i \in DOMAIN t.cols : ~t.cols[i].dropped => info.sub[i].type # "UDT"
      BY DEF DescribesRow, Describes
    <2>2. info.type = "UDT" /\ KeptColumns(info.sub) = KeptOf(t.cols)
      BY DEF DescribesRow
    <2> QED BY <2>1, <2>2, ColumnsGiven
  <1>3. \A j \in DOMAIN kept : kept[j] \in DOMAIN t.cols /\ ~t.cols[kept[j]].dropped
    BY KeptOK
  <1>4. ASSUME NEW j \in DOMAIN kept, ~x.isnull
        PROVE  ColumnObject(ct.sub[j], AsObject(info.sub[kept[j]], x.value[kept[j]]))
    <2>1. Describes(info.sub[kept[j]], t.cols[kept[j]].type)
          /\ ColumnDatum(t.cols[kept[j]].type, x.value[kept[j]])
      BY <1>3, <1>4 DEF DescribesRow, RowDatum
    <2>2. ct.sub[j].type = info.sub[kept[j]].type
      BY DEF CopiesRow
    <2> HIDE DEF kept
    <2> QED BY <2>1, <2>2, ColumnGiven
  <1>5. DOMAIN ct.sub = DOMAIN kept
    BY DEF CopiesRow
  <1> HIDE DEF o, kept
  <1> QED BY <1>1, <1>2, <1>4, <1>5 DEF RowObject, o

\* Every value of every type is converted to what a message is sent from.
LEMMA MessageGiven ==
    ASSUME NEW t, IsType(t), NEW x, IsDatum(t, x)
    PROVE  MessageObject(CopyType(TypeInfo(t)), AsObject(TypeInfo(t), x))
  <1> DEFINE info == TypeInfo(t)
             ct == CopyType(info)
             o == AsObject(info, x)
  <1>1. Fits(t, FALSE, FALSE) /\ ct.type = info.type
    BY CopyTypes DEF Fits, IsType
  <1>2. ColumnDatum(t, x) /\ MayBeNull(x)
    BY DatumArray DEF ColumnDatum
  <1>3. CASE t.kind = "row"
    <2>1. RowDatum(t, x)
      <3>1. ASSUME ~x.isnull, NEW i \in DOMAIN t.cols, ~t.cols[i].dropped
            PROVE  ColumnDatum(t.cols[i].type, x.value[i])
        <4>1. Datum2(t.cols[i].type, x.value[i])
          BY <1>3, <3>1 DEF IsDatum, DatumOf
        <4> QED BY <4>1, DatumArray
      <3> QED BY <1>2, <3>1 DEF RowDatum
    <2>2. DescribesRow(info, t) /\ CopiesRow(ct, info, t) /\ IsRowType(t)
      BY <1>1, <1>3, RowDescribes DEF Fits
    <2>3. ct.type = "UDT"
      BY <1>1, <2>2 DEF DescribesRow
    <2> HIDE DEF ct, info
    <2>4. RowObject(ct, o)
      BY <2>1, <2>2, RowGiven
    <2> QED BY <2>3, <2>4 DEF MessageObject, IsColumn, IsLeaf, IsLeafArray, IsRowArray, ct, info
  <1>4. CASE t.kind # "row"
    <2>1. Describes(info, t)
      <3>1. Fits(t, FALSE, TRUE)
        BY <1>1 DEF Fits
      <3> QED BY <1>4, <3>1, ColumnDescribes
    <2>2. ColumnObject(ct, o)
      <3> HIDE DEF ct, info
      <3> QED BY <1>1, <1>2, <2>1, ColumnGiven
    <2>3. ASSUME IsRowArray(ct) PROVE RowsObject(ct, o)
      <3> DEFINE s == Info2(t.elem, TRUE, FALSE)
      <3>1. t.kind = "array" /\ info.type = "ARRAY"
        BY <1>1, <2>1, <2>3 DEF IsRowArray, Describes
      <3>2. Fits(t.elem, TRUE, FALSE)
        BY <1>1, <3>1, ElementFits
      <3>3. t.elem.kind = "row"
        <4>1. CASE t.elem.kind # "row"
          <5>1. IsLeafArray(ct)
            BY <3>1, <3>2, <4>1, LeafArrayIs DEF Fits
          <5> QED BY <2>3, <5>1 DEF IsRowArray, IsLeafArray, IsRow, IsLeaf
        <4> QED BY <4>1
      <3>4. info.sub = <<s>>
        <4>1. info = [type |-> "ARRAY", ptr |-> FALSE, sub |-> <<s>>]
          BY <3>1, ArrayInfos
        <4> HIDE DEF info, s
        <4> QED BY <4>1
      <3>5. ct.sub[1] = Copy2(s)
        <4>1. s.type # "DROPPED"
          BY <3>3, RowFields
        <4> HIDE DEF info, s
        <4>2. ct = [type |-> info.type, sub |-> <<Copy2(s)>>]
          BY <3>4, <4>1, CopyOfArray
        <4> HIDE DEF ct
        <4> QED BY <4>2
      <3>6. DescribesRow(s, t.elem) /\ CopiesRow(Copy2(s), s, t.elem) /\ IsRowType(t.elem)
        BY <3>2, <3>3, RowDescribes DEF Fits
      <3>7. ASSUME ~x.isnull, NEW i \in DOMAIN x.value.elems
            PROVE  RowObject(Copy2(s), AsObject(s, x.value.elems[i]))
        <4>1. Datum2(t.elem, x.value.elems[i])
          BY <3>1, <3>7 DEF IsDatum, DatumOf
        <4>2. RowDatum(t.elem, x.value.elems[i])
          <5> DEFINE y == x.value.elems[i]
          <5>1. MayBeNull(y)
            BY <4>1 DEF Datum2, DatumOf
          <5>2. ASSUME ~y.isnull, NEW j \in DOMAIN t.elem.cols, ~t.elem.cols[j].dropped
                PROVE  ColumnDatum(t.elem.cols[j].type, y.value[j])
            <6>1. Datum1(t.elem.cols[j].type, y.value[j])
              BY <3>3, <4>1, <5>2 DEF Datum2, DatumOf
            <6> QED BY <6>1, DatumArray
          <5> QED BY <5>1, <5>2 DEF RowDatum
        <4> HIDE DEF s
        <4> QED BY <3>6, <4>2, RowGiven
      <3>8. /\ o.isnull \in BOOLEAN /\ o.isnull = x.isnull
            /\ ~x.isnull => o.value = AsValue(info, x.value)
        BY <1>2, ObjectFlag
      <3>9. ASSUME ~x.isnull
            PROVE  /\ GivesAll(o.value)
                   /\ \A i \in DOMAIN Elements(o.value) : RowObject(ct.sub[1], Elements(o.value)[i])
        <4>1. ArrayDatum(x.value)
          BY <1>2, <3>1, <3>9 DEF ColumnDatum
        <4>2. /\ GivesAll(AsValue(info, x.value))
              /\ DOMAIN Elements(AsValue(info, x.value)) = DOMAIN x.value.elems
              /\ \A i \in DOMAIN x.value.elems :
                    Elements(AsValue(info, x.value))[i] = AsObject(info.sub[1], x.value.elems[i])
          BY <3>1, <4>1, ArrayGiven
        <4>3. info.sub[1] = s
          <5> HIDE DEF info, s
          <5> QED BY <3>4
        <4> HIDE DEF info, o, ct, s
        <4> QED BY <3>5, <3>7, <3>8, <3>9, <4>2, <4>3
      <3> HIDE DEF info, ct, o
      <3> QED BY <3>8, <3>9 DEF RowsObject
    <2>4. ~IsRow(ct)
      BY <1>1, <2>1 DEF IsRow, Describes
    <2> QED BY <2>2, <2>3, <2>4 DEF MessageObject
  <1> QED BY <1>3, <1>4

-----------------------------------------------------------------------------
(* Sending.                                                                *)

\* The uses of what the outfunc of a type allocates.
SendUses == {"value", "meta", "position", "dims", "data"}

\* From m to r, I was freed and all else is as before; but when something could
\* not be sent, there may be more.
Sends(m, r, I) ==
    /\ r \in Memory
    /\ r.wild = m.wild
    /\ m.live \ I \subseteq r.live
    /\ m.failed => r.failed
    /\ ~r.failed => r.live = m.live \ I

\* At p and below there is O, unless something could not be sent; and K is
\* there, too, wherever it is.
Ready(m, K, O, raw, p) ==
    /\ K \cup O \subseteq m.live
    /\ ~m.failed =>
          /\ m.live \cap Under(SendUses, p) = O
          /\ m.live \cap Under({"rawdata"}, p) \subseteq raw

\* A step that changes nothing, when there is nothing to free or sending has failed.
LEMMA SendsNone ==
    ASSUME NEW m \in Memory, NEW I, m.failed \/ I = {}
    PROVE  Sends(m, m, I)
  BY DEF Sends

\* One after the other, two steps free what both free.
LEMMA SendsThen ==
    ASSUME NEW m, NEW x, NEW y, NEW A, NEW B, Sends(m, x, A), Sends(x, y, B)
    PROVE  Sends(m, y, A \cup B)
  <1>1. m.live \ (A \cup B) \subseteq y.live
    BY DEF Sends
  <1>2. ASSUME ~y.failed PROVE y.live = m.live \ (A \cup B)
    <2>1. ~x.failed /\ y.live = x.live \ B
      BY <1>2 DEF Sends
    <2> QED BY <2>1 DEF Sends
  <1>3. m.failed => y.failed
    BY DEF Sends
  <1> QED BY <1>1, <1>2, <1>3 DEF Sends

\* An append changes no block, and does not undo a failure.
LEMMA PutOK ==
    ASSUME NEW m \in Memory, NEW k \in Nat
    PROVE  /\ Put(m, k) \in Memory
           /\ Put(m, k).live = m.live /\ Put(m, k).wild = m.wild
           /\ m.failed => Put(m, k).failed
           /\ Sends(m, Put(m, k), {})
  <1> DEFINE live == m.live  wild == m.wild  left == m.left  failed == m.failed
             M(l, f) == [live |-> live, wild |-> wild, left |-> l, failed |-> f]
  <1>1. m = M(left, failed) /\ left \in 0..Unlimited /\ failed \in BOOLEAN
        /\ live \subseteq Blocks /\ wild \subseteq Blocks
    BY MemoryFields
  <1>2. MaxSends \in Nat /\ Unlimited \in Nat
    BY MemoryAssumption DEF Unlimited
  <1>3. Put(m, k) = IF left = Unlimited THEN m
                    ELSE IF k <= left THEN [m EXCEPT !.left = left - k]
                    ELSE [m EXCEPT !.left = 0, !.failed = TRUE]
    BY DEF Put
  <1> HIDE DEF live, wild, left, failed
  <1>4. [m EXCEPT !.left = left - k] = M(left - k, failed)
    BY <1>1
  <1>5. [m EXCEPT !.left = 0, !.failed = TRUE] = M(0, TRUE)
    <2> DEFINE a == [m EXCEPT !.left = 0]
    <2>1. a = M(0, failed)
      BY <1>1
    <2>2. [m EXCEPT !.left = 0, !.failed = TRUE] = [a EXCEPT !.failed = TRUE]
      OBVIOUS
    <2> HIDE DEF a
    <2>3. \A f : [a EXCEPT !.failed = f] = M(0, f)
      BY <2>1
    <2> QED BY <2>2, <2>3
  <1>6. \E l \in 0..Unlimited, f \in BOOLEAN : (failed => f) /\ Put(m, k) = M(l, f)
    <2>1. CASE left = Unlimited
      BY <1>1, <1>3, <2>1
    <2>2. CASE left # Unlimited /\ k <= left
      <3>1. left - k \in 0..Unlimited
        BY <1>1, <1>2, <2>2
      <3> QED BY <1>1, <1>3, <1>4, <2>2, <3>1
    <2>3. CASE left # Unlimited /\ ~ (k <= left)
      <3>1. 0 \in 0..Unlimited
        BY <1>2
      <3> QED BY <1>3, <1>5, <2>3, <3>1
    <2> QED BY <2>1, <2>2, <2>3
  <1>7. PICK l \in 0..Unlimited, f \in BOOLEAN : (failed => f) /\ Put(m, k) = M(l, f)
    BY <1>6
  <1>8. /\ Put(m, k) \in Memory
        /\ Put(m, k).live = live /\ Put(m, k).wild = wild /\ Put(m, k).failed = f
    BY <1>1, <1>7 DEF Memory, Blocks
  <1> QED BY <1>7, <1>8 DEF Sends, live, wild, failed

\* Reading what is there changes nothing.
LEMMA ReadLive ==
    ASSUME NEW m \in Memory, NEW A \in SUBSET m.live
    PROVE  Read(m, A) = m
  <1>1. A \subseteq Blocks /\ m.wild \cup (A \ m.live) = m.wild
    BY MemoryFields
  <1>2. Read(m, A) = [live |-> m.live, wild |-> m.wild \cup (A \ m.live),
                      left |-> m.left, failed |-> m.failed]
    BY <1>1, ReadOK
  <1> QED BY <1>1, <1>2, MemoryFields

\* Freeing what is there makes nothing wild.
LEMMA FreeLive ==
    ASSUME NEW m \in Memory, NEW A \in SUBSET m.live
    PROVE  /\ Free(m, A) \in Memory
           /\ Free(m, A).live = m.live \ A /\ Free(m, A).wild = m.wild
           /\ Free(m, A).failed = m.failed
           /\ Sends(m, Free(m, A), A)
  <1>1. A \subseteq Blocks /\ m.wild \cup (A \ m.live) = m.wild
    BY MemoryFields
  <1>2. /\ Free(m, A) \in Memory
        /\ Free(m, A) = [live |-> m.live \ A, wild |-> m.wild \cup (A \ m.live),
                         left |-> m.left, failed |-> m.failed]
    BY <1>1, FreeOK
  <1> QED BY <1>1, <1>2 DEF Sends

\* What allocating does, field by field.
LEMMA AllocOK ==
    ASSUME NEW m \in Memory, NEW A \in SUBSET Blocks
    PROVE  /\ Alloc(m, A) \in Memory
           /\ Alloc(m, A).live = m.live \cup A /\ Alloc(m, A).wild = m.wild
           /\ Alloc(m, A).failed = m.failed /\ Alloc(m, A).left = m.left
  <1> DEFINE live == m.live  wild == m.wild  left == m.left  failed == m.failed
             all == m.live \cup A
  <1>1. m = [live |-> live, wild |-> wild, left |-> left, failed |-> failed]
        /\ left \in 0..Unlimited /\ failed \in BOOLEAN
        /\ all \subseteq Blocks /\ wild \subseteq Blocks
    BY MemoryFields
  <1>2. Alloc(m, A) = [m EXCEPT !.live = all]
    BY DEF Alloc
  <1> HIDE DEF live, wild, left, failed, all
  <1>3. Alloc(m, A) = [live |-> all, wild |-> wild, left |-> left, failed |-> failed]
    BY <1>1, <1>2
  <1>4. Alloc(m, A) \in Memory
    BY <1>1, <1>3 DEF Memory, Blocks
  <1> QED BY <1>3, <1>4 DEF live, wild, left, failed, all

\* n steps that send, each below a path of its own.
StepsSend(step, n, K, O, I, p) ==
    \A i \in 1..n : \A x \in Memory :
        Ready(x, K, O[i], {}, At(p, i)) => Sends(x, step[i][x], I[i])

\* K is not below any of these paths, and O[i] is below the i-th of them; I[i]
\* is part of it.
Apart(n, K, O, I, p) ==
    \A i \in 1..n :
        /\ K \cap Under(SendUses, At(p, i)) = {}
        /\ O[i] \subseteq Under(SendUses, At(p, i))
        /\ I[i] \subseteq O[i]

\* A loop over the parts of a value, each ready to be sent, frees the iterators of
\* all of them, unless one of them could not be sent.
LEMMA SendLoop ==
    ASSUME NEW m \in Memory, NEW n \in Nat, NEW p \in Seq(Nat),
           NEW Top \in SUBSET (SendUses \X {p}), NEW K, NEW O, NEW I, NEW step,
           Apart(n, K, O, I, p),
           Ready(m, K, Top \cup AllOf(O, n), {Block("rawdata", p)}, p),
           StepsSend(step, n, K, O, I, p)
    PROVE  Sends(m, InTurn(step, m, n), AllOf(I, n))
  <1> DEFINE Inv == {y \in (0..n) \X Memory : Sends(m, y[2], AllOf(I, y[1]))}
  <1>1. <<0, m>> \in Inv
    <2>1. AllOf(I, 0) = {} /\ 0 \in 0..n
      BY DEF AllOf
    <2>2. Sends(m, m, {})
      BY SendsNone
    <2> QED BY <2>1, <2>2
  <1>2. ASSUME NEW i \in 1..n, NEW x, <<i - 1, x>> \in Inv
        PROVE  <<i, step[i][x]>> \in Inv
    <2> DEFINE q == At(p, i)
               Sent == AllOf(I, i - 1)
    <2>1. x \in Memory /\ Sends(m, x, Sent)
      BY <1>2
    <2>2. Sent \cap K = {} /\ Sent \cap Under(SendUses, q) = {}
      <3>1. \A k \in 1..(i - 1) : k \in 1..n /\ k # i
        OBVIOUS
      <3>2. ASSUME NEW k \in 1..(i - 1) PROVE I[k] \cap K = {} /\ I[k] \cap Under(SendUses, q) = {}
        <4>1. I[k] \subseteq Under(SendUses, At(p, k)) /\ K \cap Under(SendUses, At(p, k)) = {}
          BY <3>1 DEF Apart
        <4>2. Under(SendUses, At(p, k)) \cap Under(SendUses, q) = {}
          BY <3>1, UnderApart
        <4> QED BY <4>1, <4>2
      <3> QED BY <3>2 DEF AllOf
    <2>3. O[i] \subseteq Under(SendUses, q) /\ I[i] \subseteq O[i]
      BY DEF Apart
    <2>4. O[i] \subseteq AllOf(O, n)
      BY DEF AllOf
    <2>5. /\ Under(SendUses, q) \subseteq Under(SendUses, p)
          /\ Under({"rawdata"}, q) \subseteq Under({"rawdata"}, p)
          /\ Under(SendUses, q) \cap (SendUses \X {p}) = {}
          /\ Under({"rawdata"}, q) \cap ({"rawdata"} \X {p}) = {}
      <3>1. \A U : /\ Under(U, q) \subseteq Under(U, p)
                   /\ \A V : Under(U, q) \cap (V \X {p}) = {}
        BY UnderBelow
      <3> HIDE DEF q
      <3> QED BY <3>1
    <2>6. Under(SendUses, q) \cap AllOf(O, n) \subseteq O[i]
      <3>1. ASSUME NEW k \in 1..n, k # i PROVE Under(SendUses, q) \cap O[k] = {}
        <4>1. O[k] \subseteq Under(SendUses, At(p, k))
          BY DEF Apart
        <4>2. Under(SendUses, At(p, k)) \cap Under(SendUses, q) = {}
          BY <3>1, UnderApart
        <4> QED BY <4>1, <4>2
      <3> QED BY <3>1 DEF AllOf
    <2>7. K \cup O[i] \subseteq x.live
      <3> HIDE DEF q, Sent
      <3>1. K \subseteq m.live /\ O[i] \subseteq m.live
        BY <2>4 DEF Ready
      <3> QED BY <2>1, <2>2, <2>3, <3>1 DEF Sends
    <2>8. ASSUME ~x.failed
          PROVE  /\ x.live \cap Under(SendUses, q) = O[i]
                 /\ x.live \cap Under({"rawdata"}, q) \subseteq {}
      <3> HIDE DEF q, Sent
      <3>1. ~m.failed /\ x.live = m.live \ Sent
        BY <2>1, <2>8 DEF Sends
      <3>2. /\ m.live \cap Under(SendUses, p) = Top \cup AllOf(O, n)
            /\ m.live \cap Under({"rawdata"}, p) \subseteq {Block("rawdata", p)}
        BY <3>1 DEF Ready
      <3>3. x.live \cap Under(SendUses, q) \subseteq O[i]
        BY <2>5, <2>6, <3>1, <3>2
      <3>4. O[i] \subseteq x.live
        BY <2>7
      <3>5. Block("rawdata", p) \in {"rawdata"} \X {p}
        BY DEF Block
      <3>6. x.live \cap Under({"rawdata"}, q) \subseteq {}
        BY <2>5, <3>1, <3>2, <3>5
      <3> QED BY <2>3, <3>3, <3>4, <3>6
    <2>9. Ready(x, K, O[i], {}, q)
      BY <2>7, <2>8 DEF Ready
    <2>10. Sends(x, step[i][x], I[i])
      BY <2>1, <2>9 DEF StepsSend
    <2>11. Sent \cup I[i] = AllOf(I, i)
      <3>1. 1..i = 1..(i - 1) \cup {i}
        OBVIOUS
      <3> QED BY <3>1 DEF AllOf
    <2>12. Sends(m, step[i][x], AllOf(I, i))
      <3> HIDE DEF Sent
      <3>1. Sends(m, step[i][x], Sent \cup I[i])
        BY <2>1, <2>10, SendsThen
      <3> QED BY <2>11, <3>1
    <2>13. step[i][x] \in Memory /\ i \in 0..n
      BY <2>12 DEF Sends
    <2> QED BY <2>12, <2>13
  <1> HIDE DEF Inv
  <1>3. <<n, InTurn(step, m, n)>> \in Inv
    BY <1>1, <1>2, EachOK
  <1> QED BY <1>3 DEF Inv

-----------------------------------------------------------------------------
(* What is allocated to send a value: what sending it frees, and what is   *)
(* freed with the message.                                                 *)

IterUses == {"meta", "position", "dims"}
KeptUses == {"value", "data"}

FieldIter(t, o, p) ==
    IF t.type = "ARRAY" /\ ~o.isnull
    THEN {Block("meta", p), Block("position", p)} \cup Dims(o.value, p) ELSE {}
FieldKept(o, p) == IF o.isnull THEN {} ELSE {Block("value", p)}

\* The same of each column.
ColIters(t, o, p) == [j \in DOMAIN t.sub |-> FieldIter(t.sub[j], o.value[j], At(p, j))]
ColsKept(t, o, p) == [j \in DOMAIN t.sub |-> FieldKept(o.value[j], At(p, j))]
ColBlocks(t, o, p) == [j \in DOMAIN t.sub |-> FieldBlocks(t.sub[j], o.value[j], At(p, j))]

Iter(t, o, p) ==
    IF t.type # "UDT" THEN FieldIter(t, o, p)
    ELSE IF o.isnull THEN {} ELSE AllOf(ColIters(t, o, p), Len(t.sub))

Kept(t, o, p) ==
    FieldKept(o, p) \cup
    IF t.type # "UDT" \/ o.isnull THEN {}
    ELSE {Block("data", p)} \cup AllOf(ColsKept(t, o, p), Len(t.sub))

\* The blocks of a value that is not a row are at its path.
LEMMA FieldsOK ==
    ASSUME NEW t, NEW o, LeafObject(o), NEW p \in Seq(Nat)
    PROVE  /\ FieldIter(t, o, p) \subseteq IterUses \X {p}
           /\ FieldKept(o, p) \subseteq KeptUses \X {p}
           /\ FieldBlocks(t, o, p) = FieldIter(t, o, p) \cup FieldKept(o, p)
           /\ FieldBlocks(t, o, p) \subseteq SendUses \X {p}
           /\ FieldBlocks(t, o, p) \subseteq Under(SendUses, p)
           /\ FieldIter(t, o, p) \subseteq Under(IterUses, p)
           /\ FieldKept(o, p) \subseteq Under(KeptUses, p)
  <1>1. FieldIter(t, o, p) \subseteq IterUses \X {p}
    BY DEF LeafObject, FieldIter, IterUses, Dims, Block
  <1>2. FieldKept(o, p) \subseteq KeptUses \X {p}
    BY DEF FieldKept, KeptUses, Block
  <1>3. FieldBlocks(t, o, p) = FieldIter(t, o, p) \cup FieldKept(o, p)
    BY DEF FieldBlocks, FieldIter, FieldKept
  <1>4. IterUses \X {p} \subseteq SendUses \X {p} /\ KeptUses \X {p} \subseteq SendUses \X {p}
    BY DEF IterUses, KeptUses, SendUses
  <1>5. FieldBlocks(t, o, p) \subseteq SendUses \X {p}
    BY <1>1, <1>2, <1>3, <1>4
  <1>6. \A U : U \X {p} \subseteq Under(U, p)
    BY UnderThis
  <1>7. FieldIter(t, o, p) \subseteq Under(IterUses, p)
    BY <1>1, <1>6
  <1>8. FieldKept(o, p) \subseteq Under(KeptUses, p)
    BY <1>2, <1>6
  <1>9. FieldBlocks(t, o, p) \subseteq Under(SendUses, p)
    BY <1>5, <1>6
  <1> QED BY <1>1, <1>2, <1>3, <1>5, <1>7, <1>8, <1>9

\* More uses, more blocks.
LEMMA UnderMore ==
    ASSUME NEW U, NEW V, U \subseteq V, NEW p
    PROVE  Under(U, p) \subseteq Under(V, p) /\ Under(U, p) \subseteq U \X Seq(Nat)
  BY DEF Under

\* The blocks of an iterator are none of those kept until the message is freed.
LEMMA UsesOK ==
    /\ IterUses \subseteq SendUses /\ KeptUses \subseteq SendUses /\ SendUses \subseteq Uses
    /\ \A A, B : A \subseteq IterUses \X Seq(Nat) /\ B \subseteq KeptUses \X Seq(Nat)
                    => A \cap B = {}
  BY DEF IterUses, KeptUses, SendUses, Uses

\* All of these are below the path of the value.
AllBelow(t, o, p) ==
    /\ OutBlocks(t, o, p) = Iter(t, o, p) \cup Kept(t, o, p)
    /\ Iter(t, o, p) \subseteq Under(IterUses, p)
    /\ Kept(t, o, p) \subseteq Under(KeptUses, p)
    /\ OutBlocks(t, o, p) \subseteq Under(SendUses, p)
    /\ Iter(t, o, p) \cap Kept(t, o, p) = {}

\* AllBelow follows from where the two kinds of blocks are.
LEMMA Below ==
    ASSUME NEW t, NEW o, NEW p \in Seq(Nat),
           OutBlocks(t, o, p) = Iter(t, o, p) \cup Kept(t, o, p),
           Iter(t, o, p) \subseteq Under(IterUses, p),
           Kept(t, o, p) \subseteq Under(KeptUses, p)
    PROVE  AllBelow(t, o, p)
  <1>1. Under(IterUses, p) \subseteq Under(SendUses, p)
        /\ Under(KeptUses, p) \subseteq Under(SendUses, p)
        /\ Under(IterUses, p) \subseteq IterUses \X Seq(Nat)
        /\ Under(KeptUses, p) \subseteq KeptUses \X Seq(Nat)
    BY UsesOK, UnderMore
  <1>2. Iter(t, o, p) \subseteq IterUses \X Seq(Nat) /\ Kept(t, o, p) \subseteq KeptUses \X Seq(Nat)
    BY <1>1
  <1>3. Iter(t, o, p) \cap Kept(t, o, p) = {}
    BY <1>2, UsesOK
  <1> QED BY <1>1, <1>3 DEF AllBelow

\* The blocks of a column.
LEMMA ColumnBelow ==
    ASSUME NEW t, t.type # "UDT", NEW o, LeafObject(o), NEW p \in Seq(Nat)
    PROVE  AllBelow(t, o, p) /\ OutBlocks(t, o, p) = FieldBlocks(t, o, p)
           /\ Iter(t, o, p) = FieldIter(t, o, p) /\ Kept(t, o, p) = FieldKept(o, p)
  <1>1. OutBlocks(t, o, p) = FieldBlocks(t, o, p)
    BY DEF OutBlocks
  <1>2. Iter(t, o, p) = FieldIter(t, o, p) /\ Kept(t, o, p) = FieldKept(o, p)
    BY DEF Iter, Kept
  <1>3. /\ FieldIter(t, o, p) \subseteq Under(IterUses, p)
        /\ FieldKept(o, p) \subseteq Under(KeptUses, p)
    BY FieldsOK
  <1>4. OutBlocks(t, o, p) = Iter(t, o, p) \cup Kept(t, o, p)
    BY <1>1, <1>2, FieldsOK
  <1> QED BY <1>1, <1>2, <1>3, <1>4, Below

\* B[j] is below the path of the j-th column.
Columns(B, t, U, p) == \A j \in DOMAIN t.sub : B[j] \subseteq Under(U, At(p, j))

\* What is below the columns of a row is below the row.
LEMMA ColumnsBelow ==
    ASSUME NEW t, IsSequence(t.sub), NEW U, NEW p \in Seq(Nat), NEW B, Columns(B, t, U, p)
    PROVE  AllOf(B, Len(t.sub)) \subseteq Under(U, p)
  <1>1. \A j \in DOMAIN t.sub : j \in Nat
    <2> DEFINE sub == t.sub
    <2> HIDE DEF sub
    <2>1. Len(sub) \in Nat /\ DOMAIN sub = 1..Len(sub)
      BY SequenceOK DEF sub
    <2>2. \A j \in DOMAIN sub : j \in Nat
      BY <2>1
    <2> QED BY <2>2 DEF sub
  <1>2. \A j \in DOMAIN t.sub : B[j] \subseteq Under(U, p)
    <2>1. ASSUME NEW j \in DOMAIN t.sub PROVE B[j] \subseteq Under(U, p)
      <3>1. B[j] \subseteq Under(U, At(p, j))
        BY DEF Columns
      <3>2. Under(U, At(p, j)) \subseteq Under(U, p)
        BY <1>1, UnderBelow
      <3> QED BY <3>1, <3>2
    <2> QED BY <2>1
  <1>3. DOMAIN t.sub = 1..Len(t.sub)
    BY SequenceOK
  <1> QED BY <1>2, <1>3 DEF AllOf

\* The blocks of a row, and of its columns.
LEMMA RowBelow ==
    ASSUME NEW t, IsRow(t), NEW o, RowObject(t, o), NEW p \in Seq(Nat)
    PROVE  /\ AllBelow(t, o, p)
           /\ ~o.isnull =>
                 /\ Columns(ColIters(t, o, p), t, IterUses, p)
                 /\ Columns(ColsKept(t, o, p), t, KeptUses, p)
                 /\ Columns(ColBlocks(t, o, p), t, SendUses, p)
                 /\ OutBlocks(t, o, p) = {Block("value", p), Block("data", p)}
                                           \cup AllOf(ColBlocks(t, o, p), Len(t.sub))
  <1>1. t.type = "UDT" /\ IsSequence(t.sub) /\ o.isnull \in BOOLEAN
    BY DEF IsRow, RowObject
  <1>2. CASE o.isnull
    <2>1. OutBlocks(t, o, p) = {} /\ Iter(t, o, p) = {} /\ Kept(t, o, p) = {}
      BY <1>1, <1>2 DEF OutBlocks, FieldBlocks, Iter, Kept, FieldKept
    <2>2. AllBelow(t, o, p)
      BY <2>1, Below
    <2> QED BY <1>2, <2>2
  <1>3. CASE ~o.isnull
    <2> DEFINE B == ColBlocks(t, o, p)
               I == ColIters(t, o, p)
               C == ColsKept(t, o, p)
               n == Len(t.sub)
    <2>1. ASSUME NEW j \in DOMAIN t.sub
          PROVE  /\ B[j] = I[j] \cup C[j]
                 /\ B[j] \subseteq Under(SendUses, At(p, j))
                 /\ I[j] \subseteq Under(IterUses, At(p, j))
                 /\ C[j] \subseteq Under(KeptUses, At(p, j))
      <3> DEFINE s == t.sub[j]
                 v == o.value[j]
                 q == At(p, j)
      <3>1. q \in Seq(Nat)
        <4>1. DOMAIN t.sub = 1..Len(t.sub)
          BY <1>1, SequenceOK
        <4>2. j \in Nat
          BY <4>1
        <4> QED BY <4>2, Paths
      <3>2. o.value[j].isnull \in BOOLEAN
        BY <1>3 DEF RowObject, ColumnObject
      <3>3. LeafObject(v)
        BY <3>2 DEF LeafObject
      <3>4. B[j] = FieldBlocks(s, v, q) /\ I[j] = FieldIter(s, v, q) /\ C[j] = FieldKept(v, q)
        BY DEF ColBlocks, ColIters, ColsKept
      <3> HIDE DEF s, v, q, B, I, C
      <3>5. /\ FieldIter(s, v, q) \subseteq Under(IterUses, q)
            /\ FieldKept(v, q) \subseteq Under(KeptUses, q)
            /\ FieldBlocks(s, v, q) \subseteq Under(SendUses, q)
            /\ FieldBlocks(s, v, q) = FieldIter(s, v, q) \cup FieldKept(v, q)
        BY <3>1, <3>3, FieldsOK
      <3> QED BY <3>4, <3>5 DEF q
    <2>2. n \in Nat /\ DOMAIN t.sub = 1..n
      BY <1>1, SequenceOK
    <2>3. OutBlocks(t, o, p) = {Block("value", p), Block("data", p)} \cup AllOf(B, n)
      BY <1>1, <1>3, <2>2 DEF OutBlocks, FieldBlocks, AllOf, ColBlocks
    <2>4. Iter(t, o, p) = AllOf(I, n)
      BY <1>1, <1>3 DEF Iter
    <2>5. Kept(t, o, p) = {Block("value", p), Block("data", p)} \cup AllOf(C, n)
      BY <1>1, <1>3 DEF Kept, FieldKept
    <2> HIDE DEF B, I, C
    <2>6. AllOf(B, n) = AllOf(I, n) \cup AllOf(C, n)
      BY <2>1, <2>2 DEF AllOf
    <2>7. Columns(I, t, IterUses, p) /\ Columns(C, t, KeptUses, p) /\ Columns(B, t, SendUses, p)
      BY <2>1 DEF Columns
    <2>8. AllOf(I, n) \subseteq Under(IterUses, p) /\ AllOf(C, n) \subseteq Under(KeptUses, p)
      BY <1>1, <2>7, ColumnsBelow
    <2>9. {Block("value", p), Block("data", p)} \subseteq Under(KeptUses, p)
      <3>1. {Block("value", p), Block("data", p)} \subseteq KeptUses \X {p}
        BY DEF Block, KeptUses
      <3> QED BY <3>1, UnderThis
    <2>10. AllBelow(t, o, p)
      <3>1. OutBlocks(t, o, p) = Iter(t, o, p) \cup Kept(t, o, p)
        BY <2>3, <2>4, <2>5, <2>6
      <3>2. Iter(t, o, p) \subseteq Under(IterUses, p) /\ Kept(t, o, p) \subseteq Under(KeptUses, p)
        BY <2>4, <2>5, <2>8, <2>9
      <3> QED BY <3>1, <3>2, Below
    <2> QED BY <2>3, <2>7, <2>10 DEF B, I, C
  <1> QED BY <1>1, <1>2, <1>3

\* A value that is not a row, or one that is.
ValueOf(t, o) ==
    \/ t.type # "UDT" /\ LeafObject(o)
    \/ IsRow(t) /\ RowObject(t, o)

\* The blocks of any value.
LEMMA ValueBelow ==
    ASSUME NEW t, NEW o, ValueOf(t, o), NEW p \in Seq(Nat)
    PROVE  AllBelow(t, o, p)
  <1>1. CASE t.type # "UDT" /\ LeafObject(o)
    BY <1>1, ColumnBelow
  <1>2. CASE IsRow(t) /\ RowObject(t, o)
    BY <1>2, RowBelow
  <1> QED BY <1>1, <1>2 DEF ValueOf

\* What is done with a value that was sent.
Discarded(m, t, o, p) ==
    IF o.isnull THEN m
    ELSE Free(IF t.type = "UDT" THEN FreeUdt(m, t, o.value, TRUE, p) ELSE m,
              {Block("value", p)})

\* plc_free_udt of what was sent: the arrays in it are freed already.
LEMMA FreeSentRow ==
    ASSUME NEW t, IsRow(t), NEW o, RowObject(t, o), ~o.isnull, NEW p \in Seq(Nat),
           NEW m \in Memory
    PROVE  FreeUdt(m, t, o.value, TRUE, p)
             = Free(m, {Block("data", p)} \cup AllOf(ColsKept(t, o, p), Len(t.sub)))
  <1> DEFINE n == Len(t.sub)
             B == ColsKept(t, o, p)
             step == [j \in DOMAIN t.sub |-> [x \in Memory |->
                        IF o.value[j].isnull THEN x
                        ELSE IF ~TRUE /\ t.sub[j].type = "ARRAY"
                        THEN FreeArrayOf(NoRow, x, t.sub[j], o.value[j].value, TRUE, At(p, j))
                        ELSE Free(x, {Block("value", At(p, j))})]]
             Top == {Block("data", p)}
  <1>1. n \in Nat /\ DOMAIN t.sub = 1..n
    BY SequenceOK DEF IsRow
  <1>2. FreeUdt(m, t, o.value, TRUE, p) = Free(InTurn(step, m, n), Top)
    BY DEF FreeUdt
  <1>3. ASSUME NEW j \in DOMAIN t.sub, NEW x \in Memory
        PROVE  step[j][x] = Free(x, B[j])
    <2>1. step[j][x] = IF o.value[j].isnull THEN x ELSE Free(x, {Block("value", At(p, j))})
      OBVIOUS
    <2>2. B[j] = IF o.value[j].isnull THEN {} ELSE {Block("value", At(p, j))}
      BY DEF ColsKept, FieldKept
    <2> HIDE DEF step, B
    <2> QED BY <2>1, <2>2, FreeNone
  <1>4. Columns(B, t, KeptUses, p)
    BY RowBelow
  <1> HIDE DEF n, B, step
  <1>5. FreesBelow(step, B, n, KeptUses, p)
    BY <1>1, <1>3, <1>4 DEF FreesBelow, Columns
  <1>6. Top \in SUBSET (KeptUses \X {p}) /\ KeptUses \in SUBSET Uses
    BY UsesOK DEF Block, KeptUses
  <1> HIDE DEF Top
  <1>7. /\ Free(InTurn(step, m, n), Top) = Free(m, Top \cup AllOf(B, n))
        /\ Top \cup AllOf(B, n) \subseteq Under(KeptUses, p)
    BY <1>1, <1>5, <1>6, FreeTree
  <1> QED BY <1>2, <1>7 DEF Top, B, n

\* What is freed of a value after it was sent is what sending it kept.
LEMMA DiscardedOK ==
    ASSUME NEW t, NEW o, ValueOf(t, o), NEW p \in Seq(Nat), NEW m \in Memory
    PROVE  Discarded(m, t, o, p) = Free(m, Kept(t, o, p))
  <1>1. CASE o.isnull
    <2>1. Kept(t, o, p) = {}
      BY <1>1 DEF Kept, FieldKept
    <2> QED BY <1>1, <2>1, FreeNone DEF Discarded
  <1>2. CASE ~o.isnull /\ t.type # "UDT"
    BY <1>2 DEF Kept, FieldKept, Discarded
  <1>3. CASE ~o.isnull /\ t.type = "UDT"
    <2> DEFINE C == AllOf(ColsKept(t, o, p), Len(t.sub))
               A == {Block("data", p)} \cup C
               V == {Block("value", p)}
    <2>1. IsRow(t) /\ RowObject(t, o)
      BY <1>3 DEF ValueOf
    <2>2. FreeUdt(m, t, o.value, TRUE, p) = Free(m, A)
      BY <1>3, <2>1, FreeSentRow
    <2>3. Discarded(m, t, o, p) = Free(Free(m, A), V)
      BY <1>3, <2>2 DEF Discarded
    <2>4. Kept(t, o, p) = A \cup V
      BY <1>3 DEF Kept, FieldKept
    <2>5. A \subseteq Blocks /\ V \subseteq Blocks
      <3>1. AllBelow(t, o, p)
        BY ValueBelow
      <3>2. Under(KeptUses, p) \subseteq Blocks
        BY UsesOK DEF Under, Blocks
      <3> HIDE DEF A, V
      <3> QED BY <2>4, <3>1, <3>2 DEF AllBelow
    <2>6. A \cap V = {}
      <3>1. ASSUME NEW j \in DOMAIN t.sub PROVE Block("value", p) \notin ColsKept(t, o, p)[j]
        <4>1. j \in Nat
          <5>1. DOMAIN t.sub = 1..Len(t.sub)
            BY <2>1, SequenceOK DEF IsRow
          <5> QED BY <5>1
        <4>2. ColsKept(t, o, p)[j] \subseteq Under(KeptUses, At(p, j))
          BY <1>3, <2>1, RowBelow DEF Columns
        <4>3. Under(KeptUses, At(p, j)) \cap (KeptUses \X {p}) = {}
          BY <4>1, UnderBelow
        <4>4. Block("value", p) \in KeptUses \X {p}
          BY DEF Block, KeptUses
        <4> QED BY <4>2, <4>3, <4>4
      <3>2. DOMAIN t.sub = 1..Len(t.sub)
        BY <2>1, SequenceOK DEF IsRow
      <3>3. Block("value", p) \notin C
        BY <3>1, <3>2 DEF AllOf
      <3>4. Block("value", p) # Block("data", p)
        BY DEF Block
      <3> HIDE DEF C
      <3> QED BY <3>3, <3>4
    <2> HIDE DEF A, V
    <2> QED BY <2>3, <2>4, <2>5, <2>6, FreeBoth
  <1> QED BY <1>1, <1>2, <1>3

-----------------------------------------------------------------------------
(* The functions that send.                                                *)

\* A step that changes no block leaves a value ready.
LEMMA ReadyAfter ==
    ASSUME NEW m, NEW r, NEW K, NEW O, NEW raw, NEW p, Ready(m, K, O, raw, p),
           r.live = m.live, m.failed => r.failed
    PROVE  Ready(r, K, O, raw, p)
  BY DEF Ready

\* send_raw_object of a scalar.
LEMMA SendLeaf ==
    ASSUME NEW t, t.type \notin {"ARRAY", "UDT"}, NEW o, LeafObject(o), NEW p \in Seq(Nat),
           NEW m \in Memory, NEW K, NEW raw, Ready(m, K, OutBlocks(t, o, p), raw, p)
    PROVE  /\ Sends(m, Send0(m, t, o, p), Iter(t, o, p))
           /\ Sends(m, Send1(m, t, o, p), Iter(t, o, p))
           /\ Sends(m, Send2(m, t, o, p), Iter(t, o, p))
           /\ Sends(m, SendObject(m, t, o, p), Iter(t, o, p))
  <1> DEFINE n == Put(m, 1)
             V == {Block("value", p)}
  <1>1. Iter(t, o, p) = {}
    BY ColumnBelow DEF FieldIter
  <1>2. n \in Memory /\ n.live = m.live /\ Sends(m, n, {})
    BY PutOK
  <1>3. CASE o.isnull
    BY <1>1, <1>2, <1>3 DEF Send0, Send1, Send2, SendObject, SendOf
  <1>4. CASE ~o.isnull
    <2>1. V \in SUBSET n.live
      <3>1. V \subseteq OutBlocks(t, o, p)
        BY <1>4 DEF OutBlocks, FieldBlocks
      <3> HIDE DEF n, V
      <3> QED BY <1>2, <3>1 DEF Ready
    <2>2. Read(n, V) = n
      <3> HIDE DEF n, V
      <3> QED BY <1>2, <2>1, ReadLive
    <2>3. Sends(n, Put(n, 1), {})
      <3> HIDE DEF n
      <3> QED BY <1>2, PutOK
    <2>4. Sends(m, Put(n, 1), {})
      <3>1. {} \cup {} = {}
        OBVIOUS
      <3> HIDE DEF n
      <3>2. Sends(m, Put(n, 1), {} \cup {})
        BY <1>2, <2>3, SendsThen
      <3> QED BY <3>1, <3>2
    <2>5. /\ Send0(m, t, o, p) = Put(Read(n, V), 1) /\ Send1(m, t, o, p) = Put(Read(n, V), 1)
          /\ Send2(m, t, o, p) = Put(Read(n, V), 1) /\ SendObject(m, t, o, p) = Put(Read(n, V), 1)
      BY <1>4 DEF Send0, Send1, Send2, SendObject, SendOf
    <2> HIDE DEF n, V
    <2> QED BY <1>1, <2>2, <2>4, <2>5
  <1> QED BY <1>3, <1>4 DEF LeafObject

\* The memory with an element that was converted.
Converting(x, N, elem, e, q) ==
    Alloc(Read(x, N), {Block("rawdata", q)} \cup OutBlocks(elem, e, q))

\* An element can be converted.
Convertible(x, N, K, elem, e, q) ==
    /\ ValueOf(elem, e)
    /\ ~x.failed
    /\ N \subseteq x.live
    /\ Ready(x, K, {}, {}, q)

\* That element is in memory, and nothing else was changed.
Holding(y, x, K, elem, e, q) ==
    /\ y \in Memory /\ y.wild = x.wild /\ y.failed = x.failed
    /\ y.live = x.live \cup {Block("rawdata", q)} \cup OutBlocks(elem, e, q)
    /\ Ready(y, K, OutBlocks(elem, e, q), {Block("rawdata", q)}, q)

\* Once it is converted, an element is ready to be sent.
LEMMA ElementReady ==
    ASSUME NEW elem, NEW e, NEW q \in Seq(Nat), NEW x \in Memory, NEW N, NEW K,
           Convertible(x, N, K, elem, e, q)
    PROVE  Holding(Converting(x, N, elem, e, q), x, K, elem, e, q)
  <1> DEFINE O == OutBlocks(elem, e, q)
             raw == Block("rawdata", q)
             A == {raw} \cup O
             y == Converting(x, N, elem, e, q)
  <1>1. y = Alloc(x, A)
    BY ReadLive DEF Converting, Convertible
  <1>2. O \subseteq Under(SendUses, q)
    BY ValueBelow DEF AllBelow, Convertible
  <1>3. raw \in {"rawdata"} \X {q} /\ raw \in Blocks /\ raw \notin Under(SendUses, q)
    BY DEF Block, Blocks, Uses, SendUses, Under
  <1>4. Under(SendUses, q) \subseteq Blocks
    BY UsesOK DEF Under, Blocks
  <1>5. Under(SendUses, q) \cap Under({"rawdata"}, q) = {}
    BY DEF Under, SendUses
  <1>6. raw \in Under({"rawdata"}, q)
    BY <1>3, UnderThis
  <1> HIDE DEF O, raw, y
  <1>7. A \in SUBSET Blocks
    BY <1>2, <1>3, <1>4
  <1>11. Alloc(x, A) = y
    BY <1>1
  <1> HIDE DEF A
  <1>8. y \in Memory /\ y.live = x.live \cup A /\ y.wild = x.wild /\ y.failed = x.failed
    BY <1>7, <1>11, AllocOK
  <1>9. /\ K \subseteq x.live
        /\ x.live \cap Under(SendUses, q) = {} /\ x.live \cap Under({"rawdata"}, q) = {}
    BY DEF Ready, Convertible
  <1>10. Ready(y, K, O, {raw}, q)
    <2>1. K \cup O \subseteq y.live
      BY <1>8, <1>9 DEF A
    <2>2. y.live \cap Under(SendUses, q) = O
      BY <1>2, <1>3, <1>8, <1>9 DEF A
    <2>3. y.live \cap Under({"rawdata"}, q) \subseteq {raw}
      BY <1>2, <1>5, <1>8, <1>9 DEF A
    <2> QED BY <2>1, <2>2, <2>3 DEF Ready
  <1> QED BY <1>8, <1>10 DEF Holding, O, raw, A, y

\* An element is converted, sent and freed, with no trace of it.
LEMMA ElementSent ==
    ASSUME NEW elem, NEW e, NEW q \in Seq(Nat), NEW x \in Memory, NEW N, NEW K,
           Convertible(x, N, K, elem, e, q),
           NEW z, Sends(Converting(x, N, elem, e, q), z, Iter(elem, e, q))
    PROVE  Sends(x, Free(Discarded(z, elem, e, q), {Block("rawdata", q)}), {})
  <1> DEFINE O == OutBlocks(elem, e, q)
             I == Iter(elem, e, q)
             C == Kept(elem, e, q)
             raw == Block("rawdata", q)
             y == Converting(x, N, elem, e, q)
             d == Free(z, C)
             r == Free(d, {raw})
  <1>1. y \in Memory /\ y.wild = x.wild /\ y.failed = x.failed /\ y.live = x.live \cup {raw} \cup O
    <2>1. Holding(y, x, K, elem, e, q)
      BY ElementReady
    <2> QED BY <2>1 DEF Holding
  <1>2. O = I \cup C /\ O \subseteq Under(SendUses, q) /\ I \cap C = {}
    BY ValueBelow DEF AllBelow, Convertible
  <1>3. raw \notin Under(SendUses, q) /\ raw \in Under({"rawdata"}, q)
    <2>1. {"rawdata"} \X {q} \subseteq Under({"rawdata"}, q)
      BY UnderThis
    <2> QED BY <2>1 DEF Block, SendUses, Under
  <1>4. x.live \cap Under(SendUses, q) = {} /\ x.live \cap Under({"rawdata"}, q) = {}
    BY DEF Ready, Convertible
  <1>5. Discarded(z, elem, e, q) = d
    BY DiscardedOK DEF Sends, Convertible
  <1>6. /\ z \in Memory /\ z.wild = y.wild /\ y.live \ I \subseteq z.live
        /\ ~z.failed => z.live = y.live \ I
    BY DEF Sends
  <1> HIDE DEF O, I, C, raw, y
  <1>7. C \in SUBSET z.live
    BY <1>1, <1>2, <1>6
  <1>8. d \in Memory /\ d.live = z.live \ C /\ d.wild = z.wild /\ d.failed = z.failed
    BY <1>6, <1>7, FreeLive
  <1> HIDE DEF d
  <1>9. {raw} \in SUBSET d.live
    BY <1>1, <1>2, <1>3, <1>6, <1>8
  <1>10. r \in Memory /\ r.live = d.live \ {raw} /\ r.wild = d.wild /\ r.failed = d.failed
    BY <1>8, <1>9, FreeLive
  <1> HIDE DEF r
  <1>11. x.live \subseteq r.live
    BY <1>1, <1>2, <1>3, <1>4, <1>6, <1>8, <1>10
  <1>14. ~x.failed
    BY DEF Convertible
  <1>12. ASSUME ~r.failed PROVE r.live = x.live
    <2>1. z.live = y.live \ I
      BY <1>6, <1>8, <1>10, <1>12
    <2> QED BY <1>1, <1>2, <1>8, <1>10, <1>11, <2>1
  <1>13. Sends(x, r, {})
    BY <1>1, <1>6, <1>8, <1>10, <1>11, <1>12, <1>14 DEF Sends
  <1> QED BY <1>5, <1>13 DEF r, raw

\* Nothing is allocated for a step that is not left by it.
Nothing(n) == [i \in 1..n |-> {}]

\* Steps without blocks have no blocks together.
LEMMA NothingAtAll ==
    ASSUME NEW n \in Nat
    PROVE  AllOf(Nothing(n), n) = {}
  BY DEF AllOf, Nothing

\* Nothing in K is below an element or a column of the value at p.
Above(K, p) == \A i \in Nat : K \cap Under(SendUses, At(p, i)) = {}

\* What an array is sent with is above its elements.
LEMMA AboveMore ==
    ASSUME NEW K, NEW p \in Seq(Nat), Above(K, p)
    PROVE  /\ Above(K \cup {Block("position", p)}, p)
           /\ \A i \in Nat : Above(K, At(p, i))
  <1>1. ASSUME NEW i \in Nat PROVE Block("position", p) \notin Under(SendUses, At(p, i))
    <2>1. Under(SendUses, At(p, i)) \cap (SendUses \X {p}) = {}
      BY UnderBelow
    <2>2. Block("position", p) \in SendUses \X {p}
      BY DEF Block, SendUses
    <2> QED BY <2>1, <2>2
  <1>2. Above(K \cup {Block("position", p)}, p)
    <2> DEFINE b == Block("position", p)
    <2> HIDE DEF b
    <2>1. \A i \in Nat : b \notin Under(SendUses, At(p, i))
      BY <1>1 DEF b
    <2>2. Above(K \cup {b}, p)
      BY <2>1 DEF Above
    <2> QED BY <2>2 DEF b
  <1>3. ASSUME NEW i \in Nat, NEW j \in Nat
        PROVE  K \cap Under(SendUses, At(At(p, i), j)) = {}
    <2>1. At(p, i) \in Seq(Nat)
      BY Paths
    <2>2. Under(SendUses, At(At(p, i), j)) \subseteq Under(SendUses, At(p, i))
      BY <2>1, UnderBelow
    <2> QED BY <2>2 DEF Above
  <1> QED BY <1>2, <1>3 DEF Above

\* What is sent for each of elems: a step converts the element, sends it, which
\* makes some z of the memory, and frees it; and does nothing after a failure.
ElementStep(step, K, elem, elems, N, p) ==
    \A i \in DOMAIN elems : \A x \in Memory :
        \/ x.failed /\ step[i][x] = x
        \/ /\ ~x.failed
           /\ \E z :
                /\ step[i][x] = Free(Discarded(z, elem, elems[i], At(p, i)),
                                     {Block("rawdata", At(p, i))})
                /\ Convertible(x, N, K, elem, elems[i], At(p, i)) =>
                      Sends(Converting(x, N, elem, elems[i], At(p, i)), z,
                            Iter(elem, elems[i], At(p, i)))

\* The elements of an array.
ElementsOK(elem, elems) ==
    IsSequence(elems) /\ \A i \in DOMAIN elems : ValueOf(elem, elems[i])

\* The loop over the elements of an array keeps nothing of them.
LEMMA ElementSteps ==
    ASSUME NEW step, NEW K, NEW elem, NEW elems, ElementsOK(elem, elems), NEW N \in SUBSET K,
           NEW p \in Seq(Nat), ElementStep(step, K, elem, elems, N, p)
    PROVE  StepsSend(step, Len(elems), K, Nothing(Len(elems)), Nothing(Len(elems)), p)
  <1> DEFINE n == Len(elems)
  <1>1. n \in Nat /\ DOMAIN elems = 1..n
    BY SequenceOK DEF ElementsOK
  <1>2. ASSUME NEW i \in 1..n, NEW x \in Memory, Ready(x, K, {}, {}, At(p, i))
        PROVE  Sends(x, step[i][x], {})
    <2> DEFINE q == At(p, i)
               e == elems[i]
    <2>1. q \in Seq(Nat)
      BY Paths
    <2>2. CASE x.failed
      <3>1. step[i][x] = x
        BY <1>1, <2>2 DEF ElementStep
      <3> QED BY <2>2, <3>1, SendsNone
    <2>3. CASE ~x.failed
      <3>1. Convertible(x, N, K, elem, e, q)
        BY <1>1, <1>2, <2>3 DEF Convertible, Ready, ElementsOK
      <3>2. PICK z : /\ step[i][x] = Free(Discarded(z, elem, e, q), {Block("rawdata", q)})
                     /\ Convertible(x, N, K, elem, e, q) =>
                           Sends(Converting(x, N, elem, e, q), z, Iter(elem, e, q))
        BY <1>1, <2>3 DEF ElementStep
      <3> HIDE DEF q, e
      <3>3. Sends(Converting(x, N, elem, e, q), z, Iter(elem, e, q))
        BY <3>1, <3>2
      <3>4. Sends(x, Free(Discarded(z, elem, e, q), {Block("rawdata", q)}), {})
        BY <2>1, <3>1, <3>3, ElementSent
      <3> QED BY <3>2, <3>4
    <2> QED BY <2>2, <2>3
  <1> HIDE DEF n
  <1>3. \A i \in 1..n : Nothing(n)[i] = {}
    BY DEF Nothing
  <1> QED BY <1>2, <1>3 DEF StepsSend, n

\* The iterator of an array whose elements leave nothing is freed after them.
LEMMA ArraySent ==
    ASSUME NEW t, t.type = "ARRAY", NEW o, ColumnObject(t, o), ~o.isnull,
           NEW p \in Seq(Nat), NEW K, Above(K, p), NEW m \in Memory,
           Ready(m, K, FieldBlocks(t, o, p), {Block("rawdata", p)}, p),
           NEW n \in Nat, NEW step,
           StepsSend(step, n, K \cup {Block("position", p)}, Nothing(n), Nothing(n), p)
    PROVE  Sends(m, Cleanup(InTurn(step, m, n), o.value, p), FieldIter(t, o, p))
  <1> DEFINE F == FieldBlocks(t, o, p)
             J == FieldIter(t, o, p)
             b == Block("position", p)
             L == K \cup {b}
             y == InTurn(step, m, n)
             raw == {Block("rawdata", p)}
  <1>1. Nothing(n) = [i \in 1..n |-> {}] /\ AllOf(Nothing(n), n) = {}
    BY NothingAtAll DEF Nothing
  <1>2. Above(L, p)
    BY AboveMore
  <1>3. Apart(n, L, Nothing(n), Nothing(n), p)
    <2>1. \A i \in 1..n : Nothing(n)[i] = {}
      BY DEF Nothing
    <2> HIDE DEF L
    <2> QED BY <1>2, <2>1 DEF Above, Apart
  <1>4. F \in SUBSET (SendUses \X {p}) /\ F = J \cup FieldKept(o, p) /\ b \in F
    <2>1. LeafObject(o)
      BY DEF LeafObject, ColumnObject
    <2>2. b \in F
      BY DEF FieldBlocks
    <2> HIDE DEF b, F, J
    <2> QED BY <2>1, <2>2, FieldsOK DEF F, J
  <1>5. J = {Block("meta", p), b} \cup Dims(o.value, p)
    BY DEF FieldIter
  <1>6. Cleanup(y, o.value, p) = Free(y, J)
    <2>1. J = Dims(o.value, p) \cup {Block("meta", p), b}
      BY <1>5
    <2> HIDE DEF J, y
    <2> QED BY <2>1 DEF Cleanup
  <1>7. Ready(m, L, F \cup AllOf(Nothing(n), n), raw, p)
    <2>1. Ready(m, K, F, raw, p)
      OBVIOUS
    <2> HIDE DEF F, raw, b
    <2> QED BY <1>1, <1>4, <2>1 DEF Ready
  <1>8. Sends(m, y, AllOf(Nothing(n), n))
    <2> HIDE DEF F, L
    <2> QED BY <1>3, <1>4, <1>7, SendLoop DEF L
  <1> HIDE DEF F, J, L, y
  <1>9. Sends(m, y, {}) /\ y \in Memory
    BY <1>1, <1>8 DEF Sends
  <1>10. J \in SUBSET y.live
    BY <1>4, <1>7, <1>9 DEF Sends, Ready
  <1>11. Sends(y, Free(y, J), J)
    BY <1>9, <1>10, FreeLive
  <1>12. Sends(m, Free(y, J), {} \cup J)
    BY <1>9, <1>11, SendsThen
  <1>13. {} \cup J = J
    OBVIOUS
  <1> QED BY <1>6, <1>12, <1>13 DEF J, y

\* What an array needs to be sent: the row that it is in, and the description
\* of its elements.
Served(K, t, p) == t.type = "ARRAY" => {Tuple, DescriptionOf(p)} \subseteq K

\* The head of a value is written, and the value is read.
LEMMA HeadSent ==
    ASSUME NEW m \in Memory, NEW K, NEW O, NEW raw, NEW p, Ready(m, K, O, raw, p),
           NEW V \in SUBSET O, NEW k \in Nat
    PROVE  /\ Read(Put(m, k), V) = Put(m, k)
           /\ Put(m, k) \in Memory
           /\ Sends(m, Put(m, k), {})
           /\ Ready(Put(m, k), K, O, raw, p)
  <1> DEFINE n == Put(m, k)
  <1>1. n \in Memory /\ n.live = m.live /\ (m.failed => n.failed) /\ Sends(m, n, {})
    BY PutOK
  <1> HIDE DEF n
  <1>2. V \in SUBSET n.live
    BY <1>1 DEF Ready
  <1>3. Read(n, V) = n
    BY <1>1, <1>2, ReadLive
  <1>4. Ready(n, K, O, raw, p)
    BY <1>1, ReadyAfter
  <1> QED BY <1>1, <1>3, <1>4 DEF n

\* An array that is sent: its head, then its elements.
LEMMA ArrayHead ==
    ASSUME NEW t, t.type = "ARRAY", NEW o, ColumnObject(t, o), ~o.isnull,
           NEW p \in Seq(Nat), NEW K, Above(K, p), NEW m \in Memory,
           Ready(m, K, FieldBlocks(t, o, p), {Block("rawdata", p)}, p),
           NEW n \in Nat, NEW step,
           StepsSend(step, n, K \cup {Block("position", p)}, Nothing(n), Nothing(n), p)
    PROVE  Sends(m, Cleanup(InTurn(step, Put(Read(Put(m, 1), {Block("value", p)}),
                                           1 + Len(o.value.dims)), n), o.value, p),
                 FieldIter(t, o, p))
  <1> DEFINE F == FieldBlocks(t, o, p)
             raw == {Block("rawdata", p)}
             k == 1 + Len(o.value.dims)
             x == Put(m, 1)
             y == Put(x, k)
             I == FieldIter(t, o, p)
             r == Cleanup(InTurn(step, y, n), o.value, p)
  <1>1. k \in Nat
    BY DEF ColumnObject, GivesAll
  <1>2. {Block("value", p)} \in SUBSET F
    BY DEF FieldBlocks
  <1>3. Ready(m, K, F, raw, p)
    OBVIOUS
  <1> HIDE DEF F, raw, k
  <1>4. /\ Read(x, {Block("value", p)}) = x /\ x \in Memory
        /\ Sends(m, x, {}) /\ Ready(x, K, F, raw, p)
    BY <1>2, <1>3, HeadSent
  <1> HIDE DEF x
  <1>5. y \in Memory /\ Sends(x, y, {}) /\ Ready(y, K, F, raw, p)
    <2>1. {} \in SUBSET F
      OBVIOUS
    <2> QED BY <1>1, <1>4, <2>1, HeadSent
  <1> HIDE DEF y
  <1>6. Sends(y, r, I)
    BY <1>5, ArraySent DEF F, raw
  <1> HIDE DEF r, I
  <1>7. Sends(m, y, {} \cup {})
    BY <1>4, <1>5, SendsThen
  <1>8. {} \cup {} = {}
    OBVIOUS
  <1>9. Sends(m, y, {})
    BY <1>7, <1>8
  <1>10. Sends(m, r, {} \cup I)
    BY <1>6, <1>9, SendsThen
  <1>11. {} \cup I = I
    OBVIOUS
  <1>12. Sends(m, r, I)
    BY <1>10, <1>11
  <1>13. r = Cleanup(InTurn(step, Put(Read(Put(m, 1), {Block("value", p)}), 1 + Len(o.value.dims)), n),
                     o.value, p)
    BY <1>4 DEF r, y, x, k
  <1> QED BY <1>12, <1>13 DEF I

\* A step for the i-th element in x: it makes z of the memory with the element.
ElementThen(x, z, elem, e, q) ==
    IF x.failed THEN x
    ELSE Free(IF e.isnull THEN z
              ELSE Free(IF elem.type = "UDT" THEN FreeUdt(z, elem, e.value, TRUE, q) ELSE z,
                        {Block("value", q)}),
              {Block("rawdata", q)})

\* The same as a step of ElementStep.
LEMMA ElementThenOK ==
    ASSUME NEW step, NEW K, NEW elem, NEW elems, NEW N, NEW p,
           \A i \in DOMAIN elems : \A x \in Memory :
              \E z :
                /\ step[i][x] = ElementThen(x, z, elem, elems[i], At(p, i))
                /\ Convertible(x, N, K, elem, elems[i], At(p, i)) =>
                      Sends(Converting(x, N, elem, elems[i], At(p, i)), z,
                            Iter(elem, elems[i], At(p, i)))
    PROVE  ElementStep(step, K, elem, elems, N, p)
  <1>1. ASSUME NEW x, NEW z, NEW elem_1, NEW e, NEW q
        PROVE  ElementThen(x, z, elem_1, e, q) =
                  IF x.failed THEN x
                  ELSE Free(Discarded(z, elem_1, e, q), {Block("rawdata", q)})
    BY DEF ElementThen, Discarded
  <1> SUFFICES ASSUME NEW i \in DOMAIN elems, NEW x \in Memory
               PROVE  \/ x.failed /\ step[i][x] = x
                      \/ /\ ~x.failed
                         /\ \E z :
                              /\ step[i][x] = Free(Discarded(z, elem, elems[i], At(p, i)),
                                                   {Block("rawdata", At(p, i))})
                              /\ Convertible(x, N, K, elem, elems[i], At(p, i)) =>
                                    Sends(Converting(x, N, elem, elems[i], At(p, i)), z,
                                          Iter(elem, elems[i], At(p, i)))
    BY DEF ElementStep
  <1>2. x.failed \in BOOLEAN
    BY DEF Memory
  <1>3. PICK z : /\ step[i][x] = ElementThen(x, z, elem, elems[i], At(p, i))
                 /\ Convertible(x, N, K, elem, elems[i], At(p, i)) =>
                       Sends(Converting(x, N, elem, elems[i], At(p, i)), z,
                             Iter(elem, elems[i], At(p, i)))
    OBVIOUS
  <1>4. CASE x.failed
    BY <1>1, <1>3, <1>4
  <1>5. CASE ~x.failed
    BY <1>1, <1>3, <1>5
  <1> QED BY <1>2, <1>4, <1>5

\* The elements of an array are scalars, or they are all rows.
LeavesOK(elem, elems) ==
    /\ elem.type \notin {"ARRAY", "UDT"}
    /\ IsSequence(elems)
    /\ \A i \in DOMAIN elems : LeafObject(elems[i])

\* The same for elements that are scalars.
LEMMA LeafArraySteps ==
    ASSUME NEW elem, NEW elems, LeavesOK(elem, elems), NEW K, NEW p \in Seq(Nat),
           {Block("position", p), DescriptionOf(p), Tuple} \in SUBSET K
    PROVE  LET N == {Block("position", p), DescriptionOf(p), Tuple}
               n == Len(elems) IN
           /\ StepsSend([i \in DOMAIN elems |-> [x \in Memory |->
                           ElementThen(x, Send0(Converting(x, N, elem, elems[i], At(p, i)),
                                                elem, elems[i], At(p, i)),
                                       elem, elems[i], At(p, i))]],
                        n, K, Nothing(n), Nothing(n), p)
           /\ StepsSend([i \in DOMAIN elems |-> [x \in Memory |->
                           ElementThen(x, Send1(Converting(x, N, elem, elems[i], At(p, i)),
                                                elem, elems[i], At(p, i)),
                                       elem, elems[i], At(p, i))]],
                        n, K, Nothing(n), Nothing(n), p)
           /\ StepsSend([i \in DOMAIN elems |-> [x \in Memory |->
                           ElementThen(x, Send2(Converting(x, N, elem, elems[i], At(p, i)),
                                                elem, elems[i], At(p, i)),
                                       elem, elems[i], At(p, i))]],
                        n, K, Nothing(n), Nothing(n), p)
  <1> DEFINE N == {Block("position", p), DescriptionOf(p), Tuple}
             n == Len(elems)
             q(i) == At(p, i)
             y(x, i) == Converting(x, N, elem, elems[i], q(i))
             s0 == [i \in DOMAIN elems |-> [x \in Memory |->
                      ElementThen(x, Send0(y(x, i), elem, elems[i], q(i)), elem, elems[i], q(i))]]
             s1 == [i \in DOMAIN elems |-> [x \in Memory |->
                      ElementThen(x, Send1(y(x, i), elem, elems[i], q(i)), elem, elems[i], q(i))]]
             s2 == [i \in DOMAIN elems |-> [x \in Memory |->
                      ElementThen(x, Send2(y(x, i), elem, elems[i], q(i)), elem, elems[i], q(i))]]
  <1>1. n \in Nat /\ DOMAIN elems = 1..n /\ \A i \in 1..n : q(i) \in Seq(Nat)
    <2>1. n \in Nat /\ DOMAIN elems = 1..n
      BY SequenceOK DEF LeavesOK
    <2> QED BY <2>1, Paths
  <1>2. ElementsOK(elem, elems)
    BY DEF LeavesOK, ElementsOK, ValueOf
  <1>3. ASSUME NEW i \in DOMAIN elems, NEW x \in Memory, Convertible(x, N, K, elem, elems[i], q(i))
        PROVE  /\ Sends(y(x, i), Send0(y(x, i), elem, elems[i], q(i)), Iter(elem, elems[i], q(i)))
               /\ Sends(y(x, i), Send1(y(x, i), elem, elems[i], q(i)), Iter(elem, elems[i], q(i)))
               /\ Sends(y(x, i), Send2(y(x, i), elem, elems[i], q(i)), Iter(elem, elems[i], q(i)))
    <2> DEFINE w == y(x, i)
               z == q(i)
               e == elems[i]
    <2>1. z \in Seq(Nat)
      BY <1>1
    <2>2. Holding(w, x, K, elem, e, z)
      BY <1>3, <2>1, ElementReady
    <2>3. LeafObject(e) /\ elem.type \notin {"ARRAY", "UDT"}
      BY DEF LeavesOK
    <2> HIDE DEF w, z, e
    <2>4. w \in Memory /\ Ready(w, K, OutBlocks(elem, e, z), {Block("rawdata", z)}, z)
      BY <2>2 DEF Holding
    <2>5. /\ Sends(w, Send0(w, elem, e, z), Iter(elem, e, z))
          /\ Sends(w, Send1(w, elem, e, z), Iter(elem, e, z))
          /\ Sends(w, Send2(w, elem, e, z), Iter(elem, e, z))
          /\ Sends(w, SendObject(w, elem, e, z), Iter(elem, e, z))
      BY <2>1, <2>3, <2>4, SendLeaf
    <2> QED BY <2>5 DEF w, z, e
  <1>4. \A i \in DOMAIN elems : \A x \in Memory :
           /\ s0[i][x] = ElementThen(x, Send0(y(x, i), elem, elems[i], q(i)), elem, elems[i], q(i))
           /\ s1[i][x] = ElementThen(x, Send1(y(x, i), elem, elems[i], q(i)), elem, elems[i], q(i))
           /\ s2[i][x] = ElementThen(x, Send2(y(x, i), elem, elems[i], q(i)), elem, elems[i], q(i))
    OBVIOUS
  <1> HIDE DEF N, s0, s1, s2
  <1>5. ElementStep(s0, K, elem, elems, N, p)
    BY <1>3, <1>4, ElementThenOK
  <1>6. ElementStep(s1, K, elem, elems, N, p)
    BY <1>3, <1>4, ElementThenOK
  <1>7. ElementStep(s2, K, elem, elems, N, p)
    BY <1>3, <1>4, ElementThenOK
  <1>8. /\ StepsSend(s0, n, K, Nothing(n), Nothing(n), p)
        /\ StepsSend(s1, n, K, Nothing(n), Nothing(n), p)
        /\ StepsSend(s2, n, K, Nothing(n), Nothing(n), p)
    <2>1. N \in SUBSET K
      BY DEF N
    <2> QED BY <1>2, <1>5, <1>6, <1>7, <2>1, ElementSteps
  <1> QED BY <1>8 DEF N, s0, s1, s2

\* An array of scalars, in a message or in a row.
LEMMA LeafArraySent ==
    ASSUME NEW t, IsLeafArray(t), NEW o, ColumnObject(t, o), ~o.isnull,
           NEW p \in Seq(Nat), NEW K, Above(K, p), Served(K, t, p), NEW m \in Memory,
           Ready(m, K, FieldBlocks(t, o, p), {Block("rawdata", p)}, p)
    PROVE  /\ Sends(m, Send1(m, t, o, p), FieldIter(t, o, p))
           /\ Sends(m, Send2(m, t, o, p), FieldIter(t, o, p))
           /\ Sends(m, SendObject(m, t, o, p), FieldIter(t, o, p))
  <1> DEFINE elem == t.sub[1]
             elems == Elements(o.value)
             n == Len(elems)
             L == K \cup {Block("position", p)}
             N == {Block("position", p), DescriptionOf(p), Tuple}
             s0 == [i \in DOMAIN elems |-> [x \in Memory |->
                           ElementThen(x, Send0(Converting(x, N, elem, elems[i], At(p, i)),
                                                elem, elems[i], At(p, i)),
                                       elem, elems[i], At(p, i))]]
             s1 == [i \in DOMAIN elems |-> [x \in Memory |->
                           ElementThen(x, Send1(Converting(x, N, elem, elems[i], At(p, i)),
                                                elem, elems[i], At(p, i)),
                                       elem, elems[i], At(p, i))]]
             s2 == [i \in DOMAIN elems |-> [x \in Memory |->
                           ElementThen(x, Send2(Converting(x, N, elem, elems[i], At(p, i)),
                                                elem, elems[i], At(p, i)),
                                       elem, elems[i], At(p, i))]]
             x0 == Put(Read(Put(m, 1), {Block("value", p)}), 1 + Len(o.value.dims))
             I == FieldIter(t, o, p)
  <1>1. t.type = "ARRAY" /\ IsLeaf(elem)
    BY DEF IsLeafArray
  <1>2. LeavesOK(elem, elems)
    BY <1>1 DEF IsLeaf, LeavesOK, LeafObject, ColumnObject, GivesAll
  <1>3. N \in SUBSET L
    BY <1>1 DEF Served
  <1>4. n \in Nat
    BY <1>2, SequenceOK DEF LeavesOK
  <1>5. /\ StepsSend(s0, n, L, Nothing(n), Nothing(n), p)
        /\ StepsSend(s1, n, L, Nothing(n), Nothing(n), p)
        /\ StepsSend(s2, n, L, Nothing(n), Nothing(n), p)
    <2> HIDE DEF elem, elems, L
    <2> QED BY <1>2, <1>3, LeafArraySteps
  <1>6. /\ Send1(m, t, o, p) = Cleanup(InTurn(s0, x0, n), o.value, p)
        /\ Send2(m, t, o, p) = Cleanup(InTurn(s1, x0, n), o.value, p)
        /\ SendObject(m, t, o, p) = Cleanup(InTurn(s2, x0, n), o.value, p)
    <2> DEFINE x1 == Read(Put(m, 1), {Block("value", p)})
    <2>1. Send1(m, t, o, p) = SendArray(Send0, x1, t.sub[1], o.value, p)
      BY <1>1 DEF Send1, SendOf
    <2>2. Send2(m, t, o, p) = SendArray(Send1, x1, t.sub[1], o.value, p)
      BY <1>1 DEF Send2, SendOf
    <2>3. SendObject(m, t, o, p) = SendArray(Send2, x1, t.sub[1], o.value, p)
      BY <1>1 DEF SendObject, SendOf
    <2> QED BY <2>1, <2>2, <2>3 DEF SendArray, ElementThen, Converting
  <1> HIDE DEF s0, s1, s2, n
  <1>7. /\ Sends(m, Cleanup(InTurn(s0, x0, n), o.value, p), I)
        /\ Sends(m, Cleanup(InTurn(s1, x0, n), o.value, p), I)
        /\ Sends(m, Cleanup(InTurn(s2, x0, n), o.value, p), I)
    BY <1>1, <1>4, <1>5, ArrayHead
  <1> QED BY <1>6, <1>7

\* Nothing of a null is allocated.
LEMMA NullSent ==
    ASSUME NEW t, NEW o, o.isnull, NEW p, NEW m \in Memory
    PROVE  /\ Iter(t, o, p) = {}
           /\ Sends(m, Send0(m, t, o, p), {}) /\ Sends(m, Send1(m, t, o, p), {})
           /\ Sends(m, Send2(m, t, o, p), {}) /\ Sends(m, SendObject(m, t, o, p), {})
  <1>1. Iter(t, o, p) = {}
    BY DEF Iter, FieldIter
  <1>2. /\ Send0(m, t, o, p) = Put(m, 1) /\ Send1(m, t, o, p) = Put(m, 1)
        /\ Send2(m, t, o, p) = Put(m, 1) /\ SendObject(m, t, o, p) = Put(m, 1)
    BY DEF Send0, Send1, Send2, SendObject, SendOf
  <1>3. Sends(m, Put(m, 1), {})
    BY PutOK
  <1> QED BY <1>1, <1>2, <1>3

\* send_raw_object of a column.
LEMMA ColumnSent ==
    ASSUME NEW t, IsColumn(t), NEW o, ColumnObject(t, o),
           NEW p \in Seq(Nat), NEW K, Above(K, p), Served(K, t, p), NEW m \in Memory,
           Ready(m, K, OutBlocks(t, o, p), {Block("rawdata", p)}, p)
    PROVE  /\ Sends(m, Send1(m, t, o, p), Iter(t, o, p))
           /\ Sends(m, Send2(m, t, o, p), Iter(t, o, p))
           /\ Sends(m, SendObject(m, t, o, p), Iter(t, o, p))
  <1>1. CASE IsLeaf(t)
    <2>1. LeafObject(o) /\ t.type \notin {"ARRAY", "UDT"}
      BY <1>1 DEF IsLeaf, LeafObject, ColumnObject
    <2> QED BY <2>1, SendLeaf
  <1>2. CASE IsLeafArray(t) /\ ~o.isnull
    <2>1. t.type # "UDT" /\ LeafObject(o)
      BY <1>2 DEF IsLeafArray, LeafObject, ColumnObject
    <2>2. OutBlocks(t, o, p) = FieldBlocks(t, o, p) /\ Iter(t, o, p) = FieldIter(t, o, p)
      BY <2>1, ColumnBelow
    <2>3. Ready(m, K, FieldBlocks(t, o, p), {Block("rawdata", p)}, p)
      BY <2>2
    <2>4. /\ Sends(m, Send1(m, t, o, p), FieldIter(t, o, p))
          /\ Sends(m, Send2(m, t, o, p), FieldIter(t, o, p))
          /\ Sends(m, SendObject(m, t, o, p), FieldIter(t, o, p))
      BY <1>2, <2>3, LeafArraySent
    <2> QED BY <2>2, <2>4
  <1>3. CASE o.isnull
    BY <1>3, NullSent
  <1> QED BY <1>1, <1>2, <1>3 DEF IsColumn, ColumnObject

\* What the columns of a row need.
ColumnsServed(K, t, p) == \A j \in DOMAIN t.sub : Served(K, t.sub[j], At(p, j))

\* The loop over the columns of a row, the first of which is tried after a failure.
LEMMA ColumnsSent ==
    ASSUME NEW t, IsRow(t), NEW o, RowObject(t, o), ~o.isnull,
           NEW p \in Seq(Nat), NEW K, Above(K, p), ColumnsServed(K, t, p),
           NEW step,
           \A j \in DOMAIN t.sub : \A x \in Memory :
              \/ x.failed /\ step[j][x] = x
              \/ step[j][x] = Send1(x, t.sub[j], o.value[j], At(p, j))
              \/ step[j][x] = Send2(x, t.sub[j], o.value[j], At(p, j))
    PROVE  StepsSend(step, Len(t.sub), K, ColBlocks(t, o, p), ColIters(t, o, p), p)
  <1> DEFINE n == Len(t.sub)
             O == ColBlocks(t, o, p)
             I == ColIters(t, o, p)
  <1>1. n \in Nat /\ DOMAIN t.sub = 1..n
    BY SequenceOK DEF IsRow
  <1>2. ASSUME NEW j \in 1..n, NEW x \in Memory, Ready(x, K, O[j], {}, At(p, j))
        PROVE  Sends(x, step[j][x], I[j])
    <2> DEFINE s == t.sub[j]
               v == o.value[j]
               q == At(p, j)
    <2>1. q \in Seq(Nat) /\ Above(K, q)
      <3>1. j \in Nat
        BY <1>1
      <3>2. Above(K, At(p, j))
        BY <3>1, AboveMore
      <3> QED BY <3>1, <3>2, Paths
    <2>2. IsColumn(s) /\ ColumnObject(s, v) /\ Served(K, s, q)
      BY <1>1 DEF IsRow, RowObject, ColumnsServed
    <2>3. s.type # "UDT" /\ LeafObject(v)
      BY <2>2 DEF IsColumn, IsLeaf, IsLeafArray, ColumnObject, LeafObject
    <2>4. O[j] = FieldBlocks(s, v, q) /\ I[j] = FieldIter(s, v, q)
      BY <1>1 DEF ColBlocks, ColIters
    <2>5. Ready(x, K, O[j], {}, q)
      BY <1>2
    <2>6. \/ x.failed /\ step[j][x] = x
          \/ step[j][x] = Send1(x, s, v, q)
          \/ step[j][x] = Send2(x, s, v, q)
      BY <1>1
    <2> HIDE DEF s, v, q, O, I
    <2>7. OutBlocks(s, v, q) = O[j] /\ Iter(s, v, q) = I[j]
      BY <2>1, <2>3, <2>4, ColumnBelow
    <2>8. Ready(x, K, OutBlocks(s, v, q), {Block("rawdata", q)}, q)
      BY <2>5, <2>7 DEF Ready
    <2>9. Sends(x, Send1(x, s, v, q), I[j]) /\ Sends(x, Send2(x, s, v, q), I[j])
      BY <2>1, <2>2, <2>7, <2>8, ColumnSent
    <2>10. CASE x.failed /\ step[j][x] = x
      BY <2>10, SendsNone
    <2> QED BY <2>6, <2>9, <2>10
  <1> HIDE DEF n, O, I
  <1>3. StepsSend(step, n, K, O, I, p)
    BY <1>2 DEF StepsSend
  <1> QED BY <1>3 DEF n, O, I

\* A row whose columns are sent.
LEMMA RowSteps ==
    ASSUME NEW t, IsRow(t), NEW o, RowObject(t, o), ~o.isnull,
           NEW p \in Seq(Nat), NEW K, Above(K, p),
           NEW m \in Memory, Ready(m, K, OutBlocks(t, o, p), {Block("rawdata", p)}, p),
           NEW step,
           StepsSend(step, Len(t.sub), K, ColBlocks(t, o, p), ColIters(t, o, p), p)
    PROVE  Sends(m, InTurn(step, Read(Read(Put(m, 1), {Block("value", p)}), {Block("data", p)}),
                         Len(t.sub)),
                 Iter(t, o, p))
  <1> DEFINE n == Len(t.sub)
             O == ColBlocks(t, o, p)
             I == ColIters(t, o, p)
             Top == {Block("value", p), Block("data", p)}
             raw == {Block("rawdata", p)}
             V == {Block("value", p)}
             W == {Block("data", p)}
             B == OutBlocks(t, o, p)
             x == Put(m, 1)
             r == InTurn(step, x, n)
  <1>1. n \in Nat /\ DOMAIN t.sub = 1..n
    BY SequenceOK DEF IsRow
  <1>2. /\ Columns(O, t, SendUses, p) /\ B = Top \cup AllOf(O, n)
        /\ Iter(t, o, p) = AllOf(I, n)
    <2>1. Iter(t, o, p) = AllOf(I, n)
      BY DEF Iter, IsRow
    <2> QED BY <2>1, RowBelow
  <1>3. \A j \in DOMAIN t.sub : I[j] \subseteq O[j]
    <2>1. ASSUME NEW j \in DOMAIN t.sub PROVE I[j] \subseteq O[j]
      <3> DEFINE s == t.sub[j]
                 v == o.value[j]
                 q == At(p, j)
      <3>1. LeafObject(v)
        BY DEF RowObject, ColumnObject, LeafObject
      <3>2. q \in Seq(Nat)
        BY <1>1, Paths
      <3>3. O[j] = FieldBlocks(s, v, q) /\ I[j] = FieldIter(s, v, q)
        BY DEF ColBlocks, ColIters
      <3> HIDE DEF s, v, q, O, I
      <3>4. FieldBlocks(s, v, q) = FieldIter(s, v, q) \cup FieldKept(v, q)
        BY <3>1, <3>2, FieldsOK
      <3> QED BY <3>3, <3>4
    <2> QED BY <2>1
  <1>4. Top \in SUBSET (SendUses \X {p})
    BY DEF Block, SendUses
  <1>5. V \in SUBSET B /\ W \in SUBSET B
    BY <1>2
  <1>6. Ready(m, K, B, raw, p)
    OBVIOUS
  <1> HIDE DEF n, O, I, B, raw, Top, V, W
  <1>7. Apart(n, K, O, I, p)
    <2>1. \A j \in 1..n : j \in Nat /\ j \in DOMAIN t.sub
      BY <1>1
    <2>2. \A j \in 1..n : K \cap Under(SendUses, At(p, j)) = {}
      BY <2>1 DEF Above
    <2>3. \A j \in 1..n : O[j] \subseteq Under(SendUses, At(p, j)) /\ I[j] \subseteq O[j]
      BY <1>2, <1>3, <2>1 DEF Columns
    <2> QED BY <2>2, <2>3 DEF Apart
  <1>8. Read(x, V) = x /\ x \in Memory /\ Sends(m, x, {}) /\ Ready(x, K, B, raw, p)
    BY <1>5, <1>6, HeadSent
  <1>9. Read(x, W) = x
    BY <1>5, <1>6, HeadSent
  <1> HIDE DEF x
  <1>10. Sends(x, r, AllOf(I, n))
    <2>1. Ready(x, K, Top \cup AllOf(O, n), {Block("rawdata", p)}, p)
      BY <1>2, <1>8 DEF raw
    <2>2. StepsSend(step, n, K, O, I, p)
      BY DEF n, O, I
    <2> QED BY <1>1, <1>4, <1>7, <1>8, <2>1, <2>2, SendLoop
  <1> HIDE DEF r
  <1>11. Sends(m, r, {} \cup AllOf(I, n))
    BY <1>8, <1>10, SendsThen
  <1>12. {} \cup AllOf(I, n) = Iter(t, o, p)
    BY <1>2
  <1> QED BY <1>8, <1>9, <1>11, <1>12 DEF x, r, n, V, W

\* send_raw_object of a row.
LEMMA RowSent ==
    ASSUME NEW t, IsRow(t), NEW o, RowObject(t, o),
           NEW p \in Seq(Nat), NEW K, Above(K, p), ColumnsServed(K, t, p),
           NEW m \in Memory, Ready(m, K, OutBlocks(t, o, p), {Block("rawdata", p)}, p)
    PROVE  /\ Sends(m, Send2(m, t, o, p), Iter(t, o, p))
           /\ Sends(m, SendObject(m, t, o, p), Iter(t, o, p))
  <1>1. CASE o.isnull
    BY <1>1, NullSent
  <1>2. CASE ~o.isnull
    <2> DEFINE n == Len(t.sub)
               x == Read(Put(m, 1), {Block("value", p)})
               y == Read(x, {Block("data", p)})
               s1 == [j \in DOMAIN t.sub |-> [z \in Memory |->
                        IF z.failed /\ j > 1 THEN z
                        ELSE Send1(z, t.sub[j], o.value[j], At(p, j))]]
               s2 == [j \in DOMAIN t.sub |-> [z \in Memory |->
                        IF z.failed /\ j > 1 THEN z
                        ELSE Send2(z, t.sub[j], o.value[j], At(p, j))]]
    <2>1. t.type = "UDT"
      BY DEF IsRow
    <2>2. Send2(m, t, o, p) = InTurn(s1, y, n) /\ SendObject(m, t, o, p) = InTurn(s2, y, n)
      <3>1. Send2(m, t, o, p) = SendUdt(Send1, x, t, o.value, p)
        BY <1>2, <2>1 DEF Send2, SendOf
      <3>2. SendObject(m, t, o, p) = SendUdt(Send2, x, t, o.value, p)
        BY <1>2, <2>1 DEF SendObject, SendOf
      <3> QED BY <3>1, <3>2 DEF SendUdt
    <2>3. \A j \in DOMAIN t.sub : \A z \in Memory :
             /\ \/ z.failed /\ s1[j][z] = z
                \/ s1[j][z] = Send1(z, t.sub[j], o.value[j], At(p, j))
             /\ \/ z.failed /\ s2[j][z] = z
                \/ s2[j][z] = Send2(z, t.sub[j], o.value[j], At(p, j))
      OBVIOUS
    <2> HIDE DEF s1, s2
    <2>4. StepsSend(s1, n, K, ColBlocks(t, o, p), ColIters(t, o, p), p)
      BY <1>2, <2>3, ColumnsSent
    <2>5. StepsSend(s2, n, K, ColBlocks(t, o, p), ColIters(t, o, p), p)
      BY <1>2, <2>3, ColumnsSent
    <2>6. Sends(m, InTurn(s1, y, n), Iter(t, o, p)) /\ Sends(m, InTurn(s2, y, n), Iter(t, o, p))
      BY <1>2, <2>4, <2>5, RowSteps
    <2> QED BY <2>2, <2>6
  <1> QED BY <1>1, <1>2 DEF RowObject

\* An array of rows is only in a message of its own.
LEMMA RowArraySent ==
    ASSUME NEW t, IsRowArray(t), NEW o, RowsObject(t, o),
           NEW p \in Seq(Nat), NEW K, Above(K, p), Served(K, t, p),
           \A i \in Nat : ColumnsServed(K, t.sub[1], At(p, i)),
           NEW m \in Memory, Ready(m, K, OutBlocks(t, o, p), {Block("rawdata", p)}, p)
    PROVE  Sends(m, SendObject(m, t, o, p), Iter(t, o, p))
  <1>1. CASE o.isnull
    BY <1>1, NullSent
  <1>2. CASE ~o.isnull
    <2> DEFINE elem == t.sub[1]
               elems == Elements(o.value)
               n == Len(elems)
               b == Block("position", p)
               L == K \cup {b}
               N == {b, DescriptionOf(p), Tuple}
               y(x, i) == Converting(x, N, elem, elems[i], At(p, i))
               step == [i \in DOMAIN elems |-> [x \in Memory |->
                          ElementThen(x, Send2(Converting(x, N, elem, elems[i], At(p, i)),
                                               elem, elems[i], At(p, i)),
                                      elem, elems[i], At(p, i))]]
               x0 == Put(Read(Put(m, 1), {Block("value", p)}), 1 + Len(o.value.dims))
    <2>1. t.type = "ARRAY" /\ IsRow(elem) /\ LeafObject(o) /\ ColumnObject(t, o)
      BY <1>2 DEF IsRowArray, RowsObject, LeafObject, ColumnObject
    <2>2. ElementsOK(elem, elems) /\ \A i \in DOMAIN elems : RowObject(elem, elems[i])
      BY <1>2, <2>1 DEF ElementsOK, ValueOf, RowsObject, GivesAll
    <2>3. n \in Nat /\ DOMAIN elems = 1..n
      BY <2>2, SequenceOK DEF ElementsOK
    <2>4. N \in SUBSET L
      BY <2>1 DEF Served
    <2>5. SendObject(m, t, o, p) = Cleanup(InTurn(step, x0, n), o.value, p)
      <3>1. SendObject(m, t, o, p)
              = SendArray(Send2, Read(Put(m, 1), {Block("value", p)}), t.sub[1], o.value, p)
        BY <1>2, <2>1 DEF SendObject, SendOf
      <3> QED BY <3>1 DEF SendArray, ElementThen, Converting
    <2>6. OutBlocks(t, o, p) = FieldBlocks(t, o, p) /\ Iter(t, o, p) = FieldIter(t, o, p)
      BY <2>1, ColumnBelow
    <2>7. Above(L, p) /\ \A i \in Nat : Above(L, At(p, i))
      <3>1. Above(L, p)
        BY AboveMore
      <3> HIDE DEF L
      <3> QED BY <3>1, AboveMore
    <2>8. \A i \in Nat : ColumnsServed(L, elem, At(p, i))
      BY DEF ColumnsServed, Served
    <2>9. \A i \in DOMAIN elems : \A x \in Memory :
             step[i][x] = ElementThen(x, Send2(y(x, i), elem, elems[i], At(p, i)),
                                      elem, elems[i], At(p, i))
      OBVIOUS
    <2> HIDE DEF elem, elems, n, L, N, step
    <2>10. ASSUME NEW i \in DOMAIN elems, NEW x \in Memory,
                  Convertible(x, N, L, elem, elems[i], At(p, i))
           PROVE  Sends(y(x, i), Send2(y(x, i), elem, elems[i], At(p, i)),
                        Iter(elem, elems[i], At(p, i)))
      <3> DEFINE w == y(x, i)
                 q == At(p, i)
                 e == elems[i]
      <3>1. q \in Seq(Nat) /\ Above(L, q) /\ ColumnsServed(L, elem, q)
        BY <2>3, <2>7, <2>8, Paths
      <3>2. Holding(w, x, L, elem, e, q)
        BY <2>10, <3>1, ElementReady
      <3>3. RowObject(elem, e)
        BY <2>2
      <3> HIDE DEF w, q, e
      <3>4. w \in Memory /\ Ready(w, L, OutBlocks(elem, e, q), {Block("rawdata", q)}, q)
        BY <3>2 DEF Holding
      <3>5. Sends(w, Send2(w, elem, e, q), Iter(elem, e, q))
        BY <2>1, <3>1, <3>3, <3>4, RowSent
      <3> QED BY <3>5 DEF w, q, e
    <2>11. ElementStep(step, L, elem, elems, N, p)
      BY <2>9, <2>10, ElementThenOK
    <2>12. StepsSend(step, n, L, Nothing(n), Nothing(n), p)
      BY <2>2, <2>4, <2>11, ElementSteps DEF n
    <2>13. Sends(m, Cleanup(InTurn(step, x0, n), o.value, p), FieldIter(t, o, p))
      <3>1. Ready(m, K, FieldBlocks(t, o, p), {Block("rawdata", p)}, p)
        BY <2>6
      <3>2. StepsSend(step, n, K \cup {Block("position", p)}, Nothing(n), Nothing(n), p)
        BY <2>12 DEF L
      <3> QED BY <1>2, <2>1, <2>3, <3>1, <3>2, ArrayHead
    <2> QED BY <2>5, <2>6, <2>13
  <1> QED BY <1>1, <1>2 DEF RowsObject

\* What the arrays of a message need.
MessageServed(K, t) ==
    /\ Served(K, t, <<>>)
    /\ IsRow(t) => ColumnsServed(K, t, <<>>)
    /\ IsRowArray(t) => \A i \in Nat : ColumnsServed(K, t.sub[1], At(<<>>, i))

\* send_raw_object of the value of a message: it reads only what is there, and frees
\* its iterators once.
LEMMA MessageSent ==
    ASSUME NEW t, IsMessage(t), NEW o, MessageObject(t, o), NEW K, Above(K, <<>>),
           MessageServed(K, t), NEW m \in Memory,
           Ready(m, K, OutBlocks(t, o, <<>>), {Block("rawdata", <<>>)}, <<>>)
    PROVE  Sends(m, SendObject(m, t, o, <<>>), Iter(t, o, <<>>))
  <1> DEFINE p == <<>>
  <1>1. p \in Seq(Nat)
    OBVIOUS
  <1> HIDE DEF p
  <1>2. /\ Above(K, p) /\ Served(K, t, p)
        /\ IsRow(t) => ColumnsServed(K, t, p)
        /\ IsRowArray(t) => \A i \in Nat : ColumnsServed(K, t.sub[1], At(p, i))
        /\ Ready(m, K, OutBlocks(t, o, p), {Block("rawdata", p)}, p)
    BY DEF p, MessageServed
  <1>3. CASE IsColumn(t)
    <2>1. Sends(m, SendObject(m, t, o, p), Iter(t, o, p))
      BY <1>1, <1>2, <1>3, ColumnSent DEF MessageObject
    <2> QED BY <2>1 DEF p
  <1>4. CASE IsRow(t)
    <2>1. Sends(m, SendObject(m, t, o, p), Iter(t, o, p))
      BY <1>1, <1>2, <1>4, RowSent DEF MessageObject
    <2> QED BY <2>1 DEF p
  <1>5. CASE IsRowArray(t)
    <2>1. Sends(m, SendObject(m, t, o, p), Iter(t, o, p))
      BY <1>1, <1>2, <1>5, RowArraySent DEF MessageObject
    <2> QED BY <2>1 DEF p
  <1> QED BY <1>3, <1>4, <1>5 DEF IsMessage

-----------------------------------------------------------------------------
(* What was received: the structures that free_result frees.               *)

\* A plcArray has a flag and an entry for each element.
ArrayReceived(a) ==
    /\ IsSequence(a.data)
    /\ DOMAIN a.nulls = DOMAIN a.data
    /\ a.nulls = <<>> <=> a.data = <<>>
    /\ \A i \in DOMAIN a.data : a.nulls[i] \in BOOLEAN

ColumnReceived(t, o) ==
    /\ MayBeNull(o)
    /\ t.type = "ARRAY" /\ ~o.isnull => ArrayReceived(o.value)

RowReceived(t, o) ==
    /\ MayBeNull(o)
    /\ ~o.isnull => \A j \in DOMAIN t.sub : ColumnReceived(t.sub[j], o.value[j])

RowsReceived(t, o) ==
    /\ MayBeNull(o)
    /\ ~o.isnull =>
          /\ ArrayReceived(o.value)
          /\ \A i \in DOMAIN o.value.data :
                ~o.value.nulls[i] => RowReceived(t.sub[1], Some(o.value.data[i].pointer))

MessageReceived(t, o) ==
    /\ IsColumn(t) => ColumnReceived(t, o)
    /\ IsRow(t) => RowReceived(t, o)
    /\ IsRowArray(t) => RowsReceived(t, o)

\* The flags and the entries of as many elements.
LEMMA EntriesReceived ==
    ASSUME NEW elems, IsSequence(elems), NEW a, NEW F, NEW G,
           \A i \in DOMAIN elems : F[i] \in BOOLEAN,
           a.nulls = [i \in DOMAIN elems |-> F[i]],
           a.data = [i \in DOMAIN elems |-> G[i]]
    PROVE  ArrayReceived(a) /\ DOMAIN a.data = DOMAIN elems
  <1>1. Len(elems) \in Nat /\ DOMAIN elems = 1..Len(elems)
    BY SequenceOK
  <1>2. IsSequence(a.data) /\ IsSequence(a.nulls)
    BY <1>1 DEF IsSequence
  <1>3. a.nulls = <<>> <=> a.data = <<>>
    BY <1>2 DEF IsSequence
  <1>4. \A i \in DOMAIN a.data : a.nulls[i] \in BOOLEAN
    OBVIOUS
  <1>5. DOMAIN a.nulls = DOMAIN a.data /\ DOMAIN a.data = DOMAIN elems
    OBVIOUS
  <1> QED BY <1>2, <1>3, <1>4, <1>5 DEF ArrayReceived

\* What travels is null or not.
LEMMA WireFlags ==
    ASSUME NEW t, NEW x, x.isnull \in BOOLEAN
    PROVE  /\ Wire0(t, x).isnull = x.isnull /\ Wire1(t, x).isnull = x.isnull
           /\ Wire2(t, x).isnull = x.isnull /\ OnWire(t, x).isnull = x.isnull
  BY Flags DEF Wire0, Wire1, Wire2, OnWire, WireOf, UnlessNull

\* What comes of a null.
LEMMA NullReceived ==
    ASSUME NEW t, NEW x, x.isnull = TRUE
    PROVE  /\ Received1(t, Wire1(t, x)) = Null /\ Received2(t, Wire2(t, x)) = Null
           /\ Received(t, OnWire(t, x)) = Null
  <1>1. Wire1(t, x) = Null /\ Wire2(t, x) = Null /\ OnWire(t, x) = Null
    BY DEF Wire1, Wire2, OnWire, WireOf, UnlessNull
  <1>2. Received1(t, Null) = Null /\ Received2(t, Null) = Null /\ Received(t, Null) = Null
    BY Flags DEF Received1, Received2, Received, ReceivedOf, UnlessNull
  <1> QED BY <1>1, <1>2

\* What comes of an array.
LEMMA ArrayOnWire ==
    ASSUME NEW t, t.type = "ARRAY", NEW o, o.isnull = FALSE
    PROVE  LET e == Elements(o.value)
               s == t.sub[1] IN
           /\ Received1(t, Wire1(t, o)) =
                 Some([dims |-> o.value.dims,
                       nulls |-> [i \in DOMAIN e |-> Wire0(s, e[i]).isnull],
                       data |-> [i \in DOMAIN e |-> Entry(s, Received0(s, Wire0(s, e[i])))]])
           /\ Received2(t, Wire2(t, o)) =
                 Some([dims |-> o.value.dims,
                       nulls |-> [i \in DOMAIN e |-> Wire1(s, e[i]).isnull],
                       data |-> [i \in DOMAIN e |-> Entry(s, Received1(s, Wire1(s, e[i])))]])
           /\ Received(t, OnWire(t, o)) =
                 Some([dims |-> o.value.dims,
                       nulls |-> [i \in DOMAIN e |-> Wire2(s, e[i]).isnull],
                       data |-> [i \in DOMAIN e |-> Entry(s, Received2(s, Wire2(s, e[i])))]])
  <1> DEFINE e == Elements(o.value)
             s == t.sub[1]
             W0 == [i \in DOMAIN e |-> Wire0(s, e[i])]
             W1 == [i \in DOMAIN e |-> Wire1(s, e[i])]
             W2 == [i \in DOMAIN e |-> Wire2(s, e[i])]
             w(W) == [dims |-> o.value.dims, elems |-> W]
  <1>1. Wire1(t, o) = Some(w(W0)) /\ Wire2(t, o) = Some(w(W1)) /\ OnWire(t, o) = Some(w(W2))
    BY DEF Wire1, Wire2, OnWire, WireOf, UnlessNull
  <1>2. ASSUME NEW W
        PROVE  /\ Received1(t, Some(w(W))) =
                    Some([dims |-> o.value.dims,
                          nulls |-> [i \in DOMAIN W |-> W[i].isnull],
                          data |-> [i \in DOMAIN W |-> Entry(s, Received0(s, W[i]))]])
               /\ Received2(t, Some(w(W))) =
                    Some([dims |-> o.value.dims,
                          nulls |-> [i \in DOMAIN W |-> W[i].isnull],
                          data |-> [i \in DOMAIN W |-> Entry(s, Received1(s, W[i]))]])
               /\ Received(t, Some(w(W))) =
                    Some([dims |-> o.value.dims,
                          nulls |-> [i \in DOMAIN W |-> W[i].isnull],
                          data |-> [i \in DOMAIN W |-> Entry(s, Received2(s, W[i]))]])
    <2> DEFINE y == Some(w(W))
               x == y.value
    <2>1. x.dims = o.value.dims /\ x.elems = W
      <3>1. x = w(W)
        BY Flags
      <3> HIDE DEF x
      <3> QED BY <3>1
    <2>2. y.isnull = FALSE
      BY Flags
    <2> HIDE DEF y, e
    <2>3. /\ Received1(t, y) =
                 Some([dims |-> x.dims,
                       nulls |-> [i \in DOMAIN x.elems |-> x.elems[i].isnull],
                       data |-> [i \in DOMAIN x.elems |-> Entry(s, Received0(s, x.elems[i]))]])
          /\ Received2(t, y) =
                 Some([dims |-> x.dims,
                       nulls |-> [i \in DOMAIN x.elems |-> x.elems[i].isnull],
                       data |-> [i \in DOMAIN x.elems |-> Entry(s, Received1(s, x.elems[i]))]])
          /\ Received(t, y) =
                 Some([dims |-> x.dims,
                       nulls |-> [i \in DOMAIN x.elems |-> x.elems[i].isnull],
                       data |-> [i \in DOMAIN x.elems |-> Entry(s, Received2(s, x.elems[i]))]])
      BY <2>2 DEF Received1, Received2, Received, ReceivedOf, UnlessNull
    <2> HIDE DEF x, s
    <2> QED BY <2>1, <2>3 DEF y
  <1>3. DOMAIN W0 = DOMAIN e /\ DOMAIN W1 = DOMAIN e /\ DOMAIN W2 = DOMAIN e
    OBVIOUS
  <1>4. \A i \in DOMAIN e :
           W0[i] = Wire0(s, e[i]) /\ W1[i] = Wire1(s, e[i]) /\ W2[i] = Wire2(s, e[i])
    OBVIOUS
  <1> HIDE DEF W0, W1, W2, e, s, w
  <1>5. [i \in DOMAIN W0 |-> W0[i].isnull] = [i \in DOMAIN e |-> Wire0(s, e[i]).isnull]
        /\ [i \in DOMAIN W1 |-> W1[i].isnull] = [i \in DOMAIN e |-> Wire1(s, e[i]).isnull]
        /\ [i \in DOMAIN W2 |-> W2[i].isnull] = [i \in DOMAIN e |-> Wire2(s, e[i]).isnull]
    BY <1>3, <1>4
  <1>6. [i \in DOMAIN W0 |-> Entry(s, Received0(s, W0[i]))]
          = [i \in DOMAIN e |-> Entry(s, Received0(s, Wire0(s, e[i])))]
    BY <1>3, <1>4
  <1>7. [i \in DOMAIN W1 |-> Entry(s, Received1(s, W1[i]))]
          = [i \in DOMAIN e |-> Entry(s, Received1(s, Wire1(s, e[i])))]
    BY <1>3, <1>4
  <1>8. [i \in DOMAIN W2 |-> Entry(s, Received2(s, W2[i]))]
          = [i \in DOMAIN e |-> Entry(s, Received2(s, Wire2(s, e[i])))]
    BY <1>3, <1>4
  <1>9. /\ Received1(t, Wire1(t, o)) =
              Some([dims |-> o.value.dims,
                    nulls |-> [i \in DOMAIN W0 |-> W0[i].isnull],
                    data |-> [i \in DOMAIN W0 |-> Entry(s, Received0(s, W0[i]))]])
        /\ Received2(t, Wire2(t, o)) =
              Some([dims |-> o.value.dims,
                    nulls |-> [i \in DOMAIN W1 |-> W1[i].isnull],
                    data |-> [i \in DOMAIN W1 |-> Entry(s, Received1(s, W1[i]))]])
        /\ Received(t, OnWire(t, o)) =
              Some([dims |-> o.value.dims,
                    nulls |-> [i \in DOMAIN W2 |-> W2[i].isnull],
                    data |-> [i \in DOMAIN W2 |-> Entry(s, Received2(s, W2[i]))]])
    BY <1>1, <1>2
  <1> QED BY <1>5, <1>6, <1>7, <1>8, <1>9 DEF e, s

\* What comes of a row.
LEMMA RowOnWire ==
    ASSUME NEW t, t.type = "UDT", NEW o, o.isnull = FALSE
    PROVE  /\ Received2(t, Wire2(t, o)) =
                 Some([j \in DOMAIN t.sub |->
                         Received1(t.sub[j], Wire1(t.sub[j], o.value[j]))])
           /\ Received(t, OnWire(t, o)) =
                 Some([j \in DOMAIN t.sub |->
                         Received2(t.sub[j], Wire2(t.sub[j], o.value[j]))])
  <1> DEFINE W1 == [j \in DOMAIN t.sub |-> Wire1(t.sub[j], o.value[j])]
             W2 == [j \in DOMAIN t.sub |-> Wire2(t.sub[j], o.value[j])]
  <1>1. Wire2(t, o) = Some(W1) /\ OnWire(t, o) = Some(W2)
    BY DEF Wire2, OnWire, WireOf, UnlessNull
  <1>2. ASSUME NEW W
        PROVE  /\ Received2(t, Some(W)) = Some([j \in DOMAIN t.sub |-> Received1(t.sub[j], W[j])])
               /\ Received(t, Some(W)) = Some([j \in DOMAIN t.sub |-> Received2(t.sub[j], W[j])])
    <2> DEFINE y == Some(W)
               x == y.value
    <2>1. x = W /\ y.isnull = FALSE
      BY Flags
    <2> HIDE DEF y
    <2>2. /\ Received2(t, y) = Some([j \in DOMAIN t.sub |-> Received1(t.sub[j], x[j])])
          /\ Received(t, y) = Some([j \in DOMAIN t.sub |-> Received2(t.sub[j], x[j])])
      BY <2>1 DEF Received2, Received, ReceivedOf, UnlessNull
    <2> HIDE DEF x
    <2> QED BY <2>1, <2>2 DEF y
  <1>3. \A j \in DOMAIN t.sub : W1[j] = Wire1(t.sub[j], o.value[j])
                             /\ W2[j] = Wire2(t.sub[j], o.value[j])
    OBVIOUS
  <1> HIDE DEF W1, W2
  <1>4. /\ [j \in DOMAIN t.sub |-> Received1(t.sub[j], W1[j])]
             = [j \in DOMAIN t.sub |-> Received1(t.sub[j], Wire1(t.sub[j], o.value[j]))]
        /\ [j \in DOMAIN t.sub |-> Received2(t.sub[j], W2[j])]
             = [j \in DOMAIN t.sub |-> Received2(t.sub[j], Wire2(t.sub[j], o.value[j]))]
    BY <1>3
  <1>5. /\ Received2(t, Wire2(t, o)) = Some([j \in DOMAIN t.sub |-> Received1(t.sub[j], W1[j])])
        /\ Received(t, OnWire(t, o)) = Some([j \in DOMAIN t.sub |-> Received2(t.sub[j], W2[j])])
    BY <1>1, <1>2
  <1> QED BY <1>4, <1>5

\* An array of scalars, whose elements come as they are.
LEMMA ColumnComes ==
    ASSUME NEW t, IsColumn(t), NEW o, ColumnObject(t, o)
    PROVE  /\ ColumnReceived(t, Received1(t, Wire1(t, o)))
           /\ ColumnReceived(t, Received2(t, Wire2(t, o)))
           /\ ColumnReceived(t, Received(t, OnWire(t, o)))
  <1>1. CASE o.isnull
    <2>1. ColumnReceived(t, Null)
      BY Flags DEF ColumnReceived, MayBeNull
    <2>2. o.isnull = TRUE
      BY <1>1 DEF ColumnObject
    <2> QED BY <2>1, <2>2, NullReceived
  <1>2. CASE ~o.isnull /\ IsLeaf(t)
    <2>1. \A r : MayBeNull(r) => ColumnReceived(t, r)
      BY <1>2 DEF ColumnReceived, IsLeaf
    <2>2. /\ MayBeNull(Received1(t, Wire1(t, o))) /\ MayBeNull(Received2(t, Wire2(t, o)))
          /\ MayBeNull(Received(t, OnWire(t, o)))
      <3>1. \A r : MayBeNull(IF r.isnull THEN Null ELSE Some(r.value))
        BY Flags DEF MayBeNull
      <3>2. t.type \notin {"ARRAY", "UDT"}
        BY <1>2 DEF IsLeaf
      <3>3. \A r : /\ Received1(t, r) = IF r.isnull THEN Null ELSE Some(r.value)
                   /\ Received2(t, r) = IF r.isnull THEN Null ELSE Some(r.value)
                   /\ Received(t, r) = IF r.isnull THEN Null ELSE Some(r.value)
        BY <3>2 DEF Received1, Received2, Received, ReceivedOf, UnlessNull
      <3> QED BY <3>1, <3>3
    <2> QED BY <2>1, <2>2
  <1>3. CASE ~o.isnull /\ IsLeafArray(t)
    <2> DEFINE e == Elements(o.value)
               s == t.sub[1]
               N0 == [i \in DOMAIN e |-> Wire0(s, e[i]).isnull]
               N1 == [i \in DOMAIN e |-> Wire1(s, e[i]).isnull]
               N2 == [i \in DOMAIN e |-> Wire2(s, e[i]).isnull]
               D0 == [i \in DOMAIN e |-> Entry(s, Received0(s, Wire0(s, e[i])))]
               D1 == [i \in DOMAIN e |-> Entry(s, Received1(s, Wire1(s, e[i])))]
               D2 == [i \in DOMAIN e |-> Entry(s, Received2(s, Wire2(s, e[i])))]
               a(f, g) == [dims |-> o.value.dims, nulls |-> f, data |-> g]
    <2>1. t.type = "ARRAY" /\ o.isnull = FALSE
      BY <1>3 DEF IsLeafArray, ColumnObject
    <2>2. IsSequence(e) /\ \A i \in DOMAIN e : e[i].isnull \in BOOLEAN
      BY <1>3, <2>1 DEF ColumnObject, GivesAll
    <2>3. \A i \in DOMAIN e : N0[i] \in BOOLEAN /\ N1[i] \in BOOLEAN /\ N2[i] \in BOOLEAN
      BY <2>2, WireFlags
    <2>4. /\ DOMAIN N0 = DOMAIN e /\ DOMAIN N1 = DOMAIN e /\ DOMAIN N2 = DOMAIN e
          /\ DOMAIN D0 = DOMAIN e /\ DOMAIN D1 = DOMAIN e /\ DOMAIN D2 = DOMAIN e
          /\ N0 = [i \in DOMAIN e |-> N0[i]] /\ N1 = [i \in DOMAIN e |-> N1[i]]
          /\ N2 = [i \in DOMAIN e |-> N2[i]] /\ D0 = [i \in DOMAIN e |-> D0[i]]
          /\ D1 = [i \in DOMAIN e |-> D1[i]] /\ D2 = [i \in DOMAIN e |-> D2[i]]
      OBVIOUS
    <2>5. /\ Received1(t, Wire1(t, o)) = Some(a(N0, D0))
          /\ Received2(t, Wire2(t, o)) = Some(a(N1, D1))
          /\ Received(t, OnWire(t, o)) = Some(a(N2, D2))
      BY <2>1, ArrayOnWire
    <2> HIDE DEF N0, N1, N2, D0, D1, D2, e
    <2>6. ASSUME NEW f, NEW g, DOMAIN g = DOMAIN e, f = [i \in DOMAIN e |-> f[i]],
                 g = [i \in DOMAIN e |-> g[i]], \A i \in DOMAIN e : f[i] \in BOOLEAN
          PROVE  ColumnReceived(t, Some(a(f, g)))
      <3> DEFINE x == a(f, g)
      <3>1. x.nulls = f /\ x.data = g
        OBVIOUS
      <3> HIDE DEF x
      <3>2. ArrayReceived(x)
        BY <2>2, <2>6, <3>1, EntriesReceived
      <3>3. ColumnReceived(t, Some(x))
        BY <3>2, Flags DEF ColumnReceived, MayBeNull
      <3> QED BY <3>3 DEF x
    <2>7. ColumnReceived(t, Some(a(N0, D0)))
      BY <2>3, <2>4, <2>6
    <2>8. ColumnReceived(t, Some(a(N1, D1)))
      BY <2>3, <2>4, <2>6
    <2>9. ColumnReceived(t, Some(a(N2, D2)))
      BY <2>3, <2>4, <2>6
    <2> QED BY <2>5, <2>7, <2>8, <2>9
  <1> QED BY <1>1, <1>2, <1>3 DEF IsColumn, ColumnObject

\* A row that was sent is received as a row.
LEMMA RowComes ==
    ASSUME NEW t, IsRow(t), NEW o, RowObject(t, o)
    PROVE  /\ RowReceived(t, Received2(t, Wire2(t, o)))
           /\ RowReceived(t, Received(t, OnWire(t, o)))
  <1>1. CASE o.isnull
    <2>1. RowReceived(t, Null)
      BY Flags DEF RowReceived, MayBeNull
    <2>2. o.isnull = TRUE
      BY <1>1 DEF RowObject
    <2> QED BY <2>1, <2>2, NullReceived
  <1>2. CASE ~o.isnull
    <2> DEFINE R1 == [j \in DOMAIN t.sub |-> Received1(t.sub[j], Wire1(t.sub[j], o.value[j]))]
               R2 == [j \in DOMAIN t.sub |-> Received2(t.sub[j], Wire2(t.sub[j], o.value[j]))]
    <2>1. t.type = "UDT" /\ o.isnull = FALSE
      BY <1>2 DEF IsRow, RowObject
    <2>2. Received2(t, Wire2(t, o)) = Some(R1) /\ Received(t, OnWire(t, o)) = Some(R2)
      BY <2>1, RowOnWire
    <2>3. \A j \in DOMAIN t.sub : /\ ColumnReceived(t.sub[j], R1[j])
                                  /\ ColumnReceived(t.sub[j], R2[j])
      <3>1. \A j \in DOMAIN t.sub : IsColumn(t.sub[j]) /\ ColumnObject(t.sub[j], o.value[j])
        BY <1>2 DEF IsRow, RowObject
      <3> QED BY <3>1, ColumnComes
    <2> HIDE DEF R1, R2
    <2>4. RowReceived(t, Some(R1)) /\ RowReceived(t, Some(R2))
      BY <2>3, Flags DEF RowReceived, MayBeNull
    <2> QED BY <2>2, <2>4
  <1> QED BY <1>1, <1>2 DEF RowObject

\* An array of rows is received as one.
LEMMA RowsCome ==
    ASSUME NEW t, IsRowArray(t), NEW o, RowsObject(t, o)
    PROVE  RowsReceived(t, Received(t, OnWire(t, o)))
  <1>1. CASE o.isnull
    <2>1. RowsReceived(t, Null)
      BY Flags DEF RowsReceived, MayBeNull
    <2>2. o.isnull = TRUE
      BY <1>1 DEF RowsObject
    <2> QED BY <2>1, <2>2, NullReceived
  <1>2. CASE ~o.isnull
    <2> DEFINE e == Elements(o.value)
               s == t.sub[1]
               N == [i \in DOMAIN e |-> Wire2(s, e[i]).isnull]
               D == [i \in DOMAIN e |-> Entry(s, Received2(s, Wire2(s, e[i])))]
               x == [dims |-> o.value.dims, nulls |-> N, data |-> D]
    <2>1. t.type = "ARRAY" /\ IsRow(s) /\ o.isnull = FALSE
      BY <1>2 DEF IsRowArray, RowsObject
    <2>2. IsSequence(e) /\ \A i \in DOMAIN e : e[i].isnull \in BOOLEAN /\ RowObject(s, e[i])
      BY <1>2 DEF RowsObject, GivesAll
    <2>3. Received(t, OnWire(t, o)) = Some(x)
      BY <2>1, ArrayOnWire
    <2>4. x.nulls = N /\ x.data = D
      OBVIOUS
    <2>5. ASSUME NEW i \in DOMAIN e
          PROVE  N[i] \in BOOLEAN /\ (~N[i] => RowReceived(s, Some(D[i].pointer)))
      <3> DEFINE r == Received2(s, Wire2(s, e[i]))
      <3>1. N[i] = e[i].isnull /\ N[i] \in BOOLEAN
        BY <2>2, WireFlags
      <3>2. RowReceived(s, r)
        BY <2>1, <2>2, RowComes
      <3>3. ASSUME ~N[i] PROVE RowReceived(s, Some(D[i].pointer))
        <4>1. r = Some([j \in DOMAIN s.sub |-> Received1(s.sub[j], Wire1(s.sub[j], e[i].value[j]))])
          <5>1. e[i].isnull = FALSE /\ s.type = "UDT"
            BY <2>1, <3>1, <3>3 DEF IsRow
          <5> QED BY <5>1, RowOnWire
        <4>2. r.isnull = FALSE /\ r = Some(r.value)
          BY <4>1, Flags
        <4>3. s.type \in Pointed
          BY <2>1 DEF IsRow, Pointed
        <4>4. D[i] = Entry(s, r)
          OBVIOUS
        <4> HIDE DEF r, D, s
        <4>5. D[i].pointer = r.value
          BY <4>2, <4>3, <4>4 DEF Entry
        <4> QED BY <3>2, <4>2, <4>5
      <3> QED BY <3>1, <3>3
    <2>6. DOMAIN D = DOMAIN e /\ N = [i \in DOMAIN e |-> N[i]] /\ D = [i \in DOMAIN e |-> D[i]]
      OBVIOUS
    <2> HIDE DEF x, N, D, e, s
    <2>7. ArrayReceived(x)
      BY <2>2, <2>4, <2>5, <2>6, EntriesReceived
    <2>8. RowsReceived(t, Some(x))
      BY <2>4, <2>5, <2>6, <2>7, Flags DEF RowsReceived, MayBeNull, s
    <2> QED BY <2>3, <2>8
  <1> QED BY <1>1, <1>2 DEF RowsObject

\* What is received of a message has the form that free_result expects.
LEMMA MessageComes ==
    ASSUME NEW t, IsMessage(t), NEW o, MessageObject(t, o)
    PROVE  MessageReceived(t, Received(t, OnWire(t, o)))
  BY ColumnComes, RowComes, RowsCome DEF MessageObject, MessageReceived

\* The uses of what receive_raw_object allocates.
InUses == {"value", "meta", "dims", "data", "nulls"}

\* The blocks of an array but for its elements; of an element that is not a row;
\* of a column; of a row; of a row in an array.
ArrayTop(a, p) ==
    (IF a.data = <<>> THEN {} ELSE {Block("data", p), Block("nulls", p)})
       \cup Dims(a, p) \cup {Block("meta", p), Block("value", p)}

ElementsIn(t, a, p) ==
    [i \in DOMAIN a.data |->
        IF a.nulls[i] \/ t.sub[1].type \notin Pointed THEN {} ELSE {Block("value", At(p, i))}]

ColumnIn(t, o, p) ==
    IF o.isnull THEN {}
    ELSE IF t.type = "ARRAY"
    THEN ArrayTop(o.value, p) \cup AllOf(ElementsIn(t, o.value, p), Len(o.value.data))
    ELSE {Block("value", p)}

ColumnsIn(t, o, p) == [j \in DOMAIN t.sub |-> ColumnIn(t.sub[j], o.value[j], At(p, j))]

RowIn(t, o, p) ==
    IF o.isnull THEN {}
    ELSE {Block("value", p), Block("data", p)} \cup AllOf(ColumnsIn(t, o, p), Len(t.sub))

RowElementsIn(t, a, p) ==
    [i \in DOMAIN a.data |->
        IF a.nulls[i] THEN {} ELSE RowIn(t.sub[1], Some(a.data[i].pointer), At(p, i))]

RowsIn(t, o, p) ==
    IF o.isnull THEN {}
    ELSE ArrayTop(o.value, p) \cup AllOf(RowElementsIn(t, o.value, p), Len(o.value.data))

\* They are what is allocated for a column,
LEMMA ScalarIn ==
    ASSUME NEW t, t.type \notin {"ARRAY", "UDT"}, NEW o, o.isnull \in BOOLEAN, NEW p
    PROVE  /\ InBlocks0(t, o, p) = ColumnIn(t, o, p) /\ InBlocks1(t, o, p) = ColumnIn(t, o, p)
           /\ InBlocks2(t, o, p) = ColumnIn(t, o, p) /\ InBlocks(t, o, p) = ColumnIn(t, o, p)
           /\ ~o.isnull => ColumnIn(t, o, p) = {Block("value", p)}
  BY DEF InBlocks0, InBlocks1, InBlocks2, InBlocks, InBlocksOf, ColumnIn

\* The blocks of an array of scalars that was received.
LEMMA LeafArrayIn ==
    ASSUME NEW t, IsLeafArray(t), NEW o, ColumnReceived(t, o), NEW p
    PROVE  /\ InBlocks1(t, o, p) = ColumnIn(t, o, p) /\ InBlocks2(t, o, p) = ColumnIn(t, o, p)
           /\ InBlocks(t, o, p) = ColumnIn(t, o, p)
  <1>1. t.type = "ARRAY" /\ t.sub[1].type \notin {"ARRAY", "UDT"}
    BY DEF IsLeafArray, IsLeaf
  <1>2. CASE o.isnull
    BY <1>2 DEF InBlocks1, InBlocks2, InBlocks, InBlocksOf, ColumnIn
  <1>3. CASE ~o.isnull
    <2> DEFINE a == o.value
               s == t.sub[1]
               n == Len(a.data)
               T == {k \in DOMAIN a.data : ~a.nulls[k] /\ s.type \in Pointed}
               E == AllOf(ElementsIn(t, a, p), n)
               x(i) == Some(a.data[i].pointer)
               top == (IF a.nulls = <<>> THEN {} ELSE {Block("nulls", p), Block("data", p)})
    <2>1. ArrayReceived(a)
      BY <1>1, <1>3 DEF ColumnReceived
    <2>2. n \in Nat /\ DOMAIN a.data = 1..n
      BY <2>1, SequenceOK DEF ArrayReceived
    <2>3. \A i \in DOMAIN a.data :
             /\ InBlocks0(s, x(i), At(p, i)) = {Block("value", At(p, i))}
             /\ InBlocks1(s, x(i), At(p, i)) = {Block("value", At(p, i))}
             /\ InBlocks2(s, x(i), At(p, i)) = {Block("value", At(p, i))}
      <3>1. ASSUME NEW y, y.isnull = FALSE, NEW q
            PROVE  /\ InBlocks0(s, y, q) = {Block("value", q)}
                   /\ InBlocks1(s, y, q) = {Block("value", q)}
                   /\ InBlocks2(s, y, q) = {Block("value", q)}
        <4> HIDE DEF s
        <4>1. s.type \notin {"ARRAY", "UDT"} /\ y.isnull \in BOOLEAN
          BY <1>1, <3>1 DEF s
        <4>2. /\ InBlocks0(s, y, q) = ColumnIn(s, y, q) /\ InBlocks1(s, y, q) = ColumnIn(s, y, q)
              /\ InBlocks2(s, y, q) = ColumnIn(s, y, q) /\ InBlocks(s, y, q) = ColumnIn(s, y, q)
              /\ ~y.isnull => ColumnIn(s, y, q) = {Block("value", q)}
          BY <4>1, ScalarIn
        <4> QED BY <3>1, <4>2
      <3>2. \A i : x(i).isnull = FALSE
        BY Flags
      <3> HIDE DEF x, s
      <3> QED BY <3>1, <3>2
    <2>4. E = UNION {{Block("value", At(p, i))} : i \in T}
      BY <2>2 DEF AllOf, ElementsIn
    <2>5. /\ InBlocks1(t, o, p) = {Block("value", p)} \cup ({Block("meta", p)} \cup Dims(a, p)
               \cup top \cup UNION {InBlocks0(s, x(i), At(p, i)) : i \in T})
          /\ InBlocks2(t, o, p) = {Block("value", p)} \cup ({Block("meta", p)} \cup Dims(a, p)
               \cup top \cup UNION {InBlocks1(s, x(i), At(p, i)) : i \in T})
          /\ InBlocks(t, o, p) = {Block("value", p)} \cup ({Block("meta", p)} \cup Dims(a, p)
               \cup top \cup UNION {InBlocks2(s, x(i), At(p, i)) : i \in T})
      BY <1>1, <1>3 DEF InBlocks1, InBlocks2, InBlocks, InBlocksOf
    <2>6. ColumnIn(t, o, p) = (IF a.data = <<>> THEN {} ELSE {Block("data", p), Block("nulls", p)})
             \cup Dims(a, p) \cup {Block("meta", p), Block("value", p)} \cup E
      BY <1>1, <1>3 DEF ColumnIn, ArrayTop
    <2>7. a.nulls = <<>> <=> a.data = <<>>
      BY <2>1 DEF ArrayReceived
    <2>8. T \subseteq DOMAIN a.data
      OBVIOUS
    <2> HIDE DEF a, s, n, T, E, x
    <2>9. /\ UNION {InBlocks0(s, x(i), At(p, i)) : i \in T} = E
          /\ UNION {InBlocks1(s, x(i), At(p, i)) : i \in T} = E
          /\ UNION {InBlocks2(s, x(i), At(p, i)) : i \in T} = E
      BY <2>3, <2>4, <2>8
    <2> QED BY <2>5, <2>6, <2>7, <2>9
  <1> QED BY <1>2, <1>3

\* The blocks of a column that was received.
LEMMA ColumnInOK ==
    ASSUME NEW t, IsColumn(t), NEW o, ColumnReceived(t, o), NEW p
    PROVE  /\ InBlocks1(t, o, p) = ColumnIn(t, o, p) /\ InBlocks2(t, o, p) = ColumnIn(t, o, p)
           /\ InBlocks(t, o, p) = ColumnIn(t, o, p)
  <1>1. o.isnull \in BOOLEAN
    BY Flagged DEF ColumnReceived
  <1>2. CASE IsLeaf(t)
    BY <1>1, <1>2, ScalarIn DEF IsLeaf
  <1>3. CASE IsLeafArray(t)
    BY <1>3, LeafArrayIn
  <1> QED BY <1>2, <1>3 DEF IsColumn

\* for a row,
LEMMA RowInOK ==
    ASSUME NEW t, IsRow(t), NEW o, RowReceived(t, o), NEW p
    PROVE  InBlocks2(t, o, p) = RowIn(t, o, p) /\ InBlocks(t, o, p) = RowIn(t, o, p)
  <1>1. t.type = "UDT" /\ Len(t.sub) \in Nat /\ DOMAIN t.sub = 1..Len(t.sub)
    BY SequenceOK DEF IsRow
  <1>2. CASE o.isnull
    BY <1>2 DEF InBlocks2, InBlocks, InBlocksOf, RowIn
  <1>3. CASE ~o.isnull
    <2> DEFINE D == DOMAIN t.sub
               c(j) == ColumnIn(t.sub[j], o.value[j], At(p, j))
    <2>1. \A j \in D : /\ InBlocks1(t.sub[j], o.value[j], At(p, j)) = c(j)
                       /\ InBlocks2(t.sub[j], o.value[j], At(p, j)) = c(j)
      <3>1. \A j \in D : IsColumn(t.sub[j]) /\ ColumnReceived(t.sub[j], o.value[j])
        BY <1>3 DEF IsRow, RowReceived
      <3> QED BY <3>1, ColumnInOK
    <2>2. AllOf(ColumnsIn(t, o, p), Len(t.sub)) = UNION {c(j) : j \in D}
      BY <1>1 DEF AllOf, ColumnsIn
    <2>3. /\ InBlocks2(t, o, p) = {Block("value", p)} \cup ({Block("data", p)} \cup
                UNION {InBlocks1(t.sub[j], o.value[j], At(p, j)) : j \in D})
          /\ InBlocks(t, o, p) = {Block("value", p)} \cup ({Block("data", p)} \cup
                UNION {InBlocks2(t.sub[j], o.value[j], At(p, j)) : j \in D})
      BY <1>1, <1>3 DEF InBlocks2, InBlocks, InBlocksOf
    <2>4. RowIn(t, o, p) = {Block("value", p), Block("data", p)}
                             \cup AllOf(ColumnsIn(t, o, p), Len(t.sub))
      BY <1>3 DEF RowIn
    <2> HIDE DEF D, c
    <2>5. /\ UNION {InBlocks1(t.sub[j], o.value[j], At(p, j)) : j \in D} = UNION {c(j) : j \in D}
          /\ UNION {InBlocks2(t.sub[j], o.value[j], At(p, j)) : j \in D} = UNION {c(j) : j \in D}
      BY <2>1
    <2> QED BY <2>2, <2>3, <2>4, <2>5
  <1> QED BY <1>2, <1>3

\* and for an array of rows.
LEMMA RowsInOK ==
    ASSUME NEW t, IsRowArray(t), NEW o, RowsReceived(t, o), NEW p
    PROVE  InBlocks(t, o, p) = RowsIn(t, o, p)
  <1>1. t.type = "ARRAY" /\ IsRow(t.sub[1]) /\ t.sub[1].type \in Pointed
    BY DEF IsRowArray, IsRow, Pointed
  <1>2. CASE o.isnull
    BY <1>2 DEF InBlocks, InBlocksOf, RowsIn
  <1>3. CASE ~o.isnull
    <2> DEFINE a == o.value
               s == t.sub[1]
               n == Len(a.data)
               T == {k \in DOMAIN a.data : ~a.nulls[k] /\ s.type \in Pointed}
               E == AllOf(RowElementsIn(t, a, p), n)
               x(i) == Some(a.data[i].pointer)
               top == (IF a.nulls = <<>> THEN {} ELSE {Block("nulls", p), Block("data", p)})
    <2>1. ArrayReceived(a)
      BY <1>3 DEF RowsReceived
    <2>2. n \in Nat /\ DOMAIN a.data = 1..n
      BY <2>1, SequenceOK DEF ArrayReceived
    <2>3. \A i \in T : InBlocks2(s, x(i), At(p, i)) = RowIn(s, x(i), At(p, i))
      <3>1. \A i \in T : RowReceived(s, x(i))
        BY <1>3 DEF RowsReceived
      <3> QED BY <1>1, <3>1, RowInOK
    <2>4. E = UNION {RowIn(s, x(i), At(p, i)) : i \in T}
      BY <1>1, <2>2 DEF AllOf, RowElementsIn
    <2>5. InBlocks(t, o, p) = {Block("value", p)} \cup ({Block("meta", p)} \cup Dims(a, p)
               \cup top \cup UNION {InBlocks2(s, x(i), At(p, i)) : i \in T})
      BY <1>1, <1>3 DEF InBlocks, InBlocksOf
    <2>6. RowsIn(t, o, p) = (IF a.data = <<>> THEN {} ELSE {Block("data", p), Block("nulls", p)})
             \cup Dims(a, p) \cup {Block("meta", p), Block("value", p)} \cup E
      BY <1>3 DEF RowsIn, ArrayTop
    <2>7. a.nulls = <<>> <=> a.data = <<>>
      BY <2>1 DEF ArrayReceived
    <2> HIDE DEF a, s, n, T, E, x
    <2>8. UNION {InBlocks2(s, x(i), At(p, i)) : i \in T} = E
      BY <2>3, <2>4
    <2> QED BY <2>5, <2>6, <2>7, <2>8
  <1> QED BY <1>2, <1>3

-----------------------------------------------------------------------------
(* Freeing what was received.                                              *)

\* Steps that free make memories of memories.
LEMMA FreedMemory ==
    ASSUME NEW U \in SUBSET Uses, NEW p \in Seq(Nat), NEW m \in Memory, NEW n \in Nat,
           NEW B, NEW step, FreesBelow(step, B, n, U, p)
    PROVE  InTurn(step, m, n) \in Memory
  <1> DEFINE Inv == (0..n) \X Memory
  <1>1. <<0, m>> \in Inv
    OBVIOUS
  <1>2. ASSUME NEW i \in 1..n, NEW x, <<i - 1, x>> \in Inv
        PROVE  <<i, step[i][x]>> \in Inv
    <2>1. x \in Memory /\ i \in 0..n
      BY <1>2
    <2>2. step[i][x] = Free(x, B[i]) /\ B[i] \subseteq Under(U, At(p, i))
      BY <2>1 DEF FreesBelow
    <2>3. B[i] \subseteq Blocks
      BY <2>2 DEF Under, Blocks
    <2>4. Free(x, B[i]) \in Memory
      BY <2>1, <2>3, FreeOK
    <2> QED BY <2>1, <2>2, <2>4
  <1> HIDE DEF Inv
  <1>3. <<n, InTurn(step, m, n)>> \in Inv
    BY <1>1, <1>2, EachOK
  <1> QED BY <1>3 DEF Inv

\* Freeing A makes m into r, and A is below p.
Freed(r, m, A, p) == r = Free(m, A) /\ A \subseteq Under(InUses, p)

\* The uses of what is received.
LEMMA InUsesOK ==
    ASSUME NEW p \in Seq(Nat)
    PROVE  /\ InUses \in SUBSET Uses
           /\ Under(InUses, p) \subseteq Blocks
           /\ InUses \X {p} \subseteq Under(InUses, p)
  <1>1. InUses \in SUBSET Uses
    BY DEF InUses, Uses
  <1>2. Under(InUses, p) \subseteq Blocks
    BY <1>1 DEF Under, Blocks
  <1> QED BY <1>1, <1>2, UnderThis

\* The steps free what is allocated for an element or a column, and then Top is.
LEMMA FreeIn ==
    ASSUME NEW p \in Seq(Nat), NEW Top \in SUBSET (InUses \X {p}), NEW m \in Memory,
           NEW n \in Nat, NEW B, NEW step,
           \A i \in 1..n : \A x \in Memory : Freed(step[i][x], x, B[i], At(p, i))
    PROVE  /\ Freed(Free(InTurn(step, m, n), Top), m, Top \cup AllOf(B, n), p)
           /\ InTurn(step, m, n) \in Memory
  <1>1. FreesBelow(step, B, n, InUses, p)
    BY DEF FreesBelow, Freed
  <1>2. InUses \in SUBSET Uses
    BY InUsesOK
  <1>3. /\ Free(InTurn(step, m, n), Top) = Free(m, Top \cup AllOf(B, n))
        /\ Top \cup AllOf(B, n) \subseteq Under(InUses, p)
    BY <1>1, <1>2, FreeTree
  <1>4. InTurn(step, m, n) \in Memory
    BY <1>1, <1>2, FreedMemory
  <1> QED BY <1>3, <1>4 DEF Freed

\* The blocks of an array but for its elements are at its path.
LEMMA ArrayTopOK ==
    ASSUME NEW a, NEW p
    PROVE  ArrayTop(a, p) \in SUBSET (InUses \X {p})
  BY DEF ArrayTop, Dims, Block, InUses

\* Nothing is freed by doing nothing.
LEMMA FreedNone ==
    ASSUME NEW m \in Memory, NEW p
    PROVE  Freed(m, m, {}, p)
  BY FreeNone DEF Freed

\* plc_free_array of an array of scalars.
LEMMA LeafArrayFreed ==
    ASSUME NEW t, IsLeafArray(t), NEW o, ColumnReceived(t, o), ~o.isnull,
           NEW m \in Memory, NEW p \in Seq(Nat)
    PROVE  /\ Freed(FreeArrayOf(NoRow, m, t, o.value, FALSE, p), m, ColumnIn(t, o, p), p)
           /\ Freed(FreeArray(m, t, o.value, FALSE, p), m, ColumnIn(t, o, p), p)
  <1> DEFINE a == o.value
             s == t.sub[1]
             n == Len(a.data)
             B == ElementsIn(t, a, p)
             Top == ArrayTop(a, p)
             s0 == [i \in DOMAIN a.data |-> [x \in Memory |->
                      IF a.nulls[i] \/ s.type \notin Pointed THEN x
                      ELSE Free(IF s.type = "UDT"
                                THEN NoRow(x, s, a.data[i].pointer, FALSE, At(p, i))
                                ELSE x,
                                {Block("value", At(p, i))})]]
             s1 == [i \in DOMAIN a.data |-> [x \in Memory |->
                      IF a.nulls[i] \/ s.type \notin Pointed THEN x
                      ELSE Free(IF s.type = "UDT"
                                THEN FreeUdt(x, s, a.data[i].pointer, FALSE, At(p, i))
                                ELSE x,
                                {Block("value", At(p, i))})]]
  <1>1. t.type = "ARRAY" /\ s.type \notin {"ARRAY", "UDT"} /\ ArrayReceived(a)
    BY DEF IsLeafArray, IsLeaf, ColumnReceived
  <1>2. n \in Nat /\ DOMAIN a.data = 1..n
    BY <1>1, SequenceOK DEF ArrayReceived
  <1>3. /\ FreeArrayOf(NoRow, m, t, o.value, FALSE, p) = Free(InTurn(s0, m, n), Top)
        /\ FreeArray(m, t, o.value, FALSE, p) = Free(InTurn(s1, m, n), Top)
    BY DEF FreeArray, FreeArrayOf, ArrayTop
  <1>4. ASSUME NEW i \in 1..n, NEW x \in Memory
        PROVE  Freed(s0[i][x], x, B[i], At(p, i)) /\ Freed(s1[i][x], x, B[i], At(p, i))
    <2> DEFINE q == At(p, i)
               V == {Block("value", q)}
    <2>1. /\ s0[i][x] = IF a.nulls[i] \/ s.type \notin Pointed THEN x ELSE Free(x, V)
          /\ s1[i][x] = IF a.nulls[i] \/ s.type \notin Pointed THEN x ELSE Free(x, V)
      BY <1>1, <1>2
    <2>2. B[i] = IF a.nulls[i] \/ s.type \notin Pointed THEN {} ELSE V
      BY <1>2 DEF ElementsIn
    <2>3. V \subseteq Under(InUses, q)
      <3>1. q \in Seq(Nat)
        BY Paths
      <3>2. V \subseteq InUses \X {q}
        BY DEF Block, InUses
      <3> HIDE DEF V, q
      <3> QED BY <3>1, <3>2, InUsesOK
    <2> HIDE DEF s0, s1, B, V, q
    <2>4. Freed(x, x, {}, q)
      BY FreedNone
    <2>5. Freed(Free(x, V), x, V, q)
      BY <2>3 DEF Freed
    <2> QED BY <2>1, <2>2, <2>4, <2>5 DEF q
  <1>5. Top \in SUBSET (InUses \X {p})
    BY ArrayTopOK
  <1>6. ColumnIn(t, o, p) = Top \cup AllOf(B, n)
    BY <1>1 DEF ColumnIn
  <1> HIDE DEF s0, s1, B, Top, n
  <1>7. Freed(Free(InTurn(s0, m, n), Top), m, Top \cup AllOf(B, n), p)
    BY <1>2, <1>4, <1>5, FreeIn
  <1>8. Freed(Free(InTurn(s1, m, n), Top), m, Top \cup AllOf(B, n), p)
    BY <1>2, <1>4, <1>5, FreeIn
  <1> QED BY <1>3, <1>6, <1>7, <1>8

\* plc_free_udt of a row, and the plcUDT.
LEMMA RowFreed ==
    ASSUME NEW t, IsRow(t), NEW o, RowReceived(t, o), ~o.isnull,
           NEW m \in Memory, NEW p \in Seq(Nat)
    PROVE  Freed(Free(FreeUdt(m, t, o.value, FALSE, p), {Block("value", p)}),
                 m, RowIn(t, o, p), p)
  <1> DEFINE n == Len(t.sub)
             B == ColumnsIn(t, o, p)
             V == {Block("value", p)}
             W == {Block("data", p)}
             step == [j \in DOMAIN t.sub |-> [x \in Memory |->
                        IF o.value[j].isnull THEN x
                        ELSE IF ~FALSE /\ t.sub[j].type = "ARRAY"
                        THEN FreeArrayOf(NoRow, x, t.sub[j], o.value[j].value, FALSE, At(p, j))
                        ELSE Free(x, {Block("value", At(p, j))})]]
             y == InTurn(step, m, n)
  <1>1. n \in Nat /\ DOMAIN t.sub = 1..n
    BY SequenceOK DEF IsRow
  <1>2. FreeUdt(m, t, o.value, FALSE, p) = Free(y, W)
    BY DEF FreeUdt
  <1>3. ASSUME NEW j \in 1..n, NEW x \in Memory
        PROVE  Freed(step[j][x], x, B[j], At(p, j))
    <2> DEFINE s == t.sub[j]
               v == o.value[j]
               q == At(p, j)
    <2>1. IsColumn(s) /\ ColumnReceived(s, v)
      BY <1>1 DEF IsRow, RowReceived
    <2>2. q \in Seq(Nat)
      BY Paths
    <2>3. step[j][x] = IF v.isnull THEN x
                       ELSE IF s.type = "ARRAY" THEN FreeArrayOf(NoRow, x, s, v.value, FALSE, q)
                       ELSE Free(x, {Block("value", q)})
      BY <1>1
    <2>4. B[j] = ColumnIn(s, v, q)
      BY <1>1 DEF ColumnsIn
    <2> HIDE DEF step, B, s, v, q
    <2>5. CASE v.isnull
      <3>1. B[j] = {} /\ step[j][x] = x
        BY <2>3, <2>4, <2>5 DEF ColumnIn
      <3> QED BY <3>1, FreedNone DEF q
    <2>6. CASE ~v.isnull /\ s.type = "ARRAY"
      <3>1. IsLeafArray(s)
        BY <2>1, <2>6 DEF IsColumn, IsLeaf
      <3>2. Freed(FreeArrayOf(NoRow, x, s, v.value, FALSE, q), x, ColumnIn(s, v, q), q)
        BY <2>1, <2>2, <2>6, <3>1, LeafArrayFreed
      <3> QED BY <2>3, <2>4, <2>6, <3>2 DEF q
    <2>7. CASE ~v.isnull /\ s.type # "ARRAY"
      <3> DEFINE U == {Block("value", q)}
      <3>1. B[j] = U /\ step[j][x] = Free(x, U)
        BY <2>3, <2>4, <2>7 DEF ColumnIn
      <3>2. U \subseteq InUses \X {q}
        BY DEF Block, InUses
      <3> HIDE DEF U
      <3>3. U \subseteq Under(InUses, q)
        BY <2>2, <3>2, InUsesOK
      <3> QED BY <3>1, <3>3 DEF Freed, q
    <2> QED BY <2>5, <2>6, <2>7
  <1>4. {} \in SUBSET (InUses \X {p}) /\ W \cup V \in SUBSET (InUses \X {p})
    BY DEF Block, InUses
  <1>5. W \cap V = {}
    BY DEF Block
  <1>6. RowIn(t, o, p) = (W \cup V) \cup AllOf(B, n)
    BY DEF RowIn
  <1> HIDE DEF n, B, V, W, step
  <1>7. Freed(Free(InTurn(step, m, n), W \cup V), m, (W \cup V) \cup AllOf(B, n), p)
        /\ InTurn(step, m, n) \in Memory
    BY <1>1, <1>3, <1>4, FreeIn
  <1>8. Free(Free(y, W), V) = Free(y, W \cup V)
    <2>1. W \subseteq Blocks /\ V \subseteq Blocks
      BY <1>4, InUsesOK
    <2> HIDE DEF y
    <2>2. y \in Memory
      BY <1>7 DEF y
    <2> QED BY <1>5, <2>1, <2>2, FreeBoth
  <1>9. Freed(Free(y, W \cup V), m, RowIn(t, o, p), p)
    BY <1>6, <1>7
  <1> HIDE DEF y
  <1> QED BY <1>2, <1>8, <1>9 DEF V

\* plc_free_array of an array of rows.
LEMMA RowsFreed ==
    ASSUME NEW t, IsRowArray(t), NEW o, RowsReceived(t, o), ~o.isnull,
           NEW m \in Memory, NEW p \in Seq(Nat)
    PROVE  Freed(FreeArray(m, t, o.value, FALSE, p), m, RowsIn(t, o, p), p)
  <1> DEFINE a == o.value
             s == t.sub[1]
             n == Len(a.data)
             B == RowElementsIn(t, a, p)
             Top == ArrayTop(a, p)
             step == [i \in DOMAIN a.data |-> [x \in Memory |->
                      IF a.nulls[i] \/ s.type \notin Pointed THEN x
                      ELSE Free(IF s.type = "UDT"
                                THEN FreeUdt(x, s, a.data[i].pointer, FALSE, At(p, i))
                                ELSE x,
                                {Block("value", At(p, i))})]]
  <1>1. s.type = "UDT" /\ s.type \in Pointed /\ IsRow(s) /\ ArrayReceived(a)
    BY DEF IsRowArray, IsRow, Pointed, RowsReceived
  <1>2. n \in Nat /\ DOMAIN a.data = 1..n
    BY <1>1, SequenceOK DEF ArrayReceived
  <1>3. FreeArray(m, t, o.value, FALSE, p) = Free(InTurn(step, m, n), Top)
    BY DEF FreeArray, FreeArrayOf, ArrayTop
  <1>4. ASSUME NEW i \in 1..n, NEW x \in Memory
        PROVE  Freed(step[i][x], x, B[i], At(p, i))
    <2> DEFINE q == At(p, i)
               v == Some(a.data[i].pointer)
    <2>1. step[i][x] = IF a.nulls[i] THEN x
                       ELSE Free(FreeUdt(x, s, a.data[i].pointer, FALSE, q), {Block("value", q)})
      BY <1>1, <1>2
    <2>2. B[i] = IF a.nulls[i] THEN {} ELSE RowIn(s, v, q)
      BY <1>2 DEF RowElementsIn
    <2>3. v.isnull = FALSE /\ v.value = a.data[i].pointer
      BY Flags
    <2>4. q \in Seq(Nat)
      BY Paths
    <2>5. ~a.nulls[i] => RowReceived(s, v)
      BY <1>2 DEF RowsReceived
    <2> HIDE DEF step, B, s, v, q
    <2>6. CASE a.nulls[i]
      <3>1. B[i] = {} /\ step[i][x] = x
        BY <2>1, <2>2, <2>6
      <3> QED BY <3>1, FreedNone
    <2>7. CASE ~a.nulls[i]
      <3>1. Freed(Free(FreeUdt(x, s, v.value, FALSE, q), {Block("value", q)}),
                  x, RowIn(s, v, q), q)
        BY <1>1, <2>3, <2>4, <2>5, <2>7, RowFreed
      <3> QED BY <2>1, <2>2, <2>3, <2>7, <3>1 DEF q
    <2> QED BY <2>6, <2>7
  <1>5. Top \in SUBSET (InUses \X {p})
    BY ArrayTopOK
  <1>6. RowsIn(t, o, p) = Top \cup AllOf(B, n)
    BY DEF RowsIn
  <1> HIDE DEF step, B, Top, n
  <1>7. Freed(Free(InTurn(step, m, n), Top), m, Top \cup AllOf(B, n), p)
    BY <1>2, <1>4, <1>5, FreeIn
  <1> QED BY <1>3, <1>6, <1>7

\* All that was received is freed, and it is below the value.
LEMMA MessageFreed ==
    ASSUME NEW t, IsMessage(t), NEW o, MessageReceived(t, o), NEW m \in Memory
    PROVE  Freed(FreeObject(m, t, o, FALSE, <<>>), m, InBlocks(t, o, <<>>), <<>>)
  <1> DEFINE p == <<>>
             V == {Block("value", p)}
  <1>1. p \in Seq(Nat)
    OBVIOUS
  <1>2. V \in SUBSET (InUses \X {p})
    BY DEF Block, InUses
  <1> HIDE DEF p
  <1>3. CASE o.isnull
    <2>1. InBlocks(t, o, p) = {}
      BY <1>3 DEF InBlocks, InBlocksOf
    <2>2. FreeObject(m, t, o, FALSE, p) = m
      BY <1>3 DEF FreeObject
    <2> QED BY <2>1, <2>2, FreedNone DEF p
  <1>4. CASE ~o.isnull /\ IsLeaf(t)
    <2>1. InBlocks(t, o, p) = V
      <3>1. t.type \notin {"ARRAY", "UDT"} /\ o.isnull \in BOOLEAN
        BY <1>4, Flagged DEF IsLeaf, MessageReceived, IsColumn, ColumnReceived
      <3>2. InBlocks(t, o, p) = ColumnIn(t, o, p) /\ ColumnIn(t, o, p) = {Block("value", p)}
        BY <1>4, <3>1, ScalarIn
      <3> QED BY <3>2
    <2>2. FreeObject(m, t, o, FALSE, p) = Free(m, V)
      BY <1>4 DEF FreeObject, IsLeaf
    <2> HIDE DEF V
    <2>3. V \subseteq Under(InUses, p)
      BY <1>1, <1>2, InUsesOK
    <2> QED BY <2>1, <2>2, <2>3 DEF Freed, p
  <1>5. CASE ~o.isnull /\ IsLeafArray(t)
    <2>1. ColumnReceived(t, o) /\ t.type = "ARRAY"
      BY <1>5 DEF MessageReceived, IsColumn, IsLeafArray
    <2>2. Freed(FreeArray(m, t, o.value, FALSE, p), m, ColumnIn(t, o, p), p)
      BY <1>1, <1>5, <2>1, LeafArrayFreed
    <2>3. InBlocks(t, o, p) = ColumnIn(t, o, p)
      BY <1>5, <2>1, LeafArrayIn
    <2>4. FreeObject(m, t, o, FALSE, p) = FreeArray(m, t, o.value, FALSE, p)
      BY <1>5, <2>1 DEF FreeObject
    <2> QED BY <2>2, <2>3, <2>4 DEF p
  <1>6. CASE ~o.isnull /\ IsRow(t)
    <2>1. RowReceived(t, o) /\ t.type = "UDT"
      BY <1>6 DEF MessageReceived, IsRow
    <2>2. Freed(Free(FreeUdt(m, t, o.value, FALSE, p), V), m, RowIn(t, o, p), p)
      BY <1>1, <1>6, <2>1, RowFreed
    <2>3. InBlocks(t, o, p) = RowIn(t, o, p)
      BY <1>6, <2>1, RowInOK
    <2>4. FreeObject(m, t, o, FALSE, p) = Free(FreeUdt(m, t, o.value, FALSE, p), V)
      BY <1>6, <2>1 DEF FreeObject
    <2> QED BY <2>2, <2>3, <2>4 DEF p
  <1>7. CASE ~o.isnull /\ IsRowArray(t)
    <2>1. RowsReceived(t, o) /\ t.type = "ARRAY"
      BY <1>7 DEF MessageReceived, IsRowArray
    <2>2. Freed(FreeArray(m, t, o.value, FALSE, p), m, RowsIn(t, o, p), p)
      BY <1>1, <1>7, <2>1, RowsFreed
    <2>3. InBlocks(t, o, p) = RowsIn(t, o, p)
      BY <1>7, <2>1, RowsInOK
    <2>4. FreeObject(m, t, o, FALSE, p) = FreeArray(m, t, o.value, FALSE, p)
      BY <1>7, <2>1 DEF FreeObject
    <2> QED BY <2>2, <2>3, <2>4 DEF p
  <1> QED BY <1>3, <1>4, <1>5, <1>6, <1>7 DEF IsMessage, IsColumn

-----------------------------------------------------------------------------
(* What the arrays of a message are sent with is there.                    *)

\* An array of a call needs the row and its description, which are kept.
LEMMA CallServed ==
    ASSUME IsMessage(MessageType)
    PROVE  MessageServed({Tuple} \cup TypeBlocks("info", MessageType, <<>>), MessageType)
  <1> DEFINE t == MessageType
             T == TypeBlocks("info", t, <<>>)
             K == {Tuple} \cup T
  <1>1. \A s : s = <<s[1]>> => s # <<>> /\ DOMAIN s = {1}
    OBVIOUS
  <1>2. Served(K, t, <<>>)
    <2>1. SUFFICES ASSUME t.type = "ARRAY" PROVE DescriptionOf(<<>>) \in T
      BY DEF Served
    <2>2. t.sub # <<>>
      BY <1>1, <2>1 DEF IsMessage, IsColumn, IsLeaf, IsLeafArray, IsRow, IsRowArray
    <2>3. DescriptionOf(<<>>) = Block("info", <<>>)
      BY DEF DescriptionOf
    <2> HIDE DEF t
    <2> QED BY <2>2, <2>3 DEF TypeBlocks, TypeBlocksOf
  <1>3. ASSUME NEW c, c.type = "ARRAY", IsColumn(c), NEW p
        PROVE  Block("info", p) \in TypeBlocks1("info", c, p)
               /\ Block("info", p) \in TypeBlocks2("info", c, p)
    <2>1. c.sub # <<>>
      BY <1>1, <1>3 DEF IsColumn, IsLeaf, IsLeafArray
    <2> QED BY <2>1 DEF TypeBlocks1, TypeBlocks2, TypeBlocksOf
  <1>4. ASSUME IsRow(t) PROVE ColumnsServed(K, t, <<>>)
    <2>1. SUFFICES ASSUME NEW j \in DOMAIN t.sub, t.sub[j].type = "ARRAY"
                   PROVE  DescriptionOf(At(<<>>, j)) \in T
      BY DEF ColumnsServed, Served
    <2>2. DescriptionOf(At(<<>>, j)) = Block("info", At(<<>>, j))
      BY <1>4 DEF DescriptionOf, IsRow
    <2>3. Block("info", At(<<>>, j)) \in TypeBlocks2("info", t.sub[j], At(<<>>, j))
      BY <1>3, <1>4, <2>1 DEF IsRow
    <2>4. t.sub # <<>>
      OBVIOUS
    <2> HIDE DEF t
    <2> QED BY <2>2, <2>3, <2>4 DEF TypeBlocks, TypeBlocksOf
  <1>5. ASSUME IsRowArray(t), NEW i \in Nat PROVE ColumnsServed(K, t.sub[1], At(<<>>, i))
    <2>1. SUFFICES ASSUME NEW j \in DOMAIN t.sub[1].sub, t.sub[1].sub[j].type = "ARRAY"
                   PROVE  DescriptionOf(At(At(<<>>, i), j)) \in T
      BY DEF ColumnsServed, Served
    <2> DEFINE s == t.sub[1]
               q == At(At(<<>>, 1), j)
    <2>2. t.type = "ARRAY" /\ t.sub = <<s>> /\ IsRow(s)
      BY <1>5 DEF IsRowArray
    <2>3. j \in Nat
      <3>1. DOMAIN s.sub = 1..Len(s.sub) /\ Len(s.sub) \in Nat
        BY <2>2, SequenceOK DEF IsRow
      <3> QED BY <2>1, <3>1
    <2>4. DescriptionOf(At(At(<<>>, i), j)) = Block("info", q)
      <3> DEFINE r == At(At(<<>>, i), j)
      <3>1. /\ r \in Seq(Nat) /\ Len(r) = 2 /\ r[2] = j
            /\ q \in Seq(Nat) /\ Len(q) = 2 /\ q[1] = 1 /\ q[2] = j
        <4>1. ASSUME NEW k \in Nat
              PROVE  /\ At(At(<<>>, k), j) \in Seq(Nat) /\ Len(At(At(<<>>, k), j)) = 2
                     /\ At(At(<<>>, k), j)[1] = k /\ At(At(<<>>, k), j)[2] = j
          <5> DEFINE e == <<>>
                     x == At(e, k)
          <5>1. e \in Seq(Nat) /\ Len(e) = 0
            OBVIOUS
          <5> HIDE DEF e
          <5>2. x \in Seq(Nat) /\ Len(x) = Len(e) + 1 /\ x[Len(e) + 1] = k
            BY <5>1, Paths
          <5>3. Len(e) + 1 = 1
            BY <5>1
          <5>4. Len(x) = 1 /\ x[1] = k
            BY <5>2, <5>3
          <5> HIDE DEF x
          <5>5. /\ At(x, j) \in Seq(Nat) /\ Len(At(x, j)) = Len(x) + 1
                /\ At(x, j)[Len(x) + 1] = j
                /\ \A l \in 1..Len(x) : At(x, j)[l] = x[l]
            BY <2>3, <5>2, Paths
          <5> DEFINE y == At(x, j)
          <5> HIDE DEF y
          <5>6. y \in Seq(Nat) /\ Len(y) = 2 /\ y[1] = k /\ y[2] = j
            BY <5>4, <5>5 DEF y
          <5> QED BY <5>6 DEF x, y, e
        <4> QED BY <4>1
      <3> HIDE DEF q, r
      <3>2. [r EXCEPT ![1] = 1] = q /\ r # <<>>
        BY <3>1
      <3>3. DescriptionOf(r) = Block("info", q)
        BY <2>2, <3>2 DEF DescriptionOf
      <3> QED BY <3>3 DEF r
    <2>5. Block("info", q) \in TypeBlocks1("info", s.sub[j], q)
      <3>1. IsColumn(s.sub[j])
        BY <2>1, <2>2 DEF IsRow
      <3> QED BY <1>3, <2>1, <3>1
    <2>6. s.sub # <<>>
      BY <2>1
    <2>7. Block("info", q) \in TypeBlocks2("info", s, At(<<>>, 1))
      <3> HIDE DEF s
      <3> QED BY <2>1, <2>5, <2>6 DEF TypeBlocks2, TypeBlocksOf, s
    <2>8. t.sub # <<>> /\ 1 \in DOMAIN t.sub
      BY <2>2
    <2> HIDE DEF t, q
    <2>9. Block("info", q) \in T
      BY <2>7, <2>8 DEF TypeBlocks, TypeBlocksOf
    <2> QED BY <2>4, <2>9
  <1> QED BY <1>2, <1>4, <1>5 DEF MessageServed

\* t is not an array, and neither is what is sent of a column of it.
NoArray(t) ==
    /\ t.kind # "array"
    /\ t.kind = "row" =>
          \A i \in DOMAIN t.cols : ~t.cols[i].dropped => t.cols[i].type.kind # "array"

\* What has no array needs nothing.
LEMMA SqlServed ==
    ASSUME NEW t, IsType(t), NoArray(t)
    PROVE  MessageServed({}, CopyType(TypeInfo(t)))
  <1> DEFINE ct == CopyType(TypeInfo(t))
  <1>1. CASE t.kind # "row"
    <2>1. IsLeaf(ct)
      BY <1>1, LeafIs DEF NoArray
    <2> HIDE DEF ct
    <2>2. MessageServed({}, ct)
      BY <2>1 DEF IsLeaf, MessageServed, Served, IsRow, IsRowArray
    <2> QED BY <2>2 DEF ct
  <1>2. CASE t.kind = "row"
    <2> DEFINE kept == KeptOf(t.cols)
               col(j) == t.cols[kept[j]].type
    <2>1. Fits(t, FALSE, FALSE) /\ IsRowType(t)
      BY <1>2 DEF Fits, IsType
    <2>2. ct.sub = [j \in DOMAIN kept |-> Copy2(Info2(col(j), FALSE, TRUE))]
      BY <1>2, <2>1, CopyOfRow
    <2>3. ct.type = "UDT"
      BY <1>2, <2>1, RowIs DEF IsRow
    <2>4. \A j \in DOMAIN kept : Copy2(Info2(col(j), FALSE, TRUE)).type # "ARRAY"
      <3>1. \A j \in DOMAIN kept : kept[j] \in DOMAIN t.cols /\ ~t.cols[kept[j]].dropped
        BY <2>1, KeptOK
      <3>2. \A j \in DOMAIN kept : col(j).kind # "array"
        BY <1>2, <3>1 DEF NoArray
      <3> QED BY <3>2, LeafIs DEF IsLeaf
    <2> HIDE DEF ct, kept, col
    <2>5. \A j \in DOMAIN ct.sub : ct.sub[j].type # "ARRAY"
      BY <2>2, <2>4
    <2>6. MessageServed({}, ct)
      BY <2>3, <2>5 DEF MessageServed, Served, ColumnsServed, IsRowArray
    <2> QED BY <2>6 DEF ct
  <1> QED BY <1>1, <1>2

\* free_callreq and free_result of what was sent.
LEMMA MessageDiscarded ==
    ASSUME NEW t, IsMessage(t), NEW o, MessageObject(t, o), NEW m \in Memory
    PROVE  /\ FreeObject(m, t, o, TRUE, <<>>) = Free(m, Kept(t, o, <<>>))
           /\ AllBelow(t, o, <<>>)
  <1> DEFINE p == <<>>
  <1>1. p \in Seq(Nat)
    OBVIOUS
  <1>2. ValueOf(t, o)
    BY DEF IsMessage, IsColumn, IsLeaf, IsLeafArray, IsRowArray, IsRow, MessageObject,
           ColumnObject, RowsObject, LeafObject, ValueOf
  <1>3. FreeObject(m, t, o, TRUE, p) = Discarded(m, t, o, p)
    BY DEF FreeObject, Discarded
  <1> HIDE DEF p
  <1>4. Discarded(m, t, o, p) = Free(m, Kept(t, o, p)) /\ AllBelow(t, o, p)
    BY <1>1, <1>2, DiscardedOK, ValueBelow
  <1> QED BY <1>3, <1>4 DEF p

-----------------------------------------------------------------------------
(* The messages of a call.                                                 *)

ValueInv ==
    /\ pc \in {"start", "built", "sent", "freed", "received", "processed"}
    /\ type \in ArgTypes \cup ColumnTypes
    /\ value \in {Some(v) : v \in ValuesOf[type]} \cup {Null}

\* Where the value is, between the steps that convert it.
ConversionInv ==
    /\ ValueInv
    /\ pc = "built" => obj = Converted
    /\ wire # Garbage => wire = OnWire(MessageType, Converted)
    /\ pc = "received" =>
          type \in ResultTypes /\ wire # Garbage /\ obj = Received(MessageType, wire)
    /\ pc = "processed" => returned = Rounded(type, value)

\* The value is a value of its type.
LEMMA ValueOK ==
    ASSUME ValueInv
    PROVE  /\ IsType(type) /\ IsDatum(type, value)
           /\ type \in ResultTypes => NoneDropped(type)
  <1>1. CASE value = Null
    <2>1. IsDatum(type, Null)
      BY Flags DEF IsDatum, DatumOf, MayBeNull
    <2> QED BY <1>1, <2>1, MemoryAssumption DEF ValueInv
  <1>2. CASE value \in {Some(v) : v \in ValuesOf[type]}
    BY <1>2, MemoryAssumption DEF ValueInv
  <1> QED BY <1>1, <1>2 DEF ValueInv

\* What is sent is what is meant.
LEMMA SentOK ==
    ASSUME ValueInv
    PROVE  OnWire(MessageType, Converted) = Meant(type, value)
  <1>1. Converted = AsObject(TypeInfo(type), value)
    BY DEF Converted, AsObject, Info
  <1>2. IsType(type) /\ IsDatum(type, value)
    BY ValueOK
  <1> QED BY <1>1, <1>2, SentAll DEF MessageType, Info

\* What is made of it is the value that was sent.
LEMMA ReturnedOK ==
    ASSUME ValueInv, type \in ResultTypes
    PROVE  UnlessNull(LAMBDA x : FromValue(Info, x), Received(MessageType, Meant(type, value)))
             = Rounded(type, value)
  <1> DEFINE info == TypeInfo(type)
             r == Received(CopyType(info), Meant(type, value))
  <1>1. IsType(type) /\ IsDatum(type, value) /\ NoneDropped(type)
    BY ValueOK
  <1>2. Returns(FromValue, info, r) = Rounded(type, value)
    BY <1>1, ReturnedAll
  <1>3. \A v : SlotOf(info, v) = v
    <2>1. InfoOK(info, FALSE, FALSE)
      BY InfosOK
    <2> HIDE DEF info
    <2> QED BY <2>1 DEF InfoOK, SlotOf
  <1> HIDE DEF r, info
  <1>4. Returns(FromValue, info, r) = UnlessNull(LAMBDA x : FromValue(info, x), r)
    BY <1>3 DEF Returns, UnlessNull
  <1> QED BY <1>2, <1>4 DEF r, info, MessageType, Info

\* Initially nothing is converted.
LEMMA ConversionInit ==
    Init => ConversionInv
  <1> SUFFICES ASSUME Init PROVE ConversionInv
    OBVIOUS
  <1>1. type \in ArgTypes \cup ColumnTypes
    BY DEF Init
  <1> QED BY <1>1 DEF Init, ConversionInv, ValueInv

\* Every step converts what is there, in the order of the code.
LEMMA ConversionStep ==
    ConversionInv /\ [Next]_vars => ConversionInv'
  <1> SUFFICES ASSUME ConversionInv, [Next]_vars PROVE ConversionInv'
    OBVIOUS
  <1>1. CASE UNCHANGED vars
    <2>1. /\ ValueInv' /\ MessageType' = MessageType /\ Converted' = Converted
          /\ Rounded(type, value)' = Rounded(type, value)
      BY <1>1 DEF vars, ConversionInv, ValueInv, Converted, MessageType, Info, UnlessNull
    <2> QED BY <1>1, <2>1 DEF vars, ConversionInv
  <1>2. ASSUME UNCHANGED <<type, value>>,
               pc' \in {"start", "built", "sent", "freed", "received", "processed"}
        PROVE  /\ ValueInv' /\ MessageType' = MessageType /\ Info' = Info
               /\ Converted' = Converted /\ Rounded(type, value)' = Rounded(type, value)
    BY <1>2 DEF ConversionInv, ValueInv, Converted, MessageType, Info, UnlessNull
  <1>3. CASE CreateCall \/ CreateSqlResult
    BY <1>2, <1>3 DEF CreateCall, CreateSqlResult, ConversionInv
  <1>4. CASE Send
    <2>1. wire' = Garbage \/ wire' = OnWire(MessageType, obj)
      BY <1>4 DEF Send
    <2> QED BY <1>2, <1>4, <2>1 DEF Send, ConversionInv
  <1>5. CASE FreeSent
    BY <1>2, <1>5 DEF FreeSent, ConversionInv
  <1>6. CASE Receive
    BY <1>2, <1>6 DEF Receive, ConversionInv
  <1>7. CASE ProcessResult
    <2>1. returned' = Rounded(type, value)
      <3>1. obj = Received(MessageType, Meant(type, value)) /\ type \in ResultTypes
        BY <1>7, SentOK DEF ProcessResult, ConversionInv
      <3>2. ValueInv
        BY DEF ConversionInv
      <3>3. returned' = UnlessNull(LAMBDA x : FromValue(Info, x), obj)
        BY <1>7 DEF ProcessResult
      <3> QED BY <3>1, <3>2, <3>3, ReturnedOK
    <2> QED BY <1>2, <1>7, <2>1 DEF ProcessResult, ConversionInv
  <1> QED BY <1>1, <1>3, <1>4, <1>5, <1>6, <1>7 DEF Next

\* So it always is.
LEMMA ConversionAlways ==
    Spec => []ConversionInv
  BY ConversionInit, ConversionStep, PTL DEF Spec

\* Every message has a type that is freed as deep as it goes: the descriptions
\* of plc_typeio.c have no row within a row and no array within an array.
THEOREM MemoryTypeCorrect == Spec => []MemoryTypeOK
  <1>1. ConversionInv => MemoryTypeOK
    <2> SUFFICES ASSUME ConversionInv PROVE MemoryTypeOK
      OBVIOUS
    <2>1. ValueInv
      BY DEF ConversionInv
    <2>2. IsType(type)
      BY <2>1, ValueOK
    <2>3. MessageType = CopyType(TypeInfo(type))
      BY DEF MessageType, Info
    <2>4. IsMessage(MessageType)
      BY <2>2, <2>3, MessageIs
    <2>5. /\ MessageType.type = "UDT" => RowOK(MessageType)
          /\ MessageType.type = "ARRAY" =>
                (MessageType.sub[1].sub # <<>> =>
                    MessageType.sub[1].type = "UDT" /\ RowOK(MessageType.sub[1]))
      BY <2>4, MessageTypesOK
    <2> QED BY <2>1, <2>5 DEF MemoryTypeOK, ValueInv
  <1> QED BY <1>1, ConversionAlways, PTL

\* For every type and every Datum of it, whichever elements are null and
\* whichever columns are dropped, the peer receives what was passed.
THEOREM ReceivedCorrect == Spec => []ReceivedAsPassed
  <1>1. ConversionInv => ReceivedAsPassed
    BY SentOK DEF ConversionInv, ReceivedAsPassed
  <1> QED BY <1>1, ConversionAlways, PTL

\* A function that returns its argument returns it as it was, for every type
\* without dropped columns, whatever is null in it.
THEOREM ReturnedCorrect == Spec => []ReturnedAsPassed
  <1>1. ConversionInv => ReturnedAsPassed
    BY DEF ConversionInv, ReturnedAsPassed
  <1> QED BY <1>1, ConversionAlways, PTL

-----------------------------------------------------------------------------
(* The memory between the steps.                                           *)

\* The blocks of the description, of the type, and of the value that is sent;
\* those that are freed with the message; those of the value received.
Infos == TypeBlocks("info", MessageType, <<>>)
Types == TypeBlocks("type", MessageType, <<>>)
Outs == OutBlocks(MessageType, Converted, <<>>)
Keeps == Kept(MessageType, Converted, <<>>)
Ins == InBlocks(MessageType, obj, <<>>)

\* What belongs to the cache and to the caller while the message exists.
Theirs == IF sql THEN {} ELSE {Tuple} \cup Infos

\* B is allocated, and nothing else unless the message was not sent in full.
Holds(B) ==
    /\ Theirs \cup B \subseteq mem.live
    /\ ~mem.failed => mem.live = Theirs \cup B

\* Which blocks there are, when; after a failure there may be more of them, but
\* then nothing is received.
MemoryInv ==
    /\ sql \in BOOLEAN /\ (sql => type \in ColumnTypes)
    /\ mem \in Memory /\ mem.wild = {}
    /\ mem.failed => wire = Garbage
    /\ pc = "start" => mem.live = {Tuple} /\ ~mem.failed
    /\ pc = "built" => Holds(Types \cup Outs) /\ ~mem.failed
    /\ pc = "sent" => Holds(Types \cup Keeps) /\ obj = Converted
    /\ pc = "freed" => Holds({})
    /\ pc = "received" => Holds(Types \cup Ins) /\ ~mem.failed /\ ~sql
    /\ pc = "processed" => Holds({}) /\ ~mem.failed

\* Blocks of different uses are different.
LEMMA UsesApart ==
    ASSUME NEW U, NEW V, U \cap V = {}
    PROVE  \A A, B : A \subseteq U \X Seq(Nat) /\ B \subseteq V \X Seq(Nat) => A \cap B = {}
  OBVIOUS

\* The uses of what a message shares with others.
TheirUses == {"tuple", "info"}

\* The row is no block of a message.
LEMMA TupleOK ==
    {Tuple} \subseteq {"tuple"} \X Seq(Nat)
  <1> DEFINE p == <<>>
  <1>1. p \in Seq(Nat)
    OBVIOUS
  <1>2. Tuple = <<"tuple", p>>
    BY DEF Tuple, Block
  <1> HIDE DEF p
  <1> QED BY <1>1, <1>2

\* The description, the type and the value of a message have blocks of their own.
LEMMA MessageParts ==
    ASSUME ValueInv, mem \in Memory
    PROVE  /\ IsMessage(MessageType) /\ Deep3(MessageType)
           /\ MessageObject(MessageType, Converted)
           /\ Infos \subseteq {"info"} \X Seq(Nat)
           /\ Types \subseteq {"type"} \X Seq(Nat)
           /\ Outs \subseteq Under(SendUses, <<>>)
           /\ Outs = Iter(MessageType, Converted, <<>>) \cup Keeps
           /\ Iter(MessageType, Converted, <<>>) \cap Keeps = {}
           /\ Theirs \subseteq TheirUses \X Seq(Nat)
  <1>1. IsType(type) /\ IsDatum(type, value)
    BY ValueOK
  <1>2. MessageType = CopyType(TypeInfo(type)) /\ Converted = AsObject(TypeInfo(type), value)
    BY DEF MessageType, Converted, AsObject, Info
  <1>3. IsMessage(MessageType) /\ MessageObject(MessageType, Converted)
    BY <1>1, <1>2, MessageIs, MessageGiven
  <1>4. Deep3(MessageType)
    BY <1>3, MessageDeep
  <1>5. AllBelow(MessageType, Converted, <<>>)
    BY <1>3, MessageDiscarded
  <1>6. \A use \in Uses : TypeBlocks(use, MessageType, <<>>) \subseteq {use} \X Seq(Nat)
    <2> TAKE use \in Uses
    <2> DEFINE p == <<>>
               B == TypeBlocks(use, MessageType, p)
    <2>1. p \in Seq(Nat)
      OBVIOUS
    <2> HIDE DEF p
    <2>2. B \subseteq Under({use}, p)
      BY <1>4, <2>1, FreeType3OK
    <2> HIDE DEF B
    <2>3. B \subseteq {use} \X Seq(Nat)
      BY <2>2 DEF Under
    <2> QED BY <2>3 DEF B, p
  <1>7. Infos \subseteq {"info"} \X Seq(Nat) /\ Types \subseteq {"type"} \X Seq(Nat)
    BY <1>6 DEF Infos, Types, Uses
  <1>8. Theirs \subseteq TheirUses \X Seq(Nat)
    BY <1>7, TupleOK DEF Theirs, TheirUses
  <1> QED BY <1>3, <1>4, <1>5, <1>7, <1>8 DEF AllBelow, Outs, Keeps

\* What frees a type or a description frees its blocks.
LEMMA TypesFreed ==
    ASSUME ValueInv, mem \in Memory, NEW m \in Memory
    PROVE  /\ FreeType(m, "type", MessageType, <<>>) = Free(m, Types)
           /\ FreeType(m, "info", MessageType, <<>>) = Free(m, Infos)
  <1> DEFINE p == <<>>
  <1>1. p \in Seq(Nat) /\ "type" \in Uses /\ "info" \in Uses
    BY DEF Uses
  <1> HIDE DEF p
  <1>2. Deep3(MessageType)
    BY MessageParts
  <1>3. /\ FreeType(m, "type", MessageType, p) = Free(m, TypeBlocks("type", MessageType, p))
        /\ FreeType(m, "info", MessageType, p) = Free(m, TypeBlocks("info", MessageType, p))
    BY <1>1, <1>2, FreeType3OK
  <1> QED BY <1>3 DEF Types, Infos, p

\* The parts of a message are blocks, and apart from each other.
LEMMA PartsOK ==
    ASSUME ValueInv, mem \in Memory
    PROVE  /\ Infos \in SUBSET Blocks /\ Types \in SUBSET Blocks /\ Outs \in SUBSET Blocks
           /\ {Tuple} \in SUBSET Blocks
           /\ Theirs \cap Types = {} /\ Theirs \cap Outs = {} /\ Types \cap Outs = {}
           /\ Infos \cap Types = {} /\ Infos \cap Outs = {}
           /\ Tuple \notin Infos /\ Tuple \notin Types /\ Tuple \notin Outs
  <1>1. Outs \subseteq SendUses \X Seq(Nat)
    BY MessageParts DEF Under
  <1>2. /\ TheirUses \cap {"type"} = {} /\ TheirUses \cap SendUses = {}
        /\ {"type"} \cap SendUses = {} /\ {"info"} \cap {"type"} = {}
        /\ {"info"} \cap SendUses = {}
        /\ {"tuple"} \cap {"info"} = {} /\ {"tuple"} \cap {"type"} = {}
        /\ {"tuple"} \cap SendUses = {}
    BY DEF TheirUses, SendUses
  <1>3. {Tuple} \subseteq {"tuple"} \X Seq(Nat)
    BY TupleOK
  <1>4. /\ SendUses \subseteq Uses /\ {"info"} \subseteq Uses
        /\ {"type"} \subseteq Uses /\ {"tuple"} \subseteq Uses
    BY DEF SendUses, Uses
  <1>5. Theirs \cap Types = {} /\ Theirs \cap Outs = {} /\ Types \cap Outs = {}
    BY <1>1, <1>2, MessageParts, UsesApart
  <1>6. Infos \cap Types = {} /\ Infos \cap Outs = {}
    BY <1>1, <1>2, MessageParts, UsesApart
  <1>7. {Tuple} \cap Infos = {} /\ {Tuple} \cap Types = {} /\ {Tuple} \cap Outs = {}
    BY <1>1, <1>2, <1>3, MessageParts, UsesApart
  <1>8. Infos \in SUBSET Blocks /\ Types \in SUBSET Blocks
    BY <1>4, MessageParts DEF Blocks
  <1>9. Outs \in SUBSET Blocks /\ {Tuple} \in SUBSET Blocks
    BY <1>1, <1>3, <1>4 DEF Blocks
  <1> QED BY <1>5, <1>6, <1>7, <1>8, <1>9

\* The message is the same as long as the value is.
LEMMA SameMessage ==
    ASSUME UNCHANGED <<type, value, sql>>
    PROVE  /\ Infos' = Infos /\ Types' = Types /\ Outs' = Outs /\ Keeps' = Keeps
           /\ Theirs' = Theirs /\ Converted' = Converted /\ MessageType' = MessageType
  <1>1. MessageType' = MessageType /\ Converted' = Converted
    BY DEF MessageType, Info, Converted, UnlessNull
  <1>2. Infos' = Infos
    BY <1>1 DEF Infos
  <1>3. Theirs' = Theirs
    BY <1>2 DEF Theirs, Tuple, Block
  <1> QED BY <1>1, <1>2, <1>3 DEF Types, Outs, Keeps

\* Initially there is only the row.
LEMMA MemoryInit ==
    Init => MemoryInv
  <1> SUFFICES ASSUME Init PROVE MemoryInv
    OBVIOUS
  <1>1. {Tuple} \in SUBSET Blocks
    BY TupleOK DEF Blocks, Uses
  <1>2. mem = [live |-> {Tuple}, wild |-> {}, left |-> 0, failed |-> FALSE]
    BY DEF Init, NewMemory
  <1>3. 0 \in 0..Unlimited
    BY MemoryAssumption DEF Unlimited
  <1>4. mem \in Memory
    BY <1>1, <1>2, <1>3 DEF Memory, Blocks
  <1>5. pc = "start" /\ sql \in BOOLEAN /\ (sql => type \in ColumnTypes)
    BY DEF Init
  <1> HIDE DEF Tuple
  <1> QED BY <1>2, <1>4, <1>5 DEF MemoryInv

\* pljvm_create_call and create_sql_result
LEMMA BuildOK ==
    ASSUME ValueInv, MemoryInv, CreateCall \/ CreateSqlResult
    PROVE  MemoryInv'
  <1> DEFINE a == Alloc(mem, Built)
  <1>1. mem \in Memory /\ mem.live = {Tuple} /\ mem.wild = {} /\ ~mem.failed
    BY DEF MemoryInv, CreateCall, CreateSqlResult
  <1>2. Built = Infos \cup Types \cup Outs
    BY DEF Built, Infos, Types, Outs
  <1>3. Built \in SUBSET Blocks
    BY <1>1, <1>2, PartsOK
  <1>4. a \in Memory /\ a.live = {Tuple} \cup Built /\ a.wild = {} /\ ~a.failed
    BY <1>1, <1>3, AllocOK
  <1> HIDE DEF a
  <1>5. UNCHANGED <<type, value, sql, wire>> /\ pc' = "built"
    BY DEF CreateCall, CreateSqlResult
  <1>6. Types' = Types /\ Outs' = Outs /\ Theirs' = Theirs
    BY <1>5, SameMessage
  <1>7. /\ mem' \in Memory /\ mem'.wild = {} /\ ~mem'.failed
        /\ mem'.live = Theirs \cup (Types \cup Outs)
    <2>1. CASE CreateCall
      <3>1. mem' = a /\ ~sql
        BY <2>1 DEF CreateCall, a
      <3> QED BY <1>2, <1>4, <3>1 DEF Theirs
    <2>2. CASE CreateSqlResult
      <3>1. mem' = Free(FreeType(a, "info", MessageType, <<>>), {Tuple}) /\ sql
        BY <2>2 DEF CreateSqlResult, a
      <3> DEFINE b == Free(a, Infos)
      <3>2. mem' = Free(b, {Tuple})
        BY <1>1, <1>4, <3>1, TypesFreed
      <3>3. Infos \in SUBSET a.live
        BY <1>2, <1>4
      <3>4. b \in Memory /\ b.live = a.live \ Infos /\ b.wild = {} /\ ~b.failed
        BY <1>4, <3>3, FreeLive
      <3> HIDE DEF b
      <3>5. b.live = {Tuple} \cup (Types \cup Outs)
        BY <1>1, <1>2, <1>4, <3>4, PartsOK
      <3>6. {Tuple} \in SUBSET b.live
        BY <3>5
      <3>7. mem' \in Memory /\ mem'.live = b.live \ {Tuple} /\ mem'.wild = {} /\ ~mem'.failed
        BY <3>2, <3>4, <3>6, FreeLive
      <3>8. mem'.live = Types \cup Outs
        BY <1>1, <3>5, <3>7, PartsOK
      <3> QED BY <3>1, <3>7, <3>8 DEF Theirs
    <2> QED BY <2>1, <2>2
  <1> QED BY <1>5, <1>6, <1>7 DEF MemoryInv, Holds

\* No column of an SQL result has an array: see NoArray.
NoArrays == \A t \in ColumnTypes : NoArray(t)

\* The appends that will succeed change nothing else.
LEMMA LeftOK ==
    ASSUME NEW m \in Memory, NEW k \in 0..Unlimited
    PROVE  /\ [m EXCEPT !.left = k] \in Memory
           /\ [m EXCEPT !.left = k].live = m.live /\ [m EXCEPT !.left = k].wild = m.wild
           /\ [m EXCEPT !.left = k].failed = m.failed
  <1> DEFINE live == m.live  wild == m.wild  left == m.left  failed == m.failed
             n == [m EXCEPT !.left = k]
  <1>1. /\ live \in SUBSET Blocks /\ wild \in SUBSET Blocks /\ failed \in BOOLEAN
        /\ m = [live |-> live, wild |-> wild, left |-> left, failed |-> failed]
    BY MemoryFields
  <1> HIDE DEF live, wild, left, failed
  <1>2. n = [live |-> live, wild |-> wild, left |-> k, failed |-> failed]
    BY <1>1
  <1> HIDE DEF n
  <1>3. n \in Memory /\ n.live = live /\ n.wild = wild /\ n.failed = failed
    BY <1>1, <1>2 DEF Memory, Blocks
  <1> QED BY <1>3 DEF n, live, wild, failed

\* pljvm_channel_send
LEMMA SendOK ==
    ASSUME NoArrays, ConversionInv, MemoryInv, Send
    PROVE  MemoryInv'
  <1>1. /\ mem \in Memory /\ mem.wild = {} /\ ~mem.failed /\ obj = Converted
        /\ mem.live = Theirs \cup (Types \cup Outs)
        /\ ValueInv
    BY DEF MemoryInv, Holds, Send, ConversionInv
  <1>2. PICK k \in 0..MaxSends \cup {Unlimited} :
           LET m == SendObject([mem EXCEPT !.left = k], MessageType, obj, <<>>) IN
           /\ k # Unlimited => m.failed
           /\ mem' = [m EXCEPT !.left = 0]
           /\ wire' = IF m.failed THEN Garbage ELSE OnWire(MessageType, obj)
    BY DEF Send
  <1> DEFINE n == [mem EXCEPT !.left = k]
             m == SendObject(n, MessageType, Converted, <<>>)
             I == Iter(MessageType, Converted, <<>>)
  <1>3. n \in Memory /\ n.live = mem.live /\ n.wild = {} /\ ~n.failed
    <2>1. k \in 0..Unlimited
      BY MemoryAssumption DEF Unlimited
    <2> QED BY <1>1, <2>1, LeftOK
  <1>4. mem' = [m EXCEPT !.left = 0] /\ (m.failed => wire' = Garbage)
    BY <1>1, <1>2
  <1> HIDE DEF n
  <1>5. Ready(n, Theirs, Outs, {Block("rawdata", <<>>)}, <<>>)
    <2>1. /\ (TheirUses \cup {"type"}) \cap SendUses = {}
          /\ (TheirUses \cup {"type"} \cup SendUses) \cap {"rawdata"} = {}
      BY DEF TheirUses, SendUses
    <2>2. Theirs \cup Types \subseteq (TheirUses \cup {"type"}) \X Seq(Nat)
      BY <1>1, MessageParts
    <2>3. Outs \subseteq Under(SendUses, <<>>) /\ Outs \subseteq SendUses \X Seq(Nat)
      BY <1>1, MessageParts DEF Under
    <2>4. /\ Under(SendUses, <<>>) \subseteq SendUses \X Seq(Nat)
          /\ Under({"rawdata"}, <<>>) \subseteq {"rawdata"} \X Seq(Nat)
      BY DEF Under
    <2>5. (Theirs \cup Types) \cap Under(SendUses, <<>>) = {}
      BY <2>1, <2>2, <2>4, UsesApart
    <2>6. n.live \cap Under(SendUses, <<>>) = Outs
      BY <1>1, <1>3, <2>3, <2>5
    <2>7. n.live \subseteq (TheirUses \cup {"type"} \cup SendUses) \X Seq(Nat)
      BY <1>1, <1>3, <2>2, <2>3
    <2>8. n.live \cap Under({"rawdata"}, <<>>) = {}
      BY <2>1, <2>4, <2>7, UsesApart
    <2> QED BY <1>1, <1>3, <2>6, <2>8 DEF Ready
  <1>6. Above(Theirs, <<>>)
    <2>1. TheirUses \cap SendUses = {} /\ Theirs \subseteq TheirUses \X Seq(Nat)
      BY <1>1, MessageParts DEF TheirUses, SendUses
    <2>2. \A p : Under(SendUses, p) \subseteq SendUses \X Seq(Nat)
      BY DEF Under
    <2>3. \A p : Theirs \cap Under(SendUses, p) = {}
      BY <2>1, <2>2, UsesApart
    <2> QED BY <2>3 DEF Above
  <1>7. MessageServed(Theirs, MessageType)
    <2>1. CASE ~sql
      <3>1. Theirs = {Tuple} \cup TypeBlocks("info", MessageType, <<>>)
        BY <2>1 DEF Theirs, Infos
      <3> QED BY <1>1, <3>1, MessageParts, CallServed
    <2>2. CASE sql
      <3>1. IsType(type) /\ NoArray(type)
        BY <1>1, <2>2, ValueOK DEF NoArrays, MemoryInv
      <3>2. MessageServed({}, CopyType(TypeInfo(type)))
        BY <3>1, SqlServed
      <3> QED BY <2>2, <3>2 DEF Theirs, MessageType, Info
    <2> QED BY <2>1, <2>2
  <1>8. Sends(n, m, I)
    <2>1. IsMessage(MessageType) /\ MessageObject(MessageType, Converted)
      BY <1>1, MessageParts
    <2> QED BY <1>3, <1>5, <1>6, <1>7, <2>1, MessageSent DEF Outs
  <1> HIDE DEF m, I
  <1>9. /\ m \in Memory /\ m.wild = {} /\ Theirs \cup (Types \cup Keeps) \subseteq m.live
        /\ ~m.failed => m.live = Theirs \cup (Types \cup Keeps)
    <2>1. Outs = I \cup Keeps /\ I \cap Keeps = {}
      BY <1>1, MessageParts DEF I
    <2>2. (Theirs \cup Types) \cap I = {}
      BY <1>1, <2>1, PartsOK
    <2>3. n.live \ I = Theirs \cup (Types \cup Keeps)
      BY <1>1, <1>3, <2>1, <2>2
    <2> QED BY <1>3, <1>8, <2>3 DEF Sends
  <1>10. mem' \in Memory /\ mem'.live = m.live /\ mem'.wild = {} /\ mem'.failed = m.failed
    <2>1. 0 \in 0..Unlimited
      BY MemoryAssumption DEF Unlimited
    <2> QED BY <1>4, <1>9, <2>1, LeftOK
  <1>11. UNCHANGED <<type, value, sql, obj>> /\ pc' = "sent"
    BY DEF Send
  <1>12. Theirs' = Theirs /\ Types' = Types /\ Keeps' = Keeps /\ Converted' = Converted
    BY <1>11, SameMessage
  <1>13. mem'.failed => wire' = Garbage
    BY <1>4, <1>10
  <1> QED BY <1>1, <1>9, <1>10, <1>11, <1>12, <1>13 DEF MemoryInv, Holds

\* free_callreq and free_result of what was sent
LEMMA FreeSentOK ==
    ASSUME ValueInv, MemoryInv, FreeSent
    PROVE  MemoryInv'
  <1>1. /\ mem \in Memory /\ mem.wild = {} /\ obj = Converted
        /\ Theirs \cup (Types \cup Keeps) \subseteq mem.live
        /\ ~mem.failed => mem.live = Theirs \cup (Types \cup Keeps)
        /\ mem.failed => wire = Garbage
    BY DEF MemoryInv, Holds, FreeSent
  <1>2. IsMessage(MessageType) /\ MessageObject(MessageType, Converted)
    BY <1>1, MessageParts
  <1>3. FreeObject(mem, MessageType, obj, TRUE, <<>>) = Free(mem, Keeps)
    BY <1>1, <1>2, MessageDiscarded DEF Keeps
  <1> DEFINE n == Free(mem, Keeps)
  <1>4. Keeps \in SUBSET mem.live
    BY <1>1
  <1>5. n \in Memory /\ n.live = mem.live \ Keeps /\ n.wild = {} /\ n.failed = mem.failed
    BY <1>1, <1>4, FreeLive
  <1>6. mem' = FreeType(n, "type", MessageType, <<>>)
    BY <1>3 DEF FreeSent, FreeMessage
  <1> HIDE DEF n
  <1>7. mem' = Free(n, Types)
    BY <1>1, <1>5, <1>6, TypesFreed
  <1>8. /\ Theirs \cap Types = {} /\ Types \cap Keeps = {} /\ Theirs \cap Keeps = {}
    <2>1. Keeps \subseteq Outs
      BY <1>1, MessageParts
    <2> QED BY <1>1, <2>1, PartsOK
  <1>9. Types \in SUBSET n.live
    BY <1>1, <1>5, <1>8
  <1>10. mem' \in Memory /\ mem'.live = n.live \ Types /\ mem'.wild = {}
         /\ mem'.failed = mem.failed
    BY <1>5, <1>7, <1>9, FreeLive
  <1>11. mem'.live = (mem.live \ Keeps) \ Types
    BY <1>5, <1>10
  <1>12. /\ Theirs \cup {} \subseteq mem'.live
         /\ ~mem'.failed => mem'.live = Theirs \cup {}
    BY <1>1, <1>8, <1>10, <1>11
  <1>13. UNCHANGED <<type, value, sql, wire>> /\ pc' = "freed"
    BY DEF FreeSent
  <1>14. Theirs' = Theirs
    BY <1>13, SameMessage
  <1>15. sql \in BOOLEAN /\ (sql => type \in ColumnTypes)
    BY DEF MemoryInv
  <1> QED BY <1>1, <1>10, <1>12, <1>13, <1>14, <1>15 DEF MemoryInv, Holds

\* The blocks of a value received are apart from all others.
LEMMA InsOK ==
    ASSUME ValueInv, mem \in Memory, NEW o, MessageReceived(MessageType, o), NEW m \in Memory
    PROVE  /\ FreeObject(m, MessageType, o, FALSE, <<>>)
                = Free(m, InBlocks(MessageType, o, <<>>))
           /\ InBlocks(MessageType, o, <<>>) \in SUBSET Blocks
           /\ InBlocks(MessageType, o, <<>>) \cap Theirs = {}
           /\ InBlocks(MessageType, o, <<>>) \cap Types = {}
  <1> DEFINE B == InBlocks(MessageType, o, <<>>)
             r == FreeObject(m, MessageType, o, FALSE, <<>>)
  <1>1. IsMessage(MessageType) /\ Theirs \subseteq TheirUses \X Seq(Nat)
        /\ Types \subseteq {"type"} \X Seq(Nat)
    BY MessageParts
  <1>2. Freed(r, m, B, <<>>)
    BY <1>1, MessageFreed
  <1> HIDE DEF B, r
  <1>3. r = Free(m, B) /\ B \subseteq InUses \X Seq(Nat)
    BY <1>2 DEF Freed, Under
  <1>4. InUses \cap TheirUses = {} /\ InUses \cap {"type"} = {} /\ InUses \subseteq Uses
    BY DEF InUses, TheirUses, Uses
  <1>5. B \cap Theirs = {} /\ B \cap Types = {}
    BY <1>1, <1>3, <1>4, UsesApart
  <1>6. B \in SUBSET Blocks
    BY <1>3, <1>4 DEF Blocks
  <1> QED BY <1>3, <1>5, <1>6 DEF B, r

\* What the peer returns has the form that free_result expects.
LEMMA Comes ==
    ASSUME ValueInv, mem \in Memory
    PROVE  MessageReceived(MessageType, Received(MessageType, OnWire(MessageType, Converted)))
  BY MessageParts, MessageComes

\* receive_result
LEMMA ReceiveOK ==
    ASSUME ConversionInv, MemoryInv, Receive
    PROVE  MemoryInv'
  <1> DEFINE o == Received(MessageType, wire)
             B == InBlocks(MessageType, o, <<>>)
  <1>1. /\ ValueInv /\ mem \in Memory /\ mem.wild = {} /\ ~mem.failed /\ ~sql
        /\ mem.live = Theirs \cup {} /\ wire = OnWire(MessageType, Converted)
    BY DEF ConversionInv, MemoryInv, Holds, Receive
  <1>2. MessageReceived(MessageType, o)
    BY <1>1, Comes
  <1>3. B \in SUBSET Blocks /\ Types \in SUBSET Blocks
    BY <1>1, <1>2, InsOK, PartsOK
  <1>4. obj' = o /\ mem' = Alloc(mem, Types \cup InBlocks(MessageType, obj', <<>>))
    BY DEF Receive, Types
  <1>5. UNCHANGED <<type, value, sql, wire>> /\ pc' = "received"
    BY DEF Receive
  <1>6. Theirs' = Theirs /\ Types' = Types /\ MessageType' = MessageType
    BY <1>5, SameMessage
  <1>7. Ins' = B /\ mem' = Alloc(mem, Types \cup B)
    BY <1>4, <1>6 DEF Ins
  <1> HIDE DEF o, B
  <1>8. Types \cup B \in SUBSET Blocks
    BY <1>3
  <1>9. mem' \in Memory /\ mem'.live = mem.live \cup (Types \cup B) /\ mem'.wild = {}
        /\ ~mem'.failed
    BY <1>1, <1>7, <1>8, AllocOK
  <1>10. mem'.live = Theirs \cup (Types \cup B)
    BY <1>1, <1>9
  <1> QED BY <1>1, <1>5, <1>6, <1>7, <1>9, <1>10 DEF MemoryInv, Holds

\* free_result of what was received
LEMMA ProcessOK ==
    ASSUME ConversionInv, MemoryInv, ProcessResult
    PROVE  MemoryInv'
  <1>1. /\ ValueInv /\ mem \in Memory /\ mem.wild = {} /\ ~mem.failed
        /\ mem.live = Theirs \cup (Types \cup Ins) /\ ~sql
        /\ obj = Received(MessageType, OnWire(MessageType, Converted))
    BY DEF ConversionInv, MemoryInv, Holds, ProcessResult
  <1>2. MessageReceived(MessageType, obj)
    BY <1>1, Comes
  <1>3. /\ FreeObject(mem, MessageType, obj, FALSE, <<>>) = Free(mem, Ins)
        /\ Ins \cap Theirs = {} /\ Ins \cap Types = {}
    BY <1>1, <1>2, InsOK DEF Ins
  <1> DEFINE n == Free(mem, Ins)
  <1>4. Ins \in SUBSET mem.live
    BY <1>1
  <1>5. n \in Memory /\ n.live = mem.live \ Ins /\ n.wild = {} /\ ~n.failed
    BY <1>1, <1>4, FreeLive
  <1>6. mem' = FreeType(n, "type", MessageType, <<>>)
    BY <1>3 DEF ProcessResult, FreeMessage
  <1> HIDE DEF n
  <1>7. mem' = Free(n, Types)
    BY <1>1, <1>5, <1>6, TypesFreed
  <1>8. n.live = Theirs \cup Types
    BY <1>1, <1>3, <1>5
  <1>9. Types \in SUBSET n.live
    BY <1>8
  <1>10. mem' \in Memory /\ mem'.live = n.live \ Types /\ mem'.wild = {} /\ ~mem'.failed
    BY <1>5, <1>7, <1>9, FreeLive
  <1>11. mem'.live = Theirs \cup {}
    BY <1>1, <1>8, <1>10, PartsOK
  <1>12. UNCHANGED <<type, value, sql, wire>> /\ pc' = "processed"
    BY DEF ProcessResult
  <1>13. Theirs' = Theirs
    BY <1>12, SameMessage
  <1> QED BY <1>1, <1>10, <1>11, <1>12, <1>13 DEF MemoryInv, Holds

\* Every step keeps the blocks as they should be.
LEMMA MemoryStep ==
    ASSUME NoArrays
    PROVE  ConversionInv /\ MemoryInv /\ [Next]_vars => MemoryInv'
  <1> SUFFICES ASSUME ConversionInv, MemoryInv, [Next]_vars PROVE MemoryInv'
    OBVIOUS
  <1>1. ValueInv
    BY DEF ConversionInv
  <1>2. CASE UNCHANGED vars
    <2>1. /\ Infos' = Infos /\ Types' = Types /\ Outs' = Outs /\ Keeps' = Keeps
          /\ Theirs' = Theirs /\ Converted' = Converted /\ MessageType' = MessageType
      BY <1>2, SameMessage DEF vars
    <2>2. Ins' = Ins
      BY <1>2, <2>1 DEF Ins, vars
    <2>3. \A B : Holds(B)' = Holds(B)
      BY <1>2, <2>1 DEF Holds, vars
    <2> QED BY <1>2, <2>1, <2>2 DEF MemoryInv, Holds, vars
  <1>3. CASE CreateCall \/ CreateSqlResult
    BY <1>1, <1>3, BuildOK
  <1>4. CASE Send
    BY <1>4, SendOK
  <1>5. CASE FreeSent
    BY <1>1, <1>5, FreeSentOK
  <1>6. CASE Receive
    BY <1>6, ReceiveOK
  <1>7. CASE ProcessResult
    BY <1>7, ProcessOK
  <1> QED BY <1>2, <1>3, <1>4, <1>5, <1>6, <1>7 DEF Next

\* So they always are.
LEMMA MemoryAlways ==
    ASSUME NoArrays
    PROVE  Spec => []MemoryInv
  <1>1. ConversionInv /\ MemoryInv /\ [Next]_vars => MemoryInv'
    BY MemoryStep
  <1> QED BY <1>1, MemoryInit, ConversionAlways, PTL DEF Spec

\* For every type and every value of it, and wherever sending it fails, what is
\* read and freed of a message by comm_channel.c and comm_messages.c is allocated.
\* NoArrays is needed: create_sql_result frees the description of its columns,
\* with which the elements of an array are converted later, when it is sent.
THEOREM NoWildAccessCorrect ==
    ASSUME NoArrays
    PROVE  Spec => []NoWildAccess
  <1>1. MemoryInv => NoWildAccess
    BY DEF MemoryInv, NoWildAccess
  <1> QED BY <1>1, MemoryAlways, PTL

\* When free_callreq and free_result have freed a message, all that was allocated
\* for it is freed, unless it was not sent in full: for every type, with arrays
\* in rows and rows in arrays.
THEOREM NothingLeaksCorrect ==
    ASSUME NoArrays
    PROVE  Spec => []NothingLeaks
  <1>1. MemoryInv => NothingLeaks
    BY DEF MemoryInv, Holds, Theirs, Infos, NothingLeaks
  <1> QED BY <1>1, MemoryAlways, PTL
=============================================================================
