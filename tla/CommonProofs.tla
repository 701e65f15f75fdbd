---------------------------- MODULE CommonProofs ---------------------------
(***************************************************************************)
(* Lemmas that the proofs about the components share: induction and        *)
(* recursion over the natural numbers, stated without operators as         *)
(* parameters, so that they can be instantiated; what Selected and         *)
(* FlattenSeq return; and what the readers of a stream do.  A reader ends  *)
(* between the place it began at and the end of the bytes; what has ended  *)
(* with the bytes there are ends in the same way with more of them         *)
(* (Settles); and readers in a row read, from the bytes of what each of    *)
(* them reads, all of it (EachReads).                                      *)
(***************************************************************************)
EXTENDS Selection, Readers, WireFormat, WellFoundedInduction, TLAPS

-----------------------------------------------------------------------------
(* Induction and recursion, with a set in the place of a predicate and a   *)
(* function in the place of an operator.                                   *)

\* Every set of natural numbers that is not empty has a least element.
LEMMA Least ==
    ASSUME NEW T, T \subseteq Nat, T # {}
    PROVE  \E n \in T : \A m \in T : n <= m
  <1> DEFINE R == OpToRel(<, Nat)
  <1>1. IsWellFoundedOn(R, Nat)
    BY NatLessThanWellFounded
  <1>2. \A x, y \in Nat : y < x => <<y, x>> \in R
    BY DEF OpToRel
  <1> HIDE DEF R
  <1>3. PICK n \in T : \A m \in T : <<m, n>> \notin R
    BY <1>1, WFMin
  <1>4. ASSUME NEW m \in T PROVE n <= m
    <2>1. m \in Nat /\ n \in Nat
      OBVIOUS
    <2>2. ~ (m < n)
      BY <1>2, <1>3, <2>1
    <2> QED BY <2>1, <2>2
  <1> QED BY <1>4

\* Induction: a set that has 0, and with each number the next one, has them all.
LEMMA Induct ==
    ASSUME NEW T, 0 \in T, \A n \in Nat : n \in T => n + 1 \in T
    PROVE  \A n \in Nat : n \in T
  <1> SUFFICES ASSUME Nat \ T # {} PROVE FALSE
    OBVIOUS
  <1>1. PICK n \in Nat \ T : \A m \in Nat \ T : n <= m
    BY Least
  <1>2. n # 0 /\ n - 1 \in Nat
    BY <1>1
  <1>3. n - 1 \in T
    BY <1>1, <1>2
  <1>4. (n - 1) + 1 \in T
    BY <1>2, <1>3
  <1> QED BY <1>1, <1>4

\* g follows step from base, up to n.
Follows(g, n, base, step) ==
    /\ g[0] = base
    /\ \A i \in 1..n : g[i] = step[<<i, g[i - 1]>>]

\* f follows step from base without end.
Recursive(f, base, step) ==
    /\ f[0] = base
    /\ \A n \in Nat : f[n + 1] = step[<<n + 1, f[n]>>]

\* A function that starts at base and goes on as step says exists.
LEMMA Recursion ==
    ASSUME NEW S, NEW base \in S, NEW step \in [Nat \X S -> S]
    PROVE  \E f \in [Nat -> S] : Recursive(f, base, step)
  <1> DEFINE Begun(n) == {g \in [0..n -> S] : Follows(g, n, base, step)}
             Parts == {n \in Nat : Begun(n) # {}}
             Same(m, n) == \A g \in Begun(m), h \in Begun(n) : g[m] = h[m]
  <1>1. \A n \in Nat : n \in Parts
    <2>1. 0 \in Parts
      <3>1. [i \in 0..0 |-> base] \in Begun(0)
        BY DEF Follows
      <3> QED BY <3>1
    <2>2. ASSUME NEW n \in Nat, n \in Parts PROVE n + 1 \in Parts
      <3>1. PICK g \in [0..n -> S] : Follows(g, n, base, step)
        BY <2>2
      <3> DEFINE h == [i \in 0..(n + 1) |-> IF i <= n THEN g[i] ELSE step[<<n + 1, g[n]>>]]
      <3>2. g[n] \in S /\ step[<<n + 1, g[n]>>] \in S
        OBVIOUS
      <3>3. h \in [0..(n + 1) -> S]
        BY <3>2
      <3>4. h[0] = base
        BY <3>1 DEF Follows
      <3>5. ASSUME NEW i \in 1..(n + 1) PROVE h[i] = step[<<i, h[i - 1]>>]
        <4>1. CASE i <= n
          BY <3>1, <4>1 DEF Follows
        <4>2. CASE i = n + 1
          <5>1. ~ (i <= n) /\ i - 1 = n /\ n <= n
            BY <4>2
          <5>2. h[i] = step[<<n + 1, g[n]>>] /\ h[n] = g[n]
            BY <5>1, <4>2
          <5> HIDE DEF h
          <5> QED BY <4>2, <5>1, <5>2
        <4> QED BY <4>1, <4>2
      <3>6. h \in Begun(n + 1)
        BY <3>3, <3>4, <3>5 DEF Follows
      <3> QED BY <3>6
    <2> HIDE DEF Parts
    <2> QED BY <2>1, <2>2, Induct
  <1>2. ASSUME NEW n \in Nat, NEW k \in Nat, NEW g \in Begun(n), NEW h \in Begun(k)
        PROVE  \A m \in Nat : m <= n /\ m <= k => g[m] = h[m]
    <2> DEFINE T == {m \in Nat : m <= n /\ m <= k => g[m] = h[m]}
    <2>1. 0 \in T
      BY DEF Follows
    <2>2. ASSUME NEW m \in Nat, m \in T PROVE m + 1 \in T
      <3> SUFFICES ASSUME m + 1 <= n, m + 1 <= k PROVE g[m + 1] = h[m + 1]
        OBVIOUS
      <3>1. g[m] = h[m]
        BY <2>2
      <3>2. m + 1 \in 1..n /\ m + 1 \in 1..k /\ (m + 1) - 1 = m
        OBVIOUS
      <3>3. g[m + 1] = step[<<m + 1, g[m]>>] /\ h[m + 1] = step[<<m + 1, h[m]>>]
        BY <3>2 DEF Follows
      <3> QED BY <3>1, <3>3
    <2>3. \A m \in Nat : m \in T
      <3> HIDE DEF T
      <3> QED BY <2>1, <2>2, Induct
    <2> QED BY <2>3
  <1> DEFINE part == [n \in Nat |-> CHOOSE g \in Begun(n) : TRUE]
             f == [n \in Nat |-> part[n][n]]
  <1>3. ASSUME NEW n \in Nat PROVE part[n] \in Begun(n)
    <2>1. Begun(n) # {}
      BY <1>1
    <2> HIDE DEF Begun
    <2> QED BY <2>1
  <1>4. \A n \in Nat : part[n] \in [0..n -> S] /\ Follows(part[n], n, base, step)
    BY <1>3
  <1>5. f \in [Nat -> S]
    BY <1>4
  <1>6. f[0] = base
    BY <1>4 DEF Follows
  <1>7. ASSUME NEW n \in Nat PROVE f[n + 1] = step[<<n + 1, f[n]>>]
    <2>1. n + 1 \in Nat /\ n + 1 \in 1..(n + 1) /\ (n + 1) - 1 = n
      OBVIOUS
    <2>2. part[n + 1][n + 1] = step[<<n + 1, part[n + 1][n]>>]
      <3>1. Follows(part[n + 1], n + 1, base, step)
        BY <1>4, <2>1
      <3> HIDE DEF part
      <3> QED BY <2>1, <3>1 DEF Follows
    <2>3. part[n + 1] \in Begun(n + 1) /\ part[n] \in Begun(n)
      BY <1>3, <2>1
    <2>4. n <= n + 1 /\ n <= n
      OBVIOUS
    <2>5. part[n + 1][n] = part[n][n]
      <3> HIDE DEF Begun, part
      <3> QED BY <1>2, <2>1, <2>3, <2>4
    <2>6. f[n + 1] = part[n + 1][n + 1] /\ f[n] = part[n][n]
      <3> HIDE DEF part
      <3> QED BY <2>1
    <2> HIDE DEF f, part
    <2> QED BY <2>2, <2>5, <2>6
  <1> HIDE DEF f
  <1> QED BY <1>5, <1>6, <1>7 DEF Recursive

-----------------------------------------------------------------------------
(* Selection.                                                              *)

\* u selects from s one element after the other.
Selects(u, s, A, T) ==
    /\ u[0] = <<>>
    /\ \A n \in 1..Len(s) :
          u[n] = IF s[n] \in T THEN Append(u[n - 1], s[n]) ELSE u[n - 1]
    /\ \A n \in 0..Len(s) : u[n] \in Seq(A \cap T)

\* SelectedUpTo is what its definition says: each element is looked at once.
LEMMA SelectedStep ==
    ASSUME NEW A, NEW s \in Seq(A), NEW T
    PROVE  Selects(SelectedUpTo(s, T), s, A, T)
  <1> DEFINE B == Seq(A \cap T)
             none == <<>>
             Body(u) == [n \in 0..Len(s) |->
                           IF n = 0 THEN <<>>
                           ELSE IF s[n] \in T THEN Append(u[n - 1], s[n])
                           ELSE u[n - 1]]
             step == [p \in Nat \X B |->
                        IF p[1] \in 1..Len(s) /\ s[p[1]] \in T
                        THEN Append(p[2], s[p[1]]) ELSE p[2]]
  <1>1. step \in [Nat \X B -> B]
    <2>1. ASSUME NEW n \in Nat, NEW t \in B, n \in 1..Len(s), s[n] \in T
          PROVE  Append(t, s[n]) \in B
      BY <2>1
    <2> QED BY <2>1
  <1>2. none \in B
    OBVIOUS
  <1>3. PICK f \in [Nat -> B] : Recursive(f, none, step)
    <2> HIDE DEF step, B, none
    <2> QED BY <1>1, <1>2, Recursion
  <1> DEFINE g == [n \in 0..Len(s) |-> f[n]]
  <1>4. g = Body(g)
    <2>1. ASSUME NEW n \in 1..Len(s)
          PROVE  f[n] = IF s[n] \in T THEN Append(f[n - 1], s[n]) ELSE f[n - 1]
      <3>1. n - 1 \in Nat /\ (n - 1) + 1 = n /\ n \in Nat
        OBVIOUS
      <3>2. f[n] = step[<<n, f[n - 1]>>]
        <4> HIDE DEF step
        <4> QED BY <1>3, <3>1 DEF Recursive
      <3>3. f[n - 1] \in B
        BY <3>1
      <3> QED BY <3>1, <3>2, <3>3
    <2>2. \A n \in 1..Len(s) : n - 1 \in 0..Len(s)
      OBVIOUS
    <2>3. \A n \in 0..Len(s) : n = 0 \/ n \in 1..Len(s)
      OBVIOUS
    <2>4. f[0] = <<>> /\ 0 \in 0..Len(s)
      BY <1>3 DEF Recursive
    <2>5. ASSUME NEW n \in 0..Len(s)
          PROVE  f[n] = IF n = 0 THEN <<>>
                        ELSE IF s[n] \in T THEN Append(g[n - 1], s[n])
                        ELSE g[n - 1]
      <3>1. CASE n = 0
        BY <2>4, <3>1
      <3>2. CASE n \in 1..Len(s)
        <4>1. g[n - 1] = f[n - 1] /\ n # 0
          BY <2>2, <3>2
        <4> HIDE DEF g
        <4> QED BY <2>1, <3>2, <4>1
      <3> QED BY <2>3, <3>1, <3>2
    <2> QED BY <2>5, Zenon
  <1> DEFINE u == SelectedUpTo(s, T)
  <1>5. u = Body(u)
    <2>1. u = CHOOSE v : v = Body(v)
      BY DEF SelectedUpTo
    <2> HIDE DEF Body, g, u
    <2> QED BY <1>4, <2>1
  <1>6. /\ u[0] = <<>>
        /\ \A n \in 1..Len(s) :
              u[n] = IF s[n] \in T THEN Append(u[n - 1], s[n]) ELSE u[n - 1]
    <2>1. \A n \in 0..Len(s) : Body(u)[n] =
                IF n = 0 THEN <<>>
                ELSE IF s[n] \in T THEN Append(u[n - 1], s[n])
                ELSE u[n - 1]
      <3> HIDE DEF u
      <3> QED BY Zenon
    <2>2. 0 \in 0..Len(s) /\ \A n \in 1..Len(s) : n \in 0..Len(s) /\ n # 0
      OBVIOUS
    <2> HIDE DEF u, Body
    <2>3. \A n \in 0..Len(s) : u[n] =
                IF n = 0 THEN <<>>
                ELSE IF s[n] \in T THEN Append(u[n - 1], s[n])
                ELSE u[n - 1]
      BY <1>5, <2>1
    <2> QED BY <2>2, <2>3
  <1> DEFINE Typed == {n \in Nat : n <= Len(s) => u[n] \in B}
  <1> HIDE DEF u
  <1>7. 0 \in Typed
    BY <1>2, <1>6
  <1>8. ASSUME NEW n \in Nat, n \in Typed PROVE n + 1 \in Typed
    <2> SUFFICES ASSUME n + 1 <= Len(s) PROVE u[n + 1] \in B
      OBVIOUS
    <2>1. n + 1 \in 1..Len(s) /\ (n + 1) - 1 = n /\ u[n] \in B
      BY <1>8
    <2>2. s[n + 1] \in A
      BY <2>1
    <2>3. CASE s[n + 1] \in T
      <3> DEFINE q == u[n]
                 e == s[n + 1]
      <3>1. q \in Seq(A \cap T) /\ e \in A \cap T
        BY <2>1, <2>2, <2>3
      <3>2. Append(q, e) \in B
        <4> HIDE DEF q, e
        <4> QED BY <3>1
      <3> HIDE DEF B
      <3> QED BY <1>6, <2>1, <2>3, <3>2
    <2>4. CASE s[n + 1] \notin T
      BY <1>6, <2>1, <2>4
    <2> QED BY <2>3, <2>4
  <1>9. \A n \in Nat : n \in Typed
    <2> HIDE DEF Typed
    <2> QED BY <1>7, <1>8, Induct
  <1>10. \A n \in 0..Len(s) : u[n] \in B
    BY <1>9
  <1>11. Selects(u, s, A, T)
    BY <1>6, <1>10 DEF Selects
  <1> QED BY <1>11 DEF u

\* What is selected is in the sequence and in the set.
LEMMA SelectedType ==
    ASSUME NEW A, NEW s \in Seq(A), NEW T
    PROVE  Selected(s, T) \in Seq(A \cap T)
  <1>1. Len(s) \in 0..Len(s)
    OBVIOUS
  <1> DEFINE u == SelectedUpTo(s, T)
  <1>2. Selects(u, s, A, T)
    BY SelectedStep
  <1> HIDE DEF u
  <1>3. u[Len(s)] \in Seq(A \cap T)
    BY <1>1, <1>2 DEF Selects
  <1> QED BY <1>3 DEF u, Selected

\* An element that is selected comes after those selected before it.
LEMMA SelectedAt ==
    ASSUME NEW A, NEW s \in Seq(A), NEW T, NEW n \in 1..Len(s), s[n] \in T
    PROVE  /\ Len(SelectedUpTo(s, T)[n - 1]) < Len(Selected(s, T))
           /\ Selected(s, T)[Len(SelectedUpTo(s, T)[n - 1]) + 1] = s[n]
  <1> DEFINE u == SelectedUpTo(s, T)
             m == Len(u[n - 1]) + 1
             There == {d \in Nat : n + d <= Len(s)
                                      => m <= Len(u[n + d]) /\ u[n + d][m] = s[n]}
  <1>0. Selects(u, s, A, T)
    BY SelectedStep
  <1> HIDE DEF u
  <1>1. \A i \in 0..Len(s) : u[i] \in Seq(A)
    <2>1. \A i \in 0..Len(s) : u[i] \in Seq(A \cap T)
      BY <1>0 DEF Selects
    <2> QED BY <2>1
  <1>2. \A i \in 1..Len(s) :
            u[i] = IF s[i] \in T THEN Append(u[i - 1], s[i]) ELSE u[i - 1]
    BY <1>0 DEF Selects
  <1>3. 0 \in There
    <2>1. u[n - 1] \in Seq(A) /\ s[n] \in A
      BY <1>1
    <2>2. u[n] = Append(u[n - 1], s[n])
      BY <1>2
    <2> QED BY <2>1, <2>2
  <1>4. ASSUME NEW d \in Nat, d \in There PROVE d + 1 \in There
    <2> SUFFICES ASSUME n + (d + 1) <= Len(s)
                 PROVE  m <= Len(u[n + (d + 1)]) /\ u[n + (d + 1)][m] = s[n]
      OBVIOUS
    <2> DEFINE i == n + (d + 1)
    <2>1. i \in 1..Len(s) /\ i - 1 = n + d /\ i - 1 \in 0..Len(s) /\ n - 1 \in 0..Len(s)
      OBVIOUS
    <2>2. m <= Len(u[i - 1]) /\ u[i - 1][m] = s[n] /\ s[i] \in A
      BY <1>4, <2>1
    <2> HIDE DEF i
    <2>3. u[i - 1] \in Seq(A) /\ m \in Nat \ {0}
      BY <1>1, <2>1
    <2>4. CASE s[i] \in T
      <3>1. u[i] = Append(u[i - 1], s[i])
        BY <1>2, <2>1, <2>4
      <3> QED BY <2>2, <2>3, <3>1 DEF i
    <2>5. CASE s[i] \notin T
      BY <1>2, <2>1, <2>2, <2>5 DEF i
    <2> QED BY <2>4, <2>5
  <1>5. \A d \in Nat : d \in There
    <2> HIDE DEF There
    <2> QED BY <1>3, <1>4, Induct
  <1>6. Len(s) - n \in Nat /\ n + (Len(s) - n) = Len(s)
    OBVIOUS
  <1>7. m <= Len(u[Len(s)]) /\ u[Len(s)][m] = s[n]
    <2>1. Len(s) - n \in There
      BY <1>5, <1>6
    <2> QED BY <1>6, <2>1
  <1>8. Len(u[n - 1]) \in Nat /\ Len(u[Len(s)]) \in Nat
    BY <1>1
  <1> QED BY <1>7, <1>8 DEF u, Selected

\* Selecting nothing.
LEMMA SelectedNone ==
    ASSUME NEW A, NEW s \in Seq(A), NEW T, \A i \in 1..Len(s) : s[i] \notin T
    PROVE  Selected(s, T) = <<>>
  <1> DEFINE u == SelectedUpTo(s, T)
             None == {n \in Nat : n <= Len(s) => u[n] = <<>>}
  <1>0. Selects(u, s, A, T)
    BY SelectedStep
  <1> HIDE DEF u
  <1>1. u[0] = <<>>
    BY <1>0 DEF Selects
  <1>2. \A n \in 1..Len(s) :
            u[n] = IF s[n] \in T THEN Append(u[n - 1], s[n]) ELSE u[n - 1]
    BY <1>0 DEF Selects
  <1>3. 0 \in None
    BY <1>1
  <1>4. ASSUME NEW n \in Nat, n \in None PROVE n + 1 \in None
    BY <1>2, <1>4
  <1>5. \A n \in Nat : n \in None
    <2> HIDE DEF None
    <2> QED BY <1>3, <1>4, Induct
  <1> QED BY <1>5 DEF u, Selected

\* Selecting one.
LEMMA SelectedOnce ==
    ASSUME NEW A, NEW s \in Seq(A), NEW T, NEW k \in 1..Len(s), s[k] \in T,
           \A i \in 1..Len(s) : s[i] \in T => i = k
    PROVE  Selected(s, T) = <<s[k]>>
  <1> DEFINE u == SelectedUpTo(s, T)
             Once == {n \in Nat : n <= Len(s) => u[n] = IF n < k THEN <<>> ELSE <<s[k]>>}
  <1>0. Selects(u, s, A, T)
    BY SelectedStep
  <1> HIDE DEF u
  <1>1. u[0] = <<>>
    BY <1>0 DEF Selects
  <1>2. \A n \in 1..Len(s) :
            u[n] = IF s[n] \in T THEN Append(u[n - 1], s[n]) ELSE u[n - 1]
    BY <1>0 DEF Selects
  <1>3. 0 \in Once
    BY <1>1
  <1>4. ASSUME NEW n \in Nat, n \in Once PROVE n + 1 \in Once
    <2> SUFFICES ASSUME n + 1 <= Len(s)
                 PROVE  u[n + 1] = IF n + 1 < k THEN <<>> ELSE <<s[k]>>
      OBVIOUS
    <2>1. n + 1 \in 1..Len(s) /\ (n + 1) - 1 = n /\ u[n] = IF n < k THEN <<>> ELSE <<s[k]>>
      BY <1>4
    <2>2. CASE n + 1 = k
      <3>0. u[n] = <<>>
        BY <2>1, <2>2
      <3>1. u[n + 1] = Append(<<>>, s[k])
        BY <1>2, <2>1, <2>2, <3>0
      <3>2. Append(<<>>, s[k]) = <<s[k]>>
        OBVIOUS
      <3> QED BY <2>2, <3>1, <3>2
    <2>3. CASE n + 1 # k
      <3>1. u[n + 1] = u[n]
        BY <1>2, <2>1, <2>3
      <3> QED BY <2>1, <2>3, <3>1
    <2> QED BY <2>2, <2>3
  <1>5. \A n \in Nat : n \in Once
    <2> HIDE DEF Once
    <2> QED BY <1>3, <1>4, Induct
  <1> QED BY <1>5 DEF u, Selected

\* Selecting all but one, or all when k is past the end.
LEMMA SelectedBut ==
    ASSUME NEW A, NEW s \in Seq(A), NEW T, NEW k \in 1..(Len(s) + 1),
           \A i \in 1..Len(s) : s[i] \in T <=> i # k
    PROVE  /\ Len(Selected(s, T)) = IF k <= Len(s) THEN Len(s) - 1 ELSE Len(s)
           /\ \A j \in 1..Len(Selected(s, T)) :
                 Selected(s, T)[j] = IF j < k THEN s[j] ELSE s[j + 1]
  <1> DEFINE u == SelectedUpTo(s, T)
             Rest(n) == /\ Len(u[n]) = IF k <= n THEN n - 1 ELSE n
                        /\ \A j \in 1..Len(u[n]) :
                              u[n][j] = IF j < k THEN s[j] ELSE s[j + 1]
             Rests == {n \in Nat : n <= Len(s) => Rest(n)}
  <1>0. Selects(u, s, A, T)
    BY SelectedStep
  <1> HIDE DEF u
  <1>1. u[0] = <<>>
    BY <1>0 DEF Selects
  <1>2. \A n \in 1..Len(s) :
            u[n] = IF s[n] \in T THEN Append(u[n - 1], s[n]) ELSE u[n - 1]
    BY <1>0 DEF Selects
  <1>3. \A n \in 0..Len(s) : u[n] \in Seq(A)
    <2>1. \A n \in 0..Len(s) : u[n] \in Seq(A \cap T)
      BY <1>0 DEF Selects
    <2> QED BY <2>1
  <1>4. 0 \in Rests
    BY <1>1
  <1>5. ASSUME NEW n \in Nat, n \in Rests PROVE n + 1 \in Rests
    <2> SUFFICES ASSUME n + 1 <= Len(s) PROVE Rest(n + 1)
      OBVIOUS
    <2>1. n + 1 \in 1..Len(s) /\ (n + 1) - 1 = n /\ n \in 0..Len(s) /\ Rest(n)
      BY <1>5
    <2>2. u[n] \in Seq(A) /\ s[n + 1] \in A
      BY <1>3, <2>1
    <2>3. CASE n + 1 = k
      <3>1. u[n + 1] = u[n]
        BY <1>2, <2>1, <2>3
      <3> QED BY <2>1, <2>3, <3>1
    <2>4. CASE n + 1 # k
      <3>1. u[n + 1] = Append(u[n], s[n + 1])
        BY <1>2, <2>1, <2>4
      <3>2. Len(u[n + 1]) = Len(u[n]) + 1
        BY <2>2, <3>1
      <3>3. ASSUME NEW j \in 1..Len(u[n + 1])
            PROVE  u[n + 1][j] = IF j < k THEN s[j] ELSE s[j + 1]
        <4>1. CASE j \in 1..Len(u[n])
          <5>1. u[n + 1][j] = u[n][j]
            BY <2>2, <3>1, <4>1
          <5> QED BY <2>1, <4>1, <5>1
        <4>2. CASE j = Len(u[n]) + 1
          <5>1. u[n + 1][j] = s[n + 1]
            BY <2>2, <3>1, <4>2
          <5>2. IF j < k THEN j = n + 1 ELSE j = n
            BY <2>1, <2>4, <4>2
          <5> QED BY <5>1, <5>2
        <4> QED BY <2>2, <3>2, <4>1, <4>2
      <3>4. Len(u[n + 1]) = IF k <= n + 1 THEN (n + 1) - 1 ELSE n + 1
        BY <2>1, <2>4, <3>2
      <3> QED BY <3>3, <3>4
    <2> QED BY <2>3, <2>4
  <1>6. \A n \in Nat : n \in Rests
    <2> HIDE DEF Rests
    <2> QED BY <1>4, <1>5, Induct
  <1>7. Rest(Len(s))
    BY <1>6
  <1> QED BY <1>7 DEF u, Selected

-----------------------------------------------------------------------------
(* Sequences of sequences, one after the other.                            *)

\* FlattenSeq is what its definition says.
LEMMA FlattenUnfold ==
    ASSUME NEW A, NEW ps \in Seq(Seq(A)), ps # <<>>
    PROVE  \E f \in [1..Len(ps) -> Seq(A)] :
              /\ f[1] = ps[1]
              /\ \A i \in 2..Len(ps) : f[i] = f[i - 1] \o ps[i]
              /\ FlattenSeq(ps) = f[Len(ps)]
  <1> DEFINE n == Len(ps)
             B == Seq(A)
             none == <<>>
             Body(u) == [i \in 1..n |-> IF i = 1 THEN ps[i] ELSE u[i - 1] \o ps[i]]
             step == [p \in Nat \X B |->
                        IF p[1] \in 1..n THEN p[2] \o ps[p[1]] ELSE p[2]]
  <1>0. n \in Nat /\ n # 0 /\ \A i \in 1..n : ps[i] \in B
    OBVIOUS
  <1>1. step \in [Nat \X B -> B]
    <2>1. ASSUME NEW i \in 1..n, NEW t \in B PROVE t \o ps[i] \in B
      BY <1>0
    <2> QED BY <2>1
  <1>2. none \in B
    OBVIOUS
  <1>3. PICK f \in [Nat -> B] : Recursive(f, none, step)
    <2> HIDE DEF step, B, none
    <2> QED BY <1>1, <1>2, Recursion
  <1>4. ASSUME NEW i \in 1..n PROVE f[i] = f[i - 1] \o ps[i] /\ f[i - 1] \in B /\ f[i] \in B
    <2>1. i - 1 \in Nat /\ (i - 1) + 1 = i /\ i \in Nat
      BY <1>0
    <2>2. f[i] = step[<<i, f[i - 1]>>]
      <3> HIDE DEF step
      <3> QED BY <1>3, <2>1 DEF Recursive
    <2>3. f[i - 1] \in B /\ f[i] \in B
      BY <2>1
    <2> QED BY <2>1, <2>2, <2>3
  <1>5. f[0] = <<>>
    BY <1>3 DEF Recursive
  <1> DEFINE g == [i \in 1..n |-> f[i]]
  <1>6. f[1] = ps[1]
    <2>1. 1 \in 1..n /\ 1 - 1 = 0
      BY <1>0
    <2>2. f[1] = f[0] \o ps[1]
      BY <1>4, <2>1
    <2>3. ps[1] \in Seq(A)
      BY <1>0, <2>1
    <2> QED BY <1>5, <2>2, <2>3
  <1>7. g = Body(g)
    <2>1. ASSUME NEW i \in 1..n
          PROVE  f[i] = IF i = 1 THEN ps[i] ELSE g[i - 1] \o ps[i]
      <3>1. CASE i = 1
        BY <1>6, <3>1
      <3>2. CASE i # 1
        <4>1. i - 1 \in 1..n
          BY <1>0, <3>2
        <4>2. g[i - 1] = f[i - 1]
          BY <4>1
        <4> HIDE DEF g
        <4> QED BY <1>4, <3>2, <4>2
      <3> QED BY <3>1, <3>2
    <2> QED BY <2>1, Zenon
  <1> DEFINE u == CHOOSE v : v = Body(v)
  <1>8. u = Body(u)
    <2> HIDE DEF Body, g
    <2> QED BY <1>7
  <1>9. FlattenSeq(ps) = u[n]
    BY <1>0 DEF FlattenSeq
  <1> HIDE DEF u
  <1>10. \A i \in 1..n : u[i] = IF i = 1 THEN ps[i] ELSE u[i - 1] \o ps[i]
    <2>1. \A i \in 1..n : Body(u)[i] = IF i = 1 THEN ps[i] ELSE u[i - 1] \o ps[i]
      BY Zenon
    <2> HIDE DEF Body
    <2> QED BY <1>8, <2>1
  <1> DEFINE Same == {i \in Nat : i + 1 \in 1..n => u[i + 1] = f[i + 1]}
  <1>11. 0 \in Same
    <2>1. 0 + 1 = 1 /\ 1 \in 1..n /\ 0 \in Nat
      BY <1>0
    <2>2. u[1] = f[1]
      BY <1>6, <1>10, <2>1
    <2> QED BY <2>1, <2>2
  <1>12. ASSUME NEW i \in Nat, i \in Same PROVE i + 1 \in Same
    <2> SUFFICES ASSUME i + 2 \in 1..n PROVE u[i + 2] = f[i + 2]
      OBVIOUS
    <2>1. i + 1 \in 1..n /\ i + 2 # 1 /\ (i + 2) - 1 = i + 1
      BY <1>0
    <2>2. u[i + 1] = f[i + 1]
      BY <1>12, <2>1
    <2>3. u[i + 2] = u[i + 1] \o ps[i + 2]
      BY <1>10, <2>1
    <2>4. f[i + 2] = f[i + 1] \o ps[i + 2]
      BY <1>4, <2>1
    <2> QED BY <2>2, <2>3, <2>4
  <1>13. \A i \in Nat : i \in Same
    <2> HIDE DEF Same
    <2> QED BY <1>11, <1>12, Induct
  <1>14. u[n] = f[n]
    <2>1. n - 1 \in Nat /\ (n - 1) + 1 = n /\ n \in 1..n
      BY <1>0
    <2> QED BY <1>13, <2>1
  <1>15. g \in [1..n -> B]
    BY <1>4
  <1>16. g[1] = ps[1] /\ g[n] = f[n]
    <2>1. 1 \in 1..n /\ n \in 1..n
      BY <1>0
    <2>2. g[1] = f[1] /\ g[n] = f[n]
      BY <2>1
    <2> QED BY <1>6, <2>2
  <1>17. ASSUME NEW i \in 2..n PROVE g[i] = g[i - 1] \o ps[i]
    <2>1. i \in 1..n /\ i - 1 \in 1..n
      BY <1>0
    <2>2. g[i] = f[i] /\ g[i - 1] = f[i - 1]
      BY <2>1
    <2> HIDE DEF g
    <2> QED BY <1>4, <2>1, <2>2
  <1> HIDE DEF g
  <1> QED BY <1>9, <1>14, <1>15, <1>16, <1>17

\* A sequence of sequences is flattened into a sequence, which is empty when
\* there are none.
LEMMA FlattenType ==
    ASSUME NEW A, NEW ps \in Seq(Seq(A))
    PROVE  /\ FlattenSeq(ps) \in Seq(A)
           /\ ps = <<>> => FlattenSeq(ps) = <<>>
  <1>1. CASE ps = <<>>
    <2>1. FlattenSeq(ps) = <<>>
      BY <1>1 DEF FlattenSeq
    <2> QED BY <2>1
  <1>2. CASE ps # <<>>
    <2>1. PICK f \in [1..Len(ps) -> Seq(A)] : FlattenSeq(ps) = f[Len(ps)]
      BY <1>2, FlattenUnfold
    <2>2. Len(ps) \in 1..Len(ps)
      BY <1>2
    <2> QED BY <1>2, <2>1, <2>2
  <1> QED BY <1>1, <1>2

\* One sequence more comes at the end.
LEMMA FlattenAppend ==
    ASSUME NEW A, NEW ps \in Seq(Seq(A)), NEW x \in Seq(A)
    PROVE  FlattenSeq(Append(ps, x)) = FlattenSeq(ps) \o x
  <1> DEFINE qs == Append(ps, x)
             n == Len(ps)
  <1>0. n \in Nat
    OBVIOUS
  <1>1. qs \in Seq(Seq(A)) /\ qs # <<>> /\ Len(qs) = n + 1 /\ qs[n + 1] = x
    <2> DEFINE S == Seq(A)
    <2>1. ps \in Seq(S) /\ x \in S
      OBVIOUS
    <2> HIDE DEF S
    <2>2. qs \in Seq(S) /\ qs # <<>> /\ Len(qs) = n + 1 /\ qs[n + 1] = x
      BY <2>1
    <2> QED BY <2>2 DEF S
  <1>2. \A i \in 1..n : qs[i] = ps[i]
    OBVIOUS
  <1> HIDE DEF qs
  <1>3. PICK g \in [1..Len(qs) -> Seq(A)] :
              /\ g[1] = qs[1]
              /\ \A i \in 2..Len(qs) : g[i] = g[i - 1] \o qs[i]
              /\ FlattenSeq(qs) = g[Len(qs)]
    BY <1>1, FlattenUnfold
  <1>4. CASE ps = <<>>
    <2>1. n = 0 /\ FlattenSeq(ps) = <<>>
      BY <1>4, FlattenType
    <2>2. FlattenSeq(qs) = qs[1] /\ qs[1] = x
      BY <1>1, <1>3, <2>1
    <2>3. <<>> \o x = x
      OBVIOUS
    <2> QED BY <2>1, <2>2, <2>3 DEF qs
  <1>5. CASE ps # <<>>
    <2>1. PICK f \in [1..n -> Seq(A)] :
              /\ f[1] = ps[1]
              /\ \A i \in 2..n : f[i] = f[i - 1] \o ps[i]
              /\ FlattenSeq(ps) = f[n]
      BY <1>5, FlattenUnfold
    <2>0. n # 0 /\ 1 \in 1..n
      BY <1>0, <1>5
    <2> DEFINE Same == {i \in Nat : i + 1 \in 1..n => g[i + 1] = f[i + 1]}
    <2>2. 0 \in Same
      <3>1. 0 + 1 = 1 /\ 1 \in 1..n /\ 0 \in Nat
        BY <2>0
      <3>2. g[1] = f[1]
        BY <1>2, <1>3, <2>0, <2>1
      <3> QED BY <3>1, <3>2
    <2>3. ASSUME NEW i \in Nat, i \in Same PROVE i + 1 \in Same
      <3> SUFFICES ASSUME i + 2 \in 1..n PROVE g[i + 2] = f[i + 2]
        OBVIOUS
      <3>1. i + 1 \in 1..n /\ i + 2 \in 2..n /\ (i + 2) - 1 = i + 1 /\ i + 2 \in 2..Len(qs)
        BY <1>0, <1>1
      <3>2. g[i + 1] = f[i + 1]
        BY <2>3, <3>1
      <3>3. g[i + 2] = g[i + 1] \o qs[i + 2]
        BY <1>3, <3>1
      <3>4. f[i + 2] = f[i + 1] \o ps[i + 2]
        BY <2>1, <3>1
      <3> QED BY <1>2, <3>2, <3>3, <3>4
    <2>4. \A i \in Nat : i \in Same
      <3> HIDE DEF Same
      <3> QED BY <2>2, <2>3, Induct
    <2>5. g[n] = f[n]
      <3>1. n - 1 \in Nat /\ (n - 1) + 1 = n /\ n \in 1..n
        BY <1>0, <2>0
      <3> QED BY <2>4, <3>1
    <2>6. g[n + 1] = g[n] \o x
      <3>1. n + 1 \in 2..Len(qs) /\ (n + 1) - 1 = n
        BY <1>0, <1>1, <2>0
      <3> QED BY <1>1, <1>3, <3>1
    <2> QED BY <1>1, <1>3, <2>1, <2>5, <2>6 DEF qs
  <1> QED BY <1>4, <1>5

\* The sequence p begins in s after the first n elements.
HasAt(s, n, p) ==
    /\ n + Len(p) <= Len(s)
    /\ \A i \in 1..Len(p) : s[n + i] = p[i]

\* Each part is in its place, and the whole is as long as its parts.
LEMMA FlattenAt ==
    ASSUME NEW A, NEW ps \in Seq(Seq(A))
    PROVE  /\ LengthOf(ps, 0) = 0
           /\ LengthOf(ps, Len(ps)) = Len(FlattenSeq(ps))
           /\ \A k \in 0..Len(ps) : LengthOf(ps, k) \in 0..Len(FlattenSeq(ps))
           /\ \A k \in 1..Len(ps) :
                 /\ LengthOf(ps, k) = LengthOf(ps, k - 1) + Len(ps[k])
                 /\ HasAt(FlattenSeq(ps), LengthOf(ps, k - 1), ps[k])
  <1> DEFINE n == Len(ps)
             F(k) == FlattenSeq(SubSeq(ps, 1, k))
             Begins(s, t) == Len(s) <= Len(t) /\ \A i \in 1..Len(s) : t[i] = s[i]
  <1>0. n \in Nat /\ ps = SubSeq(ps, 1, n) /\ \A i \in 1..n : ps[i] \in Seq(A)
    OBVIOUS
  <1>1. \A k \in 0..n : SubSeq(ps, 1, k) \in Seq(Seq(A)) /\ F(k) \in Seq(A)
    <2>1. ASSUME NEW k \in 0..n PROVE SubSeq(ps, 1, k) \in Seq(Seq(A))
      BY <1>0
    <2> QED BY <2>1, FlattenType
  <1>2. ASSUME NEW k \in 1..n PROVE F(k) = F(k - 1) \o ps[k]
    <2>1. SubSeq(ps, 1, k) = Append(SubSeq(ps, 1, k - 1), ps[k])
      BY <1>0
    <2>2. SubSeq(ps, 1, k - 1) \in Seq(Seq(A)) /\ ps[k] \in Seq(A)
      BY <1>0, <1>1
    <2> QED BY <2>1, <2>2, FlattenAppend
  <1>3. F(0) = <<>>
    <2>1. SubSeq(ps, 1, 0) = <<>> /\ 0 \in 0..n
      BY <1>0
    <2> QED BY <1>1, <2>1, FlattenType
  <1>4. F(n) = FlattenSeq(ps)
    BY <1>0
  <1>5. \A k \in 0..n : LengthOf(ps, k) = Len(F(k))
    BY DEF LengthOf
  <1> HIDE DEF F
  <1>6. ASSUME NEW k \in 1..n
        PROVE  /\ Len(F(k)) = Len(F(k - 1)) + Len(ps[k])
               /\ Begins(F(k - 1), F(k))
               /\ HasAt(F(k), Len(F(k - 1)), ps[k])
    <2>1. F(k - 1) \in Seq(A) /\ ps[k] \in Seq(A) /\ F(k) = F(k - 1) \o ps[k]
      <3>1. k - 1 \in 0..n
        BY <1>0
      <3> QED BY <1>0, <1>1, <1>2, <3>1
    <2> DEFINE s == F(k - 1)
               p == ps[k]
    <2>2. ASSUME NEW t, t = s \o p PROVE Len(t) = Len(s) + Len(p) /\ Begins(s, t) /\ HasAt(t, Len(s), p)
      <3>1. s \in Seq(A) /\ p \in Seq(A)
        BY <2>1
      <3> HIDE DEF s, p
      <3> QED BY <2>2, <3>1 DEF HasAt
    <2> HIDE DEF Begins
    <2> QED BY <2>1, <2>2
  <1> DEFINE Inside == {d \in Nat : d <= n => Begins(F(n - d), F(n))}
  <1>7. 0 \in Inside
    <2>1. n - 0 = n /\ 0 \in Nat /\ F(n) \in Seq(A)
      BY <1>0, <1>1
    <2> QED BY <2>1
  <1>8. ASSUME NEW d \in Nat, d \in Inside PROVE d + 1 \in Inside
    <2> SUFFICES ASSUME d + 1 <= n PROVE Begins(F(n - (d + 1)), F(n))
      OBVIOUS
    <2>1. n - d \in 1..n /\ (n - d) - 1 = n - (d + 1) /\ n - d \in 0..n /\ n - (d + 1) \in 0..n
      BY <1>0
    <2>2. Begins(F(n - d), F(n))
      BY <1>0, <1>8
    <2>3. Begins(F(n - (d + 1)), F(n - d))
      BY <1>6, <2>1
    <2>4. F(n - d) \in Seq(A) /\ F(n - (d + 1)) \in Seq(A) /\ F(n) \in Seq(A)
      BY <1>0, <1>1, <2>1
    <2> QED BY <2>2, <2>3, <2>4
  <1>9. \A d \in Nat : d \in Inside
    <2> HIDE DEF Inside
    <2> QED BY <1>7, <1>8, Induct
  <1>10. ASSUME NEW k \in 0..n PROVE Begins(F(k), F(n))
    <2>1. n - k \in Nat /\ n - (n - k) = k /\ n - k <= n
      BY <1>0
    <2> QED BY <1>9, <2>1
  <1>11. ASSUME NEW k \in 1..n PROVE HasAt(F(n), Len(F(k - 1)), ps[k])
    <2>1. Begins(F(k), F(n)) /\ HasAt(F(k), Len(F(k - 1)), ps[k])
      BY <1>0, <1>6, <1>10
    <2>2. F(k) \in Seq(A) /\ F(k - 1) \in Seq(A) /\ F(n) \in Seq(A) /\ ps[k] \in Seq(A)
      BY <1>0, <1>1
    <2>3. Len(F(k)) = Len(F(k - 1)) + Len(ps[k])
      BY <1>6
    <2>4. \A i \in 1..Len(ps[k]) : Len(F(k - 1)) + i \in 1..Len(F(k))
      BY <2>2, <2>3
    <2>5. Len(F(k - 1)) + Len(ps[k]) <= Len(F(n))
      BY <2>1, <2>2, <2>3
    <2> QED BY <2>1, <2>4, <2>5 DEF HasAt
  <1>12. \A k \in 0..n : Len(F(k)) \in 0..Len(F(n))
    BY <1>0, <1>1, <1>10
  <1>13. \A k \in 1..n : k - 1 \in 0..n /\ k \in 0..n
    BY <1>0
  <1>14. 0 \in 0..n /\ n \in 0..n
    BY <1>0
  <1> HIDE DEF Begins
  <1> QED BY <1>3, <1>4, <1>5, <1>6, <1>11, <1>12, <1>13, <1>14

-----------------------------------------------------------------------------
(* Readers.                                                                *)

\* A way in which a reader that begins at from may end, where m bytes are there.
Ends(r, from, m) ==
    /\ r.at \in from..m
    /\ r = Done(r.at, r.got) \/ r = Lacking(r.at) \/ r = Throws(r.at)

\* From every place f ends in one of these ways; what it is done with has at
\* least one byte.
IsReader(f, m) ==
    \A p \in 0..m : Ends(f[p], p, m) /\ (f[p].is = "done" => p + 1 <= f[p].at)

\* What is done has got something, and is not lacking.
LEMMA WaysToEnd ==
    /\ \A at, got : /\ Done(at, got).is = "done"
                    /\ Done(at, got).at = at
                    /\ Done(at, got).got = got
    /\ \A at : Lacking(at).is = "lacking" /\ Lacking(at).at = at
    /\ \A at : Throws(at).is = "throws" /\ Throws(at).at = at
  BY DEF Done, Lacking, Throws

LEMMA EndsIn ==
    ASSUME NEW r, NEW from, NEW m, Ends(r, from, m)
    PROVE  /\ r.is \in {"done", "lacking", "throws"}
           /\ r.is = "done" => r = Done(r.at, r.got)
           /\ r.is = "lacking" => r = Lacking(r.at)
           /\ r.is = "throws" => r = Throws(r.at)
  BY DEF Ends, Done, Lacking, Throws

\* How the readers of the models may end.
LEMMA MayEnd ==
    ASSUME NEW from \in Nat, NEW m \in Nat, NEW a \in from..m
    PROVE  /\ \A got : Ends(Done(a, got), from, m)
           /\ Ends(Lacking(a), from, m)
           /\ Ends(Throws(a), from, m)
  BY WaysToEnd DEF Ends

\* What a later reader does, an earlier one may do.
LEMMA EndsLater ==
    ASSUME NEW from \in Nat, NEW later \in Nat, from <= later, NEW m \in Nat,
           NEW r, Ends(r, later, m)
    PROVE  Ends(r, from, m)
  BY DEF Ends

\* What follows a reader only follows it when it is done.
LEMMA ThenEnds ==
    ASSUME NEW from \in Nat, NEW m \in Nat, NEW r, Ends(r, from, m), NEW next,
           r.is = "done" => Ends(next, r.at, m)
    PROVE  Ends(IF r.is = "done" THEN next ELSE r, from, m)
  <1>1. CASE r.is = "done"
    <2>1. r.at \in from..m
      BY DEF Ends
    <2>2. r.at \in Nat /\ from <= r.at
      BY <2>1
    <2> QED BY <1>1, <2>2, EndsLater
  <1>2. CASE r.is # "done"
    BY <1>2
  <1> QED BY <1>1, <1>2

LEMMA OneMoreIs ==
    ASSUME NEW r, NEW f
    PROVE  OneMore(r, f) = IF r.is # "done" THEN r
                           ELSE IF f[r.at].is # "done" THEN f[r.at]
                           ELSE Done(f[r.at].at, Append(r.got, f[r.at].got))
  BY Zenon DEF OneMore, Then

\* All that these readers may get in m bytes.
Gots(fs, m) == {fs[j][p].got : j \in 1..Len(fs), p \in 0..m}

\* How readers in a row may end that get these things.
SomeEnd(m, got) ==
    {Done(a, s) : a \in 0..m, s \in Seq(got)}
    \cup {Lacking(a) : a \in 0..m} \cup {Throws(a) : a \in 0..m}

\* One reader after the other, up to n of them.
InARow(u, at, fs, m) ==
    /\ u[0] = Done(at, <<>>)
    /\ \A i \in 1..Len(fs) : u[i] = OneMore(u[i - 1], fs[i])
    /\ \A i \in 0..Len(fs) :
          /\ Ends(u[i], at, m)
          /\ u[i].is = "done" => /\ at + i <= u[i].at
                                 /\ Len(u[i].got) = i
                                 /\ u[i].got \in Seq(Gots(fs, m))

LEMMA EachUnfold ==
    ASSUME NEW m \in Nat, NEW at \in 0..m, NEW fs, Len(fs) \in Nat,
           \A i \in 1..Len(fs) : IsReader(fs[i], m)
    PROVE  InARow(EachUpTo(at, fs), at, fs, m)
  <1> DEFINE n == Len(fs)
             G == Gots(fs, m)
             S == SomeEnd(m, G)
             base == Done(at, <<>>)
             Body(u) == [i \in 0..n |-> IF i = 0 THEN Done(at, <<>>)
                                        ELSE OneMore(u[i - 1], fs[i])]
             step == [p \in Nat \X S |->
                        IF p[1] \in 1..n THEN OneMore(p[2], fs[p[1]]) ELSE p[2]]
  <1>1. ASSUME NEW i \in 1..n, NEW r \in S
        PROVE  /\ OneMore(r, fs[i]) \in S
               /\ r.at \in 0..m
               /\ Ends(OneMore(r, fs[i]), r.at, m)
               /\ OneMore(r, fs[i]).is = "done" =>
                     /\ r.is = "done"
                     /\ r.got \in Seq(G)
                     /\ r.at + 1 <= OneMore(r, fs[i]).at
                     /\ OneMore(r, fs[i]).got \in Seq(G)
                     /\ Len(OneMore(r, fs[i]).got) = Len(r.got) + 1
    <2> DEFINE q == fs[i][r.at]
    <2>0. \/ \E a \in 0..m, s \in Seq(G) : r = Done(a, s)
          \/ \E a \in 0..m : r = Lacking(a) \/ r = Throws(a)
      <3> HIDE DEF G
      <3> QED BY DEF SomeEnd
    <2>1. r.at \in 0..m /\ r.at \in Nat
      <3>1. r.at \in 0..m
        BY <2>0, WaysToEnd
      <3> QED BY <3>1
    <2>2. r.is = "done" => r = Done(r.at, r.got) /\ r.got \in Seq(G)
      <3> HIDE DEF G
      <3> QED BY <2>0, WaysToEnd
    <2>3. r.is # "done" => Ends(r, r.at, m)
      <3>1. r.at \in r.at..m
        BY <2>1
      <3>2. r.is # "done" => r = Lacking(r.at) \/ r = Throws(r.at)
        BY <2>0, WaysToEnd
      <3> QED BY <3>1, <3>2 DEF Ends
    <2>4. Ends(q, r.at, m) /\ (q.is = "done" => r.at + 1 <= q.at) /\ q.got \in G
      <3>1. q.got \in G
        BY <2>1 DEF Gots
      <3> QED BY <2>1, <3>1 DEF IsReader
    <2>5. q.at \in 0..m /\ q.at \in r.at..m
      <3>1. q.at \in r.at..m
        BY <2>4 DEF Ends
      <3> QED BY <2>1, <3>1
    <2> HIDE DEF q, G
    <2>6. CASE r.is # "done"
      <3>1. OneMore(r, fs[i]) = r
        BY <2>6, OneMoreIs
      <3> QED BY <2>1, <2>3, <2>6, <3>1
    <2>7. CASE r.is = "done" /\ q.is # "done"
      <3>1. OneMore(r, fs[i]) = q
        BY <2>7, OneMoreIs DEF q
      <3>2. q = Lacking(q.at) \/ q = Throws(q.at)
        BY <2>4, <2>7, EndsIn
      <3>3. q \in S
        BY <2>5, <3>2 DEF SomeEnd
      <3> HIDE DEF S
      <3> QED BY <2>1, <2>4, <2>7, <3>1, <3>3
    <2>8. CASE r.is = "done" /\ q.is = "done"
      <3> DEFINE g == Append(r.got, q.got)
      <3>1. OneMore(r, fs[i]) = Done(q.at, g)
        BY <2>8, OneMoreIs DEF q
      <3>2. g \in Seq(G) /\ Len(g) = Len(r.got) + 1
        BY <2>2, <2>4, <2>8
      <3> HIDE DEF g
      <3>3. Done(q.at, g) \in S
        <4>1. q.at \in 0..m
          BY <2>5
        <4> QED BY <3>2, <4>1 DEF SomeEnd
      <3>4. Ends(Done(q.at, g), r.at, m)
        BY <2>1, <2>5, MayEnd
      <3> HIDE DEF S
      <3> QED BY <2>1, <2>2, <2>4, <2>8, <3>1, <3>2, <3>3, <3>4, WaysToEnd
    <2> QED BY <2>6, <2>7, <2>8
  <1>2. base \in S
    <2>1. <<>> \in Seq(G)
      OBVIOUS
    <2> DEFINE none == <<>>
    <2>2. none \in Seq(G)
      BY <2>1
    <2> HIDE DEF G, none
    <2>3. Done(at, none) \in S
      BY <2>2 DEF SomeEnd
    <2> QED BY <2>3 DEF none
  <1>3. step \in [Nat \X S -> S]
    <2> HIDE DEF S
    <2>1. \A i \in 1..n, r \in S : OneMore(r, fs[i]) \in S
      BY <1>1
    <2> QED BY <2>1
  <1>4. PICK f \in [Nat -> S] : Recursive(f, base, step)
    <2> HIDE DEF step, S, base
    <2> QED BY <1>2, <1>3, Recursion
  <1> HIDE DEF S
  <1>5. ASSUME NEW i \in 1..n PROVE f[i] = OneMore(f[i - 1], fs[i]) /\ f[i - 1] \in S
    <2>1. i - 1 \in Nat /\ (i - 1) + 1 = i /\ i \in Nat
      OBVIOUS
    <2>2. f[i] = step[<<i, f[i - 1]>>]
      <3> HIDE DEF step
      <3> QED BY <1>4, <2>1 DEF Recursive
    <2>3. f[i - 1] \in S
      BY <2>1
    <2> QED BY <2>1, <2>2, <2>3
  <1>6. f[0] = Done(at, <<>>)
    BY <1>4 DEF Recursive
  <1> DEFINE g == [i \in 0..n |-> f[i]]
  <1>7. \A i \in 0..n : i = 0 \/ (i \in 1..n /\ i # 0 /\ i - 1 \in 0..n)
    OBVIOUS
  <1>8. g = Body(g)
    <2>1. ASSUME NEW i \in 0..n
          PROVE  f[i] = IF i = 0 THEN Done(at, <<>>) ELSE OneMore(g[i - 1], fs[i])
      <3>1. CASE i = 0
        BY <1>6, <3>1
      <3>2. CASE i # 0
        <4>1. i \in 1..n /\ i - 1 \in 0..n
          BY <1>7, <3>2
        <4>2. g[i - 1] = f[i - 1]
          BY <4>1
        <4> HIDE DEF g
        <4> QED BY <1>5, <3>2, <4>1, <4>2
      <3> QED BY <3>1, <3>2
    <2> QED BY <2>1, Zenon
  <1> DEFINE u == EachUpTo(at, fs)
  <1>9. u = Body(u)
    <2>1. u = CHOOSE v : v = Body(v)
      BY DEF EachUpTo
    <2> HIDE DEF Body, g, u
    <2> QED BY <1>8, <2>1
  <1> HIDE DEF u
  <1>10. \A i \in 0..n : u[i] = IF i = 0 THEN Done(at, <<>>) ELSE OneMore(u[i - 1], fs[i])
    <2>1. \A i \in 0..n : Body(u)[i] = IF i = 0 THEN Done(at, <<>>)
                                       ELSE OneMore(u[i - 1], fs[i])
      BY Zenon
    <2> HIDE DEF Body
    <2> QED BY <1>9, <2>1
  <1>11. u[0] = Done(at, <<>>)
    <2>1. 0 \in 0..n
      OBVIOUS
    <2> QED BY <1>10, <2>1
  <1>12. \A i \in 1..n : u[i] = OneMore(u[i - 1], fs[i])
    <2>1. \A i \in 1..n : i \in 0..n /\ i # 0
      OBVIOUS
    <2> QED BY <1>10, <2>1
  <1> DEFINE Good(i) == /\ u[i] \in S
                        /\ Ends(u[i], at, m)
                        /\ u[i].is = "done" => /\ at + i <= u[i].at
                                               /\ Len(u[i].got) = i
                                               /\ u[i].got \in Seq(G)
             T == {i \in Nat : i <= n => Good(i)}
  <1>13. 0 \in T
    <2>1. at \in Nat /\ at \in at..m
      OBVIOUS
    <2>2. Ends(Done(at, <<>>), at, m)
      BY <2>1, MayEnd
    <2>3. <<>> \in Seq(G) /\ Len(<<>>) = 0
      OBVIOUS
    <2> HIDE DEF G
    <2>5. at + 0 <= at /\ 0 \in Nat
      OBVIOUS
    <2>6. u[0] \in S /\ Ends(u[0], at, m)
      BY <1>2, <1>11, <2>2
    <2>7. u[0].at = at /\ u[0].got = <<>>
      BY <1>11, WaysToEnd
    <2>8. at + 0 <= u[0].at
      BY <2>5, <2>7
    <2>9. Len(u[0].got) = 0 /\ u[0].got \in Seq(G)
      BY <2>3, <2>7
    <2> HIDE DEF S, u
    <2>4. Good(0)
      BY <2>6, <2>8, <2>9
    <2> QED BY <2>4
  <1>14. ASSUME NEW i \in Nat, i \in T PROVE i + 1 \in T
    <2> SUFFICES ASSUME i + 1 <= n PROVE Good(i + 1)
      OBVIOUS
    <2> DEFINE r == u[i]
               q == u[i + 1]
    <2>1. i + 1 \in 1..n /\ (i + 1) - 1 = i /\ i <= n
      OBVIOUS
    <2>2. Good(i)
      BY <1>14, <2>1
    <2>3. q = OneMore(r, fs[i + 1])
      BY <1>12, <2>1
    <2>4. r \in S
      BY <2>2
    <2> HIDE DEF r, q, G
    <2>5. /\ q \in S
          /\ r.at \in 0..m
          /\ Ends(q, r.at, m)
          /\ q.is = "done" => /\ r.is = "done"
                              /\ r.got \in Seq(G)
                              /\ r.at + 1 <= q.at
                              /\ q.got \in Seq(G)
                              /\ Len(q.got) = Len(r.got) + 1
      BY <1>1, <2>1, <2>3, <2>4
    <2>6. r.at \in at..m
      BY <2>2 DEF Ends, r
    <2>7. Ends(q, at, m)
      <3>1. at \in Nat /\ r.at \in Nat /\ at <= r.at
        BY <2>6
      <3> QED BY <2>5, <3>1, EndsLater
    <2>8. q.is = "done" => at + (i + 1) <= q.at /\ Len(q.got) = i + 1
      <3> SUFFICES ASSUME q.is = "done" PROVE at + (i + 1) <= q.at /\ Len(q.got) = i + 1
        OBVIOUS
      <3>1. at + i <= r.at /\ Len(r.got) = i /\ r.at + 1 <= q.at /\ Len(q.got) = Len(r.got) + 1
        BY <2>2, <2>5 DEF r
      <3>2. q.at \in Nat /\ r.at \in Nat
        BY <2>5 DEF Ends
      <3> QED BY <3>1, <3>2
    <2> QED BY <2>5, <2>7, <2>8 DEF q
  <1>15. \A i \in Nat : i \in T
    <2> HIDE DEF T
    <2> QED BY <1>13, <1>14, Induct
  <1>16. \A i \in 0..n : Good(i)
    <2>1. \A i \in 0..n : i \in Nat /\ i <= n
      OBVIOUS
    <2> HIDE DEF Good
    <2> QED BY <1>15, <2>1
  <1> QED BY <1>11, <1>12, <1>16 DEF InARow, u

\* Readers in a row end like one reader, and what they are done with has at
\* least one byte for each of them.
LEMMA EachEnds ==
    ASSUME NEW m \in Nat, NEW at \in 0..m, NEW fs, Len(fs) \in Nat,
           \A i \in 1..Len(fs) : IsReader(fs[i], m)
    PROVE  /\ Ends(Each(at, fs), at, m)
           /\ Each(at, fs).is = "done" =>
                 /\ at + Len(fs) <= Each(at, fs).at
                 /\ Len(Each(at, fs).got) = Len(fs)
                 /\ Each(at, fs).got \in Seq(Gots(fs, m))
  <1>1. InARow(EachUpTo(at, fs), at, fs, m)
    BY EachUnfold
  <1>2. Len(fs) \in 0..Len(fs)
    OBVIOUS
  <1> QED BY <1>1, <1>2 DEF InARow, Each

\* What f gets when it is done.
GotBy(f, m) == {f[p].got : p \in {q \in 0..m : f[q].is = "done"}}

\* Each of the readers in a row has got its own.
LEMMA EachGets ==
    ASSUME NEW m \in Nat, NEW at \in 0..m, NEW fs, Len(fs) \in Nat,
           \A i \in 1..Len(fs) : IsReader(fs[i], m),
           Each(at, fs).is = "done"
    PROVE  \A i \in 1..Len(fs) : Each(at, fs).got[i] \in GotBy(fs[i], m)
  <1> DEFINE u == EachUpTo(at, fs)
             n == Len(fs)
             S == Gots(fs, m)
             Own(i) == \A k \in 1..i : u[i].got[k] \in GotBy(fs[k], m)
             T == {i \in Nat : i <= n /\ u[i].is = "done" => Own(i)}
  <1>1. InARow(u, at, fs, m)
    BY EachUnfold
  <1> HIDE DEF u
  <1>2. 0 \in T
    OBVIOUS
  <1>3. ASSUME NEW i \in Nat, i \in T PROVE i + 1 \in T
    <2> SUFFICES ASSUME i + 1 <= n, u[i + 1].is = "done" PROVE Own(i + 1)
      OBVIOUS
    <2> DEFINE r == u[i]
               f == fs[i + 1]
    <2>1. i + 1 \in 1..n /\ (i + 1) - 1 = i /\ i <= n /\ i \in 0..n
      OBVIOUS
    <2>2. u[i + 1] = OneMore(r, f)
      BY <1>1, <2>1 DEF InARow
    <2>3. Ends(r, at, m) /\ (r.is = "done" => Len(r.got) = i /\ r.got \in Seq(S))
      <3> HIDE DEF S
      <3>1. Ends(u[i], at, m) /\ (u[i].is = "done" => Len(u[i].got) = i /\ u[i].got \in Seq(Gots(fs, m)))
        BY <1>1, <2>1, Zenon DEF InARow
      <3> QED BY <3>1 DEF S
    <2>4. Own(i) \/ r.is # "done"
      BY <1>3, <2>1
    <2> HIDE DEF r, f
    <2>5. r.is = "done" /\ f[r.at].is = "done"
          /\ u[i + 1] = Done(f[r.at].at, Append(r.got, f[r.at].got))
      BY <2>2, OneMoreIs, Zenon
    <2>6. r.at \in 0..m
      BY <2>3 DEF Ends
    <2>7. f[r.at].got \in GotBy(f, m)
      BY <2>5, <2>6 DEF GotBy
    <2>8. u[i + 1].got = Append(r.got, f[r.at].got)
      <3> DEFINE a == f[r.at].at
                 s == Append(r.got, f[r.at].got)
      <3>1. u[i + 1] = Done(a, s)
        BY <2>5
      <3> HIDE DEF a, s
      <3>2. u[i + 1].got = s
        BY <3>1, WaysToEnd
      <3> QED BY <3>2 DEF s
    <2>9. f[r.at].got \in S
      BY <2>1, <2>6 DEF Gots, f
    <2>10. ASSUME NEW k \in 1..(i + 1) PROVE u[i + 1].got[k] \in GotBy(fs[k], m)
      <3> DEFINE s == r.got
                 e == f[r.at].got
      <3>1. s \in Seq(S) /\ Len(s) = i /\ e \in S
        BY <2>3, <2>5, <2>9
      <3> HIDE DEF S
      <3>2. Append(s, e)[k] = IF k <= i THEN s[k] ELSE e
        <4> HIDE DEF s, e
        <4> QED BY <3>1
      <3>3. CASE k <= i
        <4>1. k \in 1..i
          BY <3>3
        <4>2. r.got[k] \in GotBy(fs[k], m)
          BY <2>4, <2>5, <4>1 DEF r
        <4>3. u[i + 1].got[k] = s[k]
          BY <2>8, <3>2, <3>3
        <4> QED BY <4>2, <4>3, Zenon
      <3>4. CASE ~ (k <= i)
        <4>1. k = i + 1
          BY <3>4
        <4>2. u[i + 1].got[k] = e
          BY <2>8, <3>2, <3>4
        <4> QED BY <2>7, <4>1, <4>2 DEF f
      <3> QED BY <3>3, <3>4
    <2> QED BY <2>10
  <1>4. \A i \in Nat : i \in T
    <2> HIDE DEF T
    <2> QED BY <1>2, <1>3, Induct
  <1>5. u[n].is = "done" => Own(n)
    BY <1>4
  <1> QED BY <1>5 DEF Each, u

\* g does as f does, unless f lacks bytes of the m ones.
Settles(f, g, m) == \A p \in 0..m : f[p].is # "lacking" => g[p] = f[p]

\* Each of the readers fs settles, with one of gs.
SettleEach(fs, gs, m, m2) ==
    /\ Len(fs) \in Nat /\ Len(gs) \in Nat /\ Len(fs) <= Len(gs)
    /\ \A i \in 1..Len(fs) : IsReader(fs[i], m) /\ Settles(fs[i], gs[i], m)
    /\ \A i \in 1..Len(gs) : IsReader(gs[i], m2)

\* Readers in a row that do not lack bytes do the same when more bytes are there,
\* and when, of things the bytes have no room for, there are more.
LEMMA EachSettles ==
    ASSUME NEW m \in Nat, NEW m2 \in Nat, m <= m2, NEW at \in 0..m,
           NEW fs, NEW gs, SettleEach(fs, gs, m, m2),
           Len(fs) < Len(gs) => Len(fs) > m - at
    PROVE  Each(at, fs).is # "lacking" => Each(at, gs) = Each(at, fs)
  <1>0. /\ Len(fs) \in Nat /\ \A i \in 1..Len(fs) : IsReader(fs[i], m)
        /\ Len(gs) \in Nat /\ \A i \in 1..Len(gs) : IsReader(gs[i], m2)
        /\ \A i \in 1..Len(fs) : Settles(fs[i], gs[i], m)
        /\ Len(fs) <= Len(gs)
    BY Zenon DEF SettleEach
  <1> USE <1>0
  <1> DEFINE u == EachUpTo(at, fs)
             v == EachUpTo(at, gs)
             n == Len(fs)
             k == Len(gs)
  <1>1. InARow(u, at, fs, m)
    BY EachUnfold
  <1>2. InARow(v, at, gs, m2)
    <2>1. at \in 0..m2
      OBVIOUS
    <2> QED BY <2>1, EachUnfold
  <1> HIDE DEF u, v
  <1> DEFINE T == {i \in Nat : i <= n /\ u[i].is # "lacking" => v[i] = u[i]}
  <1>3. 0 \in T
    BY <1>1, <1>2 DEF InARow
  <1>4. ASSUME NEW i \in Nat, i \in T PROVE i + 1 \in T
    <2> SUFFICES ASSUME i + 1 <= n, u[i + 1].is # "lacking" PROVE v[i + 1] = u[i + 1]
      OBVIOUS
    <2> DEFINE r == u[i]
               f == fs[i + 1]
               g == gs[i + 1]
    <2>1. i + 1 \in 1..n /\ i + 1 \in 1..k /\ (i + 1) - 1 = i /\ i <= n /\ i \in 0..n
      OBVIOUS
    <2>2. u[i + 1] = OneMore(r, f) /\ v[i + 1] = OneMore(v[i], g) /\ Ends(r, at, m)
      BY <1>1, <1>2, <2>1 DEF InARow
    <2>3. Settles(f, g, m)
      BY <2>1
    <2>4. r.at \in 0..m
      BY <2>2 DEF Ends
    <2>5. r.is # "lacking"
      <3> SUFFICES ASSUME r.is = "lacking" PROVE FALSE
        OBVIOUS
      <3>1. OneMore(r, f) = r
        BY OneMoreIs
      <3> QED BY <2>2, <3>1
    <2>6. v[i] = r
      BY <1>4, <2>1, <2>5
    <2> HIDE DEF r, f, g
    <2>7. CASE r.is # "done"
      BY <2>2, <2>6, <2>7, OneMoreIs
    <2>8. CASE r.is = "done"
      <3>1. CASE f[r.at].is = "lacking"
        <4>1. OneMore(r, f) = f[r.at]
          BY <2>8, <3>1, OneMoreIs
        <4> QED BY <2>2, <3>1, <4>1
      <3>2. CASE f[r.at].is # "lacking"
        <4>1. g[r.at] = f[r.at]
          BY <2>3, <2>4, <3>2 DEF Settles
        <4>2. OneMore(r, g) = OneMore(r, f)
          BY <4>1, OneMoreIs, Zenon
        <4> QED BY <2>2, <2>6, <4>2
      <3> QED BY <3>1, <3>2
    <2> QED BY <2>7, <2>8
  <1>5. \A i \in Nat : i \in T
    <2> HIDE DEF T
    <2> QED BY <1>3, <1>4, Induct
  <1>6. u[n].is # "lacking" => v[n] = u[n]
    BY <1>5
  <1>7. u[n].is = "done" => n = k
    <2>1. n \in 0..n
      OBVIOUS
    <2>2. Ends(u[n], at, m) /\ (u[n].is = "done" => at + n <= u[n].at)
      BY <1>1, <2>1 DEF InARow
    <2>3. u[n].at \in at..m
      BY <2>2 DEF Ends
    <2> QED BY <2>2, <2>3
  <1> DEFINE W == {i \in Nat : n + i <= k /\ v[n].is = "throws" => v[n + i] = v[n]}
  <1>8. 0 \in W
    OBVIOUS
  <1>9. ASSUME NEW i \in Nat, i \in W PROVE i + 1 \in W
    <2> SUFFICES ASSUME n + (i + 1) <= k, v[n].is = "throws" PROVE v[n + (i + 1)] = v[n]
      OBVIOUS
    <2>1. n + (i + 1) \in 1..k /\ (n + (i + 1)) - 1 = n + i /\ n + i <= k
      OBVIOUS
    <2>2. v[n + i] = v[n]
      BY <1>9, <2>1
    <2>3. v[n + (i + 1)] = OneMore(v[n + i], gs[n + (i + 1)])
      BY <1>2, <2>1 DEF InARow
    <2> QED BY <2>2, <2>3, OneMoreIs
  <1>10. \A i \in Nat : i \in W
    <2> HIDE DEF W
    <2> QED BY <1>8, <1>9, Induct
  <1>11. v[n].is = "throws" => v[k] = v[n]
    <2>1. k - n \in Nat /\ n + (k - n) = k
      OBVIOUS
    <2> QED BY <1>10, <2>1
  <1>12. u[n].is \in {"done", "lacking", "throws"}
    <2>1. n \in 0..n
      OBVIOUS
    <2> QED BY <1>1, <2>1, EndsIn DEF InARow
  <1>13. u[n].is # "lacking" => v[k] = u[n]
    BY <1>6, <1>7, <1>11, <1>12
  <1> QED BY <1>13 DEF Each, u, v

\* What is in a part of s is in s.
LEMMA HasPart ==
    ASSUME NEW A, NEW s \in Seq(A), NEW t \in Seq(A), NEW p \in Seq(A),
           NEW n \in Nat, NEW k \in Nat, HasAt(s, n, t), HasAt(t, k, p)
    PROVE  HasAt(s, n + k, p)
  <1>1. n + Len(t) <= Len(s) /\ k + Len(p) <= Len(t)
    BY DEF HasAt
  <1>2. (n + k) + Len(p) <= Len(s)
    BY <1>1
  <1>3. ASSUME NEW i \in 1..Len(p) PROVE s[(n + k) + i] = p[i]
    <2>1. k + i \in 1..Len(t) /\ n + (k + i) = (n + k) + i
      BY <1>1
    <2>2. t[k + i] = p[i] /\ s[n + (k + i)] = t[k + i]
      BY <2>1 DEF HasAt
    <2> QED BY <2>1, <2>2
  <1> QED BY <1>2, <1>3 DEF HasAt

\* Wherever p is in b, the reader f reads it and gets this.
Reads(f, b, p, got) ==
    \A at \in 0..Len(b) : HasAt(b, at, p) => f[at] = Done(at + Len(p), got)

\* Each of these readers reads one of the parts and gets its own.
ReadOneEach(fs, b, ps, gots) ==
    /\ Len(fs) \in Nat /\ Len(ps) = Len(fs) /\ Len(gots) = Len(fs)
    /\ \A i \in 1..Len(fs) : IsReader(fs[i], Len(b)) /\ Reads(fs[i], b, ps[i], gots[i])

\* Readers in a row read parts in a row.
LEMMA EachReads ==
    ASSUME NEW A, NEW b \in Seq(A), NEW at \in 0..Len(b),
           NEW fs, NEW ps \in Seq(Seq(A)), NEW B, NEW gots \in Seq(B),
           ReadOneEach(fs, b, ps, gots),
           HasAt(b, at, FlattenSeq(ps))
    PROVE  Each(at, fs) = Done(at + Len(FlattenSeq(ps)), gots)
  <1>0. /\ Len(fs) \in Nat /\ Len(ps) = Len(fs) /\ Len(gots) = Len(fs)
        /\ \A i \in 1..Len(fs) : IsReader(fs[i], Len(b))
        /\ \A i \in 1..Len(fs) : Reads(fs[i], b, ps[i], gots[i])
    BY Zenon DEF ReadOneEach
  <1> USE <1>0
  <1> DEFINE u == EachUpTo(at, fs)
             n == Len(fs)
             L(i) == LengthOf(ps, i)
             T == {i \in Nat : i <= n => u[i] = Done(at + L(i), SubSeq(gots, 1, i))}
  <1>1. InARow(u, at, fs, Len(b))
    <2>1. Len(b) \in Nat
      OBVIOUS
    <2> QED BY <2>1, EachUnfold
  <1> HIDE DEF u
  <1>2. /\ FlattenSeq(ps) \in Seq(A)
        /\ L(0) = 0
        /\ L(n) = Len(FlattenSeq(ps))
        /\ \A i \in 0..n : L(i) \in 0..Len(FlattenSeq(ps))
        /\ \A i \in 1..n : /\ L(i) = L(i - 1) + Len(ps[i])
                           /\ HasAt(FlattenSeq(ps), L(i - 1), ps[i])
                           /\ ps[i] \in Seq(A)
    BY FlattenType, FlattenAt
  <1> HIDE DEF L
  <1>3. 0 \in T
    <2>1. SubSeq(gots, 1, 0) = <<>> /\ at + 0 = at /\ 0 \in Nat
      OBVIOUS
    <2>2. u[0] = Done(at, <<>>)
      BY <1>1 DEF InARow
    <2> QED BY <1>2, <2>1, <2>2
  <1>4. ASSUME NEW i \in Nat, i \in T PROVE i + 1 \in T
    <2> SUFFICES ASSUME i + 1 <= n
                 PROVE  u[i + 1] = Done(at + L(i + 1), SubSeq(gots, 1, i + 1))
      OBVIOUS
    <2> DEFINE r == u[i]
               f == fs[i + 1]
    <2>1. i + 1 \in 1..n /\ (i + 1) - 1 = i /\ i <= n /\ i \in 0..n
      OBVIOUS
    <2>2. u[i + 1] = OneMore(r, f)
      BY <1>1, <2>1 DEF InARow
    <2>3. r = Done(at + L(i), SubSeq(gots, 1, i))
      BY <1>4, <2>1
    <2>4. Reads(f, b, ps[i + 1], gots[i + 1])
      BY <2>1
    <2>5. L(i) \in Nat /\ L(i + 1) = L(i) + Len(ps[i + 1]) /\ ps[i + 1] \in Seq(A)
          /\ HasAt(FlattenSeq(ps), L(i), ps[i + 1])
      BY <1>2, <2>1
    <2>6. HasAt(b, at + L(i), ps[i + 1])
      <3>1. at \in Nat /\ FlattenSeq(ps) \in Seq(A)
        BY <1>2
      <3> QED BY <2>5, <3>1, HasPart
    <2>7. at + L(i) \in 0..Len(b) /\ (at + L(i)) + Len(ps[i + 1]) = at + L(i + 1)
      <3>1. (at + L(i)) + Len(ps[i + 1]) <= Len(b)
        BY <2>6 DEF HasAt
      <3>2. Len(ps[i + 1]) \in Nat
        BY <2>5
      <3> QED BY <2>5, <3>1, <3>2
    <2>8. f[at + L(i)] = Done(at + L(i + 1), gots[i + 1])
      BY <2>4, <2>6, <2>7 DEF Reads
    <2>9. Append(SubSeq(gots, 1, i), gots[i + 1]) = SubSeq(gots, 1, i + 1)
      BY <2>1
    <2> HIDE DEF r, f
    <2>10. OneMore(r, f) = Done(at + L(i + 1), Append(SubSeq(gots, 1, i), gots[i + 1]))
      BY <2>3, <2>8, OneMoreIs, WaysToEnd
    <2> QED BY <2>2, <2>9, <2>10
  <1>5. \A i \in Nat : i \in T
    <2> HIDE DEF T
    <2> QED BY <1>3, <1>4, Induct
  <1>6. u[n] = Done(at + L(n), SubSeq(gots, 1, n))
    BY <1>5
  <1>7. SubSeq(gots, 1, n) = gots
    OBVIOUS
  <1> QED BY <1>2, <1>6, <1>7 DEF Each, u

\* The same reader several times.
LEMMA TimesIs ==
    ASSUME NEW n \in Int, NEW f
    PROVE  /\ Len(Times(n, f)) \in Nat
           /\ Len(Times(n, f)) = IF n > 0 THEN n ELSE 0
           /\ \A i \in 1..n : Times(n, f)[i] = f
           /\ Times(n, f) \in Seq({f})
  <1> DEFINE k == IF n > 0 THEN n ELSE 0
  <1>1. k \in Nat /\ 1..n = 1..k
    OBVIOUS
  <1>2. [i \in 1..k |-> f] \in Seq({f}) /\ Len([i \in 1..k |-> f]) = k
    <2> HIDE DEF k
    <2> QED BY <1>1
  <1>3. Times(n, f) = [i \in 1..k |-> f]
    BY <1>1 DEF Times
  <1>4. \A i \in 1..n : [i1 \in 1..k |-> f][i] = f
    BY <1>1
  <1> HIDE DEF k
  <1> QED BY <1>1, <1>2, <1>3, <1>4 DEF k

\* The same reader several times gets a sequence of what it gets.
LEMMA TimesEnds ==
    ASSUME NEW m \in Nat, NEW at \in 0..m, NEW n \in Int, NEW f, IsReader(f, m)
    PROVE  /\ Ends(Each(at, Times(n, f)), at, m)
           /\ Each(at, Times(n, f)).is = "done" =>
                 /\ Each(at, Times(n, f)).got \in Seq(GotBy(f, m))
                 /\ Len(Each(at, Times(n, f)).got) = IF n > 0 THEN n ELSE 0
                 /\ at + Len(Each(at, Times(n, f)).got) <= Each(at, Times(n, f)).at
  <1> DEFINE fs == Times(n, f)
             r == Each(at, fs)
             S == Gots(fs, m)
             G == GotBy(f, m)
  <1>1. Len(fs) \in Nat /\ Len(fs) = IF n > 0 THEN n ELSE 0
    BY TimesIs
  <1>2. \A i \in 1..Len(fs) : fs[i] = f
    <2>1. \A i \in 1..Len(fs) : i \in 1..n
      BY <1>1
    <2> QED BY <2>1, TimesIs
  <1> HIDE DEF fs
  <1>3. \A i \in 1..Len(fs) : IsReader(fs[i], m)
    BY <1>2
  <1>4. /\ Ends(r, at, m)
        /\ r.is = "done" => at + Len(fs) <= r.at /\ Len(r.got) = Len(fs) /\ r.got \in Seq(S)
    <2> HIDE DEF S
    <2>1. /\ Ends(Each(at, fs), at, m)
          /\ Each(at, fs).is = "done" => /\ at + Len(fs) <= Each(at, fs).at
                                         /\ Len(Each(at, fs).got) = Len(fs)
                                         /\ Each(at, fs).got \in Seq(Gots(fs, m))
      BY <1>1, <1>3, EachEnds
    <2> QED BY <2>1 DEF S
  <1>5. ASSUME r.is = "done" PROVE r.got \in Seq(G)
    <2>1. \A i \in 1..Len(fs) : r.got[i] \in G
      <3>1. \A i \in 1..Len(fs) : Each(at, fs).got[i] \in GotBy(fs[i], m)
        BY <1>1, <1>3, <1>5, EachGets
      <3> QED BY <1>2, <3>1
    <2> DEFINE s == r.got
    <2> HIDE DEF S, G, r
    <2>2. s \in Seq(S) /\ \A i \in 1..Len(s) : s[i] \in G
      BY <1>4, <1>5, <2>1
    <2> HIDE DEF s
    <2>3. s \in Seq(G)
      BY <2>2
    <2> QED BY <2>3 DEF s
  <1> HIDE DEF r, S, G
  <1>6. /\ Ends(r, at, m)
        /\ r.is = "done" => /\ r.got \in Seq(G)
                            /\ Len(r.got) = IF n > 0 THEN n ELSE 0
                            /\ at + Len(r.got) <= r.at
    BY <1>1, <1>4, <1>5
  <1> QED BY <1>6 DEF r, G, fs

-----------------------------------------------------------------------------
(* The elements of an array.                                               *)

\* Dimension by dimension.
CountsUp(e, dims, limit) ==
    /\ e[0] = 1
    /\ \A i \in 1..Len(dims) : e[i] = Capped(e[i - 1] * dims[i], limit)
    /\ \A i \in 0..Len(dims) : e[i] \in Int

LEMMA ElementsUnfold ==
    ASSUME NEW dims \in Seq(Int), NEW limit \in Nat
    PROVE  CountsUp(ElementsUpTo(dims, limit), dims, limit)
  <1> DEFINE n == Len(dims)
             Body(u) == [i \in 0..n |-> IF i = 0 THEN 1
                                        ELSE Capped(u[i - 1] * dims[i], limit)]
             step == [p \in Nat \X Int |->
                        IF p[1] \in 1..n THEN Capped(p[2] * dims[p[1]], limit) ELSE p[2]]
             base == 1
  <1>0. n \in Nat
    OBVIOUS
  <1>1. step \in [Nat \X Int -> Int]
    <2>1. ASSUME NEW i \in 1..n, NEW k \in Int PROVE Capped(k * dims[i], limit) \in Int
      <3>1. dims[i] \in Int
        OBVIOUS
      <3>2. k * dims[i] \in Int
        BY <3>1
      <3> QED BY <3>2 DEF Capped
    <2> QED BY <2>1
  <1>2. base \in Int
    OBVIOUS
  <1>3. PICK f \in [Nat -> Int] : Recursive(f, base, step)
    <2> HIDE DEF step, base
    <2> QED BY <1>1, <1>2, Recursion
  <1>4. ASSUME NEW i \in 1..n PROVE f[i] = Capped(f[i - 1] * dims[i], limit)
    <2>1. i - 1 \in Nat /\ (i - 1) + 1 = i /\ i \in Nat
      OBVIOUS
    <2>2. f[i] = step[<<i, f[i - 1]>>]
      <3> HIDE DEF step
      <3> QED BY <1>3, <2>1 DEF Recursive
    <2>3. f[i - 1] \in Int
      BY <2>1
    <2> QED BY <2>1, <2>2, <2>3
  <1>5. f[0] = 1
    BY <1>3 DEF Recursive
  <1> DEFINE g == [i \in 0..n |-> f[i]]
  <1>6. g = Body(g)
    <2>1. ASSUME NEW i \in 0..n
          PROVE  f[i] = IF i = 0 THEN 1 ELSE Capped(g[i - 1] * dims[i], limit)
      <3>1. CASE i = 0
        BY <1>5, <3>1
      <3>2. CASE i # 0
        <4>1. i \in 1..n /\ i - 1 \in 0..n
          BY <3>2
        <4>2. g[i - 1] = f[i - 1]
          BY <4>1
        <4> HIDE DEF g
        <4> QED BY <1>4, <3>2, <4>1, <4>2
      <3> QED BY <3>1, <3>2
    <2> QED BY <2>1, Zenon
  <1> DEFINE u == ElementsUpTo(dims, limit)
  <1>7. u = Body(u)
    <2>1. u = CHOOSE v : v = Body(v)
      BY DEF ElementsUpTo
    <2> HIDE DEF Body, g, u
    <2> QED BY <1>6, <2>1
  <1> HIDE DEF u
  <1>8. \A i \in 0..n : u[i] = IF i = 0 THEN 1 ELSE Capped(u[i - 1] * dims[i], limit)
    <2>1. \A i \in 0..n : Body(u)[i] = IF i = 0 THEN 1
                                       ELSE Capped(u[i - 1] * dims[i], limit)
      BY Zenon
    <2> HIDE DEF Body
    <2> QED BY <1>7, <2>1
  <1>9. u[0] = 1
    <2>1. 0 \in 0..n
      BY <1>0
    <2> QED BY <1>8, <2>1
  <1>10. \A i \in 1..n : u[i] = Capped(u[i - 1] * dims[i], limit)
    <2>1. \A i \in 1..n : i \in 0..n /\ i # 0
      BY <1>0
    <2> QED BY <1>8, <2>1
  <1> DEFINE T == {i \in Nat : i <= n => u[i] \in Int}
  <1>11. 0 \in T
    BY <1>9
  <1>12. ASSUME NEW i \in Nat, i \in T PROVE i + 1 \in T
    <2> SUFFICES ASSUME i + 1 <= n PROVE u[i + 1] \in Int
      OBVIOUS
    <2>1. i + 1 \in 1..n /\ (i + 1) - 1 = i /\ u[i] \in Int
      BY <1>0, <1>12
    <2>2. dims[i + 1] \in Int
      BY <2>1
    <2>3. u[i] * dims[i + 1] \in Int
      BY <2>1, <2>2
    <2>4. Capped(u[i] * dims[i + 1], limit) \in Int
      BY <2>3 DEF Capped
    <2> QED BY <1>10, <2>1, <2>4
  <1>13. \A i \in Nat : i \in T
    <2> HIDE DEF T
    <2> QED BY <1>11, <1>12, Induct
  <1> QED BY <1>9, <1>10, <1>13 DEF CountsUp, u

\* Multiplied by at least one, a number does not get less.
LEMMA TimesAtLeastOne ==
    ASSUME NEW a \in Int, NEW d \in Int, d >= 1, a >= 0
    PROVE  a * d >= a
  <1>1. a * (d - 1) >= 0
    OBVIOUS
  <1>2. a * d = a * (d - 1) + a
    OBVIOUS
  <1> QED BY <1>1, <1>2

\* Beyond the limit, in the same direction.
Beyond(c, c2, limit) ==
    \/ c > limit /\ c2 > limit
    \/ c < -limit /\ c2 < -limit

LEMMA StaysBeyond ==
    ASSUME NEW limit \in Nat, NEW limit2 \in Nat, limit <= limit2,
           NEW c \in Int, NEW c2 \in Int, NEW d \in Int,
           c = c2 \/ Beyond(c, c2, limit)
    PROVE  \/ Capped(c * d, limit) = Capped(c2 * d, limit2)
           \/ Beyond(Capped(c * d, limit), Capped(c2 * d, limit2), limit)
  <1>0. c * d \in Int /\ c2 * d \in Int
    OBVIOUS
  <1>1. CASE c = c2
    <2> DEFINE e == c * d
    <2>1. e \in Int /\ c2 * d = e
      BY <1>0, <1>1
    <2> HIDE DEF e
    <2>2. Capped(e, limit) = Capped(e, limit2) \/ Beyond(Capped(e, limit), Capped(e, limit2), limit)
      BY <2>1 DEF Capped, Beyond
    <2> QED BY <2>1, <2>2 DEF e
  <1>2. ASSUME NEW e \in Int, NEW e2 \in Int, e = e2 \/ Beyond(e, e2, limit)
        PROVE  Capped(e, limit) = Capped(e2, limit2)
               \/ Beyond(Capped(e, limit), Capped(e2, limit2), limit)
    BY <1>2 DEF Capped, Beyond
  <1>3. ASSUME Beyond(c, c2, limit) PROVE c * d = c2 * d \/ Beyond(c * d, c2 * d, limit)
    <2>1. CASE d = 0
      BY <2>1
    <2>2. CASE d >= 1
      <3>1. CASE c > limit /\ c2 > limit
        <4>1. c * d >= c /\ c2 * d >= c2
          BY <2>2, <3>1, TimesAtLeastOne
        <4> QED BY <1>0, <3>1, <4>1 DEF Beyond
      <3>2. CASE c < -limit /\ c2 < -limit
        <4>1. (-c) * d >= -c /\ (-c2) * d >= -c2
          <5>1. -c \in Int /\ -c2 \in Int /\ -c >= 0 /\ -c2 >= 0
            BY <3>2
          <5> QED BY <2>2, <5>1, TimesAtLeastOne
        <4>2. (-c) * d = -(c * d) /\ (-c2) * d = -(c2 * d)
          OBVIOUS
        <4> QED BY <1>0, <3>2, <4>1, <4>2 DEF Beyond
      <3> QED BY <1>3, <3>1, <3>2 DEF Beyond
    <2>3. CASE d <= -1
      <3>0. -d \in Int /\ -d >= 1
        BY <2>3
      <3>1. CASE c > limit /\ c2 > limit
        <4>1. c * (-d) >= c /\ c2 * (-d) >= c2
          BY <3>0, <3>1, TimesAtLeastOne
        <4>2. c * (-d) = -(c * d) /\ c2 * (-d) = -(c2 * d)
          OBVIOUS
        <4> QED BY <1>0, <3>1, <4>1, <4>2 DEF Beyond
      <3>2. CASE c < -limit /\ c2 < -limit
        <4>1. (-c) * (-d) >= -c /\ (-c2) * (-d) >= -c2
          <5>1. -c \in Int /\ -c2 \in Int /\ -c >= 0 /\ -c2 >= 0
            BY <3>2
          <5> QED BY <3>0, <5>1, TimesAtLeastOne
        <4>2. (-c) * (-d) = c * d /\ (-c2) * (-d) = c2 * d
          OBVIOUS
        <4> QED BY <1>0, <3>2, <4>1, <4>2 DEF Beyond
      <3> QED BY <1>3, <3>1, <3>2 DEF Beyond
    <2> QED BY <2>1, <2>2, <2>3
  <1> QED BY <1>0, <1>1, <1>2, <1>3

\* With a higher limit, the same number of elements; or both have more than the
\* lower one allows, or less than none.
LEMMA ElementsSettle ==
    ASSUME NEW dims \in Seq(Int), NEW limit \in Nat, NEW limit2 \in Nat, limit <= limit2
    PROVE  /\ ElementCount(dims, limit) \in Int
           /\ ElementCount(dims, limit2) \in Int
           /\ ElementCount(dims, limit) <= limit + 1
           /\ \/ ElementCount(dims, limit) = ElementCount(dims, limit2)
              \/ Beyond(ElementCount(dims, limit), ElementCount(dims, limit2), limit)
  <1> DEFINE e == ElementsUpTo(dims, limit)
             e2 == ElementsUpTo(dims, limit2)
             n == Len(dims)
  <1>1. CountsUp(e, dims, limit) /\ CountsUp(e2, dims, limit2)
    BY ElementsUnfold
  <1> HIDE DEF e, e2
  <1> DEFINE Good(i) == /\ e[i] <= limit + 1
                        /\ e[i] = e2[i] \/ Beyond(e[i], e2[i], limit)
             T == {i \in Nat : i <= n => Good(i)}
  <1>2. 0 \in T
    <2>1. e[0] = 1 /\ e2[0] = 1 /\ 1 <= limit + 1
      BY <1>1 DEF CountsUp
    <2> QED BY <2>1
  <1>3. ASSUME NEW i \in Nat, i \in T PROVE i + 1 \in T
    <2> SUFFICES ASSUME i + 1 <= n PROVE Good(i + 1)
      OBVIOUS
    <2>1. i + 1 \in 1..n /\ (i + 1) - 1 = i /\ i \in 0..n
      OBVIOUS
    <2>2. e[i] = e2[i] \/ Beyond(e[i], e2[i], limit)
      BY <1>3, <2>1
    <2>3. e[i + 1] = Capped(e[i] * dims[i + 1], limit)
          /\ e2[i + 1] = Capped(e2[i] * dims[i + 1], limit2)
          /\ e[i] \in Int /\ e2[i] \in Int /\ dims[i + 1] \in Int
      BY <1>1, <2>1 DEF CountsUp
    <2>4. e[i + 1] = e2[i + 1] \/ Beyond(e[i + 1], e2[i + 1], limit)
      BY <2>2, <2>3, StaysBeyond
    <2>5. e[i + 1] <= limit + 1
      <3>1. e[i] * dims[i + 1] \in Int
        BY <2>3
      <3>2. ASSUME NEW x \in Int PROVE Capped(x, limit) <= limit + 1
        BY DEF Capped
      <3> QED BY <2>3, <3>1, <3>2
    <2> QED BY <2>4, <2>5
  <1>4. \A i \in Nat : i \in T
    <2> HIDE DEF T
    <2> QED BY <1>2, <1>3, Induct
  <1>5. n \in Nat /\ n \in 0..n
    OBVIOUS
  <1>6. Good(n)
    BY <1>4, <1>5
  <1>7. e[n] \in Int /\ e2[n] \in Int
    BY <1>1, <1>5 DEF CountsUp
  <1> HIDE DEF n
  <1> QED BY <1>6, <1>7 DEF ElementCount, e, e2, n

-----------------------------------------------------------------------------
(* Bytes and numbers.                                                      *)

\* The next n bytes.
LEMMA SliceIs ==
    ASSUME NEW A, NEW b \in Seq(A), NEW at \in 0..Len(b), NEW n \in Nat, at + n <= Len(b)
    PROVE  /\ Slice(b, at, n) \in Seq(A)
           /\ Len(Slice(b, at, n)) = n
           /\ \A i \in 1..n : Slice(b, at, n)[i] = b[at + i]
  <1>1. at + 1 \in Int /\ at + n \in Int /\ Len(b) \in Nat /\ at \in Nat
    OBVIOUS
  <1>2. SubSeq(b, at + 1, at + n) \in Seq(A)
    BY <1>1
  <1>3. Len(SubSeq(b, at + 1, at + n)) = n
    BY <1>1
  <1>4. \A i \in 1..n : SubSeq(b, at + 1, at + n)[i] = b[at + i]
    BY <1>1
  <1> QED BY <1>2, <1>3, <1>4 DEF Slice

\* What is there is what is read.
LEMMA SliceHas ==
    ASSUME NEW A, NEW b \in Seq(A), NEW at \in 0..Len(b), NEW p \in Seq(A), HasAt(b, at, p)
    PROVE  Slice(b, at, Len(p)) = p
  <1>1. Len(p) \in Nat /\ at + Len(p) <= Len(b)
    BY DEF HasAt
  <1> DEFINE s == Slice(b, at, Len(p))
  <1>2. s \in Seq(A) /\ Len(s) = Len(p) /\ \A i \in 1..Len(p) : s[i] = b[at + i]
    BY <1>1, SliceIs
  <1>3. \A i \in 1..Len(p) : s[i] = p[i]
    BY <1>2 DEF HasAt
  <1> HIDE DEF s
  <1>4. s = p
    BY <1>2, <1>3
  <1> QED BY <1>4 DEF s

\* Two parts that follow each other.
LEMMA HasBoth ==
    ASSUME NEW A, NEW b \in Seq(A), NEW at \in 0..Len(b), NEW p \in Seq(A), NEW q \in Seq(A),
           HasAt(b, at, p \o q)
    PROVE  /\ HasAt(b, at, p)
           /\ at + Len(p) \in 0..Len(b)
           /\ HasAt(b, at + Len(p), q)
           /\ Len(p \o q) = Len(p) + Len(q)
           /\ p \o q \in Seq(A)
  <1>1. Len(p \o q) = Len(p) + Len(q) /\ Len(p) \in Nat /\ Len(q) \in Nat /\ p \o q \in Seq(A)
    OBVIOUS
  <1>2. at + (Len(p) + Len(q)) <= Len(b)
    BY <1>1 DEF HasAt
  <1>3. ASSUME NEW i \in 1..Len(p) PROVE b[at + i] = p[i]
    <2>1. i \in 1..Len(p \o q) /\ (p \o q)[i] = p[i]
      BY <1>1
    <2> QED BY <2>1 DEF HasAt
  <1>4. ASSUME NEW i \in 1..Len(q) PROVE b[(at + Len(p)) + i] = q[i]
    <2>1. Len(p) + i \in 1..Len(p \o q) /\ (p \o q)[Len(p) + i] = q[i]
      BY <1>1
    <2>2. at + (Len(p) + i) = (at + Len(p)) + i
      BY <1>1
    <2>3. b[at + (Len(p) + i)] = (p \o q)[Len(p) + i]
      BY <2>1 DEF HasAt
    <2> QED BY <2>1, <2>2, <2>3
  <1>5. at + Len(p) \in 0..Len(b) /\ at + Len(p) <= Len(b) /\ (at + Len(p)) + Len(q) <= Len(b)
    BY <1>1, <1>2
  <1> QED BY <1>1, <1>3, <1>4, <1>5 DEF HasAt

\* The number of these bytes.
LEMMA SignedInt ==
    ASSUME NEW s \in Bytes, Len(s) \in {2, 4}
    PROVE  Signed(s) \in Int
  <1>1. \A i \in 1..Len(s) : s[i] \in Int
    <2> DEFINE B == 0..255
    <2>1. s \in Seq(B)
      BY DEF Bytes
    <2>2. \A x \in B : x \in Int
      OBVIOUS
    <2> HIDE DEF B
    <2> QED BY <2>1, <2>2
  <1>2. CASE Len(s) = 2
    BY <1>1, <1>2, SMT DEF Signed
  <1>3. CASE Len(s) = 4
    BY <1>1, <1>3, SMT DEF Signed
  <1> QED BY <1>2, <1>3

\* The bytes of a number, and the number of these bytes.
LEMMA LittleEndianBytes ==
    ASSUME NEW n \in Int, NEW w \in {1, 2, 4}
    PROVE  /\ LittleEndian(n, w) \in Bytes
           /\ Len(LittleEndian(n, w)) = w
           /\ \A i \in 1..w : LittleEndian(n, w)[i] = (n \div Weight[i]) % 256
  <1>1. ASSUME NEW i \in 1..w PROVE (n \div Weight[i]) % 256 \in 0..255
    <2>1. i \in {1, 2, 3, 4}
      OBVIOUS
    <2>2. Weight[i] \in Nat /\ Weight[i] > 0
      BY <2>1, SMT DEF Weight
    <2>3. n \div Weight[i] \in Int
      BY <2>2, SMT
    <2> QED BY <2>3, SMT
  <1>2. w \in Nat
    OBVIOUS
  <1> DEFINE F(i) == (n \div Weight[i]) % 256
  <1>3. \A i \in 1..w : F(i) \in 0..255
    BY <1>1
  <1> HIDE DEF F
  <1>4. [i \in 1..w |-> F(i)] \in Seq(0..255) /\ Len([i \in 1..w |-> F(i)]) = w
    BY <1>2, <1>3
  <1> QED BY <1>4 DEF F, LittleEndian, Bytes

\* What fits into two bytes, or four.
LEMMA IntsAre ==
    /\ \A n \in Int16s : n >= -MaxInt16 - 1 /\ n <= MaxInt16 /\ n \in Int
    /\ \A n \in Int32s : n >= -MaxInt32 - 1 /\ n <= MaxInt32 /\ n \in Int
    /\ \A n \in Int : n >= -1 /\ n <= MaxInt32 => n \in Int32s
  <1>1. \A a, b \in Int : \A n \in a..b : n >= a /\ n <= b /\ n \in Int
    OBVIOUS
  <1>2. /\ MaxInt16 \in Int /\ -MaxInt16 - 1 \in Int
        /\ MaxInt32 \in Int /\ -MaxInt32 - 1 \in Int /\ MaxInt32 >= 0
    BY SMT DEF MaxInt16, MaxInt32
  <1>3. \A n \in Int16s : n >= -MaxInt16 - 1 /\ n <= MaxInt16 /\ n \in Int
    BY <1>1, <1>2, Zenon DEF Int16s
  <1>4. \A n \in Int32s : n >= -MaxInt32 - 1 /\ n <= MaxInt32 /\ n \in Int
    BY <1>1, <1>2, Zenon DEF Int32s
  <1>5. ASSUME NEW n \in Int, n >= -1, n <= MaxInt32 PROVE n \in Int32s
    <2>1. n \in (-MaxInt32 - 1)..MaxInt32
      BY <1>2, <1>5
    <2> QED BY <2>1 DEF Int32s
  <1> QED BY <1>3, <1>4, <1>5

LEMMA Int16Signed ==
    ASSUME NEW n \in Int16s
    PROVE  Signed(Int16(n)) = n
  <1> DEFINE s == Int16(n)
  <1>3. n >= -32768 /\ n <= 32767 /\ n \in Int
    BY IntsAre, SMT DEF MaxInt16
  <1>1. Len(s) = 2 /\ s[1] = (n \div 1) % 256 /\ s[2] = (n \div 256) % 256
    BY <1>3, LittleEndianBytes, SMT DEF Int16, Weight
  <1>2. Signed(s) = s[1] + 256 * (IF s[2] < 128 THEN s[2] ELSE s[2] - 256)
    BY <1>1, SMT DEF Signed
  <1> HIDE DEF s
  <1>4. s[1] + 256 * (IF s[2] < 128 THEN s[2] ELSE s[2] - 256) = n
    BY <1>1, <1>3, SMT
  <1> QED BY <1>2, <1>4, SMT DEF s

LEMMA Int32Signed ==
    ASSUME NEW n \in Int32s
    PROVE  Signed(Int32(n)) = n
  <1> DEFINE s == Int32(n)
  <1>3. n >= -2147483648 /\ n <= 2147483647 /\ n \in Int
    BY IntsAre, SMT DEF MaxInt32
  <1>1. /\ Len(s) = 4 /\ s[1] = (n \div 1) % 256 /\ s[2] = (n \div 256) % 256
        /\ s[3] = (n \div 65536) % 256 /\ s[4] = (n \div 16777216) % 256
    BY <1>3, LittleEndianBytes, SMT DEF Int32, Weight
  <1>2. Signed(s) = s[1] + 256 * s[2] + 65536 * s[3]
                    + 16777216 * (IF s[4] < 128 THEN s[4] ELSE s[4] - 256)
    BY <1>1, SMT DEF Signed
  <1> HIDE DEF s
  <1>4. s[1] + 256 * s[2] + 65536 * s[3]
        + 16777216 * (IF s[4] < 128 THEN s[4] ELSE s[4] - 256) = n
    BY <1>1, <1>3, SMT
  <1> QED BY <1>2, <1>4, SMT DEF s

-----------------------------------------------------------------------------
(* Bytes.                                                                  *)

LEMMA BytesSlice ==
    ASSUME NEW b \in Bytes, NEW p \in 0..Len(b), NEW n \in Nat, p + n <= Len(b)
    PROVE  /\ Slice(b, p, n) \in Bytes
           /\ Len(Slice(b, p, n)) = n
           /\ p + n \in 0..Len(b)
  <1>1. b \in Seq(0..255)
    BY DEF Bytes
  <1>2. Slice(b, p, n) \in Seq(0..255) /\ Len(Slice(b, p, n)) = n
    BY <1>1, SliceIs
  <1>3. Len(b) \in Nat
    BY <1>1
  <1> QED BY <1>2, <1>3 DEF Bytes

LEMMA BytesLen ==
    ASSUME NEW b \in Bytes
    PROVE  Len(b) \in Nat /\ \A i \in 1..Len(b) : b[i] \in 0..255
  <1> DEFINE B == 0..255
  <1>1. b \in Seq(B)
    BY DEF Bytes
  <1> HIDE DEF B
  <1>2. Len(b) \in Nat /\ \A i \in 1..Len(b) : b[i] \in B
    BY <1>1
  <1> QED BY <1>2 DEF B

LEMMA BothBytes ==
    ASSUME NEW s \in Bytes, NEW t \in Bytes
    PROVE  s \o t \in Bytes /\ Len(s \o t) = Len(s) + Len(t)
           /\ Len(s) \in Nat /\ Len(t) \in Nat
  <1> DEFINE B == 0..255
  <1>1. s \in Seq(B) /\ t \in Seq(B)
    BY DEF Bytes
  <1> HIDE DEF B
  <1>2. s \o t \in Seq(B) /\ Len(s \o t) = Len(s) + Len(t)
        /\ Len(s) \in Nat /\ Len(t) \in Nat
    BY <1>1
  <1> QED BY <1>2 DEF Bytes, B

LEMMA OneByte ==
    ASSUME NEW n \in 0..255
    PROVE  /\ <<n>> \in Bytes /\ Len(<<n>>) = 1
           /\ \A b \in Bytes : \A p \in 0..Len(b) : HasAt(b, p, <<n>>) => b[p + 1] = n
  <1> DEFINE B == 0..255
  <1>1. n \in B
    OBVIOUS
  <1> HIDE DEF B
  <1>2. <<n>> \in Seq(B) /\ Len(<<n>>) = 1 /\ <<n>>[1] = n /\ 1 \in 1..Len(<<n>>)
    BY <1>1
  <1>3. \A b \in Bytes : \A p \in 0..Len(b) : HasAt(b, p, <<n>>) => b[p + 1] = n
    BY <1>2 DEF HasAt
  <1> QED BY <1>2, <1>3 DEF Bytes, B

\* One sequence after another.
LEMMA Concatenated ==
    ASSUME NEW B, NEW s \in Seq(B), NEW t \in Seq(B)
    PROVE  /\ s \o t \in Seq(B)
           /\ Len(s \o t) = Len(s) + Len(t)
           /\ \A i \in 1..Len(s) : (s \o t)[i] = s[i]
           /\ \A i \in 1..Len(t) : (s \o t)[Len(s) + i] = t[i]
  <1>1. Len(s) \in Nat /\ Len(t) \in Nat /\ Len(s \o t) = Len(s) + Len(t) /\ s \o t \in Seq(B)
    OBVIOUS
  <1>2. \A i \in 1..Len(s) : (s \o t)[i] = s[i]
    BY <1>1
  <1>3. ASSUME NEW i \in 1..Len(t) PROVE (s \o t)[Len(s) + i] = t[i]
    BY <1>1
  <1> QED BY <1>1, <1>2, <1>3

\* A sequence of sequences of bytes.
LEMMA FlattenBytes ==
    ASSUME NEW ps \in Seq(Bytes)
    PROVE  FlattenSeq(ps) \in Bytes /\ Len(FlattenSeq(ps)) \in Nat
  <1> DEFINE B == 0..255
  <1>1. ps \in Seq(Seq(B))
    BY DEF Bytes
  <1> HIDE DEF B
  <1>2. FlattenSeq(ps) \in Seq(B)
    BY <1>1, FlattenType
  <1>3. FlattenSeq(ps) \in Bytes
    BY <1>2 DEF B, Bytes
  <1> QED BY <1>3, BytesLen

\* The parts of a sequence begin in their order.
LEMMA LengthsGrow ==
    ASSUME NEW A, NEW ps \in Seq(Seq(A)), NEW j \in 0..Len(ps), NEW k \in 0..Len(ps), j <= k
    PROVE  LengthOf(ps, j) <= LengthOf(ps, k)
  <1> DEFINE T == {d \in Nat : j + d <= Len(ps) => LengthOf(ps, j) <= LengthOf(ps, j + d)}
             B == Seq(A)
             L(n) == LengthOf(ps, n)
             m == Len(FlattenSeq(ps))
  <1>1. /\ \A n \in 0..Len(ps) : L(n) \in 0..m
        /\ \A n \in 1..Len(ps) : L(n) = L(n - 1) + Len(ps[n])
    BY FlattenAt
  <1>2. \A n \in 1..Len(ps) : Len(ps[n]) \in Nat
    <2> SUFFICES ASSUME NEW n \in 1..Len(ps) PROVE Len(ps[n]) \in Nat
      OBVIOUS
    <2>1. ps \in Seq(B)
      OBVIOUS
    <2> HIDE DEF B
    <2>2. ps[n] \in B
      BY <2>1
    <2> QED BY <2>2 DEF B
  <1>3. Len(ps) \in Nat /\ j \in Nat /\ k \in Nat
    OBVIOUS
  <1> HIDE DEF L, m
  <1>4. \A n \in 0..Len(ps) : L(n) \in Int
    BY <1>1
  <1>5. 0 \in T
    BY <1>3, <1>4 DEF L
  <1>6. ASSUME NEW d \in Nat, d \in T PROVE d + 1 \in T
    <2> SUFFICES ASSUME j + (d + 1) <= Len(ps) PROVE L(j) <= L(j + (d + 1))
      BY DEF L
    <2>1. /\ j + d <= Len(ps) /\ j + d \in 0..Len(ps) /\ j + (d + 1) \in 1..Len(ps)
          /\ (j + (d + 1)) - 1 = j + d /\ j + (d + 1) \in 0..Len(ps)
      BY <1>3
    <2>2. L(j) <= L(j + d)
      BY <1>6, <2>1 DEF L
    <2>3. L(j + (d + 1)) = L(j + d) + Len(ps[j + (d + 1)])
      BY <1>1, <2>1
    <2>4. Len(ps[j + (d + 1)]) \in Nat /\ L(j) \in Int /\ L(j + d) \in Int
      BY <1>2, <1>4, <2>1
    <2> QED BY <2>2, <2>3, <2>4
  <1>7. \A d \in Nat : d \in T
    <2> HIDE DEF T
    <2> QED BY <1>5, <1>6, Induct
  <1>8. k - j \in T /\ j + (k - j) = k
    BY <1>3, <1>7
  <1> QED BY <1>3, <1>8

\* FlattenAt and LengthsGrow for bytes.
LEMMA FlattenBytesAt ==
    ASSUME NEW ps \in Seq(Bytes)
    PROVE  /\ FlattenSeq(ps) \in Bytes
           /\ LengthOf(ps, 0) = 0
           /\ LengthOf(ps, Len(ps)) = Len(FlattenSeq(ps))
           /\ \A k \in 0..Len(ps) : LengthOf(ps, k) \in 0..Len(FlattenSeq(ps))
           /\ \A k \in 0..Len(ps) : LengthOf(ps, k) \in Nat
           /\ \A k \in 1..Len(ps) :
                 /\ Len(ps[k]) \in Nat
                 /\ ps[k] \in Bytes
                 /\ LengthOf(ps, k) = LengthOf(ps, k - 1) + Len(ps[k])
                 /\ HasAt(FlattenSeq(ps), LengthOf(ps, k - 1), ps[k])
           /\ \A j, k \in 0..Len(ps) : j <= k => LengthOf(ps, j) <= LengthOf(ps, k)
  <1> DEFINE A == 0..255
  <1>1. ps \in Seq(Seq(A)) /\ Bytes = Seq(A)
    BY DEF Bytes
  <1>2. FlattenSeq(ps) \in Bytes /\ Len(FlattenSeq(ps)) \in Nat
    BY FlattenBytes
  <1> HIDE DEF A
  <1>3. /\ LengthOf(ps, 0) = 0
        /\ LengthOf(ps, Len(ps)) = Len(FlattenSeq(ps))
        /\ \A k \in 0..Len(ps) : LengthOf(ps, k) \in 0..Len(FlattenSeq(ps))
        /\ \A k \in 1..Len(ps) :
              /\ LengthOf(ps, k) = LengthOf(ps, k - 1) + Len(ps[k])
              /\ HasAt(FlattenSeq(ps), LengthOf(ps, k - 1), ps[k])
    BY <1>1, FlattenAt
  <1>4. \A j, k \in 0..Len(ps) : j <= k => LengthOf(ps, j) <= LengthOf(ps, k)
    BY <1>1, LengthsGrow
  <1>5. \A k \in 1..Len(ps) : ps[k] \in Bytes
    <2> DEFINE B == Bytes
    <2>1. ps \in Seq(B)
      OBVIOUS
    <2> HIDE DEF B
    <2>2. \A k \in 1..Len(ps) : ps[k] \in B
      BY <2>1
    <2> QED BY <2>2 DEF B
  <1>6. \A k \in 1..Len(ps) : Len(ps[k]) \in Nat
    BY <1>5, BytesLen
  <1>7. \A k \in 0..Len(ps) : LengthOf(ps, k) \in Nat
    BY <1>2, <1>3
  <1> QED BY <1>2, <1>3, <1>4, <1>5, <1>6, <1>7

\* The kinds of types.
LEMMA Kinds ==
    /\ \A d \in DOMAIN Width : Width[d] \in Nat /\ d \notin {"text", "bytea", "array", "udt"}
    /\ \A i \in DOMAIN DataTypes :
          DataTypes[i] \in DOMAIN Width \cup {"text", "bytea", "array", "udt"}
    /\ \A d : Composite(d) <=> d \in {"array", "udt"}
    /\ DOMAIN DataTypes = 1..10
  <1>1. DOMAIN Width = {"int1", "int2", "int4", "int8", "float4", "float8"}
    BY DEF Width
  <1>2. \A d \in DOMAIN Width : Width[d] \in Nat
    BY DEF Width
  <1>3. DOMAIN DataTypes = 1..10
    BY DEF DataTypes
  <1>4. \A i \in 1..10 :
          DataTypes[i] \in DOMAIN Width \cup {"text", "bytea", "array", "udt"}
    BY <1>1 DEF DataTypes
  <1> QED BY <1>1, <1>2, <1>3, <1>4 DEF Composite

\* A kind of type and the byte that stands for it.
LEMMA OrdinalOf ==
    ASSUME NEW d, \E i \in DOMAIN DataTypes : d = DataTypes[i]
    PROVE  /\ Ordinal(d) \in 0..255
           /\ Ordinal(d) + 1 \in DOMAIN DataTypes
           /\ DataTypes[Ordinal(d) + 1] = d
  <1> DEFINE i == CHOOSE k \in DOMAIN DataTypes : DataTypes[k] = d
  <1>1. i \in DOMAIN DataTypes /\ DataTypes[i] = d
    OBVIOUS
  <1>2. Ordinal(d) = i - 1
    BY DEF Ordinal
  <1> HIDE DEF i
  <1>3. i \in 1..10
    BY <1>1, Kinds
  <1>4. Ordinal(d) \in 0..255 /\ Ordinal(d) + 1 = i
    BY <1>2, <1>3
  <1> QED BY <1>1, <1>4

\* The length that goes before a string, and what goes after it.
LengthSent(s) == IF s = <<>> THEN -1 ELSE Len(s[1])
BodySent(s) == IF s = <<>> THEN <<>> ELSE s[1]

LEMMA CStringIs ==
    ASSUME NEW s, StringFits(s)
    PROVE  /\ CString(s) = Int32(LengthSent(s)) \o BodySent(s)
           /\ LengthSent(s) \in Int32s
           /\ BodySent(s) \in Bytes
           /\ Len(BodySent(s)) = IF LengthSent(s) < 0 THEN 0 ELSE LengthSent(s)
           /\ s # <<>> => s = <<s[1]>>
  <1>1. CASE s = <<>>
    <2>1. LengthSent(s) = -1 /\ BodySent(s) = <<>> /\ CString(s) = Int32(-1)
      BY <1>1 DEF LengthSent, BodySent, CString
    <2>2. -1 \in Int32s
      <3>1. -1 \in Int /\ -1 >= -1 /\ -1 <= MaxInt32
        BY SMT DEF MaxInt32
      <3> QED BY <3>1, IntsAre
    <2>3. Int32(-1) \in Bytes
      <3>1. -1 \in Int
        OBVIOUS
      <3> QED BY <3>1, LittleEndianBytes DEF Int32
    <2>4. Int32(-1) \o <<>> = Int32(-1) /\ <<>> \in Bytes
      <3> DEFINE x == Int32(-1)
                 B == 0..255
      <3>1. x \in Seq(B)
        BY <2>3 DEF Bytes
      <3> HIDE DEF x, B
      <3>2. x \o <<>> = x /\ <<>> \in Seq(B)
        BY <3>1
      <3> QED BY <3>2 DEF x, B, Bytes
    <2>5. Len(BodySent(s)) = IF LengthSent(s) < 0 THEN 0 ELSE LengthSent(s)
      <3>1. Len(<<>>) = 0 /\ -1 < 0
        OBVIOUS
      <3> QED BY <2>1, <3>1
    <2>6. CString(s) = Int32(LengthSent(s)) \o BodySent(s)
      BY <2>1, <2>4
    <2> QED BY <1>1, <2>1, <2>2, <2>4, <2>5, <2>6
  <1>2. CASE s # <<>>
    <2>1. s = <<s[1]>> /\ s[1] \in Bytes /\ Len(s[1]) \in Int32s
      BY <1>2 DEF StringFits
    <2>2. LengthSent(s) = Len(s[1]) /\ BodySent(s) = s[1]
          /\ CString(s) = Int32(Len(s[1])) \o s[1]
      BY <1>2 DEF LengthSent, BodySent, CString
    <2>3. Len(s[1]) \in Nat
      BY <2>1, BytesLen
    <2> QED BY <2>1, <2>2, <2>3
  <1> QED BY <1>1, <1>2
=============================================================================
