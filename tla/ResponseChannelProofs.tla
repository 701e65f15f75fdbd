----------------------- MODULE ResponseChannelProofs -----------------------
(***************************************************************************)
(* The backend reads what the Java function logged, returned or threw.     *)
(***************************************************************************)
EXTENDS ResponseChannel, CommonProofs

-----------------------------------------------------------------------------
(* Readers of bytes that are still coming.                                 *)

\* From here on the bytes are those of p, as far as they have come.
Comes(b, from, p) == \A i \in 1..Len(p) : from + i <= Len(b) => b[from + i] = p[i]

\* How a reader ends that is to read p, and gets this: it has read all of p, or
\* it lacks bytes.
Gets(r, b, from, p, got) ==
    IF from + Len(p) <= Len(b) THEN r = Done(from + Len(p), got) ELSE r.is = "lacking"

\* What has come as a whole.
LEMMA ComesHas ==
    ASSUME NEW b, NEW from, NEW p, Comes(b, from, p), from + Len(p) <= Len(b),
           Len(p) \in Nat, from \in Nat, Len(b) \in Nat
    PROVE  HasAt(b, from, p)
  BY DEF Comes, HasAt

\* One after the other.
LEMMA ComesBoth ==
    ASSUME NEW b \in Bytes, NEW from \in 0..Len(b), NEW s \in Bytes, NEW t \in Bytes,
           Comes(b, from, s \o t)
    PROVE  /\ Comes(b, from, s)
           /\ Comes(b, from + Len(s), t)
           /\ from + Len(s) <= Len(b) => from + Len(s) \in 0..Len(b)
  <1> DEFINE B == 0..255
  <1>1. s \in Seq(B) /\ t \in Seq(B) /\ b \in Seq(B)
    BY DEF Bytes
  <1> HIDE DEF B
  <1>2. /\ Len(s \o t) = Len(s) + Len(t) /\ Len(s) \in Nat /\ Len(t) \in Nat
        /\ \A i \in 1..Len(s) : (s \o t)[i] = s[i]
        /\ \A i \in 1..Len(t) : (s \o t)[Len(s) + i] = t[i]
    BY <1>1, Concatenated
  <1>3. Len(b) \in Nat /\ from \in Nat
    BY <1>1
  <1>4. ASSUME NEW i \in 1..Len(s), from + i <= Len(b) PROVE b[from + i] = s[i]
    <2>1. i \in 1..Len(s \o t)
      BY <1>2
    <2> QED BY <1>2, <1>4, <2>1 DEF Comes
  <1>5. ASSUME NEW i \in 1..Len(t), (from + Len(s)) + i <= Len(b)
        PROVE  b[(from + Len(s)) + i] = t[i]
    <2>1. Len(s) + i \in 1..Len(s \o t) /\ (from + Len(s)) + i = from + (Len(s) + i)
      BY <1>2, <1>3
    <2>2. b[from + (Len(s) + i)] = (s \o t)[Len(s) + i]
      BY <1>5, <2>1 DEF Comes
    <2> QED BY <1>2, <2>1, <2>2
  <1>6. from + Len(s) <= Len(b) => from + Len(s) \in 0..Len(b)
    BY <1>2, <1>3
  <1> QED BY <1>4, <1>5, <1>6 DEF Comes

\* A reader of s, and one of t after it.
LEMMA ThenGets ==
    ASSUME NEW b \in Bytes, NEW from \in 0..Len(b), NEW s \in Bytes, NEW t \in Bytes,
           NEW r, NEW x, Gets(r, b, from, s, x),
           NEW next, NEW got,
           from + Len(s) \in 0..Len(b) /\ r = Done(from + Len(s), x)
              => Gets(next, b, from + Len(s), t, got)
    PROVE  Gets(IF r.is = "done" THEN next ELSE r, b, from, s \o t, got)
  <1>1. Len(s \o t) = Len(s) + Len(t) /\ Len(s) \in Nat /\ Len(t) \in Nat
    BY BothBytes
  <1>2. Len(b) \in Nat /\ from \in Nat
    BY BytesLen
  <1>3. from + Len(s \o t) = (from + Len(s)) + Len(t)
    BY <1>1, <1>2
  <1>4. CASE from + Len(s) <= Len(b)
    <2>1. r = Done(from + Len(s), x)
      BY <1>4 DEF Gets
    <2>2. r.is = "done"
      BY <2>1, WaysToEnd
    <2>3. from + Len(s) \in 0..Len(b)
      BY <1>1, <1>2, <1>4
    <2>4. Gets(next, b, from + Len(s), t, got)
      BY <2>1, <2>3
    <2> QED BY <1>3, <2>2, <2>4 DEF Gets
  <1>5. CASE ~ (from + Len(s) <= Len(b))
    <2>1. r.is = "lacking" /\ "lacking" # "done"
      BY <1>5 DEF Gets
    <2>2. ~ (from + Len(s \o t) <= Len(b))
      BY <1>1, <1>2, <1>5
    <2> QED BY <2>1, <2>2 DEF Gets
  <1> QED BY <1>4, <1>5

\* A reader, and something made of what it got.
LEMMA ThenMakes ==
    ASSUME NEW b \in Bytes, NEW from \in 0..Len(b), NEW s \in Bytes,
           NEW r, NEW x, Gets(r, b, from, s, x),
           NEW next, NEW got,
           from + Len(s) \in 0..Len(b) /\ r = Done(from + Len(s), x)
              => next = Done(from + Len(s), got)
    PROVE  Gets(IF r.is = "done" THEN next ELSE r, b, from, s, got)
  <1>1. Len(s) \in Nat /\ Len(b) \in Nat /\ from \in Nat
    BY BytesLen
  <1>2. CASE from + Len(s) <= Len(b)
    <2>1. r = Done(from + Len(s), x)
      BY <1>2 DEF Gets
    <2>2. r.is = "done"
      BY <2>1, WaysToEnd
    <2>3. from + Len(s) \in 0..Len(b)
      BY <1>1, <1>2
    <2> QED BY <1>2, <2>1, <2>2, <2>3 DEF Gets
  <1>3. CASE ~ (from + Len(s) <= Len(b))
    <2>1. r.is = "lacking" /\ "lacking" # "done"
      BY <1>3 DEF Gets
    <2> QED BY <1>3, <2>1 DEF Gets
  <1> QED BY <1>2, <1>3

\* Bytes in another grouping.
LEMMA Regrouped ==
    ASSUME NEW s \in Bytes, NEW t \in Bytes, NEW u \in Bytes
    PROVE  (s \o t) \o u = s \o (t \o u) /\ s \o (t \o u) \in Bytes
  <1> DEFINE B == 0..255
  <1>1. s \in Seq(B) /\ t \in Seq(B) /\ u \in Seq(B)
    BY DEF Bytes
  <1> HIDE DEF B
  <1>2. (s \o t) \o u = s \o (t \o u) /\ s \o (t \o u) \in Seq(B)
    BY <1>1
  <1> QED BY <1>2 DEF Bytes, B

LEMMA NoBytes == <<>> \in Bytes /\ Len(<<>>) = 0 /\ \A s \in Bytes : s \o <<>> = s
  <1> DEFINE B == 0..255
  <1> HIDE DEF B
  <1>1. <<>> \in Seq(B) /\ Len(<<>>) = 0 /\ \A s \in Seq(B) : s \o <<>> = s
    OBVIOUS
  <1> QED BY <1>1 DEF B, Bytes

-----------------------------------------------------------------------------
(* Bytes, numbers and strings.                                             *)

LEMMA ByteGets ==
    ASSUME NEW b \in Bytes, NEW from \in 0..Len(b), NEW n \in 0..255, Comes(b, from, <<n>>)
    PROVE  /\ Gets(ReadByte(b, from), b, from, <<n>>, n)
           /\ <<n>> \in Bytes /\ Len(<<n>>) = 1
  <1>1. <<n>> \in Bytes /\ Len(<<n>>) = 1
    BY OneByte
  <1>2. Len(b) \in Nat /\ from \in Nat
    BY BytesLen
  <1>3. CASE from + 1 <= Len(b)
    <2>1. HasAt(b, from, <<n>>)
      BY <1>1, <1>2, <1>3, ComesHas
    <2>2. b[from + 1] = n
      BY <2>1, OneByte
    <2>3. ~ (Len(b) - from < 1)
      BY <1>2, <1>3
    <2>4. ReadByte(b, from) = Done(from + 1, n)
      BY <2>2, <2>3 DEF ReadByte, Readable
    <2> QED BY <1>1, <1>3, <2>4 DEF Gets
  <1>4. CASE ~ (from + 1 <= Len(b))
    <2>1. Len(b) - from < 1
      BY <1>2, <1>4
    <2>2. ReadByte(b, from).is = "lacking"
      BY <2>1, WaysToEnd DEF ReadByte, Readable
    <2> QED BY <1>1, <1>4, <2>2 DEF Gets
  <1> QED BY <1>1, <1>3, <1>4

\* n bytes that have come.
LEMMA RawHas ==
    ASSUME NEW b \in Bytes, NEW from \in 0..Len(b), NEW p \in Bytes, Comes(b, from, p)
    PROVE  /\ Len(b) - from < Len(p) <=> ~ (from + Len(p) <= Len(b))
           /\ from + Len(p) <= Len(b) => Slice(b, from, Len(p)) = p
  <1> DEFINE B == 0..255
  <1>1. b \in Seq(B) /\ p \in Seq(B)
    BY DEF Bytes
  <1> HIDE DEF B
  <1>2. Len(b) \in Nat /\ from \in Nat /\ Len(p) \in Nat
    BY <1>1
  <1>3. ASSUME from + Len(p) <= Len(b) PROVE Slice(b, from, Len(p)) = p
    <2>1. HasAt(b, from, p)
      BY <1>2, <1>3, ComesHas
    <2> QED BY <1>1, <2>1, SliceHas
  <1> QED BY <1>2, <1>3

LEMMA RawGets ==
    ASSUME NEW b \in Bytes, NEW from \in 0..Len(b), NEW p \in Bytes, Comes(b, from, p)
    PROVE  Gets(ReadRaw(b, from, Len(p)), b, from, p, <<p>>)
  <1>1. CASE from + Len(p) <= Len(b)
    BY <1>1, RawHas DEF Gets, ReadRaw, Readable
  <1>2. CASE ~ (from + Len(p) <= Len(b))
    <2>1. ReadRaw(b, from, Len(p)) = Lacking(from)
      BY <1>2, RawHas DEF ReadRaw, Readable
    <2> QED BY <1>2, <2>1, WaysToEnd DEF Gets
  <1> QED BY <1>1, <1>2

LEMMA IntGets ==
    ASSUME NEW b \in Bytes, NEW from \in 0..Len(b), NEW n \in Int32s, Comes(b, from, Int32(n))
    PROVE  Gets(ReadInt(b, from, 4), b, from, Int32(n), n)
  <1>1. Int32(n) \in Bytes /\ Len(Int32(n)) = 4
    BY IntsAre, LittleEndianBytes DEF Int32
  <1>2. CASE from + 4 <= Len(b)
    <2>1. ~ (Len(b) - from < 4) /\ Slice(b, from, 4) = Int32(n)
      BY <1>1, <1>2, RawHas
    <2>2. ReadInt(b, from, 4) = Done(from + 4, n)
      BY <2>1, Int32Signed DEF ReadInt, Readable
    <2> QED BY <1>1, <1>2, <2>2 DEF Gets
  <1>3. CASE ~ (from + 4 <= Len(b))
    <2>1. ReadInt(b, from, 4) = Lacking(from)
      BY <1>1, <1>3, RawHas DEF ReadInt, Readable
    <2> QED BY <1>1, <1>3, <2>1, WaysToEnd DEF Gets
  <1> QED BY <1>2, <1>3

LEMMA ShortGets ==
    ASSUME NEW b \in Bytes, NEW from \in 0..Len(b), NEW n \in Int16s, Comes(b, from, Int16(n))
    PROVE  Gets(ReadInt(b, from, 2), b, from, Int16(n), n)
  <1>1. Int16(n) \in Bytes /\ Len(Int16(n)) = 2
    BY IntsAre, LittleEndianBytes DEF Int16
  <1>2. CASE from + 2 <= Len(b)
    <2>1. ~ (Len(b) - from < 2) /\ Slice(b, from, 2) = Int16(n)
      BY <1>1, <1>2, RawHas
    <2>2. ReadInt(b, from, 2) = Done(from + 2, n)
      BY <2>1, Int16Signed DEF ReadInt, Readable
    <2> QED BY <1>1, <1>2, <2>2 DEF Gets
  <1>3. CASE ~ (from + 2 <= Len(b))
    <2>1. ReadInt(b, from, 2) = Lacking(from)
      BY <1>1, <1>3, RawHas DEF ReadInt, Readable
    <2> QED BY <1>1, <1>3, <2>1, WaysToEnd DEF Gets
  <1> QED BY <1>2, <1>3

LEMMA NumbersAre ==
    /\ \A n \in Int32s : Int32(n) \in Bytes /\ Len(Int32(n)) = 4 /\ n \in Int
    /\ \A n \in Int16s : Int16(n) \in Bytes /\ Len(Int16(n)) = 2 /\ n \in Int
    /\ 1 \in Int32s /\ -1 \in Int32s /\ 1 \in Int16s
  <1>1. \A n \in Int32s : Int32(n) \in Bytes /\ Len(Int32(n)) = 4 /\ n \in Int
    BY IntsAre, LittleEndianBytes DEF Int32
  <1>2. \A n \in Int16s : Int16(n) \in Bytes /\ Len(Int16(n)) = 2 /\ n \in Int
    BY IntsAre, LittleEndianBytes DEF Int16
  <1>3. 1 \in Int32s /\ -1 \in Int32s
    <2>1. 1 <= MaxInt32 /\ -1 <= MaxInt32 /\ -1 \in Int
      BY SMT DEF MaxInt32
    <2> QED BY <2>1, IntsAre
  <1>4. 1 \in Int16s
    BY SMT DEF Int16s, MaxInt16
  <1> QED BY <1>1, <1>2, <1>3, <1>4

\* receive_cstring of what send_cstring would write.
LEMMA CStringGets ==
    ASSUME NEW b \in Bytes, NEW from \in 0..Len(b), NEW s, StringFits(s),
           Comes(b, from, CString(s))
    PROVE  /\ Gets(ReadCString(b, from), b, from, CString(s), s)
           /\ CString(s) \in Bytes
  <1> DEFINE n == LengthSent(s)
             w == BodySent(s)
             r == ReadInt(b, from, 4)
             next == IF r.got = -1 THEN Done(r.at, <<>>)
                     ELSE IF r.got < -1 THEN Throws(r.at)
                     ELSE ReadRaw(b, r.at, r.got)
  <1>1. /\ CString(s) = Int32(n) \o w
        /\ n \in Int32s
        /\ w \in Bytes
        /\ Len(w) = IF n < 0 THEN 0 ELSE n
    BY CStringIs
  <1>2. Int32(n) \in Bytes /\ Len(Int32(n)) = 4 /\ n \in Int
    BY <1>1, NumbersAre
  <1>3. Comes(b, from, Int32(n)) /\ Comes(b, from + 4, w)
    <2> HIDE DEF n, w
    <2>1. Comes(b, from, Int32(n)) /\ Comes(b, from + Len(Int32(n)), w)
      BY <1>1, <1>2, ComesBoth
    <2> QED BY <1>2, <2>1
  <1>4. Gets(r, b, from, Int32(n), n)
    BY <1>1, <1>3, IntGets
  <1>5. ReadCString(b, from) = IF r.is = "done" THEN next ELSE r
    BY Zenon DEF ReadCString, Then
  <1>6. ASSUME from + 4 \in 0..Len(b), r = Done(from + 4, n)
        PROVE  Gets(next, b, from + 4, w, s)
    <2>1. r.at = from + 4 /\ r.got = n
      BY <1>6, WaysToEnd
    <2>2. CASE s = <<>>
      <3>1. n = -1 /\ w = <<>>
        BY <2>2 DEF LengthSent, BodySent
      <3>2. next = Done(from + 4, <<>>)
        BY <2>1, <3>1
      <3>3. Len(w) = 0 /\ (from + 4) + 0 = from + 4 /\ from + 4 <= Len(b)
        BY <1>6, <3>1, BytesLen
      <3> HIDE DEF next, w, r
      <3> QED BY <2>2, <3>2, <3>3 DEF Gets
    <2>3. CASE s # <<>>
      <3>1. n = Len(s[1]) /\ w = s[1] /\ s = <<s[1]>>
        BY <2>3, CStringIs DEF LengthSent, BodySent
      <3>2. Len(w) \in Nat
        BY <1>1, BytesLen
      <3>3. n = Len(w) /\ n # -1 /\ ~ (n < -1)
        BY <3>1, <3>2
      <3>4. next = ReadRaw(b, from + 4, Len(w))
        BY <2>1, <3>3
      <3> HIDE DEF next, w, r, n
      <3>5. Gets(ReadRaw(b, from + 4, Len(w)), b, from + 4, w, <<w>>)
        BY <1>1, <1>3, <1>6, RawGets
      <3> QED BY <3>1, <3>4, <3>5
    <2> QED BY <2>2, <2>3
  <1> HIDE DEF next, r, n, w
  <1>7. Gets(IF r.is = "done" THEN next ELSE r, b, from, Int32(n) \o w, s)
    BY <1>1, <1>2, <1>4, <1>6, ThenGets
  <1>8. Int32(n) \o w \in Bytes
    BY <1>1, <1>2, BothBytes
  <1> QED BY <1>1, <1>5, <1>7, <1>8

LEMMA ByteaGets ==
    ASSUME NEW b \in Bytes, NEW from \in 0..Len(b), NEW w \in Bytes, Len(w) \in Int32s,
           Comes(b, from, Int32(Len(w)) \o w)
    PROVE  Gets(ReadBytea(b, from), b, from, Int32(Len(w)) \o w, <<w>>)
  <1> DEFINE n == Len(w)
             r == ReadInt(b, from, 4)
             next == IF r.got < -4 THEN Throws(r.at)
                     ELSE ReadRaw(b, r.at, IF r.got < 0 THEN 0 ELSE r.got)
  <1>1. n \in Nat
    BY BytesLen
  <1>2. Int32(n) \in Bytes /\ Len(Int32(n)) = 4
    BY NumbersAre
  <1>3. Comes(b, from, Int32(n)) /\ Comes(b, from + 4, w)
    BY <1>2, ComesBoth
  <1>4. Gets(r, b, from, Int32(n), n)
    BY <1>3, IntGets
  <1>5. ReadBytea(b, from) = IF r.is = "done" THEN next ELSE r
    BY Zenon DEF ReadBytea, Then
  <1>6. ASSUME from + 4 \in 0..Len(b), r = Done(from + 4, n)
        PROVE  Gets(next, b, from + 4, w, <<w>>)
    <2>1. r.at = from + 4 /\ r.got = n
      BY <1>6, WaysToEnd
    <2>2. next = ReadRaw(b, from + 4, Len(w))
      BY <1>1, <2>1
    <2> HIDE DEF next, r
    <2> QED BY <1>3, <1>6, <2>2, RawGets
  <1> HIDE DEF next, r, n
  <1>7. Gets(IF r.is = "done" THEN next ELSE r, b, from, Int32(n) \o w, <<w>>)
    BY <1>2, <1>4, <1>6, ThenGets
  <1> QED BY <1>5, <1>7 DEF n

-----------------------------------------------------------------------------
(* Readers in a row.                                                       *)

\* A row of one.
LEMMA OneReader ==
    ASSUME NEW from, NEW fs, Len(fs) = 1
    PROVE  Each(from, fs) = OneMore(Done(from, <<>>), fs[1])
  <1> DEFINE Body(u) == [i \in 0..1 |-> IF i = 0 THEN Done(from, <<>>)
                                        ELSE OneMore(u[i - 1], fs[i])]
             none == Done(from, <<>>)
             one == OneMore(none, fs[1])
             v == [i \in 0..1 |-> IF i = 0 THEN none ELSE one]
             u == EachUpTo(from, fs)
  <1>1. v = Body(v)
    <2>1. \A i \in 0..1 : i # 0 => i = 1 /\ i - 1 = 0
      OBVIOUS
    <2>2. v[0] = none
      BY DEF v
    <2>3. \A i \in 0..1 : v[i] = IF i = 0 THEN Done(from, <<>>) ELSE OneMore(v[i - 1], fs[i])
      <3> HIDE DEF none
      <3>1. v[0] = Done(from, <<>>)
        BY <2>2 DEF none
      <3>2. v[1] = OneMore(v[0], fs[1])
        BY <2>2 DEF v
      <3> QED BY <2>1, <3>1, <3>2
    <2>4. v = [i \in 0..1 |-> v[i]]
      BY DEF v
    <2> HIDE DEF v
    <2> QED BY <2>3, <2>4
  <1>2. u = CHOOSE x : x = Body(x)
    BY DEF EachUpTo
  <1> HIDE DEF v
  <1>3. u = Body(u)
    <2> HIDE DEF Body, u
    <2> QED BY <1>1, <1>2
  <1> HIDE DEF u
  <1>4. u[0] = none
    BY <1>3, 0 \in 0..1
  <1>5. u[1] = OneMore(u[0], fs[1])
    <2>1. 1 \in 0..1 /\ 1 # 0 /\ 1 - 1 = 0
      OBVIOUS
    <2> QED BY <1>3, <2>1
  <1> QED BY <1>4, <1>5 DEF Each, u

LEMMA OneGets ==
    ASSUME NEW b \in Bytes, NEW from \in 0..Len(b), NEW p \in Bytes,
           NEW fs, Len(fs) = 1, NEW x, Gets(fs[1][from], b, from, p, x)
    PROVE  Gets(Each(from, fs), b, from, p, <<x>>)
  <1> DEFINE none == Done(from, <<>>)
             r == fs[1][from]
  <1>1. Each(from, fs) = OneMore(none, fs[1])
    BY OneReader
  <1>2. none.is = "done" /\ none.at = from /\ none.got = <<>>
    BY WaysToEnd
  <1> HIDE DEF none
  <1>3. Each(from, fs) = IF r.is # "done" THEN r ELSE Done(r.at, Append(<<>>, r.got))
    BY <1>1, <1>2, OneMoreIs
  <1>4. Each(from, fs) = IF r.is = "done" THEN Done(r.at, Append(<<>>, r.got)) ELSE r
    BY <1>3
  <1>5. ASSUME r = Done(from + Len(p), x)
        PROVE  Done(r.at, Append(<<>>, r.got)) = Done(from + Len(p), <<x>>)
    <2>1. r.at = from + Len(p) /\ r.got = x
      BY <1>5, WaysToEnd
    <2>2. Append(<<>>, x) = <<x>>
      OBVIOUS
    <2> QED BY <2>1, <2>2
  <1>6. Gets(r, b, from, p, x)
    OBVIOUS
  <1> HIDE DEF r
  <1>7. Gets(IF r.is = "done" THEN Done(r.at, Append(<<>>, r.got)) ELSE r, b, from, p, <<x>>)
    BY <1>5, <1>6, ThenMakes
  <1> QED BY <1>4, <1>7

LEMMA OneTime ==
    ASSUME NEW f, NEW n \in Nat
    PROVE  Len(Times(Capped(1, n), f)) = 1 /\ Times(Capped(1, n), f)[1] = f
  <1>1. Capped(1, n) = 1
    BY DEF Capped
  <1>2. 1 \in 1..1 /\ 1 \in Int /\ 1 > 0
    OBVIOUS
  <1>3. Len(Times(1, f)) = 1 /\ Times(1, f)[1] = f
    BY <1>2, TimesIs
  <1> QED BY <1>1, <1>3

\* Few parts in one sequence.
LEMMA FlattenFew ==
    ASSUME NEW s \in Bytes, NEW t \in Bytes, NEW u \in Bytes
    PROVE  /\ FlattenSeq(<<s>>) = s
           /\ FlattenSeq(<<s, t, u>>) = s \o (t \o u)
  <1> DEFINE B == 0..255
             none == <<>>
  <1>1. s \in Seq(B) /\ t \in Seq(B) /\ u \in Seq(B)
    BY DEF Bytes
  <1> HIDE DEF B, none
  <1>2. none \in Seq(Seq(B)) /\ FlattenSeq(none) = <<>>
    <2>1. none \in Seq(Seq(B)) /\ none = <<>>
      BY DEF none
    <2> QED BY <2>1, FlattenType
  <1>3. FlattenSeq(<<s>>) = s
    <2>1. <<s>> = Append(none, s)
      BY DEF none
    <2>2. <<>> \o s = s
      BY <1>1
    <2> QED BY <1>1, <1>2, <2>1, <2>2, FlattenAppend
  <1>4. FlattenSeq(<<s, t>>) = s \o t
    <2>1. <<s>> \in Seq(Seq(B)) /\ <<s, t>> = Append(<<s>>, t)
      BY <1>1
    <2> QED BY <1>1, <1>3, <2>1, FlattenAppend
  <1>5. FlattenSeq(<<s, t, u>>) = (s \o t) \o u
    <2>1. <<s, t>> \in Seq(Seq(B)) /\ <<s, t, u>> = Append(<<s, t>>, u)
      BY <1>1
    <2> QED BY <1>1, <1>4, <2>1, FlattenAppend
  <1> QED BY <1>3, <1>5, Regrouped

-----------------------------------------------------------------------------
(* Types.                                                                  *)

\* Nothing is read.
LEMMA NothingGets ==
    ASSUME NEW b \in Bytes, NEW from \in 0..Len(b), NEW x
    PROVE  Gets(Done(from, x), b, from, <<>>, x)
  <1>1. Len(<<>>) = 0 /\ from + 0 = from /\ from <= Len(b)
    BY BytesLen
  <1> QED BY <1>1 DEF Gets

\* What Type.sendType writes of a type and, with s, of its subtypes.
NamedBytes(t) == <<Ordinal(t.data)>> \o CString(t.name)

IsHead(t) ==
    /\ \E i \in DOMAIN DataTypes : t.data = DataTypes[i]
    /\ StringFits(t.name)
    /\ t = [data |-> t.data, name |-> t.name, sub |-> t.sub]

\* The reader of the subtypes of a type.
SubsOf(b, q, t, f) == IF Composite(t.data) THEN ReadSubTypes(b, q, f) ELSE Done(q, <<>>)

LEMMA CStringBytes ==
    ASSUME NEW s, StringFits(s)
    PROVE  CString(s) \in Bytes
  <1>1. /\ CString(s) = Int32(LengthSent(s)) \o BodySent(s)
        /\ LengthSent(s) \in Int32s /\ BodySent(s) \in Bytes
    BY CStringIs
  <1>2. Int32(LengthSent(s)) \in Bytes
    BY <1>1, NumbersAre
  <1> QED BY <1>1, <1>2, BothBytes

LEMMA TypeGets ==
    ASSUME NEW b \in Bytes, NEW from \in 0..Len(b), NEW t, IsHead(t), NEW f, NEW s \in Bytes,
           Comes(b, from, NamedBytes(t) \o s),
           \A q \in 0..Len(b) : Comes(b, q, s) => Gets(SubsOf(b, q, t, f), b, q, s, t.sub)
    PROVE  /\ Gets(ReadTypeBy(b, from, f), b, from, NamedBytes(t) \o s, t)
           /\ NamedBytes(t) \o s \in Bytes
  <1> DEFINE o == Ordinal(t.data)
             c == CString(t.name)
             r1 == ReadByte(b, from)
             r2 == ReadCString(b, r1.at)
             r3 == IF Composite(DataTypeOf(r1.got)) THEN ReadSubTypes(b, r2.at, f)
                   ELSE Done(r2.at, <<>>)
             made == Done(r3.at, [data |-> DataTypeOf(r1.got), name |-> r2.got,
                                  sub |-> r3.got])
             next3 == IF r3.is = "done" THEN made ELSE r3
             next2 == IF r2.is = "done" THEN next3 ELSE r2
  <1>1. ReadTypeBy(b, from, f) = IF r1.is = "done" THEN next2 ELSE r1
    BY Zenon DEF ReadTypeBy, Then
  <1>2. /\ o \in 0..255 /\ o + 1 \in DOMAIN DataTypes /\ DataTypes[o + 1] = t.data
        /\ StringFits(t.name)
        /\ t = [data |-> t.data, name |-> t.name, sub |-> t.sub]
    BY OrdinalOf DEF IsHead
  <1>3. DataTypeOf(o) = t.data
    BY <1>2 DEF DataTypeOf
  <1>4. c \in Bytes
    BY <1>2, CStringBytes
  <1>5. <<o>> \in Bytes /\ Len(<<o>>) = 1
    BY <1>2, OneByte
  <1> HIDE DEF o, c
  <1>6. NamedBytes(t) \o s = <<o>> \o (c \o s) /\ NamedBytes(t) \o s \in Bytes /\ c \o s \in Bytes
    BY <1>4, <1>5, Regrouped, BothBytes DEF NamedBytes, o, c
  <1> DEFINE w == <<o>>
             x == c \o s
  <1>7. w \in Bytes /\ x \in Bytes /\ NamedBytes(t) \o s = w \o x
    BY <1>5, <1>6
  <1>8. Gets(r1, b, from, w, o) /\ Comes(b, from + Len(w), x)
    <2> HIDE DEF w, x, r1
    <2>1. Comes(b, from, w) /\ Comes(b, from + Len(w), x)
      BY <1>7, ComesBoth
    <2> QED BY <1>2, <2>1, ByteGets DEF w, r1
  <1> HIDE DEF w
  <1>9. ASSUME from + Len(w) \in 0..Len(b), r1 = Done(from + Len(w), o)
        PROVE  Gets(next2, b, from + Len(w), x, t)
    <2> DEFINE p == from + Len(w)
    <2>1. r1.at = p /\ r1.got = o
      BY <1>9, WaysToEnd
    <2>2. p \in 0..Len(b) /\ Comes(b, p, c \o s)
      BY <1>8, <1>9
    <2> HIDE DEF p, r1
    <2>3. Comes(b, p, c) /\ Comes(b, p + Len(c), s)
      BY <1>4, <2>2, ComesBoth
    <2>4. Gets(ReadCString(b, p), b, p, c, t.name)
      BY <1>2, <2>2, <2>3, CStringGets DEF c
    <2>5. Gets(r2, b, p, c, t.name)
      BY <2>1, <2>4
    <2>6. ASSUME p + Len(c) \in 0..Len(b), r2 = Done(p + Len(c), t.name)
          PROVE  Gets(next3, b, p + Len(c), s, t)
      <3> DEFINE q == p + Len(c)
      <3>1. r2.at = q /\ r2.got = t.name
        BY <2>6, WaysToEnd
      <3>2. q \in 0..Len(b) /\ Comes(b, q, s)
        BY <2>3, <2>6
      <3> HIDE DEF q, r2
      <3>3. r3 = SubsOf(b, q, t, f)
        BY <1>3, <2>1, <3>1 DEF SubsOf
      <3>4. Gets(r3, b, q, s, t.sub)
        BY <3>2, <3>3
      <3> HIDE DEF r3
      <3>5. ASSUME q + Len(s) \in 0..Len(b), r3 = Done(q + Len(s), t.sub)
            PROVE  made = Done(q + Len(s), t)
        <4>1. r3.at = q + Len(s) /\ r3.got = t.sub
          BY <3>5, WaysToEnd
        <4> QED BY <1>2, <1>3, <2>1, <3>1, <4>1
      <3> HIDE DEF made
      <3>6. Gets(next3, b, q, s, t)
        BY <3>2, <3>4, <3>5, ThenMakes
      <3> QED BY <3>6 DEF q
    <2> HIDE DEF r2, next3
    <2>7. Gets(next2, b, p, c \o s, t)
      BY <1>4, <2>2, <2>5, <2>6, ThenGets
    <2> QED BY <2>7 DEF p
  <1> HIDE DEF r1, next2, x
  <1>10. Gets(IF r1.is = "done" THEN next2 ELSE r1, b, from, w \o x, t)
    BY <1>7, <1>8, <1>9, ThenGets
  <1> QED BY <1>1, <1>6, <1>7, <1>10

\* The types of which no other type is a part.
IsPlain(d) == (\E i \in DOMAIN DataTypes : d = DataTypes[i]) /\ ~Composite(d)

LEMMA NewTypeIs ==
    ASSUME NEW d, \E i \in DOMAIN DataTypes : d = DataTypes[i], NEW sub
    PROVE  /\ IsHead(NewType(d, sub))
           /\ NewType(d, sub).data = d /\ NewType(d, sub).sub = sub
  <1> DEFINE t == NewType(d, sub)
             o == Ordinal(d)
             s == <<65 + o>>
  <1>1. t = [data |-> d, name |-> <<s>>, sub |-> sub]
    BY DEF NewType
  <1>2. o \in 0..255 /\ o + 1 \in DOMAIN DataTypes
    BY OrdinalOf
  <1> HIDE DEF o
  <1>3. 65 + o \in 0..255
    <2>1. o + 1 \in 1..10
      BY <1>2, Kinds
    <2> QED BY <1>2, <2>1
  <1>4. s \in Bytes /\ Len(s) = 1
    BY <1>3, OneByte
  <1> HIDE DEF s, t
  <1>5. StringFits(<<s>>)
    <2>1. <<s>>[1] = s
      OBVIOUS
    <2> QED BY <1>4, <2>1, NumbersAre DEF StringFits
  <1>6. t.data = d /\ t.name = <<s>> /\ t.sub = sub
    BY <1>1
  <1>7. IsHead(t)
    BY <1>1, <1>5, <1>6 DEF IsHead
  <1> QED BY <1>6, <1>7 DEF t

\* A type without subtypes.
LEMMA PlainTypeGets ==
    ASSUME NEW b \in Bytes, NEW from \in 0..Len(b), NEW d, IsPlain(d), NEW f,
           Comes(b, from, NamedBytes(NewType(d, <<>>)))
    PROVE  /\ Gets(ReadTypeBy(b, from, f), b, from, NamedBytes(NewType(d, <<>>)),
                   NewType(d, <<>>))
           /\ NamedBytes(NewType(d, <<>>)) \in Bytes
  <1> DEFINE t == NewType(d, <<>>)
             w == NamedBytes(t)
             none == <<>>
  <1>1. IsHead(t) /\ t.data = d /\ t.sub = <<>> /\ ~Composite(t.data)
    BY NewTypeIs DEF IsPlain
  <1> HIDE DEF t
  <1>2. w \in Bytes
    <2>1. StringFits(t.name) /\ Ordinal(t.data) \in 0..255
      BY <1>1, OrdinalOf DEF IsHead
    <2>2. CString(t.name) \in Bytes /\ <<Ordinal(t.data)>> \in Bytes
      BY <2>1, CStringBytes, OneByte
    <2> QED BY <2>2, BothBytes DEF NamedBytes
  <1> HIDE DEF w, none
  <1>3. none \in Bytes /\ w \o none = w
    BY <1>2, NoBytes DEF none
  <1>4. \A q \in 0..Len(b) : Gets(SubsOf(b, q, t, f), b, q, none, t.sub)
    BY <1>1, NothingGets DEF SubsOf, none
  <1>5. Comes(b, from, w \o none)
    BY <1>3 DEF w, t
  <1>6. Gets(ReadTypeBy(b, from, f), b, from, w \o none, t)
    BY <1>1, <1>3, <1>4, <1>5, TypeGets DEF w
  <1> QED BY <1>2, <1>3, <1>6 DEF w, t

\* The subtype of an array.
LEMMA SubTypeGets ==
    ASSUME NEW b \in Bytes, NEW from \in 0..Len(b), NEW d, IsPlain(d), NEW f,
           NEW s \in Bytes, s = NamedBytes(NewType(d, <<>>)),
           Comes(b, from, Int16(1) \o s)
    PROVE  Gets(ReadSubTypes(b, from, TypeReader(b, f)), b, from, Int16(1) \o s,
                <<NewType(d, <<>>)>>)
  <1> DEFINE t == NewType(d, <<>>)
             k == Int16(1)
             r == ReadInt(b, from, 2)
             fs == Times(Capped(r.got, Readable(b, r.at)), TypeReader(b, f))
             next == Each(r.at, fs)
  <1>1. ReadSubTypes(b, from, TypeReader(b, f)) = IF r.is = "done" THEN next ELSE r
    BY Zenon DEF ReadSubTypes, Then
  <1>2. k \in Bytes /\ 1 \in Int16s
    BY NumbersAre
  <1> HIDE DEF k
  <1>3. Comes(b, from, k) /\ Comes(b, from + Len(k), s)
    BY <1>2, ComesBoth DEF k
  <1>4. Gets(r, b, from, k, 1)
    BY <1>2, <1>3, ShortGets DEF k
  <1>5. ASSUME from + Len(k) \in 0..Len(b), r = Done(from + Len(k), 1)
        PROVE  Gets(next, b, from + Len(k), s, <<t>>)
    <2> DEFINE q == from + Len(k)
               g == TypeReader(b, f)
    <2>1. r.at = q /\ r.got = 1
      BY <1>5, WaysToEnd
    <2>2. q \in 0..Len(b) /\ Comes(b, q, s)
      BY <1>3, <1>5
    <2> HIDE DEF q, r
    <2>3. fs = Times(Capped(1, Readable(b, q)), g)
      BY <2>1
    <2>4. Readable(b, q) \in Nat
      BY <2>2, BytesLen DEF Readable
    <2>5. g[q] = ReadTypeBy(b, q, f)
      BY <2>2 DEF TypeReader, Places
    <2> HIDE DEF g, fs, t
    <2>6. Len(fs) = 1 /\ fs[1] = g
      BY <2>3, <2>4, OneTime
    <2>7. Gets(ReadTypeBy(b, q, f), b, q, s, t)
      BY <2>2, PlainTypeGets DEF t
    <2>8. Gets(fs[1][q], b, q, s, t)
      BY <2>5, <2>6, <2>7
    <2>9. Gets(Each(q, fs), b, q, s, <<t>>)
      BY <2>2, <2>6, <2>8, OneGets
    <2> QED BY <2>1, <2>9 DEF q
  <1> HIDE DEF r, next
  <1>6. Gets(IF r.is = "done" THEN next ELSE r, b, from, k \o s, <<t>>)
    BY <1>2, <1>4, <1>5, ThenGets
  <1> QED BY <1>1, <1>6 DEF k

\* An array of elements without subtypes.
ArrayOf(d) == NewType("array", <<NewType(d, <<>>)>>)

LEMMA JavaTypeIs ==
    ASSUME NEW d, IsPlain(d)
    PROVE  /\ JavaTypeBytes(NewType(d, <<>>)) = NamedBytes(NewType(d, <<>>))
           /\ JavaTypeBytes(ArrayOf(d))
                 = NamedBytes(ArrayOf(d)) \o (Int16(1) \o NamedBytes(NewType(d, <<>>)))
           /\ NamedBytes(NewType(d, <<>>)) \in Bytes
           /\ NamedBytes(ArrayOf(d)) \in Bytes
           /\ IsHead(ArrayOf(d)) /\ ArrayOf(d).data = "array"
           /\ ArrayOf(d).sub = <<NewType(d, <<>>)>>
  <1> DEFINE t == NewType(d, <<>>)
             a == ArrayOf(d)
  <1>1. IsHead(t) /\ t.data = d /\ t.sub = <<>>
    BY NewTypeIs DEF IsPlain
  <1>2. IsHead(a) /\ a.data = "array" /\ a.sub = <<t>>
    <2>1. \E i \in DOMAIN DataTypes : "array" = DataTypes[i]
      <3>1. 8 \in DOMAIN DataTypes /\ DataTypes[8] = "array"
        BY DEF DataTypes
      <3> QED BY <3>1
    <2> HIDE DEF t
    <2> QED BY <2>1, NewTypeIs DEF ArrayOf, t
  <1> HIDE DEF t, a
  <1>3. ASSUME NEW x, IsHead(x) PROVE NamedBytes(x) \in Bytes
    <2>1. StringFits(x.name) /\ Ordinal(x.data) \in 0..255
      BY <1>3, OrdinalOf DEF IsHead
    <2>2. CString(x.name) \in Bytes /\ <<Ordinal(x.data)>> \in Bytes
      BY <2>1, CStringBytes, OneByte
    <2> QED BY <2>2, BothBytes DEF NamedBytes
  <1>4. JavaTypeBytes(t) = NamedBytes(t)
    <2>1. JavaTypeBytes(t) = NamedBytes(t) \o <<>>
      BY <1>1, Zenon DEF JavaTypeBytes, NamedBytes
    <2>2. NamedBytes(t) \in Bytes
      BY <1>1, <1>3
    <2> QED BY <2>1, <2>2, NoBytes
  <1>5. JavaTypeBytes(a) = NamedBytes(a) \o (Int16(1) \o NamedBytes(t))
    <2>1. a.sub # <<>> /\ Len(a.sub) = 1 /\ DOMAIN a.sub = 1..1 /\ a.sub[1] = t
      BY <1>2
    <2> DEFINE Subs == [i \in DOMAIN a.sub |-> NamedBytes(a.sub[i])]
               n == NamedBytes(t)
    <2>2. JavaTypeBytes(a) = NamedBytes(a) \o (Int16(Len(a.sub)) \o FlattenSeq(Subs))
      BY <2>1, Zenon DEF JavaTypeBytes, NamedBytes
    <2>3. n \in Bytes
      BY <1>1, <1>3
    <2>4. Subs = <<n>>
      <3>1. Subs = [i \in 1..1 |-> NamedBytes(a.sub[i])]
        BY <2>1
      <3>2. \A i \in 1..1 : NamedBytes(a.sub[i]) = n
        BY <2>1
      <3> HIDE DEF n, Subs
      <3>3. Subs = [i \in 1..1 |-> n]
        BY <3>1, <3>2
      <3> QED BY <3>3
    <2> HIDE DEF Subs, n
    <2>5. FlattenSeq(Subs) = n
      BY <2>3, <2>4, FlattenFew
    <2> QED BY <2>1, <2>2, <2>5 DEF n
  <1> QED BY <1>1, <1>2, <1>3, <1>4, <1>5 DEF t, a

\* The types that Type.getInstance(Class) gives to what is no object.
SentType(t) == \E d : IsPlain(d) /\ (t = NewType(d, <<>>) \/ t = ArrayOf(d))

\* receive_type reads the types that sendType writes.
LEMMA SentTypeGets ==
    ASSUME NEW b \in Bytes, NEW from \in 0..Len(b), NEW t, SentType(t),
           Comes(b, from, JavaTypeBytes(t))
    PROVE  Gets(ReadType(b, from), b, from, JavaTypeBytes(t), t)
  <1> DEFINE f == TypeReader(b, FlatTypes(b))
             g == TypeReader(b, f)
  <1>1. ReadType(b, from) = ReadTypeBy(b, from, g)
    BY DEF ReadType
  <1> HIDE DEF f
  <1>2. PICK d : IsPlain(d) /\ (t = NewType(d, <<>>) \/ t = ArrayOf(d))
    BY DEF SentType
  <1>3. CASE t = NewType(d, <<>>)
    <2> HIDE DEF g
    <2>1. JavaTypeBytes(t) = NamedBytes(NewType(d, <<>>))
      BY <1>2, <1>3, JavaTypeIs
    <2>2. Gets(ReadTypeBy(b, from, g), b, from, NamedBytes(NewType(d, <<>>)), NewType(d, <<>>))
      BY <1>2, <2>1, PlainTypeGets
    <2> QED BY <1>1, <1>3, <2>1, <2>2
  <1>4. CASE t = ArrayOf(d)
    <2> DEFINE s == NamedBytes(NewType(d, <<>>))
               x == Int16(1) \o s
    <2>1. /\ JavaTypeBytes(t) = NamedBytes(t) \o x
          /\ s \in Bytes
          /\ IsHead(t) /\ t.data = "array" /\ t.sub = <<NewType(d, <<>>)>>
      BY <1>2, <1>4, JavaTypeIs
    <2>2. x \in Bytes
      BY <2>1, NumbersAre, BothBytes
    <2>3. ASSUME NEW q \in 0..Len(b), Comes(b, q, x)
          PROVE  Gets(SubsOf(b, q, t, g), b, q, x, t.sub)
      <3>1. SubsOf(b, q, t, g) = ReadSubTypes(b, q, TypeReader(b, f))
        BY <2>1 DEF SubsOf, Composite
      <3>2. Gets(ReadSubTypes(b, q, TypeReader(b, f)), b, q, x, <<NewType(d, <<>>)>>)
        BY <1>2, <2>1, <2>3, SubTypeGets
      <3> QED BY <2>1, <3>1, <3>2
    <2> HIDE DEF x, g
    <2>4. Gets(ReadTypeBy(b, from, g), b, from, NamedBytes(t) \o x, t)
      BY <2>1, <2>2, <2>3, TypeGets
    <2> QED BY <1>1, <2>1, <2>4
  <1> QED BY <1>2, <1>3, <1>4

LEMMA SentTypeBytes ==
    ASSUME NEW t, SentType(t)
    PROVE  JavaTypeBytes(t) \in Bytes
  <1>1. PICK d : IsPlain(d) /\ (t = NewType(d, <<>>) \/ t = ArrayOf(d))
    BY DEF SentType
  <1>2. CASE t = NewType(d, <<>>)
    BY <1>1, <1>2, JavaTypeIs
  <1>3. CASE t = ArrayOf(d)
    <2>1. Int16(1) \o NamedBytes(NewType(d, <<>>)) \in Bytes
      BY <1>1, JavaTypeIs, NumbersAre, BothBytes
    <2> QED BY <1>1, <1>3, <2>1, JavaTypeIs, BothBytes
  <1> QED BY <1>1, <1>2, <1>3

-----------------------------------------------------------------------------
(* Many readers in a row.                                                  *)

\* A part of what comes.
LEMMA ComesPart ==
    ASSUME NEW b \in Bytes, NEW from \in 0..Len(b), NEW s \in Bytes, NEW p \in Bytes,
           Comes(b, from, s), NEW k \in Nat, HasAt(s, k, p)
    PROVE  Comes(b, from + k, p)
  <1>1. Len(b) \in Nat /\ from \in Nat /\ Len(s) \in Nat /\ Len(p) \in Nat
    BY BytesLen
  <1>2. ASSUME NEW i \in 1..Len(p), (from + k) + i <= Len(b) PROVE b[(from + k) + i] = p[i]
    <2>1. k + i \in 1..Len(s) /\ s[k + i] = p[i] /\ (from + k) + i = from + (k + i)
      BY <1>1 DEF HasAt
    <2>2. b[from + (k + i)] = s[k + i]
      BY <1>2, <2>1 DEF Comes
    <2> QED BY <2>1, <2>2
  <1> QED BY <1>2 DEF Comes

\* The readers fs read parts, from the first one on, and get these things; no
\* part is empty.
GetEach(fs, b, ps, gots) ==
    /\ Len(fs) \in Nat /\ Len(fs) <= Len(ps) /\ Len(gots) = Len(ps)
    /\ \A i \in 1..Len(ps) : Len(ps[i]) >= 1
    /\ \A i \in 1..Len(fs) : IsReader(fs[i], Len(b))
    /\ \A i \in 1..Len(fs) : \A q \in 0..Len(b) :
          Comes(b, q, ps[i]) => Gets(fs[i][q], b, q, ps[i], gots[i])

LEMMA InARowGets ==
    ASSUME NEW b \in Bytes, NEW from \in 0..Len(b), NEW fs, NEW ps \in Seq(Bytes),
           NEW B, NEW gots \in Seq(B), GetEach(fs, b, ps, gots),
           Len(fs) < Len(ps) => Len(fs) > Len(b) - from,
           Comes(b, from, FlattenSeq(ps))
    PROVE  Gets(Each(from, fs), b, from, FlattenSeq(ps), gots)
  <1> DEFINE u == EachUpTo(from, fs)
             n == Len(fs)
             w == Len(ps)
             m == Len(b)
             L(i) == LengthOf(ps, i)
             Reach(i) == IF from + L(i) <= m THEN u[i] = Done(from + L(i), SubSeq(gots, 1, i))
                         ELSE u[i].is = "lacking"
             T == {i \in Nat : i <= n => Reach(i)}
  <1>0. /\ n \in Nat /\ n <= w /\ Len(gots) = w /\ w \in Nat
        /\ \A i \in 1..w : Len(ps[i]) >= 1
        /\ \A i \in 1..n : IsReader(fs[i], m)
        /\ \A i \in 1..n : \A q \in 0..m :
              Comes(b, q, ps[i]) => Gets(fs[i][q], b, q, ps[i], gots[i])
    <2>1. w \in Nat
      OBVIOUS
    <2> QED BY <2>1 DEF GetEach
  <1>1. m \in Nat /\ from \in Nat /\ from \in 0..m
    BY BytesLen
  <1>2. InARow(u, from, fs, m)
    BY <1>0, <1>1, EachUnfold
  <1> HIDE DEF u, m
  <1>3. /\ FlattenSeq(ps) \in Bytes
        /\ L(0) = 0
        /\ L(w) = Len(FlattenSeq(ps))
        /\ \A i \in 0..w : L(i) \in Nat
        /\ \A i \in 1..w : /\ L(i) = L(i - 1) + Len(ps[i])
                           /\ HasAt(FlattenSeq(ps), L(i - 1), ps[i])
                           /\ ps[i] \in Bytes
                           /\ Len(ps[i]) \in Nat
        /\ \A i, j \in 0..w : i <= j => L(i) <= L(j)
    BY FlattenBytesAt
  <1> HIDE DEF L, n, w
  <1>4. 0 \in T
    <2>1. SubSeq(gots, 1, 0) = <<>> /\ from + 0 = from /\ 0 \in Nat /\ from <= m
      BY <1>1
    <2>2. u[0] = Done(from, <<>>)
      BY <1>2 DEF InARow
    <2> QED BY <1>3, <2>1, <2>2
  <1>5. ASSUME NEW i \in Nat, i \in T PROVE i + 1 \in T
    <2> SUFFICES ASSUME i + 1 <= n PROVE Reach(i + 1)
      OBVIOUS
    <2>1. i + 1 \in 1..n /\ i + 1 \in 1..w /\ (i + 1) - 1 = i /\ i <= n /\ i \in 0..w
      BY <1>0
    <2> DEFINE r == u[i]
               f == fs[i + 1]
               p == ps[i + 1]
               g == gots[i + 1]
               q == from + L(i)
    <2>2. u[i + 1] = OneMore(r, f)
      BY <1>2, <2>1 DEF InARow, n
    <2>3. Reach(i)
      BY <1>5, <2>1
    <2>4. L(i) \in Nat /\ L(i + 1) = L(i) + Len(p) /\ p \in Bytes /\ Len(p) \in Nat
          /\ HasAt(FlattenSeq(ps), L(i), p)
      BY <1>3, <2>1
    <2>5. Comes(b, q, p)
      BY <1>1, <1>3, <2>4, ComesPart DEF m
    <2>6. from + L(i + 1) = q + Len(p)
      BY <1>1, <2>4
    <2>7. CASE q <= m
      <3>0. q \in 0..m
        <4>1. q \in Nat /\ m \in Nat
          BY <1>1, <2>4
        <4> HIDE DEF q
        <4> QED BY <2>7, <4>1
      <3>1. r = Done(q, SubSeq(gots, 1, i))
        <4> HIDE DEF r
        <4> QED BY <2>3, <2>7 DEF r
      <3>2. r.is = "done" /\ r.at = q /\ r.got = SubSeq(gots, 1, i)
        <4> DEFINE x == SubSeq(gots, 1, i)
        <4>1. r = Done(q, x)
          BY <3>1
        <4> HIDE DEF x, r, q
        <4>2. r.is = "done" /\ r.at = q /\ r.got = x
          BY <4>1, WaysToEnd
        <4> QED BY <4>2 DEF x
      <3>3. Gets(f[q], b, q, p, g)
        BY <1>0, <2>1, <2>5, <3>0
      <3>4. Append(SubSeq(gots, 1, i), g) = SubSeq(gots, 1, i + 1)
        BY <1>0, <2>1
      <3> HIDE DEF r, f, p, g, q
      <3>5. u[i + 1] = IF f[q].is # "done" THEN f[q]
                       ELSE Done(f[q].at, Append(SubSeq(gots, 1, i), f[q].got))
        BY <2>2, <3>2, OneMoreIs
      <3>6. CASE q + Len(p) <= m
        <4>1. f[q] = Done(q + Len(p), g)
          BY <3>3, <3>6 DEF Gets, m
        <4>2. f[q].is = "done" /\ f[q].at = q + Len(p) /\ f[q].got = g
          BY <4>1, WaysToEnd
        <4>3. u[i + 1] = Done(q + Len(p), SubSeq(gots, 1, i + 1))
          BY <3>4, <3>5, <4>2
        <4> QED BY <2>6, <3>6, <4>3
      <3>7. CASE ~ (q + Len(p) <= m)
        <4>1. f[q].is = "lacking" /\ "lacking" # "done"
          BY <3>3, <3>7 DEF Gets, m
        <4>2. u[i + 1] = f[q]
          BY <3>5, <4>1
        <4> QED BY <2>6, <3>7, <4>1, <4>2
      <3> QED BY <3>6, <3>7
    <2>8. CASE ~ (q <= m)
      <3>1. r.is = "lacking" /\ "lacking" # "done"
        BY <2>3, <2>8
      <3>2. u[i + 1] = r
        BY <2>2, <3>1, OneMoreIs
      <3>3. ~ (from + L(i + 1) <= m)
        BY <1>1, <2>4, <2>6, <2>8
      <3> QED BY <3>1, <3>2, <3>3
    <2> QED BY <2>7, <2>8
  <1>6. \A i \in Nat : i \in T
    <2> HIDE DEF T
    <2> QED BY <1>4, <1>5, Induct
  <1>7. Reach(n)
    BY <1>0, <1>6
  <1>8. CASE n = w
    <2>1. SubSeq(gots, 1, w) = gots
      BY <1>0
    <2>2. Each(from, fs) = u[n]
      BY DEF Each, u, n
    <2> QED BY <1>3, <1>7, <1>8, <2>1, <2>2 DEF Gets, m
  <1>9. CASE n < w
    <2> DEFINE A == {i \in Nat : i <= n => L(i) >= i}
    <2>1. 0 \in A
      BY <1>3
    <2>2. ASSUME NEW i \in Nat, i \in A PROVE i + 1 \in A
      <3> SUFFICES ASSUME i + 1 <= n PROVE L(i + 1) >= i + 1
        OBVIOUS
      <3>1. i + 1 \in 1..w /\ (i + 1) - 1 = i /\ i \in 0..w /\ L(i) >= i
        BY <1>0, <2>2
      <3>2. L(i + 1) = L(i) + Len(ps[i + 1]) /\ Len(ps[i + 1]) >= 1 /\ Len(ps[i + 1]) \in Nat
            /\ L(i) \in Nat
        BY <1>0, <1>3, <3>1
      <3> QED BY <3>1, <3>2
    <2>3. \A i \in Nat : i \in A
      <3> HIDE DEF A
      <3> QED BY <2>1, <2>2, Induct
    <2>4. L(n) >= n /\ L(n) \in Nat /\ L(w) \in Nat /\ L(n) <= L(w)
      <3>1. n \in 0..w /\ w \in 0..w
        BY <1>0
      <3> QED BY <1>0, <1>3, <2>3, <3>1
    <2>5. n > m - from
      BY <1>9 DEF n, w, m
    <2>6. ~ (from + L(n) <= m) /\ ~ (from + L(w) <= m)
      BY <1>0, <1>1, <2>4, <2>5
    <2>7. u[n].is = "lacking"
      BY <1>7, <2>6
    <2> QED BY <1>3, <2>6, <2>7 DEF Gets, Each, u, n, m
  <1> QED BY <1>0, <1>8, <1>9

-----------------------------------------------------------------------------
(* Values.                                                                 *)

LEMMA CharsAre == CharN \in 0..255 /\ CharD \in 0..255 /\ CharN # CharD
  BY DEF CharN, CharD

\* A value that is there.
LEMMA ObjectGets ==
    ASSUME NEW b \in Bytes, NEW from \in 0..Len(b), NEW t, NEW X, NEW s \in Bytes, NEW got,
           Comes(b, from, <<CharD>> \o s),
           \A q \in 0..Len(b) : Comes(b, q, s) => Gets(ReadNonNull(b, q, t, X), b, q, s, got)
    PROVE  Gets(ReadObjectBy(b, from, t, X), b, from, <<CharD>> \o s, got)
  <1> DEFINE r == ReadByte(b, from)
             next == IF r.got = CharN THEN Done(r.at, <<>>) ELSE ReadNonNull(b, r.at, t, X)
             w == <<CharD>>
  <1>1. ReadObjectBy(b, from, t, X) = IF r.is = "done" THEN next ELSE r
    BY Zenon DEF ReadObjectBy, Then
  <1>2. w \in Bytes
    BY CharsAre, OneByte
  <1> HIDE DEF w
  <1>3. Comes(b, from, w) /\ Comes(b, from + Len(w), s)
    BY <1>2, ComesBoth DEF w
  <1>4. Gets(r, b, from, w, CharD)
    BY <1>3, CharsAre, ByteGets DEF w
  <1>5. ASSUME from + Len(w) \in 0..Len(b), r = Done(from + Len(w), CharD)
        PROVE  Gets(next, b, from + Len(w), s, got)
    <2> DEFINE q == from + Len(w)
    <2>1. r.at = q /\ r.got = CharD
      BY <1>5, WaysToEnd
    <2>2. q \in 0..Len(b) /\ Comes(b, q, s)
      BY <1>3, <1>5
    <2> HIDE DEF q, r
    <2>3. next = ReadNonNull(b, q, t, X)
      BY <2>1, CharsAre
    <2> HIDE DEF next
    <2> QED BY <2>2, <2>3 DEF q
  <1> HIDE DEF r, next
  <1>6. Gets(IF r.is = "done" THEN next ELSE r, b, from, w \o s, got)
    BY <1>2, <1>4, <1>5, ThenGets
  <1> QED BY <1>1, <1>6 DEF w

\* A null.
LEMMA NullGets ==
    ASSUME NEW b \in Bytes, NEW from \in 0..Len(b), NEW t, NEW X, Comes(b, from, <<CharN>>)
    PROVE  Gets(ReadObjectBy(b, from, t, X), b, from, <<CharN>>, <<>>)
  <1> DEFINE r == ReadByte(b, from)
             next == IF r.got = CharN THEN Done(r.at, <<>>) ELSE ReadNonNull(b, r.at, t, X)
             w == <<CharN>>
  <1>1. ReadObjectBy(b, from, t, X) = IF r.is = "done" THEN next ELSE r
    BY Zenon DEF ReadObjectBy, Then
  <1>2. w \in Bytes
    BY CharsAre, OneByte
  <1>3. Gets(r, b, from, w, CharN)
    BY CharsAre, ByteGets
  <1> HIDE DEF w
  <1>4. ASSUME r = Done(from + Len(w), CharN) PROVE next = Done(from + Len(w), <<>>)
    BY <1>4, WaysToEnd
  <1> HIDE DEF r, next
  <1>5. Gets(IF r.is = "done" THEN next ELSE r, b, from, w, <<>>)
    BY <1>2, <1>3, <1>4, ThenMakes
  <1> QED BY <1>1, <1>5 DEF w

\* A scalar, a text and a bytea.
LEMMA PlainValueGets ==
    ASSUME NEW b \in Bytes, NEW from \in 0..Len(b), NEW t, NEW X, NEW s \in Bytes
    PROVE  /\ t.data \in DOMAIN Width /\ Len(s) = Width[t.data] /\ Comes(b, from, s) =>
                 Gets(ReadNonNull(b, from, t, X), b, from, s, <<s>>)
           /\ t.data = "bytea" /\ Len(s) \in Int32s /\ Comes(b, from, Int32(Len(s)) \o s) =>
                 Gets(ReadNonNull(b, from, t, X), b, from, Int32(Len(s)) \o s, <<s>>)
           /\ t.data = "text" /\ Len(s) \in Int32s /\ Comes(b, from, CString(<<s>>)) =>
                 Gets(ReadNonNull(b, from, t, X), b, from, CString(<<s>>), <<s>>)
  <1>0. "bytea" \notin DOMAIN Width /\ "text" \notin DOMAIN Width
    BY Kinds
  <1>1. ASSUME t.data \in DOMAIN Width, Len(s) = Width[t.data], Comes(b, from, s)
        PROVE  Gets(ReadNonNull(b, from, t, X), b, from, s, <<s>>)
    <2>1. t.data \notin {"text", "bytea", "array", "udt"}
      BY <1>1, Kinds
    <2>2. ReadNonNull(b, from, t, X) = ReadRaw(b, from, Width[t.data])
      BY <1>1, <2>1 DEF ReadNonNull
    <2> QED BY <1>1, <2>2, RawGets
  <1>2. ASSUME t.data = "bytea", Len(s) \in Int32s, Comes(b, from, Int32(Len(s)) \o s)
        PROVE  Gets(ReadNonNull(b, from, t, X), b, from, Int32(Len(s)) \o s, <<s>>)
    <2>1. ReadNonNull(b, from, t, X) = ReadBytea(b, from)
      BY <1>0, <1>2 DEF ReadNonNull
    <2> QED BY <1>2, <2>1, ByteaGets
  <1>3. ASSUME t.data = "text", Len(s) \in Int32s, Comes(b, from, CString(<<s>>))
        PROVE  Gets(ReadNonNull(b, from, t, X), b, from, CString(<<s>>), <<s>>)
    <2>1. ReadNonNull(b, from, t, X) = ReadCString(b, from)
      BY <1>0, <1>3 DEF ReadNonNull
    <2>2. StringFits(<<s>>)
      <3>1. <<s>>[1] = s
        OBVIOUS
      <3> QED BY <1>3, <3>1 DEF StringFits
    <2> QED BY <1>3, <2>1, <2>2, CStringGets
  <1> QED BY <1>1, <1>2, <1>3

\* How the readers of numbers and of elements end, whatever the bytes are.
LEMMA IntReaderIs ==
    ASSUME NEW b \in Bytes
    PROVE  IsReader(IntReader(b), Len(b))
  <1>1. Len(b) \in Nat
    BY BytesLen
  <1>2. ASSUME NEW p \in 0..Len(b)
        PROVE  /\ Ends(IntReader(b)[p], p, Len(b))
               /\ IntReader(b)[p].is = "done" => p + 1 <= IntReader(b)[p].at
    <2>1. IntReader(b)[p] = ReadInt(b, p, 4)
      BY DEF IntReader, Places
    <2>2. CASE Len(b) - p < 4
      <3>1. ReadInt(b, p, 4) = Lacking(p) /\ p \in p..Len(b)
        BY <1>1, <2>2 DEF ReadInt, Readable
      <3> QED BY <1>1, <2>1, <3>1, MayEnd, WaysToEnd
    <2>3. CASE ~ (Len(b) - p < 4)
      <3> DEFINE x == Signed(Slice(b, p, 4))
      <3>1. ReadInt(b, p, 4) = Done(p + 4, x)
        BY <2>3 DEF ReadInt, Readable
      <3>2. p + 4 \in p..Len(b) /\ p + 1 <= p + 4
        BY <1>1, <2>3
      <3> HIDE DEF x
      <3>3. Ends(Done(p + 4, x), p, Len(b))
        <4> DEFINE a == p + 4
        <4>1. a \in p..Len(b)
          BY <3>2
        <4> HIDE DEF a
        <4>2. Ends(Done(a, x), p, Len(b))
          BY <1>1, <4>1, MayEnd
        <4> QED BY <4>2 DEF a
      <3> QED BY <2>1, <3>1, <3>2, <3>3, WaysToEnd
    <2> QED BY <2>2, <2>3
  <1> QED BY <1>2 DEF IsReader

\* An element of a scalar type.
LEMMA ElementEnds ==
    ASSUME NEW b \in Bytes, NEW p \in 0..Len(b), NEW t, t.data \in DOMAIN Width, NEW X
    PROVE  /\ Ends(ReadObjectBy(b, p, t, X), p, Len(b))
           /\ ReadObjectBy(b, p, t, X).is = "done" => p + 1 <= ReadObjectBy(b, p, t, X).at
  <1> DEFINE r == ReadByte(b, p)
             next == IF r.got = CharN THEN Done(r.at, <<>>) ELSE ReadNonNull(b, r.at, t, X)
             m == Len(b)
             n == Width[t.data]
  <1>1. ReadObjectBy(b, p, t, X) = IF r.is = "done" THEN next ELSE r
    BY Zenon DEF ReadObjectBy, Then
  <1>0. n \in Nat
    BY Kinds
  <1> HIDE DEF n
  <1>2. m \in Nat /\ p \in Nat /\ n \in Nat
    BY <1>0, BytesLen
  <1>3. CASE m - p < 1
    <2>1. r = Lacking(p) /\ p \in p..m
      BY <1>2, <1>3 DEF ReadByte, Readable
    <2>2. r.is # "done"
      BY <2>1, WaysToEnd
    <2>3. ReadObjectBy(b, p, t, X) = Lacking(p)
      BY <1>1, <2>1, <2>2
    <2> HIDE DEF m
    <2> QED BY <1>2, <2>1, <2>3, MayEnd, WaysToEnd DEF m
  <1>4. CASE ~ (m - p < 1)
    <2> DEFINE q == p + 1
    <2>1. r = Done(q, b[p + 1])
      BY <1>4 DEF ReadByte, Readable
    <2>2. q \in p..m /\ q \in 0..m /\ q \in Nat
      BY <1>2, <1>4
    <2> HIDE DEF q, r
    <2>3. r.is = "done" /\ r.at = q
      BY <2>1, WaysToEnd
    <2>4. ReadNonNull(b, q, t, X) = ReadRaw(b, q, n)
      <3>1. t.data \notin {"text", "bytea", "array", "udt"}
        BY Kinds
      <3> QED BY <3>1 DEF ReadNonNull, n
    <2>5. \E a \in q..m : \E x : next = Done(a, x) \/ next = Lacking(a)
      <3>1. CASE r.got = CharN
        <4>1. next = Done(q, <<>>) /\ q \in q..m
          BY <2>2, <2>3, <3>1
        <4> QED BY <4>1
      <3>2. CASE r.got # CharN /\ m - q < n
        <4>1. next = Lacking(q) /\ q \in q..m
          BY <2>2, <2>3, <2>4, <3>2 DEF ReadRaw, Readable
        <4> QED BY <4>1
      <3>3. CASE r.got # CharN /\ ~ (m - q < n)
        <4>1. next = Done(q + n, <<Slice(b, q, n)>>)
          BY <2>3, <2>4, <3>3 DEF ReadRaw, Readable
        <4>2. q + n \in q..m
          BY <1>2, <2>2, <3>3
        <4> HIDE DEF next, n
        <4> QED BY <4>1, <4>2
      <3> QED BY <3>1, <3>2, <3>3
    <2>6. PICK a \in q..m : \E x : next = Done(a, x) \/ next = Lacking(a)
      BY <2>5
    <2> HIDE DEF next, m
    <2>7. a \in p..m /\ q <= a
      BY <1>2, <2>2, <2>6
    <2>8. Ends(next, p, m)
      BY <1>2, <2>6, <2>7, MayEnd
    <2>9. next.at = a
      BY <2>6, WaysToEnd
    <2>10. ReadObjectBy(b, p, t, X) = next
      BY <1>1, <2>3
    <2> QED BY <2>7, <2>8, <2>9, <2>10 DEF m, q
  <1> QED BY <1>3, <1>4

\* What sendArray writes of the dimensions and of the elements.
IntsBytes(dims) == FlattenSeq([i \in DOMAIN dims |-> Int32(dims[i])])
ElementsBytes(elements) ==
    FlattenSeq([i \in DOMAIN elements |-> <<CharD>> \o elements[i]])

\* A sequence made of a sequence.
LEMMA MadeOf ==
    ASSUME NEW S, NEW s \in Seq(S), NEW F, DOMAIN F = DOMAIN s,
           NEW T, \A i \in DOMAIN s : F[i] \in T, F = [i \in DOMAIN s |-> F[i]]
    PROVE  F \in Seq(T) /\ Len(F) = Len(s) /\ DOMAIN s = 1..Len(s) /\ Len(s) \in Nat
  <1>1. DOMAIN s = 1..Len(s) /\ Len(s) \in Nat
    OBVIOUS
  <1> DEFINE n == Len(s)
  <1> HIDE DEF n
  <1>2. F = [i \in 1..n |-> F[i]] /\ \A i \in 1..n : F[i] \in T
    BY <1>1 DEF n
  <1>3. n \in Nat
    BY <1>1 DEF n
  <1>4. [i \in 1..n |-> F[i]] \in Seq(T) /\ Len([i \in 1..n |-> F[i]]) = n
    BY <1>2, <1>3
  <1> QED BY <1>1, <1>2, <1>4 DEF n

LEMMA DimsGet ==
    ASSUME NEW b \in Bytes, NEW from \in 0..Len(b), NEW dims \in Seq(Int),
           \A i \in DOMAIN dims : dims[i] \in Int32s,
           Comes(b, from, IntsBytes(dims))
    PROVE  /\ Gets(Each(from, Times(Capped(Len(dims), Readable(b, from)), IntReader(b))),
                   b, from, IntsBytes(dims), dims)
           /\ IntsBytes(dims) \in Bytes
  <1> DEFINE n == Len(dims)
             limit == Readable(b, from)
             c == Capped(n, limit)
             f == IntReader(b)
             fs == Times(c, f)
             ps == [i \in DOMAIN dims |-> Int32(dims[i])]
  <1>1. limit = Len(b) - from /\ limit \in Nat /\ n \in Nat
    BY BytesLen DEF Readable
  <1>2. c \in Nat /\ c <= n /\ (c < n => c > limit)
    BY <1>1 DEF Capped
  <1>3. ps \in Seq(Bytes) /\ Len(ps) = n /\ DOMAIN dims = 1..n
    <2>1. \A i \in DOMAIN dims : ps[i] \in Bytes
      BY NumbersAre
    <2>2. DOMAIN ps = DOMAIN dims /\ ps = [i \in DOMAIN dims |-> ps[i]]
      OBVIOUS
    <2> HIDE DEF ps
    <2> QED BY <2>1, <2>2, MadeOf
  <1>4. \A i \in 1..n : ps[i] = Int32(dims[i]) /\ Len(ps[i]) = 4 /\ dims[i] \in Int32s
    BY <1>3, NumbersAre
  <1> HIDE DEF ps, c, limit
  <1>5. Len(fs) = c /\ \A i \in 1..c : fs[i] = f
    <2> HIDE DEF f
    <2>1. c \in Int
      BY <1>2
    <2>2. Len(Times(c, f)) = (IF c > 0 THEN c ELSE 0)
      BY <2>1, TimesIs
    <2>3. \A i \in 1..c : Times(c, f)[i] = f
      BY <2>1, TimesIs
    <2> QED BY <1>2, <2>2, <2>3
  <1>6. ASSUME NEW i \in 1..c, NEW q \in 0..Len(b), Comes(b, q, ps[i])
        PROVE  Gets(fs[i][q], b, q, ps[i], dims[i])
    <2>1. fs[i] = f /\ i \in 1..n
      BY <1>1, <1>2, <1>5
    <2>2. f[q] = ReadInt(b, q, 4)
      BY DEF IntReader, Places
    <2>3. Gets(ReadInt(b, q, 4), b, q, ps[i], dims[i])
      BY <1>4, <1>6, <2>1, IntGets
    <2> QED BY <2>1, <2>2, <2>3
  <1>7. GetEach(fs, b, ps, dims)
    <2>1. IsReader(f, Len(b))
      BY IntReaderIs
    <2>2. \A i \in 1..Len(ps) : Len(ps[i]) >= 1
      <3> HIDE DEF n
      <3>1. ASSUME NEW i \in 1..n
            PROVE  Len(ps[i]) >= 1
        <4>1. Len(ps[i]) = 4
          BY <1>4
        <4> QED BY <4>1
      <3> QED BY <1>3, <3>1
    <2> HIDE DEF fs, f, n
    <2>3. Len(dims) = Len(ps)
      BY <1>3 DEF n
    <2> QED BY <1>2, <1>3, <1>5, <1>6, <2>1, <2>2, <2>3 DEF GetEach
  <1> HIDE DEF fs
  <1>8. Gets(Each(from, fs), b, from, FlattenSeq(ps), dims)
    <2>1. Len(fs) < Len(ps) => Len(fs) > Len(b) - from
      BY <1>1, <1>2, <1>3, <1>5
    <2>2. Comes(b, from, FlattenSeq(ps))
      BY DEF IntsBytes, ps
    <2> QED BY <1>3, <1>7, <2>1, <2>2, InARowGets
  <1>9. FlattenSeq(ps) \in Bytes
    BY <1>3, FlattenBytes
  <1> QED BY <1>8, <1>9 DEF fs, c, limit, ps, IntsBytes

\* How many elements receive_array reads when these have not all come: more than
\* there are bytes.
LEMMA SizeIs ==
    ASSUME NEW dims \in Seq(Int), NEW n \in Nat, ElementCount(dims, n) = n, NEW limit \in Nat
    PROVE  /\ ElementCount(dims, limit) \in Nat
           /\ ElementCount(dims, limit) <= n
           /\ ElementCount(dims, limit) < n => ElementCount(dims, limit) > limit
  <1> DEFINE c == ElementCount(dims, limit)
             e == ElementCount(dims, n)
  <1>1. CASE limit <= n
    <2>1. c \in Int /\ c <= limit + 1 /\ (c = e \/ Beyond(c, e, limit))
      BY <1>1, ElementsSettle
    <2>2. e = n
      OBVIOUS
    <2> HIDE DEF c, e
    <2>3. c \in Nat /\ c <= n /\ (c < n => c > limit)
      BY <1>1, <2>1, <2>2 DEF Beyond
    <2> QED BY <2>3 DEF c
  <1>2. CASE n <= limit
    <2>1. c \in Int /\ (e = c \/ Beyond(e, c, n))
      BY <1>2, ElementsSettle
    <2>2. e = n
      OBVIOUS
    <2> HIDE DEF c, e
    <2>3. c = n
      BY <2>1, <2>2 DEF Beyond
    <2> QED BY <2>3 DEF c
  <1> QED BY <1>1, <1>2

\* The items of an array, each with the reader of a scalar.
ItemReader(b, t, object) == [q \in Places(b) |-> ReadItem(b, q, t, object)]

LEMMA ItemsGet ==
    ASSUME NEW b \in Bytes, NEW from \in 0..Len(b), NEW dims \in Seq(Int), dims # <<>>,
           NEW elements \in Seq(Bytes), NEW t, t.data \in DOMAIN Width,
           \A i \in DOMAIN elements : Len(elements[i]) = Width[t.data],
           ElementCount(dims, Len(elements)) = Len(elements),
           NEW object, NEW Y, \A q \in 0..Len(b) : object[q] = ReadObjectBy(b, q, t, Y),
           Comes(b, from, ElementsBytes(elements))
    PROVE  Gets(Each(from, Times(SizeOf(b, from, dims), ItemReader(b, t, object))),
                b, from, ElementsBytes(elements), [i \in DOMAIN elements |-> <<elements[i]>>])
  <1> DEFINE n == Len(elements)
             limit == Readable(b, from)
             c == SizeOf(b, from, dims)
             f == ItemReader(b, t, object)
             fs == Times(c, f)
             ps == [i \in DOMAIN elements |-> <<CharD>> \o elements[i]]
             gots == [i \in DOMAIN elements |-> <<elements[i]>>]
             G == {<<elements[i]>> : i \in DOMAIN elements}
  <1>1. limit = Len(b) - from /\ limit \in Nat /\ n \in Nat
    BY BytesLen DEF Readable
  <1>2. c \in Nat /\ c <= n /\ (c < n => c > limit)
    <2>1. c = ElementCount(dims, limit)
      BY DEF SizeOf
    <2> HIDE DEF c, limit, n
    <2>2. ElementCount(dims, n) = n
      BY DEF n
    <2> QED BY <1>1, <2>1, <2>2, SizeIs
  <1>3. ps \in Seq(Bytes) /\ Len(ps) = n /\ DOMAIN elements = 1..n
        /\ \A i \in DOMAIN elements : elements[i] \in Bytes
    <2>1. <<CharD>> \in Bytes
      BY CharsAre, OneByte
    <2>2. \A i \in DOMAIN elements : elements[i] \in Bytes
      OBVIOUS
    <2>3. \A i \in DOMAIN elements : ps[i] \in Bytes
      BY <2>1, <2>2, BothBytes
    <2>4. DOMAIN ps = DOMAIN elements /\ ps = [i \in DOMAIN elements |-> ps[i]]
      OBVIOUS
    <2> HIDE DEF ps
    <2> QED BY <2>2, <2>3, <2>4, MadeOf
  <1>4. gots \in Seq(G) /\ Len(gots) = n
    <2>1. \A i \in DOMAIN elements : gots[i] \in G
      OBVIOUS
    <2>2. DOMAIN gots = DOMAIN elements /\ gots = [i \in DOMAIN elements |-> gots[i]]
      OBVIOUS
    <2> HIDE DEF gots, G
    <2> QED BY <2>1, <2>2, MadeOf
  <1>5. ASSUME NEW i \in 1..n
        PROVE  /\ ps[i] = <<CharD>> \o elements[i] /\ gots[i] = <<elements[i]>>
               /\ elements[i] \in Bytes /\ Len(elements[i]) = Width[t.data]
               /\ Len(ps[i]) >= 1
    <2>1. i \in DOMAIN elements
      BY <1>3
    <2>2. ps[i] = <<CharD>> \o elements[i] /\ gots[i] = <<elements[i]>>
          /\ elements[i] \in Bytes /\ Len(elements[i]) = Width[t.data]
      BY <1>3, <2>1
    <2>3. <<CharD>> \in Bytes /\ Len(<<CharD>>) = 1
      BY CharsAre, OneByte
    <2>4. Len(<<CharD>> \o elements[i]) = 1 + Len(elements[i]) /\ Len(elements[i]) \in Nat
      BY <2>2, <2>3, BothBytes
    <2>5. Len(ps[i]) >= 1
      <3> DEFINE w == <<CharD>> \o elements[i]
      <3>1. ps[i] = w /\ Len(w) = 1 + Len(elements[i]) /\ Len(elements[i]) \in Nat
        BY <2>2, <2>4
      <3> HIDE DEF w, ps
      <3> QED BY <3>1
    <2> QED BY <2>2, <2>5
  <1> HIDE DEF ps, gots, G, c, limit
  <1>6. Len(fs) = c /\ \A i \in 1..c : fs[i] = f
    <2> HIDE DEF f
    <2>1. c \in Int
      BY <1>2
    <2>2. Len(Times(c, f)) = (IF c > 0 THEN c ELSE 0)
      BY <2>1, TimesIs
    <2>3. \A i \in 1..c : Times(c, f)[i] = f
      BY <2>1, TimesIs
    <2> QED BY <1>2, <2>2, <2>3
  <1>7. \A q \in 0..Len(b) : f[q] = ReadObjectBy(b, q, t, Y)
    <2>1. t.data # "array"
      BY Kinds
    <2> QED BY <2>1 DEF ItemReader, ReadItem, Places
  <1>8. IsReader(f, Len(b))
    <2> HIDE DEF f
    <2> QED BY <1>7, ElementEnds DEF IsReader
  <1>9. ASSUME NEW i \in 1..c, NEW q \in 0..Len(b), Comes(b, q, ps[i])
        PROVE  Gets(fs[i][q], b, q, ps[i], gots[i])
    <2>1. fs[i] = f /\ i \in 1..n
      BY <1>1, <1>2, <1>6
    <2> DEFINE s == elements[i]
    <2>2. s \in Bytes /\ Len(s) = Width[t.data] /\ ps[i] = <<CharD>> \o s /\ gots[i] = <<s>>
      BY <1>5, <2>1
    <2> HIDE DEF s
    <2>3. \A p \in 0..Len(b) : Comes(b, p, s) => Gets(ReadNonNull(b, p, t, Y), b, p, s, <<s>>)
      BY <2>2, PlainValueGets
    <2>4. Gets(ReadObjectBy(b, q, t, Y), b, q, <<CharD>> \o s, <<s>>)
      BY <1>9, <2>2, <2>3, ObjectGets
    <2> QED BY <1>7, <2>1, <2>2, <2>4
  <1> HIDE DEF f
  <1>10. GetEach(fs, b, ps, gots)
    <2> HIDE DEF fs, n
    <2>1. \A i \in 1..Len(ps) : Len(ps[i]) >= 1
      BY <1>3, <1>5
    <2> QED BY <1>2, <1>3, <1>4, <1>6, <1>8, <1>9, <2>1 DEF GetEach
  <1> HIDE DEF fs
  <1>11. Gets(Each(from, fs), b, from, FlattenSeq(ps), gots)
    <2>1. Len(fs) < Len(ps) => Len(fs) > Len(b) - from
      BY <1>1, <1>2, <1>3, <1>6
    <2>2. Comes(b, from, FlattenSeq(ps))
      BY DEF ElementsBytes, ps
    <2> QED BY <1>3, <1>4, <1>10, <2>1, <2>2, InARowGets
  <1> QED BY <1>11 DEF fs, f, c, ps, gots, ElementsBytes

LEMMA ArrayIsBytes ==
    ASSUME NEW dims \in Seq(Int), \A i \in DOMAIN dims : dims[i] \in Int32s,
           NEW elements \in Seq(Bytes)
    PROVE  IntsBytes(dims) \in Bytes /\ ElementsBytes(elements) \in Bytes
  <1> DEFINE ps == [i \in DOMAIN dims |-> Int32(dims[i])]
             es == [i \in DOMAIN elements |-> <<CharD>> \o elements[i]]
  <1>1. ps \in Seq(Bytes)
    <2>1. \A i \in DOMAIN dims : ps[i] \in Bytes
      BY NumbersAre
    <2>2. DOMAIN ps = DOMAIN dims /\ ps = [i \in DOMAIN dims |-> ps[i]]
      OBVIOUS
    <2> HIDE DEF ps
    <2> QED BY <2>1, <2>2, MadeOf
  <1>2. es \in Seq(Bytes)
    <2>1. <<CharD>> \in Bytes
      BY CharsAre, OneByte
    <2>2. \A i \in DOMAIN elements : es[i] \in Bytes
      BY <2>1, BothBytes
    <2>3. DOMAIN es = DOMAIN elements /\ es = [i \in DOMAIN elements |-> es[i]]
      OBVIOUS
    <2> HIDE DEF es
    <2> QED BY <2>2, <2>3, MadeOf
  <1> HIDE DEF ps, es
  <1>3. FlattenSeq(ps) \in Bytes /\ FlattenSeq(es) \in Bytes
    BY <1>1, <1>2, FlattenBytes
  <1> QED BY <1>3 DEF ps, es, IntsBytes, ElementsBytes

\* The dimensions and the items of an array of elements.
Holding(dims, elements) ==
    <<[dims |-> dims, items |-> [i \in DOMAIN elements |-> <<elements[i]>>]]>>

\* receive_array, after its dimensions.
LEMMA ReadItemsIs ==
    ASSUME NEW b, NEW q, NEW t, NEW dims, NEW object
    PROVE  LET e == Each(q, Times(SizeOf(b, q, dims), ItemReader(b, t, object))) IN
           ReadItems(b, q, t, dims, object)
             = IF e.is = "done" THEN Done(e.at, <<[dims |-> dims, items |-> e.got]>>) ELSE e
  BY Zenon DEF ReadItems, Then, ItemReader

\* What an array of elements has to be for the bytes of it to tell it.
ArrayTells(d, dims, elements) ==
    /\ dims \in Seq(Int) /\ dims # <<>> /\ Len(dims) \in Int32s
    /\ \A i \in DOMAIN dims : dims[i] \in Int32s
    /\ elements \in Seq(Bytes)
    /\ \A i \in DOMAIN elements : Len(elements[i]) = Width[d]
    /\ ElementCount(dims, Len(elements)) = Len(elements)

LEMMA ReadItemsGets ==
    ASSUME NEW b \in Bytes, NEW from \in 0..Len(b), NEW d \in DOMAIN Width,
           NEW t, t.data = d, NEW dims, NEW elements, ArrayTells(d, dims, elements),
           NEW object, NEW Y, \A q \in 0..Len(b) : object[q] = ReadObjectBy(b, q, t, Y),
           Comes(b, from, ElementsBytes(elements))
    PROVE  Gets(ReadItems(b, from, t, dims, object), b, from, ElementsBytes(elements),
                Holding(dims, elements))
  <1> DEFINE e == Each(from, Times(SizeOf(b, from, dims), ItemReader(b, t, object)))
             w == ElementsBytes(elements)
             gots == [i \in DOMAIN elements |-> <<elements[i]>>]
             next == Done(e.at, <<[dims |-> dims, items |-> e.got]>>)
  <1>1. ReadItems(b, from, t, dims, object) = IF e.is = "done" THEN next ELSE e
    BY ReadItemsIs
  <1>2. /\ dims \in Seq(Int) /\ dims # <<>> /\ \A i \in DOMAIN dims : dims[i] \in Int32s
        /\ elements \in Seq(Bytes)
        /\ ElementCount(dims, Len(elements)) = Len(elements)
    BY DEF ArrayTells
  <1>3. \A i \in DOMAIN elements : Len(elements[i]) = Width[t.data]
    BY DEF ArrayTells
  <1>4. w \in Bytes
    BY <1>2, ArrayIsBytes
  <1>5. Gets(e, b, from, w, gots)
    BY <1>2, <1>3, ItemsGet
  <1>6. ASSUME e = Done(from + Len(w), gots)
        PROVE  next = Done(from + Len(w), Holding(dims, elements))
    <2>1. e.at = from + Len(w) /\ e.got = gots
      BY <1>6, WaysToEnd
    <2> HIDE DEF e, w
    <2> QED BY <2>1 DEF Holding
  <1> HIDE DEF e, w, gots, next
  <1>7. Gets(IF e.is = "done" THEN next ELSE e, b, from, w, Holding(dims, elements))
    BY <1>4, <1>5, <1>6, ThenMakes
  <1> QED BY <1>1, <1>7 DEF w

LEMMA ArrayGets ==
    ASSUME NEW b \in Bytes, NEW from \in 0..Len(b), NEW d \in DOMAIN Width,
           NEW t, t.sub = <<NewType(d, <<>>)>>,
           NEW dims, NEW elements, ArrayTells(d, dims, elements),
           NEW X, NEW Y,
           \A q \in 0..Len(b) : X[1][q] = ReadObjectBy(b, q, NewType(d, <<>>), Y),
           Comes(b, from, Int32(Len(dims)) \o (IntsBytes(dims) \o ElementsBytes(elements)))
    PROVE  Gets(ReadArray(b, from, t, X), b, from,
                Int32(Len(dims)) \o (IntsBytes(dims) \o ElementsBytes(elements)),
                Holding(dims, elements))
  <1> DEFINE n == Len(dims)
             u == NewType(d, <<>>)
             k == Int32(n)
             x == IntsBytes(dims)
             y == ElementsBytes(elements)
             r == ReadInt(b, from, 4)
             e == Each(r.at, Times(Capped(r.got, Readable(b, r.at)), IntReader(b)))
             rest == ReadItems(b, e.at, t.sub[1], e.got, X[1])
             next == IF e.is = "done" THEN rest ELSE e
  <1>1. t.sub # <<>> /\ t.sub[1] = u
    OBVIOUS
  <1>2. ReadArray(b, from, t, X) = IF r.is = "done" THEN next ELSE r
    BY <1>1, Zenon DEF ReadArray, Then
  <1>3. u.data = d
    BY DEF NewType
  <1>4. /\ dims \in Seq(Int) /\ n \in Int32s
        /\ \A i \in DOMAIN dims : dims[i] \in Int32s
        /\ elements \in Seq(Bytes)
    BY DEF ArrayTells
  <1>5. x \in Bytes /\ y \in Bytes /\ k \in Bytes
    BY <1>4, ArrayIsBytes, NumbersAre
  <1> HIDE DEF u, k, x, y, n
  <1>6. x \o y \in Bytes
    BY <1>5, BothBytes
  <1>7. Comes(b, from, k) /\ Comes(b, from + Len(k), x \o y)
    BY <1>5, <1>6, ComesBoth DEF k, x, y, n
  <1>8. Gets(r, b, from, k, n)
    BY <1>4, <1>7, IntGets DEF k
  <1>9. ASSUME from + Len(k) \in 0..Len(b), r = Done(from + Len(k), n)
        PROVE  Gets(next, b, from + Len(k), x \o y, Holding(dims, elements))
    <2> DEFINE q == from + Len(k)
    <2>1. r.at = q /\ r.got = n
      BY <1>9, WaysToEnd
    <2>2. q \in 0..Len(b) /\ Comes(b, q, x \o y)
      BY <1>7, <1>9
    <2> HIDE DEF q, r
    <2>3. e = Each(q, Times(Capped(n, Readable(b, q)), IntReader(b)))
      BY <2>1
    <2> HIDE DEF e
    <2>4. Comes(b, q, x) /\ Comes(b, q + Len(x), y)
      BY <1>5, <2>2, ComesBoth
    <2>5. Gets(e, b, q, x, dims)
      BY <1>4, <2>2, <2>3, <2>4, DimsGet DEF x, n
    <2>6. ASSUME q + Len(x) \in 0..Len(b), e = Done(q + Len(x), dims)
          PROVE  Gets(rest, b, q + Len(x), y, Holding(dims, elements))
      <3> DEFINE p == q + Len(x)
      <3>1. e.at = p /\ e.got = dims
        BY <2>6, WaysToEnd
      <3>2. p \in 0..Len(b) /\ Comes(b, p, y)
        BY <2>4, <2>6
      <3> HIDE DEF p
      <3>3. rest = ReadItems(b, p, u, dims, X[1])
        BY <1>1, <3>1
      <3>4. \A i \in 0..Len(b) : X[1][i] = ReadObjectBy(b, i, u, Y)
        BY DEF u
      <3> DEFINE object == X[1]
      <3>5. \A i \in 0..Len(b) : object[i] = ReadObjectBy(b, i, u, Y)
        BY <3>4
      <3> HIDE DEF object, rest
      <3>6. Gets(ReadItems(b, p, u, dims, object), b, p, y, Holding(dims, elements))
        BY <1>3, <3>2, <3>5, ReadItemsGets DEF y
      <3> QED BY <3>3, <3>6 DEF p, object
    <2> HIDE DEF rest
    <2>7. Gets(next, b, q, x \o y, Holding(dims, elements))
      BY <1>5, <2>2, <2>5, <2>6, ThenGets
    <2> QED BY <2>7 DEF q
  <1> HIDE DEF r, next
  <1>10. Gets(IF r.is = "done" THEN next ELSE r, b, from, k \o (x \o y),
              Holding(dims, elements))
    BY <1>5, <1>6, <1>8, <1>9, ThenGets
  <1> QED BY <1>2, <1>10 DEF k, x, y, n

-----------------------------------------------------------------------------
(* Texts and results.                                                      *)

\* As many bytes as characters, when each of these has one.
LEMMA OneEach ==
    ASSUME NEW c \in Seq(Bytes), \A i \in 1..Len(c) : Len(c[i]) = 1
    PROVE  Len(FlattenSeq(c)) = Len(c)
  <1> DEFINE n == Len(c)
             L(i) == LengthOf(c, i)
             T == {i \in Nat : i <= n => L(i) = i}
  <1>1. /\ L(0) = 0 /\ L(n) = Len(FlattenSeq(c))
        /\ \A k \in 1..n : L(k) = L(k - 1) + Len(c[k])
    BY FlattenBytesAt
  <1>2. n \in Nat
    OBVIOUS
  <1>3. \A i \in 1..n : Len(c[i]) = 1
    OBVIOUS
  <1> HIDE DEF n, L
  <1>4. 0 \in T
    BY <1>1
  <1>5. ASSUME NEW i \in Nat, i \in T PROVE i + 1 \in T
    <2>1. CASE i + 1 <= n
      <3>1. L(i + 1) = L((i + 1) - 1) + Len(c[i + 1]) /\ Len(c[i + 1]) = 1
        BY <1>1, <1>2, <1>3, <2>1
      <3>2. (i + 1) - 1 = i /\ L(i) = i
        BY <1>2, <1>5, <2>1
      <3> QED BY <3>1, <3>2
    <2> QED BY <2>1
  <1> HIDE DEF T
  <1>6. \A i \in Nat : i \in T
    BY <1>4, <1>5, Induct
  <1>7. L(n) = n
    BY <1>2, <1>6 DEF T
  <1> QED BY <1>1, <1>7 DEF n

\* A text of one-byte characters is sent as it is meant.
LEMMA TextIsSent ==
    ASSUME NEW s, TextFits(s)
    PROVE  StringFits(TextOf(s)) /\ StringBytes(s) = CString(TextOf(s))
  <1>1. CASE s = <<>>
    BY <1>1 DEF TextOf, StringFits, StringBytes, CString
  <1>2. CASE s # <<>>
    <2> DEFINE c == s[1]
               w == FlattenSeq(c)
               Chars == {<<byte>> : byte \in 0..255}
    <2>1. s = <<c>> /\ c \in Seq(Chars) /\ Len(c) \in Int32s
      BY <1>2 DEF TextFits
    <2> HIDE DEF c
    <2>2. ASSUME NEW x \in Chars PROVE x \in Bytes /\ Len(x) = 1
      <3>1. PICK byte \in 0..255 : x = <<byte>>
        OBVIOUS
      <3> QED BY <3>1, OneByte
    <2> HIDE DEF Chars
    <2>3. c \in Seq(Bytes) /\ \A i \in 1..Len(c) : Len(c[i]) = 1
      BY <2>1, <2>2
    <2>4. w \in Bytes /\ Len(w) = Len(c)
      BY <2>3, OneEach, FlattenBytes
    <2>5. TextOf(s) = <<w>> /\ StringBytes(s) = Int32(Len(c)) \o w
      BY <1>2 DEF TextOf, StringBytes, c
    <2> HIDE DEF w
    <2> DEFINE x == <<w>>
    <2>6. x # <<>> /\ x[1] = w
      OBVIOUS
    <2>7. CString(x) = Int32(Len(w)) \o w
      BY <2>6, Zenon DEF CString
    <2>8. StringFits(x)
      BY <2>1, <2>4, <2>6 DEF StringFits
    <2> QED BY <2>4, <2>5, <2>7, <2>8
  <1> QED BY <1>1, <1>2

\* The names of the primitives are those of scalars.
LEMMA PrimitivesAre ==
    /\ \A e \in DOMAIN Primitive : Primitive[e] \in DOMAIN Width /\ e \notin {"String", "byte"}
    /\ \A d \in DOMAIN Width : IsPlain(d)
    /\ IsPlain("text") /\ IsPlain("bytea")
  <1>1. \A e \in DOMAIN Primitive : Primitive[e] \in DOMAIN Width /\ e \notin {"String", "byte"}
    BY DEF Primitive, Width
  <1>2. ASSUME NEW d \in DOMAIN Width PROVE IsPlain(d)
    <2>1. d \in {"int1", "int2", "int4", "int8", "float4", "float8"}
      BY DEF Width
    <2>2. \E i \in DOMAIN DataTypes : d = DataTypes[i]
      BY <2>1 DEF DataTypes
    <2>3. ~Composite(d)
      BY <2>1 DEF Composite
    <2> QED BY <2>2, <2>3 DEF IsPlain
  <1>3. IsPlain("text")
    <2>1. 7 \in DOMAIN DataTypes /\ DataTypes[7] = "text"
      BY DEF DataTypes
    <2> QED BY <2>1 DEF IsPlain, Composite
  <1>4. IsPlain("bytea")
    <2>1. 10 \in DOMAIN DataTypes /\ DataTypes[10] = "bytea"
      BY DEF DataTypes
    <2> QED BY <2>1 DEF IsPlain, Composite
  <1> QED BY <1>1, <1>2, <1>3, <1>4

\* What the parts make together.
LEMMA JoinedTwo ==
    ASSUME NEW s \in Bytes, NEW t \in Bytes
    PROVE  /\ Joined(<<Ok(s), Ok(t)>>) = Ok(s \o t)
           /\ Joined(<<Ok(s), Failed>>) = Failed
  <1>1. \A x : Ok(x) # Failed /\ Ok(x)[1] = x
    BY DEF Ok, Failed
  <1>2. Joined(<<Ok(s), Failed>>) = Failed
    <2> DEFINE ps == <<Ok(s), Failed>>
    <2>1. 2 \in DOMAIN ps /\ ps[2] = Failed
      OBVIOUS
    <2> HIDE DEF ps
    <2>2. Joined(ps) = Failed
      BY <2>1 DEF Joined
    <2> QED BY <2>2 DEF ps
  <1>3. Joined(<<Ok(s), Ok(t)>>) = Ok(s \o t)
    <2> DEFINE ps == <<Ok(s), Ok(t)>>
               xs == [i \in DOMAIN ps |-> ps[i][1]]
    <2>1. DOMAIN ps = 1..2 /\ ps[1] = Ok(s) /\ ps[2] = Ok(t)
      OBVIOUS
    <2> HIDE DEF ps
    <2>2. ~ \E i \in DOMAIN ps : ps[i] = Failed
      BY <1>1, <2>1
    <2>3. Joined(ps) = Ok(FlattenSeq(xs))
      BY <2>2 DEF Joined
    <2>4. xs = <<s, t>>
      <3>1. xs = [i \in 1..2 |-> ps[i][1]]
        BY <2>1
      <3>2. ps[1][1] = s /\ ps[2][1] = t
        BY <1>1, <2>1
      <3> HIDE DEF xs
      <3> QED BY <3>1, <3>2
    <2>5. FlattenSeq(<<s, t>>) = s \o t
      <3> DEFINE one == <<s>>
      <3>1. one \in Seq(Bytes)
        OBVIOUS
      <3>2. FlattenSeq(one) = s
        BY FlattenFew
      <3>3. <<s, t>> = Append(one, t)
        OBVIOUS
      <3> HIDE DEF one
      <3>4. FlattenSeq(Append(one, t)) = FlattenSeq(one) \o t
        BY <3>1, FlattenAppend DEF Bytes
      <3> QED BY <3>2, <3>3, <3>4
    <2> QED BY <2>3, <2>4, <2>5 DEF ps
  <1> QED BY <1>2, <1>3

LEMMA JoinedThree ==
    ASSUME NEW s \in Bytes, NEW t \in Bytes, NEW u \in Bytes
    PROVE  /\ Joined(<<Ok(s), Ok(t), Ok(u)>>) = Ok(s \o (t \o u))
           /\ Joined(<<Ok(s), Failed, Ok(u)>>) = Failed
  <1>1. \A x : Ok(x) # Failed /\ Ok(x)[1] = x
    BY DEF Ok, Failed
  <1>2. Joined(<<Ok(s), Failed, Ok(u)>>) = Failed
    <2> DEFINE ps == <<Ok(s), Failed, Ok(u)>>
    <2>1. 2 \in DOMAIN ps /\ ps[2] = Failed
      OBVIOUS
    <2> HIDE DEF ps
    <2>2. Joined(ps) = Failed
      BY <2>1 DEF Joined
    <2> QED BY <2>2 DEF ps
  <1>3. Joined(<<Ok(s), Ok(t), Ok(u)>>) = Ok(s \o (t \o u))
    <2> DEFINE ps == <<Ok(s), Ok(t), Ok(u)>>
               xs == [i \in DOMAIN ps |-> ps[i][1]]
    <2>1. DOMAIN ps = 1..3 /\ ps[1] = Ok(s) /\ ps[2] = Ok(t) /\ ps[3] = Ok(u)
      OBVIOUS
    <2> HIDE DEF ps
    <2>2. ~ \E i \in DOMAIN ps : ps[i] = Failed
      BY <1>1, <2>1
    <2>3. Joined(ps) = Ok(FlattenSeq(xs))
      BY <2>2 DEF Joined
    <2>4. xs = <<s, t, u>>
      <3>1. xs = [i \in 1..3 |-> ps[i][1]]
        BY <2>1
      <3>2. ps[1][1] = s /\ ps[2][1] = t /\ ps[3][1] = u
        BY <1>1, <2>1
      <3> HIDE DEF xs
      <3> QED BY <3>1, <3>2
    <2>5. FlattenSeq(<<s, t, u>>) = s \o (t \o u)
      BY FlattenFew
    <2> HIDE DEF xs
    <2> QED BY <2>3, <2>4, <2>5 DEF ps
  <1> QED BY <1>2, <1>3

\* The types of what is no object.
LEMMA TypeOfIs ==
    ASSUME NEW class, NEW v, v # <<>>
    PROVE  /\ class.ndims = 0 /\ class.elem \in DOMAIN Primitive =>
                 ResultType(class, v) = Ok(NewType(Primitive[class.elem], <<>>))
           /\ class = Class("String", 0) => ResultType(class, v) = Ok(NewType("text", <<>>))
           /\ class = Class("byte", 1) => ResultType(class, v) = Ok(NewType("bytea", <<>>))
           /\ class.ndims > 0 /\ class.elem \in DOMAIN Primitive =>
                 ResultType(class, v) = Ok(ArrayOf(Primitive[class.elem]))
  <1>1. ResultType(class, v) = TypeOf(class)
    BY DEF ResultType
  <1>2. /\ Class("String", 0).elem = "String" /\ Class("String", 0).ndims = 0
        /\ Class("byte", 1).elem = "byte" /\ Class("byte", 1).ndims = 1
    BY DEF Class
  <1>3. "String" \notin DOMAIN Primitive /\ "byte" \notin DOMAIN Primitive
    BY PrimitivesAre
  <1>4. ASSUME class.ndims = 0, class.elem \in DOMAIN Primitive
        PROVE  TypeOf(class) = Ok(NewType(Primitive[class.elem], <<>>))
    <2>1. class # Class("String", 0) /\ class # Class("byte", 1) /\ ~(class.ndims > 0)
      BY <1>2, <1>3, <1>4
    <2> QED BY <1>4, <2>1, Zenon DEF TypeOf
  <1>5. ASSUME class = Class("String", 0) PROVE TypeOf(class) = Ok(NewType("text", <<>>))
    <2>1. /\ ~(class.ndims = 0 /\ class.elem \in DOMAIN Primitive)
          /\ class # Class("byte", 1) /\ ~(class.ndims > 0)
      BY <1>2, <1>3, <1>5
    <2> QED BY <1>5, <2>1, Zenon DEF TypeOf
  <1>6. ASSUME class = Class("byte", 1) PROVE TypeOf(class) = Ok(NewType("bytea", <<>>))
    <2>1. /\ ~(class.ndims = 0 /\ class.elem \in DOMAIN Primitive)
          /\ class # Class("String", 0)
      BY <1>2, <1>3, <1>6
    <2> QED BY <1>6, <2>1, Zenon DEF TypeOf
  <1>7. ASSUME class.ndims > 0, class.elem \in DOMAIN Primitive
        PROVE  TypeOf(class) = Ok(ArrayOf(Primitive[class.elem]))
    <2>1. class.ndims # 0
      BY <1>7
    <2>2. class # Class("String", 0) /\ class # Class("byte", 1)
      BY <1>2, <1>3, <1>7
    <2> DEFINE e == NewType(Primitive[class.elem], <<>>)
    <2>3. ElementType(class) = Ok(e) /\ ElementType(class) # Failed
      BY <1>7 DEF ElementType, Ok, Failed
    <2> HIDE DEF e
    <2>4. TypeOf(class) = Ok(NewType("array", Ok(e)))
      BY <1>7, <2>1, <2>2, <2>3, Zenon DEF TypeOf
    <2> QED BY <2>4 DEF e, ArrayOf, Ok
  <1> QED BY <1>1, <1>4, <1>5, <1>6, <1>7

\* What sendObject writes of an object, by its type.
LEMMA ObjectBytesIs ==
    ASSUME NEW class, NEW t, NEW v, v # <<>>
    PROVE  /\ t.data \in DOMAIN Width =>
                 ObjectBytes(class, t, v) = Joined(<<Ok(<<CharD>>), Ok(v[1])>>)
           /\ t.data = "text" =>
                 ObjectBytes(class, t, v) = Joined(<<Ok(<<CharD>>), Ok(StringBytes(v))>>)
           /\ t.data = "bytea" =>
                 ObjectBytes(class, t, v)
                   = Joined(<<Ok(<<CharD>>), Ok(Int32(Len(v[1])) \o v[1])>>)
           /\ t.data = "array" =>
                 ObjectBytes(class, t, v)
                   = Joined(<<Ok(<<CharD>>), ArrayBytes(v[1], class.ndims)>>)
  <1>1. \A d \in DOMAIN Width : d # "text" /\ d # "bytea" /\ d # "array" /\ d # "udt"
    BY Kinds
  <1>2. t.data \in DOMAIN Width =>
           ObjectBytes(class, t, v) = Joined(<<Ok(<<CharD>>), Ok(v[1])>>)
    BY <1>1, Zenon DEF ObjectBytes
  <1>3. "text" \notin DOMAIN Width /\ "bytea" \notin DOMAIN Width /\ "array" \notin DOMAIN Width
    BY <1>1
  <1>4. t.data = "text" =>
           ObjectBytes(class, t, v) = Joined(<<Ok(<<CharD>>), Ok(StringBytes(v))>>)
    BY <1>3, Zenon DEF ObjectBytes
  <1>5. t.data = "bytea" =>
           ObjectBytes(class, t, v) = Joined(<<Ok(<<CharD>>), Ok(Int32(Len(v[1])) \o v[1])>>)
    BY <1>3, Zenon DEF ObjectBytes
  <1>6. t.data = "array" =>
           ObjectBytes(class, t, v) = Joined(<<Ok(<<CharD>>), ArrayBytes(v[1], class.ndims)>>)
    BY <1>3, Zenon DEF ObjectBytes
  <1> QED BY <1>2, <1>4, <1>5, <1>6

\* The backend gets this of w, when it has a column of type t to read.
SentAs(t, w, got) ==
    /\ w \in Bytes
    /\ \A b \in Bytes : \A q \in 0..Len(b) :
          Comes(b, q, w) => Gets(Objects(b, t)[q], b, q, w, got)

\* The readers of an object, and of an array's items.
LEMMA ObjectsAre ==
    ASSUME NEW b, NEW q \in 0..Len(b), NEW t
    PROVE  \E X : Objects(b, t)[q] = ReadObjectBy(b, q, t, X)
  <1> DEFINE X == [i \in DOMAIN t.sub |-> DeepObjects(b, t.sub[i])]
  <1>1. Objects(b, t)[q] = ReadObjectBy(b, q, t, X)
    BY DEF Objects, ObjectReader, Places
  <1> HIDE DEF X
  <1> QED BY <1>1

\* An array of type t is read by X, and its items of type u by the first of X.
ReadsItems(b, q, t, u) ==
    \E X, Y : /\ Objects(b, t)[q] = ReadObjectBy(b, q, t, X)
              /\ \A p \in 0..Len(b) : X[1][p] = ReadObjectBy(b, p, u, Y)

LEMMA ItemsAre ==
    ASSUME NEW b, NEW q \in 0..Len(b), NEW t, NEW u, t.sub = <<u>>
    PROVE  ReadsItems(b, q, t, u)
  <1> DEFINE X == [i \in DOMAIN t.sub |-> DeepObjects(b, t.sub[i])]
             Y == [i \in DOMAIN u.sub |-> NestedObjects(b, u.sub[i])]
  <1>1. Objects(b, t)[q] = ReadObjectBy(b, q, t, X)
    BY DEF Objects, ObjectReader, Places
  <1>2. 1 \in DOMAIN t.sub /\ t.sub[1] = u
    OBVIOUS
  <1>3. X[1] = DeepObjects(b, u)
    BY <1>2
  <1>4. \A p \in 0..Len(b) : DeepObjects(b, u)[p] = ReadObjectBy(b, p, u, Y)
    BY DEF DeepObjects, ObjectReader, Places
  <1> HIDE DEF X, Y
  <1>5. \A p \in 0..Len(b) : X[1][p] = ReadObjectBy(b, p, u, Y)
    BY <1>3, <1>4
  <1> QED BY <1>1, <1>5 DEF ReadsItems

\* A value of a type without subtypes.
LEMMA PlainSent ==
    ASSUME NEW d, NEW s \in Bytes, NEW w \in Bytes, NEW sub, NEW t, t = NewType(d, sub),
           \/ d \in DOMAIN Width /\ Len(s) = Width[d] /\ w = s
           \/ d = "bytea" /\ Len(s) \in Int32s /\ w = Int32(Len(s)) \o s
           \/ d = "text" /\ Len(s) \in Int32s /\ w = CString(<<s>>)
    PROVE  SentAs(t, <<CharD>> \o w, <<s>>)
  <1>1. t.data = d
    BY DEF NewType
  <1>2. <<CharD>> \o w \in Bytes
    BY CharsAre, OneByte, BothBytes
  <1>3. ASSUME NEW b \in Bytes, NEW q \in 0..Len(b), Comes(b, q, <<CharD>> \o w)
        PROVE  Gets(Objects(b, t)[q], b, q, <<CharD>> \o w, <<s>>)
    <2>1. PICK X : Objects(b, t)[q] = ReadObjectBy(b, q, t, X)
      BY ObjectsAre
    <2>2. ASSUME NEW p \in 0..Len(b), Comes(b, p, w)
          PROVE  Gets(ReadNonNull(b, p, t, X), b, p, w, <<s>>)
      BY <1>1, <2>2, PlainValueGets
    <2>3. Gets(ReadObjectBy(b, q, t, X), b, q, <<CharD>> \o w, <<s>>)
      BY <1>3, <2>2, ObjectGets
    <2> QED BY <2>1, <2>3
  <1> QED BY <1>2, <1>3 DEF SentAs

\* What sendArray writes after the byte that there is an array.
ArrayWritten(dims, elements) ==
    Int32(Len(dims)) \o (IntsBytes(dims) \o ElementsBytes(elements))

LEMMA ArrayWrittenBytes ==
    ASSUME NEW d, NEW dims, NEW elements, ArrayTells(d, dims, elements)
    PROVE  /\ ArrayWritten(dims, elements) \in Bytes
           /\ Int32(Len(dims)) \in Bytes
           /\ IntsBytes(dims) \in Bytes /\ ElementsBytes(elements) \in Bytes
  <1>1. /\ dims \in Seq(Int) /\ Len(dims) \in Int32s
        /\ \A i \in DOMAIN dims : dims[i] \in Int32s
        /\ elements \in Seq(Bytes)
    BY DEF ArrayTells
  <1>2. Int32(Len(dims)) \in Bytes
    BY <1>1, NumbersAre
  <1>3. IntsBytes(dims) \in Bytes /\ ElementsBytes(elements) \in Bytes
    BY <1>1, ArrayIsBytes
  <1> QED BY <1>2, <1>3, BothBytes DEF ArrayWritten

LEMMA ArraySent ==
    ASSUME NEW d \in DOMAIN Width, NEW dims, NEW elements, ArrayTells(d, dims, elements)
    PROVE  SentAs(ArrayOf(d), <<CharD>> \o ArrayWritten(dims, elements),
                  Holding(dims, elements))
  <1> DEFINE t == ArrayOf(d)
             u == NewType(d, <<>>)
             w == ArrayWritten(dims, elements)
             got == Holding(dims, elements)
  <1>1. t.data = "array" /\ t.sub = <<u>>
    BY PrimitivesAre, JavaTypeIs
  <1>2. w \in Bytes
    BY ArrayWrittenBytes
  <1>3. <<CharD>> \o w \in Bytes
    BY <1>2, CharsAre, OneByte, BothBytes
  <1> HIDE DEF t, u, w, got
  <1>4. ASSUME NEW b \in Bytes, NEW q \in 0..Len(b), Comes(b, q, <<CharD>> \o w)
        PROVE  Gets(Objects(b, t)[q], b, q, <<CharD>> \o w, got)
    <2>1. ReadsItems(b, q, t, u)
      BY <1>1, ItemsAre
    <2>2. PICK X, Y : /\ Objects(b, t)[q] = ReadObjectBy(b, q, t, X)
                      /\ \A p \in 0..Len(b) : X[1][p] = ReadObjectBy(b, p, u, Y)
      BY <2>1 DEF ReadsItems
    <2>3. ASSUME NEW p \in 0..Len(b), Comes(b, p, w)
          PROVE  Gets(ReadNonNull(b, p, t, X), b, p, w, got)
      <3>1. "array" \notin DOMAIN Width
        BY Kinds
      <3>2. ReadNonNull(b, p, t, X) = ReadArray(b, p, t, X)
        BY <1>1, <3>1, Zenon DEF ReadNonNull
      <3>3. Comes(b, p, Int32(Len(dims)) \o (IntsBytes(dims) \o ElementsBytes(elements)))
        BY <2>3 DEF w, ArrayWritten
      <3>4. Gets(ReadArray(b, p, t, X), b, p,
                 Int32(Len(dims)) \o (IntsBytes(dims) \o ElementsBytes(elements)),
                 Holding(dims, elements))
        BY <1>1, <2>2, <3>3, ArrayGets DEF u
      <3> QED BY <3>2, <3>4 DEF w, got, ArrayWritten
    <2>4. Gets(ReadObjectBy(b, q, t, X), b, q, <<CharD>> \o w, got)
      BY <1>2, <1>4, <2>3, ObjectGets
    <2> QED BY <2>2, <2>4
  <1>5. SentAs(t, <<CharD>> \o w, got)
    BY <1>3, <1>4 DEF SentAs
  <1> QED BY <1>5 DEF t, w, got

\* sendArray fails, or writes the shape and the elements of the array.
LEMMA ArrayBytesIs ==
    ASSUME NEW elem \in DOMAIN Primitive, NEW ndims, ndims > 0, NEW array,
           ArrayFits(elem, array, ndims), ArrayBytes(array, ndims) # Failed
    PROVE  LET dims == Shape(array, ndims)
               elements == Elements(array, ndims)
           IN  /\ ArrayTells(Primitive[elem], dims, elements)
               /\ ArrayBytes(array, ndims) = Ok(ArrayWritten(dims, elements))
  <1> DEFINE dims == Shape(array, ndims)
             elements == Elements(array, ndims)
             k == Int32(Len(dims))
             x == IntsBytes(dims)
             y == ElementsBytes(elements)
             flat == FlatBytes(array, ndims)
  <1>1. Dimensions(array, ndims) # Failed
    BY Zenon DEF ArrayBytes
  <1>2. Measurable(array, ndims)
    BY <1>1 DEF Dimensions
  <1>3. Dimensions(array, ndims) = Ok([i \in 1..ndims |-> Len(Firsts(array, ndims)[i][1])])
    BY <1>2 DEF Dimensions
  <1>4. dims = [i \in 1..ndims |-> Len(Firsts(array, ndims)[i][1])]
    BY <1>2 DEF Shape, Measurable
  <1> HIDE DEF dims, elements
  <1>5. Dimensions(array, ndims) = Ok(dims)
    BY <1>3, <1>4
  <1>6. Dimensions(array, ndims)[1] = dims
    BY <1>5 DEF Ok
  <1>7. ArrayBytes(array, ndims) = Joined(<<Ok(k), Ok(x), flat>>)
    BY <1>1, <1>6, Zenon DEF ArrayBytes, IntsBytes
  <1>8. flat = IF HasNull(array, ndims) THEN Failed ELSE Ok(y)
    BY Zenon DEF FlatBytes, ElementsBytes, elements
  <1>9. CASE HasNull(array, ndims)
    <2>1. flat = Failed
      BY <1>8, <1>9
    <2> QED BY <1>7, <2>1 DEF Joined, Failed
  <1>10. CASE ~HasNull(array, ndims)
    <2>1. /\ ndims \in Nat /\ ndims \in Int32s
          /\ \A i \in 1..ndims : dims[i] \in Nat /\ dims[i] \in Int32s
          /\ elements \in Seq(Bytes)
          /\ \A i \in DOMAIN elements : Len(elements[i]) = Width[Primitive[elem]]
          /\ ElementCount(dims, Len(elements)) = Len(elements)
      BY <1>2, <1>10 DEF ArrayFits, dims, elements
    <2>2. dims \in Seq(Int) /\ Len(dims) = ndims /\ DOMAIN dims = 1..ndims
      <3>1. dims = [i \in 1..ndims |-> dims[i]]
        BY <1>4
      <3>2. \A i \in 1..ndims : dims[i] \in Int
        BY <2>1
      <3> QED BY <2>1, <3>1, <3>2
    <2>3. dims # <<>>
      BY <2>1, <2>2
    <2>4. ArrayTells(Primitive[elem], dims, elements)
      BY <2>1, <2>2, <2>3 DEF ArrayTells
    <2>5. k \in Bytes /\ x \in Bytes /\ y \in Bytes
      BY <2>4, ArrayWrittenBytes
    <2> HIDE DEF k, x, y, flat
    <2>6. flat = Ok(y)
      BY <1>8, <1>10
    <2>7. ArrayBytes(array, ndims) = Ok(k \o (x \o y))
      BY <1>7, <2>5, <2>6, JoinedThree
    <2>8. ArrayBytes(array, ndims) = Ok(ArrayWritten(dims, elements))
      BY <2>7 DEF ArrayWritten, k, x, y
    <2> QED BY <2>4, <2>8 DEF dims, elements
  <1> QED BY <1>9, <1>10

\* The value that a function returns comes as it is meant, if it is sent at all.
Tells(class, t, v) ==
    /\ SentType(t)
    /\ ObjectBytes(class, t, v) # Failed =>
          \E o : ObjectBytes(class, t, v) = Ok(o) /\ SentAs(t, o, ValueOf(class, v))

LEMMA ValueIsSent ==
    ASSUME NEW class, NEW v, ValueFits(class, v), ResultType(class, v) # Failed,
           NEW t, t = ResultType(class, v)[1]
    PROVE  Tells(class, t, v)
  <1>1. \A x : Ok(x)[1] = x /\ Ok(x) # Failed
    BY DEF Ok, Failed
  <1>2. <<CharD>> \in Bytes
    BY CharsAre, OneByte
  <1>3. CASE v = <<>>
    <2> DEFINE n == <<CharN>>
    <2>1. t = NewType("text", <<>>)
      BY <1>1, <1>3 DEF ResultType
    <2>2. SentType(t)
      BY <2>1, PrimitivesAre DEF SentType
    <2>3. ObjectBytes(class, t, v) = Ok(n) /\ ValueOf(class, v) = <<>>
      BY <1>3 DEF ObjectBytes, ValueOf
    <2>4. n \in Bytes
      BY CharsAre, OneByte
    <2>5. ASSUME NEW b \in Bytes, NEW q \in 0..Len(b), Comes(b, q, n)
          PROVE  Gets(Objects(b, t)[q], b, q, n, <<>>)
      <3>1. PICK X : Objects(b, t)[q] = ReadObjectBy(b, q, t, X)
        BY ObjectsAre
      <3>2. Gets(ReadObjectBy(b, q, t, X), b, q, n, <<>>)
        BY <2>5, NullGets
      <3> QED BY <3>1, <3>2
    <2> HIDE DEF n
    <2>6. SentAs(t, n, <<>>)
      BY <2>4, <2>5 DEF SentAs
    <2> QED BY <2>2, <2>3, <2>6 DEF Tells
  <1>4. CASE v # <<>>
    <2> DEFINE x == v[1]
    <2>1. v = <<x>>
      BY <1>4 DEF ValueFits
    <2>2. CASE class = Class("String", 0) /\ TextFits(v)
      <3> DEFINE s == TextOf(v)
                 w == FlattenSeq(x)
                 c == CString(s)
      <3>1. t = NewType("text", <<>>)
        BY <1>1, <1>4, <2>2, TypeOfIs
      <3>2. SentType(t) /\ t.data = "text"
        BY <3>1, PrimitivesAre DEF SentType, NewType
      <3>3. StringFits(s) /\ StringBytes(v) = c
        BY <2>2, TextIsSent
      <3>4. s = <<w>> /\ ValueOf(class, v) = s
        BY <1>4, <2>2 DEF TextOf, ValueOf
      <3> HIDE DEF s, w
      <3>5. s # <<>> /\ s[1] = w
        BY <3>4
      <3>6. w \in Bytes /\ Len(w) \in Int32s
        BY <3>3, <3>5 DEF StringFits
      <3>7. c \in Bytes
        BY <3>3, CStringBytes
      <3>8. ObjectBytes(class, t, v) = Joined(<<Ok(<<CharD>>), Ok(c)>>)
        BY <1>4, <3>2, <3>3, ObjectBytesIs
      <3>9. c = CString(<<w>>)
        BY <3>4
      <3> HIDE DEF c
      <3>10. ObjectBytes(class, t, v) = Ok(<<CharD>> \o c)
        BY <1>2, <3>7, <3>8, JoinedTwo
      <3>11. SentAs(t, <<CharD>> \o c, <<w>>)
        BY <3>1, <3>6, <3>7, <3>9, PlainSent
      <3> QED BY <3>2, <3>4, <3>10, <3>11 DEF Tells
    <2>3. CASE class = Class("byte", 1) /\ x \in Bytes /\ Len(x) \in Int32s
      <3> DEFINE w == Int32(Len(x)) \o x
      <3>1. t = NewType("bytea", <<>>)
        BY <1>1, <1>4, <2>3, TypeOfIs
      <3>2. SentType(t) /\ t.data = "bytea"
        BY <3>1, PrimitivesAre DEF SentType, NewType
      <3>3. w \in Bytes
        BY <2>3, NumbersAre, BothBytes
      <3>4. ValueOf(class, v) = v
        <4>1. class # Class("String", 0)
          BY <2>3 DEF Class
        <4> QED BY <1>4, <2>3, <4>1 DEF ValueOf
      <3>5. ObjectBytes(class, t, v) = Joined(<<Ok(<<CharD>>), Ok(w)>>)
        BY <1>4, <3>2, ObjectBytesIs
      <3>6. SentAs(t, <<CharD>> \o w, <<x>>)
        BY <2>3, <3>1, <3>3, PlainSent
      <3> HIDE DEF w
      <3>7. ObjectBytes(class, t, v) = Ok(<<CharD>> \o w)
        BY <1>2, <3>3, <3>5, JoinedTwo
      <3> QED BY <2>1, <3>2, <3>4, <3>6, <3>7 DEF Tells
    <2>4. CASE /\ class.ndims = 0 /\ class.elem \in DOMAIN Primitive
               /\ x \in Bytes /\ Len(x) = Width[Primitive[class.elem]]
      <3> DEFINE d == Primitive[class.elem]
      <3>1. t = NewType(d, <<>>)
        BY <1>1, <1>4, <2>4, TypeOfIs
      <3>2. d \in DOMAIN Width /\ class.elem # "String"
        BY <2>4, PrimitivesAre
      <3> HIDE DEF d
      <3>3. SentType(t) /\ t.data = d
        BY <3>1, <3>2, PrimitivesAre DEF SentType, NewType
      <3>4. ValueOf(class, v) = v
        <4>1. class # Class("String", 0) /\ ~(class.ndims > 0)
          BY <2>4, <3>2 DEF Class
        <4> QED BY <1>4, <4>1 DEF ValueOf
      <3>5. ObjectBytes(class, t, v) = Joined(<<Ok(<<CharD>>), Ok(x)>>)
        BY <1>4, <3>2, <3>3, ObjectBytesIs
      <3>6. Len(x) = Width[d]
        BY <2>4 DEF d
      <3>7. SentAs(t, <<CharD>> \o x, <<x>>)
        BY <2>4, <3>1, <3>2, <3>6, PlainSent
      <3>8. ObjectBytes(class, t, v) = Ok(<<CharD>> \o x)
        BY <1>2, <2>4, <3>5, JoinedTwo
      <3> QED BY <2>1, <3>3, <3>4, <3>7, <3>8 DEF Tells
    <2>5. CASE /\ class.ndims > 0 /\ class.elem \in DOMAIN Primitive
               /\ ArrayFits(class.elem, x, class.ndims)
      <3> DEFINE d == Primitive[class.elem]
                 n == class.ndims
                 dims == Shape(x, n)
                 elements == Elements(x, n)
                 w == ArrayWritten(dims, elements)
      <3>1. t = ArrayOf(d)
        BY <1>1, <1>4, <2>5, TypeOfIs
      <3>2. d \in DOMAIN Width /\ class.elem # "String" /\ class.elem # "byte"
        BY <2>5, PrimitivesAre
      <3> HIDE DEF d
      <3>3. IsPlain(d)
        BY <3>2, PrimitivesAre
      <3>4. SentType(t) /\ t.data = "array"
        BY <3>1, <3>3, JavaTypeIs DEF SentType
      <3>5. ObjectBytes(class, t, v) = Joined(<<Ok(<<CharD>>), ArrayBytes(x, n)>>)
        BY <1>4, <3>4, ObjectBytesIs
      <3>6. CASE ArrayBytes(x, n) = Failed
        <4>1. ObjectBytes(class, t, v) = Failed
          BY <1>2, <3>5, <3>6, JoinedTwo
        <4> QED BY <3>4, <4>1 DEF Tells
      <3>7. CASE ArrayBytes(x, n) # Failed
        <4>1. ArrayTells(d, dims, elements) /\ ArrayBytes(x, n) = Ok(w)
          BY <2>5, <3>7, ArrayBytesIs DEF d
        <4>2. ValueOf(class, v) = Holding(dims, elements)
          <5>1. class # Class("String", 0) /\ class # Class("byte", 1)
            BY <3>2 DEF Class
          <5> QED BY <1>4, <2>5, <5>1 DEF ValueOf, Holding, Items
        <4> HIDE DEF dims, elements
        <4>3. w \in Bytes
          BY <4>1, ArrayWrittenBytes
        <4>4. SentAs(ArrayOf(d), <<CharD>> \o w, Holding(dims, elements))
          BY <3>2, <4>1, ArraySent
        <4> HIDE DEF w
        <4>5. ObjectBytes(class, t, v) = Ok(<<CharD>> \o w)
          BY <1>2, <3>5, <4>1, <4>3, JoinedTwo
        <4> QED BY <3>1, <3>4, <4>2, <4>4, <4>5 DEF Tells
      <3> QED BY <3>6, <3>7
    <2> QED BY <1>4, <2>2, <2>3, <2>4, <2>5 DEF ValueFits
  <1> QED BY <1>3, <1>4

-----------------------------------------------------------------------------
(* Messages.                                                               *)

\* The backend reads m of p.
Understood(p, m) ==
    /\ p \in Bytes /\ Len(p) >= 1
    /\ \A b \in Bytes : \A q \in 0..Len(b) :
          Comes(b, q, p) => Gets(ReadMessage(b, q), b, q, p, m)

\* What follows the byte n of a message.
ReadAfter(b, q, n) ==
    CASE n = CharR -> ReadResult(b, q)
      [] n = CharE -> ReadException(b, q)
      [] n = CharL -> ReadLog(b, q)
      [] OTHER -> Throws(q)

LEMMA MessageIs ==
    ASSUME NEW n \in 0..255, NEW s \in Bytes, NEW m,
           \A b \in Bytes : \A q \in 0..Len(b) :
              Comes(b, q, s) => Gets(ReadAfter(b, q, n), b, q, s, m)
    PROVE  Understood(<<n>> \o s, m)
  <1> DEFINE k == <<n>>
  <1>1. k \in Bytes /\ Len(k) = 1
    BY OneByte
  <1>2. k \o s \in Bytes /\ Len(k \o s) = Len(k) + Len(s) /\ Len(s) \in Nat
    BY <1>1, BothBytes
  <1>3. Len(k \o s) >= 1
    <2> DEFINE w == k \o s
    <2>1. Len(w) = 1 + Len(s) /\ Len(s) \in Nat
      BY <1>1, <1>2
    <2> HIDE DEF w
    <2> QED BY <2>1 DEF w
  <1>4. ASSUME NEW b \in Bytes, NEW q \in 0..Len(b), Comes(b, q, k \o s)
        PROVE  Gets(ReadMessage(b, q), b, q, k \o s, m)
    <2> DEFINE r == ReadByte(b, q)
               next == ReadAfter(b, r.at, r.got)
    <2>1. Comes(b, q, k) /\ Comes(b, q + Len(k), s)
      BY <1>1, <1>4, ComesBoth
    <2>2. Gets(r, b, q, k, n)
      BY <2>1, ByteGets
    <2>3. ReadMessage(b, q) = IF r.is = "done" THEN next ELSE r
      BY Zenon DEF ReadMessage, Then, ReadAfter
    <2> HIDE DEF k
    <2>4. ASSUME q + Len(k) \in 0..Len(b), r = Done(q + Len(k), n)
          PROVE  Gets(next, b, q + Len(k), s, m)
      <3>1. r.at = q + Len(k) /\ r.got = n
        BY <2>4, WaysToEnd
      <3> HIDE DEF r
      <3>2. Gets(ReadAfter(b, q + Len(k), n), b, q + Len(k), s, m)
        BY <2>1, <2>4
      <3> QED BY <3>1, <3>2
    <2> HIDE DEF r, next
    <2>5. Gets(IF r.is = "done" THEN next ELSE r, b, q, k \o s, m)
      BY <1>1, <2>2, <2>4, ThenGets
    <2> QED BY <2>3, <2>5
  <1> HIDE DEF k
  <1>5. Understood(k \o s, m)
    BY <1>2, <1>3, <1>4 DEF Understood
  <1> QED BY <1>5 DEF k

LEMMA MessageBytes ==
    /\ CharR \in 0..255 /\ CharE \in 0..255 /\ CharL \in 0..255
    /\ \A b, q : /\ ReadAfter(b, q, CharR) = ReadResult(b, q)
                 /\ ReadAfter(b, q, CharE) = ReadException(b, q)
                 /\ ReadAfter(b, q, CharL) = ReadLog(b, q)
  <1>1. /\ CharR \in 0..255 /\ CharE \in 0..255 /\ CharL \in 0..255
        /\ CharR # CharE /\ CharR # CharL /\ CharE # CharL
    BY DEF CharR, CharE, CharL
  <1>2. ASSUME NEW b, NEW q
        PROVE  /\ ReadAfter(b, q, CharR) = ReadResult(b, q)
               /\ ReadAfter(b, q, CharE) = ReadException(b, q)
               /\ ReadAfter(b, q, CharL) = ReadLog(b, q)
    BY <1>1, Zenon DEF ReadAfter
  <1> QED BY <1>1, <1>2

\* A line of the log.
LEMMA LogUnderstood ==
    ASSUME NEW level \in Int32s, NEW text, TextFits(text)
    PROVE  Understood(LogBytes(level, text), LogMessage(level, TextOf(text)))
  <1> DEFINE k == <<CharL>>
             x == Int32(level)
             s == TextOf(text)
             y == CString(s)
             m == LogMessage(level, s)
  <1>1. StringFits(s) /\ StringBytes(text) = y
    BY TextIsSent
  <1>2. k \in Bytes /\ x \in Bytes /\ y \in Bytes
    BY <1>1, MessageBytes, OneByte, NumbersAre, CStringBytes
  <1>3. LogBytes(level, text) = k \o (x \o y)
    <2>1. LogBytes(level, text) = (k \o x) \o y
      BY <1>1 DEF LogBytes
    <2> HIDE DEF k, x, y
    <2> QED BY <1>2, <2>1, Regrouped
  <1>4. x \o y \in Bytes
    BY <1>2, BothBytes
  <1>5. ASSUME NEW b \in Bytes, NEW q \in 0..Len(b), Comes(b, q, x \o y)
        PROVE  Gets(ReadAfter(b, q, CharL), b, q, x \o y, m)
    <2> DEFINE r1 == ReadInt(b, q, 4)
               r2 == ReadCString(b, r1.at)
               made == Done(r2.at, LogMessage(r1.got, r2.got))
               next == IF r2.is = "done" THEN made ELSE r2
    <2>1. ReadLog(b, q) = IF r1.is = "done" THEN next ELSE r1
      BY Zenon DEF ReadLog, Then
    <2> HIDE DEF x, y
    <2>2. Comes(b, q, x) /\ Comes(b, q + Len(x), y)
      BY <1>2, <1>5, ComesBoth
    <2>3. Gets(r1, b, q, x, level)
      BY <2>2, IntGets DEF x
    <2>4. ASSUME q + Len(x) \in 0..Len(b), r1 = Done(q + Len(x), level)
          PROVE  Gets(next, b, q + Len(x), y, m)
      <3> DEFINE p == q + Len(x)
      <3>1. r1.at = p /\ r1.got = level
        BY <2>4, WaysToEnd
      <3>2. p \in 0..Len(b) /\ Comes(b, p, y)
        BY <2>2, <2>4
      <3> HIDE DEF p, r1
      <3>3. r2 = ReadCString(b, p)
        BY <3>1
      <3>4. Gets(r2, b, p, y, s)
        BY <1>1, <3>2, <3>3, CStringGets DEF y
      <3> HIDE DEF r2
      <3>5. ASSUME r2 = Done(p + Len(y), s) PROVE made = Done(p + Len(y), m)
        <4>1. r2.at = p + Len(y) /\ r2.got = s
          BY <3>5, WaysToEnd
        <4> QED BY <3>1, <4>1
      <3> HIDE DEF made, m
      <3>6. Gets(next, b, p, y, m)
        BY <1>2, <3>2, <3>4, <3>5, ThenMakes
      <3> QED BY <3>6 DEF p
    <2> HIDE DEF r1, next, m
    <2>5. Gets(IF r1.is = "done" THEN next ELSE r1, b, q, x \o y, m)
      BY <1>2, <2>2, <2>3, <2>4, ThenGets
    <2> QED BY <2>1, <2>5, MessageBytes
  <1> HIDE DEF x, y, m
  <1>6. Understood(<<CharL>> \o (x \o y), m)
    BY <1>4, <1>5, MessageBytes, MessageIs
  <1> QED BY <1>3, <1>6 DEF m

\* An exception, with its stack trace.
LEMMA ExceptionUnderstood ==
    ASSUME NEW text, TextFits(text), NEW trace, TextFits(trace)
    PROVE  Understood(ExceptionBytes(text, trace), ErrorMessage(TextOf(text), TextOf(trace)))
  <1> DEFINE k == <<CharE>>
             s == TextOf(text)
             t == TextOf(trace)
             x == CString(s)
             y == CString(t)
             m == ErrorMessage(s, t)
  <1>1. StringFits(s) /\ StringBytes(text) = x /\ StringFits(t) /\ StringBytes(trace) = y
    BY TextIsSent
  <1>2. k \in Bytes /\ x \in Bytes /\ y \in Bytes
    BY <1>1, MessageBytes, OneByte, CStringBytes
  <1>3. ExceptionBytes(text, trace) = k \o (x \o y)
    <2>1. ExceptionBytes(text, trace) = (k \o x) \o y
      BY <1>1 DEF ExceptionBytes
    <2> HIDE DEF k, x, y
    <2> QED BY <1>2, <2>1, Regrouped
  <1>4. x \o y \in Bytes
    BY <1>2, BothBytes
  <1>5. ASSUME NEW b \in Bytes, NEW q \in 0..Len(b), Comes(b, q, x \o y)
        PROVE  Gets(ReadAfter(b, q, CharE), b, q, x \o y, m)
    <2> DEFINE r1 == ReadCString(b, q)
               r2 == ReadCString(b, r1.at)
               made == Done(r2.at, ErrorMessage(r1.got, r2.got))
               next == IF r2.is = "done" THEN made ELSE r2
    <2>1. ReadException(b, q) = IF r1.is = "done" THEN next ELSE r1
      BY Zenon DEF ReadException, Then
    <2> HIDE DEF x, y
    <2>2. Comes(b, q, x) /\ Comes(b, q + Len(x), y)
      BY <1>2, <1>5, ComesBoth
    <2>3. Gets(r1, b, q, x, s)
      BY <1>1, <2>2, CStringGets DEF x
    <2>4. ASSUME q + Len(x) \in 0..Len(b), r1 = Done(q + Len(x), s)
          PROVE  Gets(next, b, q + Len(x), y, m)
      <3> DEFINE p == q + Len(x)
      <3>1. r1.at = p /\ r1.got = s
        BY <2>4, WaysToEnd
      <3>2. p \in 0..Len(b) /\ Comes(b, p, y)
        BY <2>2, <2>4
      <3> HIDE DEF p, r1
      <3>3. r2 = ReadCString(b, p)
        BY <3>1
      <3>4. Gets(r2, b, p, y, t)
        BY <1>1, <3>2, <3>3, CStringGets DEF y
      <3> HIDE DEF r2
      <3>5. ASSUME r2 = Done(p + Len(y), t) PROVE made = Done(p + Len(y), m)
        <4>1. r2.at = p + Len(y) /\ r2.got = t
          BY <3>5, WaysToEnd
        <4> QED BY <3>1, <4>1
      <3> HIDE DEF made, m
      <3>6. Gets(next, b, p, y, m)
        BY <1>2, <3>2, <3>4, <3>5, ThenMakes
      <3> QED BY <3>6 DEF p
    <2> HIDE DEF r1, next, m
    <2>5. Gets(IF r1.is = "done" THEN next ELSE r1, b, q, x \o y, m)
      BY <1>2, <2>2, <2>3, <2>4, ThenGets
    <2> QED BY <2>1, <2>5, MessageBytes
  <1> HIDE DEF x, y, m
  <1>6. Understood(<<CharE>> \o (x \o y), m)
    BY <1>4, <1>5, MessageBytes, MessageIs
  <1> QED BY <1>3, <1>6 DEF m

\* The parts of a result: its column, its row, and the byte after them.
LEMMA ColumnGets ==
    ASSUME NEW b \in Bytes, NEW from \in 0..Len(b), NEW t, SentType(t),
           NEW name, StringFits(name),
           Comes(b, from, JavaTypeBytes(t) \o CString(name))
    PROVE  Gets(ReadColumn(b, from), b, from, JavaTypeBytes(t) \o CString(name), <<t, name>>)
  <1> DEFINE x == JavaTypeBytes(t)
             y == CString(name)
             both == <<t, name>>
             r1 == ReadType(b, from)
             r2 == ReadCString(b, r1.at)
             made == Done(r2.at, <<r1.got, r2.got>>)
             next == IF r2.is = "done" THEN made ELSE r2
  <1>1. x \in Bytes /\ y \in Bytes
    BY SentTypeBytes, CStringBytes
  <1>2. ReadColumn(b, from) = IF r1.is = "done" THEN next ELSE r1
    BY Zenon DEF ReadColumn, Then
  <1> HIDE DEF x, y
  <1>3. Comes(b, from, x) /\ Comes(b, from + Len(x), y)
    BY <1>1, ComesBoth DEF x, y
  <1>4. Gets(r1, b, from, x, t)
    BY <1>3, SentTypeGets DEF x
  <1>5. ASSUME from + Len(x) \in 0..Len(b), r1 = Done(from + Len(x), t)
        PROVE  Gets(next, b, from + Len(x), y, both)
    <2> DEFINE p == from + Len(x)
    <2>1. r1.at = p /\ r1.got = t
      BY <1>5, WaysToEnd
    <2>2. p \in 0..Len(b) /\ Comes(b, p, y)
      BY <1>3, <1>5
    <2> HIDE DEF p, r1
    <2>3. r2 = ReadCString(b, p)
      BY <2>1
    <2>4. Gets(r2, b, p, y, name)
      BY <2>2, <2>3, CStringGets DEF y
    <2> HIDE DEF r2
    <2>5. ASSUME r2 = Done(p + Len(y), name) PROVE made = Done(p + Len(y), both)
      <3>1. r2.at = p + Len(y) /\ r2.got = name
        BY <2>5, WaysToEnd
      <3> QED BY <2>1, <3>1
    <2> HIDE DEF made, both
    <2>6. Gets(next, b, p, y, both)
      BY <1>1, <2>2, <2>4, <2>5, ThenMakes
    <2> QED BY <2>6 DEF p
  <1> HIDE DEF r1, next, both
  <1>6. Gets(IF r1.is = "done" THEN next ELSE r1, b, from, x \o y, both)
    BY <1>1, <1>3, <1>4, <1>5, ThenGets
  <1> QED BY <1>2, <1>6 DEF x, y, both

\* One column of type t with this name.
OneColumn(t, name) == << <<t, name>> >>

LEMMA OneColumnIs ==
    ASSUME NEW t, NEW name
    PROVE  /\ OneColumn(t, name) # <<>> /\ DOMAIN OneColumn(t, name) = 1..1
           /\ OneColumn(t, name)[1][1] = t /\ OneColumn(t, name)[1][2] = name
           /\ [j \in DOMAIN OneColumn(t, name) |-> OneColumn(t, name)[j][1]] = <<t>>
           /\ [j \in DOMAIN OneColumn(t, name) |-> OneColumn(t, name)[j][2]] = <<name>>
  <1> DEFINE c == OneColumn(t, name)
  <1>1. c # <<>> /\ DOMAIN c = 1..1 /\ c[1][1] = t /\ c[1][2] = name
    BY DEF OneColumn
  <1> HIDE DEF c
  <1>2. [j \in DOMAIN c |-> c[j][1]] = [j \in 1..1 |-> t]
    BY <1>1
  <1>3. [j \in DOMAIN c |-> c[j][2]] = [j \in 1..1 |-> name]
    BY <1>1
  <1>4. \A x : [j \in 1..1 |-> x] = <<x>>
    OBVIOUS
  <1>5. [j \in DOMAIN c |-> c[j][1]] = <<t>> /\ [j \in DOMAIN c |-> c[j][2]] = <<name>>
    BY <1>2, <1>3, <1>4
  <1> QED BY <1>1, <1>5 DEF c

LEMMA RowGets ==
    ASSUME NEW b \in Bytes, NEW from \in 0..Len(b), NEW t, NEW name, NEW o, NEW got,
           SentAs(t, o, got), Comes(b, from, o)
    PROVE  Gets(ReadRows(b, from, 1, OneColumn(t, name)), b, from, o, <<<<got>>>>)
  <1> DEFINE c == OneColumn(t, name)
             objects == [j \in DOMAIN c |-> Objects(b, c[j][1])]
             f == RowReader(b, c)
             fs == Times(Capped(1, Readable(b, from)), f)
  <1>1. c # <<>> /\ DOMAIN c = 1..1 /\ c[1][1] = t
    BY OneColumnIs
  <1>2. o \in Bytes /\ Gets(Objects(b, t)[from], b, from, o, got)
    BY DEF SentAs
  <1> HIDE DEF c
  <1>3. f[from] = Each(from, objects)
    BY DEF RowReader, Places
  <1>4. Len(objects) = 1 /\ objects[1] = Objects(b, t)
    <2>1. objects = [j \in 1..1 |-> Objects(b, c[j][1])]
      BY <1>1
    <2>2. Len(objects) = 1 /\ objects[1] = Objects(b, c[1][1])
      BY <2>1
    <2> QED BY <1>1, <2>2
  <1> HIDE DEF objects
  <1>5. Gets(objects[1][from], b, from, o, got)
    BY <1>2, <1>4
  <1>6. Gets(f[from], b, from, o, <<got>>)
    BY <1>2, <1>3, <1>4, <1>5, OneGets
  <1>7. ReadRows(b, from, 1, c) = Each(from, fs)
    BY <1>1, Zenon DEF ReadRows
  <1>8. Len(fs) = 1 /\ fs[1] = f
    <2>1. Readable(b, from) \in Nat
      BY BytesLen DEF Readable
    <2> HIDE DEF f
    <2> QED BY <2>1, OneTime
  <1> DEFINE row == <<got>>
  <1> HIDE DEF f, fs, row
  <1>9. Gets(fs[1][from], b, from, o, row)
    BY <1>6, <1>8 DEF row
  <1>10. Gets(Each(from, fs), b, from, o, <<row>>)
    BY <1>2, <1>8, <1>9, OneGets
  <1> QED BY <1>7, <1>10 DEF row, c

LEMMA EndGets ==
    ASSUME NEW b \in Bytes, NEW from \in 0..Len(b), NEW t, NEW name, NEW rows,
           Comes(b, from, <<CharN>>)
    PROVE  Gets(ReadEnd(b, from, OneColumn(t, name), rows), b, from, <<CharN>>,
                ResultMessage(<<t>>, <<name>>, rows))
  <1> DEFINE k == <<CharN>>
             c == OneColumn(t, name)
             r == ReadByte(b, from)
             made(a) == Done(a, ResultMessage([j \in DOMAIN c |-> c[j][1]],
                                              [j \in DOMAIN c |-> c[j][2]], rows))
             next == IF r.got = CharE THEN ReadException(b, r.at) ELSE made(r.at)
             m == ResultMessage(<<t>>, <<name>>, rows)
  <1>1. k \in Bytes /\ Gets(r, b, from, k, CharN)
    BY CharsAre, ByteGets
  <1>2. ReadEnd(b, from, c, rows) = IF r.is = "done" THEN next ELSE r
    BY Zenon DEF ReadEnd, Then
  <1>3. \A a : made(a) = Done(a, m)
    BY OneColumnIs
  <1>4. CharN # CharE
    BY DEF CharN, CharE
  <1> HIDE DEF k, c, made, m
  <1>5. ASSUME r = Done(from + Len(k), CharN) PROVE next = Done(from + Len(k), m)
    <2>1. r.at = from + Len(k) /\ r.got = CharN
      BY <1>5, WaysToEnd
    <2> HIDE DEF r
    <2> QED BY <1>3, <1>4, <2>1
  <1> HIDE DEF r, next
  <1>6. Gets(IF r.is = "done" THEN next ELSE r, b, from, k, m)
    BY <1>1, <1>5, ThenMakes
  <1> QED BY <1>2, <1>6 DEF k, c, m

\* What receive_result does after its counts, and after its columns.
AfterColumns(b, q, n, columns) ==
    LET data == ReadRows(b, q, n, columns) IN
    IF data.is = "done" THEN ReadEnd(b, data.at, columns, data.got) ELSE data

AfterCounts(b, q, n, cols) ==
    LET columns == Each(q, Times(Capped(cols, Readable(b, q)), ColumnReader(b))) IN
    IF columns.is = "done" THEN AfterColumns(b, columns.at, n, columns.got) ELSE columns

LEMMA AfterColumnsGets ==
    ASSUME NEW b \in Bytes, NEW from \in 0..Len(b), NEW t, NEW name, NEW o, NEW got,
           SentAs(t, o, got), Comes(b, from, o \o <<CharN>>)
    PROVE  Gets(AfterColumns(b, from, 1, OneColumn(t, name)), b, from, o \o <<CharN>>,
                ResultMessage(<<t>>, <<name>>, <<<<got>>>>))
  <1> DEFINE k == <<CharN>>
             c == OneColumn(t, name)
             rows == <<<<got>>>>
             m == ResultMessage(<<t>>, <<name>>, rows)
             r == ReadRows(b, from, 1, c)
             next == ReadEnd(b, r.at, c, r.got)
  <1>1. o \in Bytes /\ k \in Bytes
    BY CharsAre, OneByte DEF SentAs
  <1>2. AfterColumns(b, from, 1, c) = IF r.is = "done" THEN next ELSE r
    BY Zenon DEF AfterColumns
  <1> HIDE DEF k
  <1>3. Comes(b, from, o) /\ Comes(b, from + Len(o), k)
    BY <1>1, ComesBoth DEF k
  <1>4. Gets(r, b, from, o, rows)
    BY <1>3, RowGets
  <1>5. ASSUME from + Len(o) \in 0..Len(b), r = Done(from + Len(o), rows)
        PROVE  Gets(next, b, from + Len(o), k, m)
    <2> DEFINE p == from + Len(o)
    <2>1. r.at = p /\ r.got = rows
      BY <1>5, WaysToEnd
    <2>2. p \in 0..Len(b) /\ Comes(b, p, <<CharN>>)
      BY <1>3, <1>5 DEF k
    <2> HIDE DEF p, r, rows, c
    <2>3. next = ReadEnd(b, p, c, rows)
      BY <2>1
    <2>4. Gets(ReadEnd(b, p, c, rows), b, p, <<CharN>>, m)
      BY <2>2, EndGets DEF c
    <2> QED BY <2>3, <2>4 DEF p, k
  <1> HIDE DEF r, next, m, rows, c
  <1>6. Gets(IF r.is = "done" THEN next ELSE r, b, from, o \o k, m)
    BY <1>1, <1>4, <1>5, ThenGets
  <1> QED BY <1>2, <1>6 DEF k, c, m, rows

LEMMA AfterCountsGets ==
    ASSUME NEW b \in Bytes, NEW from \in 0..Len(b), NEW t, SentType(t),
           NEW name, StringFits(name), NEW o, NEW got, SentAs(t, o, got),
           Comes(b, from, (JavaTypeBytes(t) \o CString(name)) \o (o \o <<CharN>>))
    PROVE  Gets(AfterCounts(b, from, 1, 1), b, from,
                (JavaTypeBytes(t) \o CString(name)) \o (o \o <<CharN>>),
                ResultMessage(<<t>>, <<name>>, <<<<got>>>>))
  <1> DEFINE x == JavaTypeBytes(t) \o CString(name)
             y == o \o <<CharN>>
             m == ResultMessage(<<t>>, <<name>>, <<<<got>>>>)
             one == <<t, name>>
             c == OneColumn(t, name)
             fs == Times(Capped(1, Readable(b, from)), ColumnReader(b))
             r == Each(from, fs)
             next == AfterColumns(b, r.at, 1, r.got)
  <1>1. x \in Bytes /\ y \in Bytes
    <2>1. o \in Bytes /\ <<CharN>> \in Bytes
      BY CharsAre, OneByte DEF SentAs
    <2>2. JavaTypeBytes(t) \in Bytes /\ CString(name) \in Bytes
      BY SentTypeBytes, CStringBytes
    <2> QED BY <2>1, <2>2, BothBytes
  <1>2. AfterCounts(b, from, 1, 1) = IF r.is = "done" THEN next ELSE r
    BY Zenon DEF AfterCounts
  <1>3. ColumnReader(b)[from] = ReadColumn(b, from)
    BY DEF ColumnReader, Places
  <1> HIDE DEF x, y
  <1>4. Comes(b, from, x) /\ Comes(b, from + Len(x), y)
    BY <1>1, ComesBoth DEF x, y
  <1>5. Gets(r, b, from, x, c)
    <2>1. Len(fs) = 1 /\ fs[1] = ColumnReader(b)
      <3>1. Readable(b, from) \in Nat
        BY BytesLen DEF Readable
      <3> QED BY <3>1, OneTime
    <2> HIDE DEF fs
    <2>2. Gets(ReadColumn(b, from), b, from, x, one)
      BY <1>4, ColumnGets DEF x
    <2>3. Gets(fs[1][from], b, from, x, one)
      BY <1>3, <2>1, <2>2
    <2> HIDE DEF one
    <2>4. Gets(Each(from, fs), b, from, x, <<one>>)
      BY <1>1, <2>1, <2>3, OneGets
    <2> QED BY <2>4 DEF OneColumn, one
  <1>6. ASSUME from + Len(x) \in 0..Len(b), r = Done(from + Len(x), c)
        PROVE  Gets(next, b, from + Len(x), y, m)
    <2> DEFINE p == from + Len(x)
    <2>1. r.at = p /\ r.got = c
      BY <1>6, WaysToEnd
    <2>2. p \in 0..Len(b) /\ Comes(b, p, o \o <<CharN>>)
      BY <1>4, <1>6 DEF y
    <2> HIDE DEF p, r, c, m
    <2>3. next = AfterColumns(b, p, 1, c)
      BY <2>1
    <2>4. Gets(AfterColumns(b, p, 1, c), b, p, o \o <<CharN>>, m)
      BY <2>2, AfterColumnsGets DEF c, m
    <2> QED BY <2>3, <2>4 DEF p, y
  <1> HIDE DEF r, next, m, c
  <1>7. Gets(IF r.is = "done" THEN next ELSE r, b, from, x \o y, m)
    BY <1>1, <1>5, <1>6, ThenGets
  <1> QED BY <1>2, <1>7 DEF x, y, m

LEMMA ResultGets ==
    ASSUME NEW b \in Bytes, NEW from \in 0..Len(b), NEW m, NEW z \in Bytes,
           Comes(b, from, Int32(1) \o (Int32(1) \o z)),
           \A q \in 0..Len(b) : Comes(b, q, z) => Gets(AfterCounts(b, q, 1, 1), b, q, z, m)
    PROVE  Gets(ReadResult(b, from), b, from, Int32(1) \o (Int32(1) \o z), m)
  <1> DEFINE k == Int32(1)
             r1 == ReadInt(b, from, 4)
             r2 == ReadInt(b, r1.at, 4)
             rest == IF r2.got < 0 THEN Throws(r2.at) ELSE AfterCounts(b, r2.at, r1.got, r2.got)
             next == IF r2.is = "done" THEN rest ELSE r2
  <1>1. k \in Bytes /\ 1 \in Int32s
    BY NumbersAre
  <1>2. ReadResult(b, from) = IF r1.is = "done" THEN next ELSE r1
    BY Zenon DEF ReadResult, Then, AfterCounts, AfterColumns
  <1> HIDE DEF k
  <1>3. k \o z \in Bytes
    BY <1>1, BothBytes
  <1>4. Comes(b, from, k) /\ Comes(b, from + Len(k), k \o z)
    BY <1>1, <1>3, ComesBoth DEF k
  <1>5. Gets(r1, b, from, k, 1)
    BY <1>1, <1>4, IntGets DEF k
  <1>6. ASSUME from + Len(k) \in 0..Len(b), r1 = Done(from + Len(k), 1)
        PROVE  Gets(next, b, from + Len(k), k \o z, m)
    <2> DEFINE p == from + Len(k)
    <2>1. r1.at = p /\ r1.got = 1
      BY <1>6, WaysToEnd
    <2>2. p \in 0..Len(b) /\ Comes(b, p, k \o z)
      BY <1>4, <1>6
    <2> HIDE DEF p, r1
    <2>3. r2 = ReadInt(b, p, 4)
      BY <2>1
    <2>4. Comes(b, p, k) /\ Comes(b, p + Len(k), z)
      BY <1>1, <2>2, ComesBoth
    <2>5. Gets(r2, b, p, k, 1)
      BY <1>1, <2>2, <2>3, <2>4, IntGets DEF k
    <2> HIDE DEF r2
    <2>6. ASSUME p + Len(k) \in 0..Len(b), r2 = Done(p + Len(k), 1)
          PROVE  Gets(rest, b, p + Len(k), z, m)
      <3>1. r2.at = p + Len(k) /\ r2.got = 1
        BY <2>6, WaysToEnd
      <3>2. rest = AfterCounts(b, p + Len(k), 1, 1)
        BY <2>1, <3>1
      <3> HIDE DEF rest
      <3> QED BY <2>4, <2>6, <3>2
    <2> HIDE DEF rest
    <2>7. Gets(next, b, p, k \o z, m)
      BY <1>1, <2>2, <2>5, <2>6, ThenGets
    <2> QED BY <2>7 DEF p
  <1> HIDE DEF r1, next
  <1>7. Gets(IF r1.is = "done" THEN next ELSE r1, b, from, k \o (k \o z), m)
    BY <1>1, <1>3, <1>5, <1>6, ThenGets
  <1> QED BY <1>2, <1>7 DEF k

\* A result has one type.
LEMMA OneType ==
    ASSUME NEW class, NEW v, ResultType(class, v) # Failed
    PROVE  ResultType(class, v) = <<ResultType(class, v)[1]>>
  <1> DEFINE Whole(o) == o = Failed \/ \E x : o = Ok(x)
  <1>1. ASSUME NEW o, Whole(o), o # Failed PROVE o = <<o[1]>>
    <2>1. PICK x : o = Ok(x)
      BY <1>1
    <2> QED BY <2>1 DEF Ok
  <1>2. Whole(ElementType(class))
    BY DEF ElementType
  <1>3. Whole(TypeOf(class))
    <2> DEFINE primitive == class.ndims = 0 /\ class.elem \in DOMAIN Primitive
               string == class = Class("String", 0)
               bytes == class = Class("byte", 1)
               array == class.ndims > 0 /\ class # Class("byte", 1)
               a == Ok(NewType(Primitive[class.elem], <<>>))
               b == Ok(NewType("text", <<>>))
               c == Ok(NewType("bytea", <<>>))
               d == IF ElementType(class) = Failed THEN Failed
                    ELSE Ok(NewType("array", ElementType(class)))
               e == Ok(NewType("udt", <<>>))
    <2>1. TypeOf(class) = CASE primitive -> a [] string -> b [] bytes -> c [] array -> d
                            [] OTHER -> e
      BY Zenon DEF TypeOf
    <2>2. Whole(a) /\ Whole(b) /\ Whole(c) /\ Whole(d) /\ Whole(e)
      OBVIOUS
    <2> HIDE DEF a, b, c, d, e, Whole, primitive, string, bytes, array
    <2> QED BY <2>1, <2>2
  <1> HIDE DEF Whole
  <1>4. CASE v = <<>>
    <2>1. ResultType(class, v) = Ok(NewType("text", <<>>))
      BY <1>4 DEF ResultType
    <2> QED BY <2>1 DEF Ok
  <1>5. CASE v # <<>>
    <2>1. ResultType(class, v) = TypeOf(class)
      BY <1>5 DEF ResultType
    <2> QED BY <1>1, <1>3, <2>1
  <1> QED BY <1>4, <1>5

\* The result of a function, if its value can be sent.
LEMMA ResultUnderstood ==
    ASSUME NEW r, ValueFits(r.class, r.value), ResultType(r.class, r.value) # Failed,
           TextFits(<<Name>>), ResultBytes(Name, r.class, r.value) # Failed
    PROVE  \E p : /\ ResultBytes(Name, r.class, r.value) = Ok(p)
                  /\ Understood(p, ResultMeant(r))
  <1> DEFINE t == ResultType(r.class, r.value)[1]
             name == TextOf(<<Name>>)
             got == ValueOf(r.class, r.value)
             k == <<CharR>>
             i == Int32(1)
             x == JavaTypeBytes(t)
             y == CString(name)
             n == <<CharN>>
             h == k \o i \o i \o x \o y
             object == ObjectBytes(r.class, t, r.value)
             m == ResultMessage(<<t>>, <<name>>, <<<<got>>>>)
  <1>1. ResultType(r.class, r.value) = <<t>>
    BY OneType
  <1>2. ResultMeant(r) = m
    <2>1. name = <<FlattenSeq(Name)>>
      BY DEF TextOf
    <2> HIDE DEF name, t, got
    <2>2. <<name>> = <<<<FlattenSeq(Name)>>>>
      BY <2>1
    <2> QED BY <1>1, <2>2 DEF ResultMeant, got
  <1>3. StringFits(name) /\ StringBytes(<<Name>>) = y
    BY TextIsSent
  <1>4. Tells(r.class, t, r.value)
    BY ValueIsSent
  <1>5. SentType(t)
    BY <1>4 DEF Tells
  <1>6. k \in Bytes /\ i \in Bytes /\ x \in Bytes /\ y \in Bytes /\ n \in Bytes
    BY <1>3, <1>5, MessageBytes, CharsAre, OneByte, NumbersAre, SentTypeBytes, CStringBytes
  <1>7. ResultBytes(Name, r.class, r.value) = Joined(<<Ok(h), object, Ok(n)>>)
    BY <1>3, Zenon DEF ResultBytes
  <1> HIDE DEF k, i, x, y, n, t, name, got, m
  <1>8. /\ k \o i \in Bytes /\ (k \o i) \o i \in Bytes
        /\ ((k \o i) \o i) \o x \in Bytes /\ h \in Bytes
    <2>1. k \o i \in Bytes
      BY <1>6, BothBytes
    <2>2. (k \o i) \o i \in Bytes
      BY <1>6, <2>1, BothBytes
    <2>3. ((k \o i) \o i) \o x \in Bytes
      BY <1>6, <2>2, BothBytes
    <2> QED BY <1>6, <2>1, <2>2, <2>3, BothBytes
  <1>9. object # Failed
    <2> HIDE DEF h, object
    <2>1. Joined(<<Ok(h), Failed, Ok(n)>>) = Failed
      BY <1>6, <1>8, JoinedThree
    <2> QED BY <1>7, <2>1
  <1>10. PICK o : object = Ok(o) /\ SentAs(t, o, got)
    BY <1>4, <1>9 DEF Tells, got
  <1>11. o \in Bytes
    BY <1>10 DEF SentAs
  <1> DEFINE z == o \o n
             w == (x \o y) \o z
  <1>12. x \o y \in Bytes /\ z \in Bytes /\ w \in Bytes
    BY <1>6, <1>11, BothBytes
  <1>13. ResultBytes(Name, r.class, r.value) = Ok(h \o z)
    <2> HIDE DEF h, object
    <2>1. Joined(<<Ok(h), Ok(o), Ok(n)>>) = Ok(h \o (o \o n))
      <3>1. h \in Bytes /\ o \in Bytes /\ n \in Bytes
        BY <1>6, <1>8, <1>11
      <3> QED BY <3>1, JoinedThree
    <2> QED BY <1>7, <1>10, <2>1
  <1>14. h \o z = k \o (i \o (i \o w))
    <2> HIDE DEF z
    <2> DEFINE a == (k \o i) \o i
               c == x \o y
               j == i \o i
    <2>1. a \in Bytes /\ c \in Bytes /\ j \in Bytes
      BY <1>6, <1>8, <1>12, BothBytes
    <2>2. a = k \o j
      BY <1>6, Regrouped
    <2>3. h = (a \o x) \o y
      OBVIOUS
    <2> HIDE DEF h, a
    <2>4. (a \o x) \o y = a \o c
      <3>1. a \in Bytes /\ x \in Bytes /\ y \in Bytes
        BY <1>6, <2>1
      <3> QED BY <3>1, Regrouped
    <2> HIDE DEF c
    <2>5. (a \o c) \o z = a \o (c \o z) /\ c \o z \in Bytes
      <3>1. a \in Bytes /\ c \in Bytes /\ z \in Bytes
        BY <1>12, <2>1
      <3>2. c \o z \in Bytes
        BY <3>1, BothBytes
      <3>3. (a \o c) \o z = a \o (c \o z)
        BY <3>1, Regrouped
      <3> QED BY <3>2, <3>3
    <2> DEFINE v == c \o z
    <2>6. w = v /\ v \in Bytes
      BY <2>5 DEF c
    <2> HIDE DEF v, w
    <2>7. j \o v = i \o (i \o v)
      BY <1>6, <2>6, Regrouped
    <2> HIDE DEF j
    <2>8. (k \o j) \o v = k \o (j \o v)
      <3>1. k \in Bytes /\ j \in Bytes /\ v \in Bytes
        BY <1>6, <2>1, <2>6
      <3> QED BY <3>1, Regrouped
    <2>9. h \o z = a \o v
      BY <2>3, <2>4, <2>5 DEF v
    <2> QED BY <2>2, <2>6, <2>7, <2>8, <2>9
  <1>15. ASSUME NEW b \in Bytes, NEW q \in 0..Len(b), Comes(b, q, i \o (i \o w))
         PROVE  Gets(ReadAfter(b, q, CharR), b, q, i \o (i \o w), m)
    <2>1. ASSUME NEW p \in 0..Len(b), Comes(b, p, w)
          PROVE  Gets(AfterCounts(b, p, 1, 1), b, p, w, m)
      <3>1. Comes(b, p, (JavaTypeBytes(t) \o CString(name)) \o (o \o <<CharN>>))
        BY <2>1 DEF x, y, n
      <3>2. Gets(AfterCounts(b, p, 1, 1), b, p,
                 (JavaTypeBytes(t) \o CString(name)) \o (o \o <<CharN>>),
                 ResultMessage(<<t>>, <<name>>, <<<<got>>>>))
        BY <1>3, <1>5, <1>10, <3>1, AfterCountsGets
      <3> QED BY <3>2 DEF x, y, n, m
    <2> HIDE DEF w, z
    <2>2. Gets(ReadResult(b, q), b, q, i \o (i \o w), m)
      BY <1>12, <1>15, <2>1, ResultGets DEF i
    <2> QED BY <2>2, MessageBytes
  <1> HIDE DEF z, w
  <1>16. i \o (i \o w) \in Bytes
    BY <1>6, <1>12, BothBytes
  <1>17. Understood(<<CharR>> \o (i \o (i \o w)), m)
    BY <1>15, <1>16, MessageBytes, MessageIs
  <1> HIDE DEF h
  <1>18. Understood(h \o z, m)
    BY <1>14, <1>17 DEF k
  <1> QED BY <1>2, <1>13, <1>18

-----------------------------------------------------------------------------
(* The inductive invariant.                                                *)

\* A function whose texts have one byte for each character, and whose values
\* are no objects of a class the encoder does not know.
Fitting ==
    /\ TextFits(<<Name>>)
    /\ \A l \in LogLines : LineFits(l)
    /\ \A r \in Outcomes : OutcomeFits(r)

\* The encoder throws at none of the results, as it does at an array without
\* elements.
Sendable == \A r \in Results : Encoded[r] # Failed

\* Once the function has ended and all that was written has arrived, a backend
\* still in its receive loop has a whole message to read.
NothingAwaited == ~running /\ arrived = Len(wire) /\ receiving => Received.is = "done"

\* All that the function may say.
Sayable ==
    {LogMessage(l[1], TextOf(l[2])) : l \in LogLines}
    \cup {ExceptionMeant(r) : r \in Outcomes \cup {NotFound}}
    \cup {ResultMeant(r) : r \in Results}

\* What has been written is what has been said, one part for each message;
\* only the last one, that ends the call, may be lacking, if it is a result
\* that the encoder throws at.  The backend has
\* read as many parts as it has messages.
Carries(parts) ==
    /\ parts \in Seq(Bytes)
    /\ wire = FlattenSeq(parts)
    /\ Len(parts) <= Len(said)
    /\ running \/ Sendable => Len(parts) = Len(said)
    /\ \A i \in 1..Len(parts) : Understood(parts[i], said[i])
    /\ Len(messages) <= Len(parts)
    /\ at = LengthOf(parts, Len(messages))

\* What a function says last ends the receive loop.
Concluded == ~running => Len(said) > 0 /\ ~GoesOn(said[Len(said)])

ChannelInv ==
    /\ running \in BOOLEAN /\ receiving \in BOOLEAN
    /\ said \in Seq(Sayable) /\ messages \in Seq(Sayable)
    /\ \A i \in 1..Len(messages) : messages[i] = said[i]
    /\ arrived \in Nat /\ at \in Nat /\ at <= arrived /\ arrived <= Len(wire)
    /\ receiving => \A i \in 1..Len(messages) : GoesOn(messages[i])
    /\ Concluded
    /\ \E parts : Carries(parts)

\* What the server says next: it is written so that the backend understands it,
\* or the function has ended, with something that cannot be sent.
Says ==
    /\ running
    /\ \E m \in Sayable :
          /\ said' = Append(said, m)
          /\ running' \/ ~GoesOn(m)
          /\ \/ \E p : Understood(p, m) /\ wire' = wire \o p /\ running' \in BOOLEAN
             \/ wire' = wire /\ running' = FALSE /\ ~Sendable

\* What can be sent does not change.
LEMMA SendableStays == Sendable' <=> Sendable
  BY DEF Sendable, Encoded, Results

\* Errors and results end the receive loop.
LEMMA EndsLoop ==
    /\ \A text, trace : ~GoesOn(ErrorMessage(text, trace))
    /\ \A types, names, rows : ~GoesOn(ResultMessage(types, names, rows))
  BY DEF GoesOn, ErrorMessage, ResultMessage

LEMMA TracesFit == TextFits(Trace) /\ TextFits(NotFound.text)
  <1> DEFINE Chars == {<<byte>> : byte \in 0..255}
  <1>1. ASSUME NEW n \in 0..255
        PROVE  TextFits(<<<< <<n>> >>>>)
    <2> DEFINE x == <<n>>
               c == <<x>>
               s == <<c>>
    <2>1. x \in Chars
      OBVIOUS
    <2> HIDE DEF x, Chars
    <2>2. c \in Seq(Chars) /\ Len(c) = 1
      BY <2>1
    <2> HIDE DEF c
    <2>3. s # <<>> /\ s[1] = c /\ s = <<s[1]>>
      OBVIOUS
    <2> HIDE DEF s
    <2>4. TextFits(s)
      BY <2>2, <2>3, NumbersAre DEF TextFits, Chars
    <2> QED BY <2>4 DEF s, c, x
  <1>2. TextFits(Trace)
    BY <1>1 DEF Trace
  <1>3. TextFits(NotFound.text)
    <2>1. NotFound.text = <<<<<<76>>>>>>
      BY DEF NotFound, Raises
    <2> QED BY <1>1, <2>1
  <1> QED BY <1>2, <1>3

\* Each line of the log, and each end of the function, is said.
LEMMA LogSays ==
    ASSUME NEW l \in LogLines, LineFits(l), Log(l[1], l[2])
    PROVE  Says /\ UNCHANGED backendVars
  <1> DEFINE m == LogMessage(l[1], TextOf(l[2]))
             p == LogBytes(l[1], l[2])
  <1>1. m \in Sayable
    BY DEF Sayable
  <1>2. Understood(p, m)
    BY LogUnderstood DEF LineFits
  <1>3. /\ said' = Append(said, m) /\ running' = running /\ running
        /\ Write(Ok(p)) /\ UNCHANGED backendVars
    BY DEF Log
  <1> HIDE DEF m, p
  <1>4. wire' = wire \o p
    BY <1>3 DEF Write, Ok, Failed
  <1> QED BY <1>1, <1>2, <1>3, <1>4 DEF Says

LEMMA ThrowSays ==
    ASSUME NEW r \in Outcomes \cup {NotFound}, TextFits(r.text), Throw(r)
    PROVE  Says /\ UNCHANGED backendVars
  <1> DEFINE m == ExceptionMeant(r)
             p == ExceptionBytes(r.text, Trace)
  <1>1. m \in Sayable
    BY DEF Sayable
  <1>2. Understood(p, m)
    BY TracesFit, ExceptionUnderstood DEF ExceptionMeant
  <1>3. ~GoesOn(m)
    BY EndsLoop DEF ExceptionMeant
  <1>4. /\ running /\ said' = Append(said, m) /\ running' = FALSE
        /\ Write(Ok(p)) /\ UNCHANGED backendVars
    BY DEF Throw
  <1> HIDE DEF m, p
  <1>5. wire' = wire \o p
    BY <1>4 DEF Write, Ok, Failed
  <1> QED BY <1>1, <1>2, <1>3, <1>4, <1>5 DEF Says

LEMMA ReturnSays ==
    ASSUME NEW r \in Outcomes, OutcomeFits(r), TextFits(<<Name>>), Return(r)
    PROVE  Says /\ UNCHANGED backendVars
  <1> DEFINE m == ResultMeant(r)
             e == ResultBytes(Name, r.class, r.value)
  <1>1. r \in Results /\ r.ends = "returns" /\ ResultType(r.class, r.value) # Failed
    BY DEF Return, Results
  <1>2. ValueFits(r.class, r.value)
    BY <1>1 DEF OutcomeFits
  <1>3. m \in Sayable
    BY <1>1 DEF Sayable
  <1>4. Meant[r] = m /\ Encoded[r] = e
    BY <1>1 DEF Meant, Encoded
  <1>5. /\ running /\ said' = Append(said, m) /\ running' = FALSE
        /\ Write(e) /\ UNCHANGED backendVars
    BY <1>4 DEF Return
  <1>6. ~GoesOn(m)
    BY EndsLoop DEF ResultMeant
  <1>7. CASE e = Failed
    <2>1. wire' = wire
      BY <1>5, <1>7 DEF Write
    <2>2. ~Sendable
      BY <1>1, <1>4, <1>7 DEF Sendable
    <2> HIDE DEF m, e
    <2> QED BY <1>3, <1>5, <1>6, <2>1, <2>2 DEF Says
  <1>8. CASE e # Failed
    <2>1. PICK p : e = Ok(p) /\ Understood(p, m)
      BY <1>1, <1>2, <1>8, ResultUnderstood
    <2> HIDE DEF m, e
    <2>2. wire' = wire \o p
      BY <1>5, <1>8, <2>1 DEF Write, Ok
    <2> QED BY <1>3, <1>5, <1>6, <2>1, <2>2 DEF Says
  <1> QED BY <1>7, <1>8

LEMMA FinishSays ==
    ASSUME NEW r \in Outcomes, OutcomeFits(r), TextFits(<<Name>>), Finish(r)
    PROVE  Says /\ UNCHANGED backendVars
  <1>1. CASE r.ends = "throws"
    <2>1. TextFits(r.text) /\ Throw(r)
      BY <1>1 DEF OutcomeFits, Finish
    <2> QED BY <2>1, ThrowSays
  <1>2. CASE r.ends # "throws" /\ r \in Results
    <2>1. Return(r)
      BY <1>2 DEF Finish
    <2> QED BY <2>1, ReturnSays
  <1>3. CASE r.ends # "throws" /\ r \notin Results
    <2>1. Throw(NotFound)
      BY <1>3 DEF Finish
    <2> QED BY <2>1, TracesFit, ThrowSays
  <1> QED BY <1>1, <1>2, <1>3

\* One more part.
LEMMA OnePartMore ==
    ASSUME NEW parts \in Seq(Bytes), NEW p \in Bytes
    PROVE  /\ Append(parts, p) \in Seq(Bytes)
           /\ Len(Append(parts, p)) = Len(parts) + 1
           /\ \A i \in 1..Len(parts) : Append(parts, p)[i] = parts[i]
           /\ Append(parts, p)[Len(parts) + 1] = p
           /\ FlattenSeq(Append(parts, p)) = FlattenSeq(parts) \o p
           /\ \A k \in 0..Len(parts) : LengthOf(Append(parts, p), k) = LengthOf(parts, k)
  <1> DEFINE S == Bytes
             more == Append(parts, p)
             n == Len(parts)
  <1>1. /\ more \in Seq(Bytes) /\ Len(more) = n + 1 /\ n \in Nat
        /\ \A i \in 1..n : more[i] = parts[i] /\ more[n + 1] = p
    <2> HIDE DEF S
    <2>1. parts \in Seq(S) /\ p \in S
      BY DEF S
    <2>2. /\ more \in Seq(S) /\ Len(more) = n + 1 /\ n \in Nat
          /\ \A i \in 1..n : more[i] = parts[i]
          /\ more[n + 1] = p
      BY <2>1
    <2> QED BY <2>2 DEF S
  <1>2. more[n + 1] = p
    OBVIOUS
  <1>3. FlattenSeq(more) = FlattenSeq(parts) \o p
    BY FlattenAppend DEF Bytes
  <1> HIDE DEF more, n
  <1>4. ASSUME NEW k \in 0..n PROVE LengthOf(more, k) = LengthOf(parts, k)
    <2>1. SubSeq(more, 1, k) = SubSeq(parts, 1, k)
      <3>1. SubSeq(more, 1, k) = [i \in 1..k |-> more[i]]
        BY <1>1
      <3>2. SubSeq(parts, 1, k) = [i \in 1..k |-> parts[i]]
        BY <1>1 DEF n
      <3>3. \A i \in 1..k : more[i] = parts[i]
        BY <1>1
      <3> QED BY <3>1, <3>2, <3>3
    <2> QED BY <2>1 DEF LengthOf
  <1> QED BY <1>1, <1>2, <1>3, <1>4 DEF more, n

\* The server says something.
LEMMA SaysKeeps ==
    ASSUME ChannelInv, Says, UNCHANGED backendVars
    PROVE  ChannelInv'
  <1>1. PICK m \in Sayable :
           /\ said' = Append(said, m)
           /\ running' \/ ~GoesOn(m)
           /\ \/ \E p : Understood(p, m) /\ wire' = wire \o p /\ running' \in BOOLEAN
              \/ wire' = wire /\ running' = FALSE /\ ~Sendable
    BY DEF Says
  <1>2. PICK parts : Carries(parts)
    BY DEF ChannelInv
  <1>3. /\ running /\ said \in Seq(Sayable) /\ messages \in Seq(Sayable)
        /\ receiving \in BOOLEAN
        /\ \A i \in 1..Len(messages) : messages[i] = said[i]
        /\ arrived \in Nat /\ at \in Nat /\ at <= arrived /\ arrived <= Len(wire)
        /\ receiving => \A i \in 1..Len(messages) : GoesOn(messages[i])
    BY DEF ChannelInv, Says
  <1>4. arrived' = arrived /\ at' = at /\ messages' = messages /\ receiving' = receiving
    BY DEF backendVars
  <1>5. /\ parts \in Seq(Bytes) /\ wire = FlattenSeq(parts)
        /\ Len(parts) = Len(said)
        /\ \A i \in 1..Len(parts) : Understood(parts[i], said[i])
        /\ Len(messages) <= Len(parts)
        /\ at = LengthOf(parts, Len(messages))
    BY <1>2, <1>3 DEF Carries
  <1>6. /\ said' \in Seq(Sayable) /\ Len(said') = Len(said) + 1
        /\ \A i \in 1..Len(said) : said'[i] = said[i]
        /\ said'[Len(said) + 1] = m
        /\ Len(said) \in Nat /\ Len(messages) \in Nat
    BY <1>1, <1>3
  <1>7. \A i \in 1..Len(messages)' : messages'[i] = said'[i]
    BY <1>3, <1>4, <1>5, <1>6
  <1>8. Len(wire) \in Nat
    BY <1>5, FlattenBytes
  <1>9. running' \in BOOLEAN
    BY <1>1
  <1>10. Concluded'
    BY <1>1, <1>6 DEF Concluded
  <1>11. arrived <= Len(wire') /\ \E more : Carries(more)'
    <2>1. CASE wire' = wire /\ running' = FALSE /\ ~Sendable
      <3>1. Len(parts) <= Len(said')
        BY <1>5, <1>6
      <3>2. \A i \in 1..Len(parts) : Understood(parts[i], said'[i])
        BY <1>5, <1>6
      <3>3. Carries(parts)'
        BY <1>4, <1>5, SendableStays, <2>1, <3>1, <3>2 DEF Carries
      <3> QED BY <1>3, <2>1, <3>3
    <2>2. ASSUME NEW p, Understood(p, m), wire' = wire \o p
          PROVE  arrived <= Len(wire') /\ \E more : Carries(more)'
      <3> DEFINE more == Append(parts, p)
      <3>1. p \in Bytes
        BY <2>2 DEF Understood
      <3>2. /\ more \in Seq(Bytes) /\ Len(more) = Len(parts) + 1
            /\ \A i \in 1..Len(parts) : more[i] = parts[i]
            /\ more[Len(parts) + 1] = p
            /\ FlattenSeq(more) = FlattenSeq(parts) \o p
            /\ \A k \in 0..Len(parts) : LengthOf(more, k) = LengthOf(parts, k)
        BY <1>5, <3>1, OnePartMore
      <3> HIDE DEF more
      <3>3. \A i \in 1..Len(more) : Understood(more[i], said'[i])
        BY <1>5, <1>6, <2>2, <3>2
      <3>4. Len(more) = Len(said')
        BY <1>5, <1>6, <3>2
      <3>5. Len(messages) <= Len(more) /\ at = LengthOf(more, Len(messages))
        BY <1>5, <1>6, <3>2
      <3>6. wire' = FlattenSeq(more)
        BY <1>5, <2>2, <3>2
      <3>7. Carries(more)'
        BY <1>4, SendableStays, <3>2, <3>3, <3>4, <3>5, <3>6, <1>6 DEF Carries
      <3>8. Len(wire') = Len(wire) + Len(p) /\ Len(p) \in Nat
        BY <1>5, <2>2, <3>1, FlattenBytes, BothBytes
      <3> QED BY <1>3, <1>8, <3>7, <3>8
    <2> QED BY <1>1, <2>1, <2>2
  <1> QED BY <1>3, <1>4, <1>6, <1>7, <1>9, <1>10, <1>11 DEF ChannelInv

\* One more byte arrives.
LEMMA ArriveKeeps ==
    ASSUME ChannelInv, Arrive
    PROVE  ChannelInv'
  <1>1. /\ arrived < Len(wire) /\ arrived' = arrived + 1
        /\ running' = running /\ said' = said /\ wire' = wire
        /\ at' = at /\ messages' = messages /\ receiving' = receiving
    BY DEF Arrive, serverVars
  <1>2. PICK parts : Carries(parts)
    BY DEF ChannelInv
  <1>3. Carries(parts)'
    BY <1>1, <1>2, SendableStays DEF Carries
  <1>4. wire \in Bytes /\ Len(wire) \in Nat
    BY <1>2, FlattenBytes DEF Carries
  <1> QED BY <1>1, <1>3, <1>4 DEF ChannelInv, Concluded

\* What has arrived of a part is what is there of it.
LEMMA PartComes ==
    ASSUME NEW s \in Bytes, NEW n \in 0..Len(s), NEW q \in 0..n, NEW p \in Bytes,
           HasAt(s, q, p)
    PROVE  /\ SubSeq(s, 1, n) \in Bytes /\ Len(SubSeq(s, 1, n)) = n
           /\ Comes(SubSeq(s, 1, n), q, p)
  <1> DEFINE A == 0..255
             b == SubSeq(s, 1, n)
  <1>1. s \in Seq(A) /\ Len(s) \in Nat
    BY DEF Bytes
  <1> HIDE DEF A
  <1>2. b \in Seq(A) /\ Len(b) = n /\ \A i \in 1..n : b[i] = s[i]
    <2>1. b = [i \in 1..n |-> s[i]]
      BY <1>1
    <2> QED BY <1>1
  <1>3. Len(p) \in Nat /\ \A i \in 1..Len(p) : s[q + i] = p[i]
    BY BytesLen DEF HasAt
  <1> HIDE DEF b
  <1>4. ASSUME NEW i \in 1..Len(p), q + i <= Len(b) PROVE b[q + i] = p[i]
    <2>1. q + i \in 1..n
      BY <1>2, <1>3, <1>4
    <2> QED BY <1>2, <1>3, <2>1
  <1>5. Comes(b, q, p)
    BY <1>4 DEF Comes
  <1> QED BY <1>2, <1>5 DEF b, Bytes, A

\* Where nothing more has arrived, nothing can be read.
LEMMA NothingToRead ==
    ASSUME NEW b, Len(b) \in Nat
    PROVE  ReadMessage(b, Len(b)).is = "lacking"
  <1> DEFINE q == Len(b)
             r == ReadByte(b, q)
             next == ReadAfter(b, r.at, r.got)
  <1>1. ReadMessage(b, q) = IF r.is = "done" THEN next ELSE r
    BY Zenon DEF ReadMessage, Then, ReadAfter
  <1>2. r = Lacking(q)
    <2>1. Readable(b, q) < 1
      BY DEF Readable
    <2> HIDE DEF q
    <2> QED BY <2>1 DEF ReadByte
  <1>3. r.is = "lacking"
    BY <1>2, WaysToEnd
  <1> HIDE DEF r, next
  <1>4. ReadMessage(b, q) = r
    BY <1>1, <1>3
  <1> QED BY <1>3, <1>4

\* What the backend reads is the next message of the function, once all of its
\* bytes have arrived.
LEMMA ReadsNext ==
    ASSUME ChannelInv, NEW parts, Carries(parts), Len(messages) + 1 <= Len(parts)
    PROVE  /\ LengthOf(parts, Len(messages) + 1) \in 0..Len(wire)
           /\ IF LengthOf(parts, Len(messages) + 1) <= arrived
              THEN Received = Done(LengthOf(parts, Len(messages) + 1), said[Len(messages) + 1])
              ELSE Received.is = "lacking"
  <1> DEFINE k == Len(messages) + 1
             b == SubSeq(wire, 1, arrived)
             L(i) == LengthOf(parts, i)
  <1>1. /\ arrived \in Nat /\ at \in Nat /\ at <= arrived /\ arrived <= Len(wire)
        /\ Len(messages) \in Nat
    BY DEF ChannelInv
  <1>2. /\ parts \in Seq(Bytes) /\ wire = FlattenSeq(parts)
        /\ Len(messages) <= Len(parts) /\ at = L(Len(messages))
        /\ \A i \in 1..Len(parts) : Understood(parts[i], said[i])
    BY DEF Carries
  <1>3. wire \in Bytes /\ Len(wire) \in Nat /\ Len(parts) \in Nat
    BY <1>2, FlattenBytes
  <1>4. Received = ReadMessage(b, at)
    BY DEF Received
  <1>5. k \in 1..Len(parts) /\ k - 1 = Len(messages)
    BY <1>1, <1>3
  <1> HIDE DEF k
  <1> DEFINE p == parts[k]
  <1>6. /\ p \in Bytes /\ Len(p) \in Nat /\ L(k) = L(k - 1) + Len(p)
        /\ HasAt(wire, L(k - 1), p) /\ L(k) \in 0..Len(wire)
    <2>1. k \in 0..Len(parts)
      BY <1>3, <1>5
    <2> QED BY <1>2, <1>5, <2>1, FlattenBytesAt
  <1> HIDE DEF L, p
  <1>7. L(k - 1) = at
    BY <1>2, <1>5
  <1>8. b \in Bytes /\ Len(b) = arrived /\ Comes(b, at, p)
    <2>1. arrived \in 0..Len(wire) /\ at \in 0..arrived
      BY <1>1, <1>3
    <2>2. HasAt(wire, at, p)
      BY <1>6, <1>7
    <2> QED BY <1>3, <1>6, <2>1, <2>2, PartComes
  <1>9. Understood(p, said[k])
    BY <1>2, <1>5 DEF p
  <1> HIDE DEF b
  <1>10. Gets(ReadMessage(b, at), b, at, p, said[k])
    <2>1. at \in 0..Len(b)
      BY <1>1, <1>8
    <2> QED BY <1>8, <1>9, <2>1 DEF Understood
  <1>11. L(k) = at + Len(p)
    BY <1>6, <1>7
  <1>12. IF L(k) <= arrived THEN Received = Done(L(k), said[k]) ELSE Received.is = "lacking"
    BY <1>4, <1>8, <1>10, <1>11 DEF Gets
  <1> QED BY <1>6, <1>12 DEF k, L

\* The next message of the backend is the next one of the function.
LEMMA ReceivesNext ==
    ASSUME ChannelInv, Receivable, NEW parts, Carries(parts)
    PROVE  /\ Len(messages) + 1 <= Len(parts)
           /\ Received = Done(LengthOf(parts, Len(messages) + 1), said[Len(messages) + 1])
           /\ LengthOf(parts, Len(messages) + 1) \in Nat
           /\ LengthOf(parts, Len(messages) + 1) <= arrived
  <1> DEFINE b == SubSeq(wire, 1, arrived)
  <1>1. /\ arrived \in Nat /\ at \in Nat /\ at <= arrived /\ arrived <= Len(wire)
        /\ Len(messages) \in Nat
    BY DEF ChannelInv
  <1>2. /\ parts \in Seq(Bytes) /\ wire = FlattenSeq(parts)
        /\ Len(messages) <= Len(parts) /\ at = LengthOf(parts, Len(messages))
    BY DEF Carries
  <1>3. wire \in Bytes /\ Len(wire) \in Nat /\ Len(parts) \in Nat
    BY <1>2, FlattenBytes
  <1>4. Received = ReadMessage(b, at)
    BY DEF Received
  <1>5. Received.is # "lacking"
    BY DEF Receivable
  <1>6. Len(messages) + 1 <= Len(parts)
    <2>1. SUFFICES ASSUME Len(messages) = Len(parts) PROVE FALSE
      BY <1>1, <1>2, <1>3
    <2>2. at = Len(wire)
      BY <1>2, <2>1, FlattenBytesAt
    <2>3. at = arrived
      BY <1>1, <1>3, <2>2
    <2>4. Len(b) = arrived
      BY <1>1, <1>3 DEF Bytes
    <2> HIDE DEF b
    <2>5. ReadMessage(b, at).is = "lacking"
      BY <1>1, <2>3, <2>4, NothingToRead
    <2> QED BY <1>4, <1>5, <2>5
  <1> QED BY <1>5, <1>6, ReadsNext

\* The backend reads a message.
LEMMA ReceiveKeeps ==
    ASSUME ChannelInv, Receive
    PROVE  ChannelInv'
  <1> DEFINE k == Len(messages) + 1
             m == said[k]
  <1>1. Receivable
    BY DEF Receive
  <1>2. PICK parts : Carries(parts)
    BY DEF ChannelInv
  <1> DEFINE to == LengthOf(parts, k)
  <1>3. k <= Len(parts) /\ Received = Done(to, m) /\ to \in Nat /\ to <= arrived
    BY <1>1, <1>2, ReceivesNext
  <1> HIDE DEF m, to
  <1>4. Received.is = "done" /\ Received.at = to /\ Received.got = m
    BY <1>3, WaysToEnd
  <1>5. /\ at' = to /\ messages' = Append(messages, m)
        /\ receiving' \in BOOLEAN /\ (receiving' => GoesOn(m))
        /\ running' = running /\ said' = said /\ wire' = wire /\ arrived' = arrived
    <2> DEFINE done == Received.is = "done"
    <2>1. /\ at' = Received.at
          /\ messages' = IF done THEN Append(messages, Received.got) ELSE messages
      BY Zenon DEF Receive
    <2>2. receiving' = (done /\ GoesOn(Received.got))
      BY Zenon DEF Receive
    <2>3. done /\ Received.got = m /\ Received.at = to
      BY <1>4
    <2>4. UNCHANGED <<serverVars, arrived>>
      BY DEF Receive
    <2>5. at' = to /\ messages' = Append(messages, m)
      BY <2>1, <2>3
    <2>6. receiving' \in BOOLEAN
      BY <2>2, Zenon
    <2>7. receiving' => GoesOn(m)
      <3>1. receiving' => GoesOn(Received.got)
        BY <2>2, Zenon
      <3> QED BY <2>3, <3>1
    <2> QED BY <2>4, <2>5, <2>6, <2>7 DEF serverVars
  <1>6. /\ running \in BOOLEAN /\ said \in Seq(Sayable) /\ messages \in Seq(Sayable)
        /\ \A i \in 1..Len(messages) : messages[i] = said[i]
        /\ arrived \in Nat /\ arrived <= Len(wire)
        /\ receiving => \A i \in 1..Len(messages) : GoesOn(messages[i])
        /\ receiving
    BY <1>1 DEF ChannelInv, Receivable
  <1>7. /\ parts \in Seq(Bytes) /\ Len(parts) <= Len(said)
        /\ Len(parts) \in Nat /\ Len(said) \in Nat /\ Len(messages) \in Nat
    BY <1>2, <1>6 DEF Carries
  <1>8. m \in Sayable
    BY <1>3, <1>6, <1>7 DEF m
  <1>9. /\ messages' \in Seq(Sayable) /\ Len(messages') = k
        /\ \A i \in 1..Len(messages) : messages'[i] = messages[i]
        /\ messages'[k] = m
    BY <1>5, <1>6, <1>8
  <1>10. \A i \in 1..Len(messages') : messages'[i] = said'[i]
    BY <1>5, <1>6, <1>7, <1>9 DEF m
  <1>11. receiving' \in BOOLEAN
    BY <1>5
  <1>12. receiving' => \A i \in 1..Len(messages') : GoesOn(messages'[i])
    BY <1>5, <1>6, <1>7, <1>9
  <1>13. Carries(parts)'
    BY <1>2, <1>3, <1>5, <1>9, SendableStays DEF Carries, to
  <1> QED BY <1>3, <1>5, <1>6, <1>9, <1>10, <1>11, <1>12, <1>13 DEF ChannelInv, Concluded

LEMMA ChannelStart == Init => ChannelInv
  <1> SUFFICES ASSUME Init PROVE ChannelInv
    OBVIOUS
  <1> DEFINE none == <<>>
  <1>1. /\ running = TRUE /\ receiving = TRUE /\ said = none /\ wire = none
        /\ messages = none /\ arrived = 0 /\ at = 0
    BY DEF Init
  <1>2. /\ none \in Seq(Bytes) /\ none \in Seq(Sayable) /\ Len(none) = 0
        /\ none \in Seq(Seq(0..255))
    OBVIOUS
  <1>3. FlattenSeq(none) = none /\ LengthOf(none, 0) = 0
    BY <1>2, FlattenType, FlattenBytesAt
  <1> HIDE DEF none
  <1>4. Carries(none)
    BY <1>1, <1>2, <1>3 DEF Carries
  <1> QED BY <1>1, <1>2, <1>4 DEF ChannelInv, Concluded

LEMMA ChannelStep == Fitting /\ ChannelInv /\ [Next]_vars => ChannelInv'
  <1> SUFFICES ASSUME Fitting, ChannelInv, [Next]_vars PROVE ChannelInv'
    OBVIOUS
  <1>1. ASSUME NEW l \in LogLines, Log(l[1], l[2]) PROVE ChannelInv'
    <2>1. LineFits(l)
      BY DEF Fitting
    <2> QED BY <1>1, <2>1, LogSays, SaysKeeps
  <1>2. ASSUME NEW r \in Outcomes, Finish(r) PROVE ChannelInv'
    <2>1. OutcomeFits(r) /\ TextFits(<<Name>>)
      BY DEF Fitting
    <2> QED BY <1>2, <2>1, FinishSays, SaysKeeps
  <1>3. CASE Arrive
    BY <1>3, ArriveKeeps
  <1>4. CASE Receive
    BY <1>4, ReceiveKeeps
  <1>5. CASE UNCHANGED vars
    <2>1. PICK parts : Carries(parts)
      BY DEF ChannelInv
    <2>2. Carries(parts)'
      BY <1>5, <2>1, SendableStays DEF Carries, vars
    <2> QED BY <1>5, <2>2 DEF ChannelInv, Concluded, vars
  <1> QED BY <1>1, <1>2, <1>3, <1>4, <1>5 DEF Next

-----------------------------------------------------------------------------
(* The theorems.                                                           *)

\* The cursors of the connection stay in order, and a backend whose receive loop
\* goes on has seen nothing but log lines below ERROR, for every function with
\* ASCII texts that returns no object.
THEOREM ChannelTypeCorrect == Fitting => (Spec => []ChannelTypeOK)
  <1>1. ChannelInv => ChannelTypeOK
    <2> SUFFICES ASSUME ChannelInv PROVE ChannelTypeOK
      OBVIOUS
    <2>1. PICK parts : Carries(parts)
      BY DEF ChannelInv
    <2>2. wire \in Seq(0..255)
      BY <2>1, FlattenBytes DEF Carries, Bytes
    <2>3. DOMAIN messages = 1..Len(messages)
      BY DEF ChannelInv
    <2> QED BY <2>2, <2>3 DEF ChannelInv, ChannelTypeOK
  <1> SUFFICES ASSUME Fitting PROVE Spec => []ChannelTypeOK
    OBVIOUS
  <1> QED BY <1>1, ChannelStart, ChannelStep, PTL DEF Spec

\* What pljvm_get_result reads is what the function logged, returned or threw, in
\* this order, and every byte of it: for every such function, however many lines
\* it logs, and however the bytes arrive.
THEOREM ReadAsSent == Fitting => (Spec => []ReceivedAsSent)
  <1>1. ChannelInv => ReceivedAsSent
    <2> SUFFICES ASSUME ChannelInv PROVE ReceivedAsSent
      OBVIOUS
    <2>1. PICK parts : Carries(parts)
      BY DEF ChannelInv
    <2> DEFINE n == Len(messages)
    <2>2. /\ said \in Seq(Sayable) /\ messages \in Seq(Sayable) /\ n <= Len(said)
          /\ \A i \in 1..n : messages[i] = said[i]
          /\ n \in Nat /\ Len(said) \in Nat
      <3>1. said \in Seq(Sayable) /\ messages \in Seq(Sayable)
            /\ \A i \in 1..n : messages[i] = said[i]
        BY DEF ChannelInv
      <3>2. Len(parts) \in Nat /\ n <= Len(parts) /\ Len(parts) <= Len(said)
        BY <2>1 DEF Carries
      <3> QED BY <3>1, <3>2
    <2>3. SubSeq(messages, 1, n) = SubSeq(said, 1, n)
      <3>1. SubSeq(messages, 1, n) = [i \in 1..n |-> messages[i]]
        BY <2>2
      <3> HIDE DEF n
      <3>2. SubSeq(said, 1, n) = [i \in 1..n |-> said[i]]
        BY <2>2
      <3> QED BY <2>2, <3>1, <3>2
    <2> QED BY <2>2, <2>3 DEF ReceivedAsSent, IsPrefix
  <1> SUFFICES ASSUME Fitting PROVE Spec => []ReceivedAsSent
    OBVIOUS
  <1> QED BY <1>1, ChannelStart, ChannelStep, PTL DEF Spec

\* A call whose result can be encoded leaves nothing to wait for: when the function
\* has ended and its bytes have arrived, pljvm_get_result has returned, or there is
\* a whole message that it has not read.  (It has no time limit, and would wait.)
THEOREM NothingIsAwaited == Fitting /\ Sendable => (Spec => []NothingAwaited)
  <1>1. Sendable /\ ChannelInv => NothingAwaited
    <2> SUFFICES ASSUME Sendable, ChannelInv, ~running, arrived = Len(wire), receiving
                 PROVE  Received.is = "done"
      BY DEF NothingAwaited
    <2>1. PICK parts : Carries(parts)
      BY DEF ChannelInv
    <2>2. Len(parts) = Len(said) /\ Len(messages) <= Len(parts)
      BY <2>1 DEF Carries
    <2>3. /\ said \in Seq(Sayable) /\ messages \in Seq(Sayable)
          /\ \A i \in 1..Len(messages) : messages[i] = said[i] /\ GoesOn(messages[i])
          /\ Len(said) > 0 /\ ~GoesOn(said[Len(said)])
      BY DEF ChannelInv, Concluded
    <2>4. Len(said) \in Nat /\ Len(messages) \in Nat
      BY <2>3
    <2>5. Len(messages) # Len(said)
      BY <2>3, <2>4
    <2>6. Len(messages) + 1 <= Len(parts)
      BY <2>2, <2>4, <2>5
    <2> DEFINE to == LengthOf(parts, Len(messages) + 1)
               m == said[Len(messages) + 1]
    <2>7. /\ to \in 0..Len(wire)
          /\ IF to <= arrived THEN Received = Done(to, m) ELSE Received.is = "lacking"
      BY <2>1, <2>6, ReadsNext
    <2> HIDE DEF to, m
    <2>8. Received = Done(to, m)
      BY <2>7
    <2> QED BY <2>8, WaysToEnd
  <1> SUFFICES ASSUME Fitting, Sendable PROVE Spec => []NothingAwaited
    OBVIOUS
  <1> QED BY <1>1, ChannelStart, ChannelStep, PTL DEF Spec
=============================================================================
