------------------------ MODULE RequestDecoderProofs ------------------------
(***************************************************************************)
(* The requests of a backend are delivered as they were sent.              *)
(*                                                                         *)
(* First, what each reader does with any bytes: it ends within them, done, *)
(* short of bytes, or with an exception; this is enough for the types of   *)
(* the decoder (DecoderInv).  Then the round trip: each reader makes of    *)
(* what its writer wrote the thing that was written, as Java sees it, and  *)
(* takes all of its bytes, from numbers to the fields of a request.  With  *)
(* a beginning of the stream a reader either does the same, or finds that  *)
(* bytes lack; where the latter is no harm, the stream may be cut.  Last,  *)
(* the decoder's way through a session: Steady says that it stands at the  *)
(* beginning of the field its state is for, with the request read so far.  *)
(***************************************************************************)
EXTENDS RequestDecoder, CommonProofs

-----------------------------------------------------------------------------
(* How the readers end, whatever the bytes are.                            *)

\* The number in the next w bytes.
IntAt(b, p, w) == Signed(Slice(b, p, w))

\* readIntLE and readShortLE
LEMMA ReadIntIs ==
    ASSUME NEW b \in Bytes, NEW p \in 0..Len(b), NEW w \in {2, 4}
    PROVE  IF Len(b) - p < w THEN ReadInt(b, p, w) = Throws(p)
           ELSE /\ ReadInt(b, p, w) = Done(p + w, IntAt(b, p, w))
                /\ IntAt(b, p, w) \in Int
                /\ p + w \in 0..Len(b)
  <1>0. Len(b) \in Nat
    BY BytesLen
  <1>1. CASE Len(b) - p < w
    BY <1>1 DEF ReadInt, Readable
  <1>2. CASE ~ (Len(b) - p < w)
    <2>1. ReadInt(b, p, w) = Done(p + w, IntAt(b, p, w))
      BY <1>2 DEF ReadInt, Readable, IntAt
    <2>2. w \in Nat /\ p + w <= Len(b)
      BY <1>0, <1>2
    <2>3. Slice(b, p, w) \in Bytes /\ Len(Slice(b, p, w)) = w /\ p + w \in 0..Len(b)
      BY <2>2, BytesSlice
    <2>4. IntAt(b, p, w) \in Int
      BY <2>3, SignedInt DEF IntAt
    <2> QED BY <1>2, <2>1, <2>3, <2>4
  <1> QED BY <1>1, <1>2

\* Util.readString
LEMMA ReadStringIs ==
    ASSUME NEW b \in Bytes, NEW p \in 0..Len(b)
    PROVE  IF Len(b) - p < 4 THEN ReadString(b, p) = Lacking(p)
           ELSE /\ IntAt(b, p, 4) \in Int
                /\ p + 4 \in 0..Len(b)
                /\ ReadString(b, p) =
                     IF IntAt(b, p, 4) < 0 THEN Done(p + 4, <<>>)
                     ELSE IF Len(b) - (p + 4) < IntAt(b, p, 4) THEN Lacking(p + 4)
                     ELSE Done((p + 4) + IntAt(b, p, 4),
                               Name(Slice(b, p + 4, IntAt(b, p, 4))))
  <1>1. CASE Len(b) - p < 4
    BY <1>1 DEF ReadString, Readable
  <1>2. CASE ~ (Len(b) - p < 4)
    <2> DEFINE r == ReadInt(b, p, 4)
               n == IntAt(b, p, 4)
    <2>1. r = Done(p + 4, n) /\ n \in Int /\ p + 4 \in 0..Len(b)
      BY <1>2, ReadIntIs
    <2> HIDE DEF r, n
    <2>2. r.is = "done" /\ r.at = p + 4 /\ r.got = n
      BY <2>1, WaysToEnd
    <2>3. ReadString(b, p) =
            IF r.is = "done" THEN
                IF r.got < 0 THEN Done(r.at, <<>>)
                ELSE IF Readable(b, r.at) < r.got THEN Lacking(r.at)
                ELSE Done(r.at + r.got, Name(Slice(b, r.at, r.got)))
            ELSE r
      BY <1>2, Zenon DEF ReadString, Then, Readable, r
    <2>4. ReadString(b, p) =
            IF n < 0 THEN Done(p + 4, <<>>)
            ELSE IF Len(b) - (p + 4) < n THEN Lacking(p + 4)
            ELSE Done((p + 4) + n, Name(Slice(b, p + 4, n)))
      BY <2>2, <2>3, Zenon DEF Readable
    <2> QED BY <1>2, <2>1, <2>4 DEF n
  <1> QED BY <1>1, <1>2

\* The name of a type
LEMMA ReadTypeNameIs ==
    ASSUME NEW b \in Bytes, NEW p \in 0..Len(b)
    PROVE  IF Len(b) - p < 4 THEN ReadTypeName(b, p) = Lacking(p)
           ELSE /\ IntAt(b, p, 4) \in Int
                /\ p + 4 \in 0..Len(b)
                /\ ReadTypeName(b, p) =
                     IF IntAt(b, p, 4) <= 0 THEN Done(p + 4, <<>>)
                     ELSE IF Len(b) - (p + 4) < IntAt(b, p, 4) THEN Lacking(p + 4)
                     ELSE Done((p + 4) + IntAt(b, p, 4),
                               Name(Slice(b, p + 4, IntAt(b, p, 4))))
  <1>1. CASE Len(b) - p < 4
    BY <1>1 DEF ReadTypeName, Readable
  <1>2. CASE ~ (Len(b) - p < 4)
    <2> DEFINE r == ReadInt(b, p, 4)
               n == IntAt(b, p, 4)
    <2>1. r = Done(p + 4, n) /\ n \in Int /\ p + 4 \in 0..Len(b)
      BY <1>2, ReadIntIs
    <2> HIDE DEF r, n
    <2>2. r.is = "done" /\ r.at = p + 4 /\ r.got = n
      BY <2>1, WaysToEnd
    <2>3. ReadTypeName(b, p) =
            IF r.is = "done" THEN
                IF r.got <= 0 THEN Done(r.at, <<>>)
                ELSE IF Readable(b, r.at) < r.got THEN Lacking(r.at)
                ELSE Done(r.at + r.got, Name(Slice(b, r.at, r.got)))
            ELSE r
      BY <1>2, Zenon DEF ReadTypeName, Then, Readable, r
    <2>4. ReadTypeName(b, p) =
            IF n <= 0 THEN Done(p + 4, <<>>)
            ELSE IF Len(b) - (p + 4) < n THEN Lacking(p + 4)
            ELSE Done((p + 4) + n, Name(Slice(b, p + 4, n)))
      BY <2>2, <2>3, Zenon DEF Readable
    <2> QED BY <1>2, <2>1, <2>4 DEF n
  <1> QED BY <1>1, <1>2

\* Reading a string, or the name of a type, ends in the bytes that are there.
LEMMA StringsEnd ==
    ASSUME NEW b \in Bytes, NEW p \in 0..Len(b)
    PROVE  /\ Ends(ReadString(b, p), p, Len(b))
           /\ ReadString(b, p).is = "done" => p + 4 <= ReadString(b, p).at
           /\ Ends(ReadTypeName(b, p), p, Len(b))
           /\ ReadTypeName(b, p).is = "done" => p + 4 <= ReadTypeName(b, p).at
  <1>0. Len(b) \in Nat /\ p \in Nat /\ p \in p..Len(b)
    BY BytesLen
  <1>1. CASE Len(b) - p < 4
    <2>1. ReadString(b, p) = Lacking(p) /\ ReadTypeName(b, p) = Lacking(p)
      BY <1>1, ReadStringIs, ReadTypeNameIs
    <2> QED BY <1>0, <2>1, MayEnd, WaysToEnd
  <1>2. CASE ~ (Len(b) - p < 4)
    <2> DEFINE n == IntAt(b, p, 4)
               s == Name(Slice(b, p + 4, n))
    <2>0. /\ n \in Int
          /\ p + 4 \in 0..Len(b)
          /\ ReadString(b, p) = IF n < 0 THEN Done(p + 4, <<>>)
                                ELSE IF Len(b) - (p + 4) < n THEN Lacking(p + 4)
                                ELSE Done((p + 4) + n, s)
          /\ ReadTypeName(b, p) = IF n <= 0 THEN Done(p + 4, <<>>)
                                  ELSE IF Len(b) - (p + 4) < n THEN Lacking(p + 4)
                                  ELSE Done((p + 4) + n, s)
      BY <1>2, ReadStringIs, ReadTypeNameIs
    <2> HIDE DEF n, s
    <2>1. p + 4 \in p..Len(b) /\ p + 4 <= p + 4
      BY <1>0, <2>0
    <2>2. Ends(Done(p + 4, <<>>), p, Len(b)) /\ Ends(Lacking(p + 4), p, Len(b))
      BY <1>0, <2>1, MayEnd
    <2>3. CASE n < 0
      BY <2>0, <2>1, <2>2, <2>3, WaysToEnd
    <2>4. CASE ~ (n < 0) /\ Len(b) - (p + 4) < n
      <3>1. ReadString(b, p) = Lacking(p + 4)
        BY <2>0, <2>4
      <3>2. ReadTypeName(b, p) = Lacking(p + 4) \/ ReadTypeName(b, p) = Done(p + 4, <<>>)
        BY <2>0, <2>4
      <3> QED BY <2>1, <2>2, <3>1, <3>2, WaysToEnd
    <2>5. CASE ~ (n < 0) /\ ~ (Len(b) - (p + 4) < n)
      <3>1. (p + 4) + n \in p..Len(b) /\ p + 4 <= (p + 4) + n
        BY <1>0, <2>0, <2>5
      <3>2. Ends(Done((p + 4) + n, s), p, Len(b))
        BY <1>0, <3>1, MayEnd
      <3>3. ReadString(b, p) = Done((p + 4) + n, s)
        BY <2>0, <2>5
      <3>4. ReadTypeName(b, p) = Done((p + 4) + n, s) \/ ReadTypeName(b, p) = Done(p + 4, <<>>)
        BY <2>0, <2>5
      <3> QED BY <2>1, <2>2, <3>1, <3>2, <3>3, <3>4, WaysToEnd
    <2> QED BY <2>3, <2>4, <2>5
  <1> QED BY <1>1, <1>2

-----------------------------------------------------------------------------
(* Types.                                                                  *)

\* How many subtypes there are to read from p on.
SubCount(b, p) == Capped(IntAt(b, p, 2), Len(b) - (p + 2))

LEMMA ReadSubTypesIs ==
    ASSUME NEW b \in Bytes, NEW p \in 0..Len(b), NEW f
    PROVE  IF Len(b) - p < 2 THEN ReadSubTypes(b, p, f) = Lacking(p)
           ELSE /\ IntAt(b, p, 2) \in Int
                /\ p + 2 \in 0..Len(b)
                /\ ReadSubTypes(b, p, f) =
                     IF IntAt(b, p, 2) < 0 THEN Throws(p + 2)
                     ELSE Each(p + 2, Times(SubCount(b, p), f))
  <1>1. CASE Len(b) - p < 2
    BY <1>1 DEF ReadSubTypes, Readable
  <1>2. CASE ~ (Len(b) - p < 2)
    <2> DEFINE r == ReadInt(b, p, 2)
               n == IntAt(b, p, 2)
    <2>1. r = Done(p + 2, n) /\ n \in Int /\ p + 2 \in 0..Len(b)
      BY <1>2, ReadIntIs
    <2> HIDE DEF r, n
    <2>2. r.is = "done" /\ r.at = p + 2 /\ r.got = n
      BY <2>1, WaysToEnd
    <2>3. ReadSubTypes(b, p, f) =
            IF r.is = "done" THEN
                IF r.got < 0 THEN Throws(r.at)
                ELSE Each(r.at, Times(Capped(r.got, Readable(b, r.at)), f))
            ELSE r
      BY <1>2, Zenon DEF ReadSubTypes, Then, Readable, r
    <2>4. ReadSubTypes(b, p, f) =
            IF n < 0 THEN Throws(p + 2) ELSE Each(p + 2, Times(SubCount(b, p), f))
      BY <2>2, <2>3, Zenon DEF Readable, SubCount, n
    <2> QED BY <1>2, <2>1, <2>4 DEF n
  <1> QED BY <1>1, <1>2

\* The type that begins at p: what it is, its name, and its subtypes.
DataAt(b, p) == DataTypes[b[p + 1] + 1]
NameAt(b, p) == ReadTypeName(b, p + 1)
SubAt(b, p, f) ==
    IF Composite(DataAt(b, p)) THEN ReadSubTypes(b, NameAt(b, p).at, f)
    ELSE Done(NameAt(b, p).at, <<>>)
TypeAt(b, p, f) ==
    [data |-> DataAt(b, p), name |-> NameAt(b, p).got, sub |-> SubAt(b, p, f).got]

LEMMA ReadTypeByIs ==
    ASSUME NEW b, NEW p, NEW f
    PROVE  ReadTypeBy(b, p, f) =
             IF Len(b) - p < 1 THEN Lacking(p)
             ELSE IF b[p + 1] + 1 \notin DOMAIN DataTypes THEN Throws(p + 1)
             ELSE IF NameAt(b, p).is # "done" THEN NameAt(b, p)
             ELSE IF SubAt(b, p, f).is # "done" THEN SubAt(b, p, f)
             ELSE Done(SubAt(b, p, f).at, TypeAt(b, p, f))
  BY Zenon DEF ReadTypeBy, Then, Readable, SubAt, TypeAt, DataAt, NameAt

LEMMA SubTypesEnd ==
    ASSUME NEW b \in Bytes, NEW p \in 0..Len(b), NEW f, IsReader(f, Len(b))
    PROVE  /\ Ends(ReadSubTypes(b, p, f), p, Len(b))
           /\ ReadSubTypes(b, p, f).is = "done" =>
                 ReadSubTypes(b, p, f).got \in Seq(GotBy(f, Len(b)))
  <1>0. Len(b) \in Nat /\ p \in Nat /\ p \in p..Len(b)
    BY BytesLen
  <1>1. CASE Len(b) - p < 2
    <2>1. ReadSubTypes(b, p, f) = Lacking(p)
      BY <1>1, ReadSubTypesIs
    <2> QED BY <1>0, <2>1, MayEnd, WaysToEnd
  <1>2. CASE ~ (Len(b) - p < 2)
    <2> DEFINE n == IntAt(b, p, 2)
               r == Each(p + 2, Times(SubCount(b, p), f))
    <2>1. /\ n \in Int /\ p + 2 \in 0..Len(b)
          /\ ReadSubTypes(b, p, f) = IF n < 0 THEN Throws(p + 2) ELSE r
      BY <1>2, ReadSubTypesIs
    <2>2. SubCount(b, p) \in Int
      BY <1>0, <2>1 DEF SubCount, Capped
    <2>3. /\ Ends(r, p + 2, Len(b))
          /\ r.is = "done" => r.got \in Seq(GotBy(f, Len(b)))
      BY <1>0, <2>1, <2>2, TimesEnds
    <2> HIDE DEF n, r
    <2>4. Ends(r, p, Len(b))
      <3>1. p + 2 \in Nat /\ p <= p + 2
        BY <1>0
      <3> QED BY <1>0, <2>3, <3>1, EndsLater
    <2>5. Ends(Throws(p + 2), p, Len(b))
      <3>1. p + 2 \in p..Len(b)
        BY <1>0, <2>1
      <3> QED BY <1>0, <3>1, MayEnd
    <2> QED BY <2>1, <2>3, <2>4, <2>5, WaysToEnd
  <1> QED BY <1>1, <1>2

\* A type that was read with these subtypes.
IsTypeOver(t, G) ==
    /\ t.sub \in Seq(G)
    /\ \E i \in DOMAIN DataTypes : t.data = DataTypes[i]

\* A reader of types, by a reader of their subtypes.
LEMMA TypeReaderIs ==
    ASSUME NEW b \in Bytes, NEW f, IsReader(f, Len(b))
    PROVE  /\ IsReader(TypeReader(b, f), Len(b))
           /\ \A t \in GotBy(TypeReader(b, f), Len(b)) : IsTypeOver(t, GotBy(f, Len(b)))
  <1> DEFINE m == Len(b)
             G == GotBy(f, m)
  <1>0. m \in Nat
    BY BytesLen
  <1>1. ASSUME NEW p \in 0..m
        PROVE  /\ Ends(ReadTypeBy(b, p, f), p, m)
               /\ ReadTypeBy(b, p, f).is = "done" =>
                     /\ p + 1 <= ReadTypeBy(b, p, f).at
                     /\ IsTypeOver(ReadTypeBy(b, p, f).got, G)
    <2> DEFINE x == ReadTypeBy(b, p, f)
               r == NameAt(b, p)
               s == SubAt(b, p, f)
    <2>1. x = IF m - p < 1 THEN Lacking(p)
              ELSE IF b[p + 1] + 1 \notin DOMAIN DataTypes THEN Throws(p + 1)
              ELSE IF r.is # "done" THEN r
              ELSE IF s.is # "done" THEN s
              ELSE Done(s.at, TypeAt(b, p, f))
      BY ReadTypeByIs
    <2>2. CASE m - p < 1
      <3>1. x = Lacking(p) /\ p \in Nat /\ p \in p..m
        BY <1>0, <2>1, <2>2
      <3> QED BY <1>0, <3>1, MayEnd, WaysToEnd
    <2>3. CASE ~ (m - p < 1) /\ b[p + 1] + 1 \notin DOMAIN DataTypes
      <3>1. x = Throws(p + 1) /\ p \in Nat /\ p + 1 \in p..m
        BY <1>0, <2>1, <2>3
      <3> QED BY <1>0, <3>1, MayEnd, WaysToEnd
    <2>4. CASE ~ (m - p < 1) /\ b[p + 1] + 1 \in DOMAIN DataTypes
      <3>0. p \in Nat /\ p + 1 \in Nat /\ p + 1 \in 0..m /\ p <= p + 1
        BY <1>0, <2>4
      <3>1. Ends(r, p + 1, m)
        BY <3>0, StringsEnd DEF NameAt
      <3>2. ASSUME r.is = "done"
            PROVE  Ends(s, r.at, m) /\ (s.is = "done" => s.got \in Seq(G))
        <4>1. r.at \in 0..m /\ r.at \in Nat /\ r.at \in r.at..m
          BY <1>0, <3>0, <3>1 DEF Ends
        <4>2. CASE Composite(DataAt(b, p))
          <5>1. s = ReadSubTypes(b, r.at, f)
            BY <4>2 DEF SubAt
          <5> HIDE DEF r, s, G
          <5> QED BY <4>1, <5>1, SubTypesEnd DEF G
        <4>3. CASE ~ Composite(DataAt(b, p))
          <5>1. s = Done(r.at, <<>>)
            BY <4>3 DEF SubAt
          <5> HIDE DEF r, s, G
          <5>2. Ends(s, r.at, m)
            BY <1>0, <4>1, <5>1, MayEnd
          <5>3. s.got = <<>>
            BY <5>1, WaysToEnd, Zenon
          <5>4. s.got \in Seq(G)
            BY <5>3
          <5> QED BY <5>2, <5>4
        <4> QED BY <4>2, <4>3
      <3>3. TypeAt(b, p, f).sub = s.got
            /\ \E i \in DOMAIN DataTypes : TypeAt(b, p, f).data = DataTypes[i]
        BY <2>4, Zenon DEF TypeAt, DataAt
      <3> HIDE DEF x, r, s, G, m
      <3>4. CASE r.is # "done"
        <4>1. x = r
          BY <2>1, <2>4, <3>4
        <4>2. Ends(r, p, m)
          BY <1>0, <3>0, <3>1, EndsLater
        <4> QED BY <3>4, <4>1, <4>2 DEF x
      <3>5. CASE r.is = "done"
        <4>1. Ends(s, r.at, m) /\ r.at \in p + 1..m
          BY <3>1, <3>2, <3>5 DEF Ends
        <4>2. Ends(s, p, m)
          <5>1. r.at \in Nat /\ p <= r.at
            BY <1>0, <3>0, <4>1
          <5> QED BY <1>0, <3>0, <4>1, <5>1, EndsLater
        <4>3. CASE s.is # "done"
          <5>1. x = s
            BY <2>1, <2>4, <3>5, <4>3
          <5> QED BY <4>2, <4>3, <5>1 DEF x
        <4>4. CASE s.is = "done"
          <5>1. x = Done(s.at, TypeAt(b, p, f))
            BY <2>1, <2>4, <3>5, <4>4
          <5>2. s.at \in p..m /\ p + 1 <= s.at
            <6>1. s.at \in r.at..m
              BY <4>1 DEF Ends
            <6> QED BY <1>0, <3>0, <4>1, <6>1
          <5>3. Ends(x, p, m)
            BY <1>0, <3>0, <5>1, <5>2, MayEnd
          <5>4. IsTypeOver(TypeAt(b, p, f), G)
            BY <3>2, <3>3, <3>5, <4>4 DEF IsTypeOver
          <5> QED BY <5>1, <5>2, <5>3, <5>4, WaysToEnd DEF x
        <4> QED BY <4>3, <4>4
      <3> QED BY <3>4, <3>5
    <2> QED BY <2>2, <2>3, <2>4
  <1> DEFINE g == TypeReader(b, f)
  <1>2. \A p \in 0..m : g[p] = ReadTypeBy(b, p, f)
    BY DEF TypeReader, Places
  <1> HIDE DEF g, G, m
  <1>3. IsReader(g, m)
    BY <1>1, <1>2 DEF IsReader
  <1>4. ASSUME NEW t \in GotBy(g, m) PROVE IsTypeOver(t, G)
    <2>1. PICK p \in 0..m : g[p].is = "done" /\ t = g[p].got
      BY DEF GotBy
    <2> QED BY <1>1, <1>2, <2>1
  <1> QED BY <1>3, <1>4 DEF g, G, m

\* Nothing is read deeper than types nest.
LEMMA UnreadIs ==
    ASSUME NEW b \in Bytes
    PROVE  IsReader(Unread(b), Len(b))
  <1>0. Len(b) \in Nat
    BY BytesLen
  <1>1. ASSUME NEW p \in 0..Len(b)
        PROVE  Ends(Unread(b)[p], p, Len(b)) /\ Unread(b)[p].is # "done"
    <2>1. Unread(b)[p] = Throws(p)
      BY DEF Unread, Places
    <2>2. p \in Nat /\ p \in p..Len(b)
      BY <1>0
    <2> QED BY <1>0, <2>1, <2>2, MayEnd, WaysToEnd
  <1> QED BY <1>1 DEF IsReader

\* The readers of types, the deepest first.
Types2(b) == TypeReader(b, FlatTypes(b))
Types3(b) == TypeReader(b, Types2(b))
Types4(b) == TypeReader(b, Types3(b))

LEMMA TypesEnd ==
    ASSUME NEW b \in Bytes
    PROVE  /\ IsReader(FlatTypes(b), Len(b))
           /\ IsReader(Types2(b), Len(b))
           /\ IsReader(Types3(b), Len(b))
           /\ IsReader(Types4(b), Len(b))
           /\ \A t \in GotBy(FlatTypes(b), Len(b)) : IsTypeOver(t, GotBy(Unread(b), Len(b)))
           /\ \A t \in GotBy(Types2(b), Len(b)) : IsTypeOver(t, GotBy(FlatTypes(b), Len(b)))
           /\ \A t \in GotBy(Types3(b), Len(b)) : IsTypeOver(t, GotBy(Types2(b), Len(b)))
           /\ \A t \in GotBy(Types4(b), Len(b)) : IsTypeOver(t, GotBy(Types3(b), Len(b)))
  <1>1. /\ IsReader(FlatTypes(b), Len(b))
        /\ \A t \in GotBy(FlatTypes(b), Len(b)) : IsTypeOver(t, GotBy(Unread(b), Len(b)))
    BY UnreadIs, TypeReaderIs DEF FlatTypes
  <1>2. /\ IsReader(Types2(b), Len(b))
        /\ \A t \in GotBy(Types2(b), Len(b)) : IsTypeOver(t, GotBy(FlatTypes(b), Len(b)))
    BY <1>1, TypeReaderIs DEF Types2
  <1>3. /\ IsReader(Types3(b), Len(b))
        /\ \A t \in GotBy(Types3(b), Len(b)) : IsTypeOver(t, GotBy(Types2(b), Len(b)))
    BY <1>2, TypeReaderIs DEF Types3
  <1>4. /\ IsReader(Types4(b), Len(b))
        /\ \A t \in GotBy(Types4(b), Len(b)) : IsTypeOver(t, GotBy(Types3(b), Len(b)))
    BY <1>3, TypeReaderIs DEF Types4
  <1> QED BY <1>1, <1>2, <1>3, <1>4

LEMMA ReadTypeIs ==
    ASSUME NEW b \in Bytes, NEW p \in 0..Len(b)
    PROVE  ReadType(b, p) = Types4(b)[p]
  BY DEF ReadType, Types4, Types3, Types2, TypeReader, Places

-----------------------------------------------------------------------------
(* Values.                                                                 *)

LEMMA ReadBytesEnds ==
    ASSUME NEW b \in Bytes, NEW p \in 0..Len(b), NEW n \in Nat
    PROVE  Ends(ReadBytes(b, p, n), p, Len(b))
  <1>0. Len(b) \in Nat /\ p \in Nat /\ p \in p..Len(b)
    BY BytesLen
  <1>1. CASE Len(b) - p < n
    BY <1>0, <1>1, MayEnd DEF ReadBytes, Readable
  <1>2. CASE ~ (Len(b) - p < n)
    <2>1. p + n \in p..Len(b)
      BY <1>0, <1>2
    <2>2. ReadBytes(b, p, n) = Done(p + n, <<Slice(b, p, n)>>)
      BY <1>2 DEF ReadBytes, Readable
    <2> QED BY <1>0, <2>1, <2>2, MayEnd
  <1> QED BY <1>1, <1>2

LEMMA ReadSizedIs ==
    ASSUME NEW b \in Bytes, NEW p \in 0..Len(b)
    PROVE  IF Len(b) - p < 4 THEN ReadSized(b, p) = Throws(p)
           ELSE /\ IntAt(b, p, 4) \in Int
                /\ p + 4 \in 0..Len(b)
                /\ ReadSized(b, p) = IF IntAt(b, p, 4) < 0 THEN Throws(p + 4)
                                     ELSE ReadBytes(b, p + 4, IntAt(b, p, 4))
  <1> DEFINE r == ReadInt(b, p, 4)
             n == IntAt(b, p, 4)
  <1>1. ReadSized(b, p) =
            IF r.is = "done" THEN
                IF r.got < 0 THEN Throws(r.at) ELSE ReadBytes(b, r.at, r.got)
            ELSE r
    BY Zenon DEF ReadSized, Then
  <1>2. IF Len(b) - p < 4 THEN r = Throws(p)
        ELSE r = Done(p + 4, n) /\ n \in Int /\ p + 4 \in 0..Len(b)
    BY ReadIntIs
  <1> HIDE DEF r, n
  <1>3. CASE Len(b) - p < 4
    <2>1. r = Throws(p) /\ r.is # "done"
      BY <1>2, <1>3, WaysToEnd
    <2> QED BY <1>1, <1>3, <2>1
  <1>4. CASE ~ (Len(b) - p < 4)
    <2>1. r = Done(p + 4, n) /\ n \in Int /\ p + 4 \in 0..Len(b)
      BY <1>2, <1>4
    <2>2. r.is = "done" /\ r.at = p + 4 /\ r.got = n
      BY <2>1, WaysToEnd
    <2>3. ReadSized(b, p) = IF n < 0 THEN Throws(p + 4) ELSE ReadBytes(b, p + 4, n)
      BY <1>1, <2>2, Zenon
    <2> QED BY <1>4, <2>1, <2>3 DEF n
  <1> QED BY <1>3, <1>4

LEMMA ReadSizedEnds ==
    ASSUME NEW b \in Bytes, NEW p \in 0..Len(b)
    PROVE  Ends(ReadSized(b, p), p, Len(b))
  <1>0. Len(b) \in Nat /\ p \in Nat /\ p \in p..Len(b)
    BY BytesLen
  <1>1. CASE Len(b) - p < 4
    <2>1. ReadSized(b, p) = Throws(p)
      BY <1>1, ReadSizedIs
    <2> QED BY <1>0, <2>1, MayEnd
  <1>2. CASE ~ (Len(b) - p < 4)
    <2> DEFINE n == IntAt(b, p, 4)
    <2>1. /\ n \in Int
          /\ p + 4 \in 0..Len(b)
          /\ ReadSized(b, p) = IF n < 0 THEN Throws(p + 4) ELSE ReadBytes(b, p + 4, n)
      BY <1>2, ReadSizedIs
    <2> HIDE DEF n
    <2>2. p + 4 \in p..Len(b) /\ p + 4 \in Nat /\ p <= p + 4
      BY <1>0, <2>1
    <2>3. CASE n < 0
      <3>1. ReadSized(b, p) = Throws(p + 4)
        BY <2>1, <2>3
      <3> QED BY <1>0, <2>2, <3>1, MayEnd
    <2>4. CASE ~ (n < 0)
      <3>1. n \in Nat /\ ReadSized(b, p) = ReadBytes(b, p + 4, n)
        BY <2>1, <2>4
      <3>2. Ends(ReadBytes(b, p + 4, n), p + 4, Len(b))
        BY <2>1, <3>1, ReadBytesEnds
      <3> QED BY <1>0, <2>2, <3>1, <3>2, EndsLater
    <2> QED BY <2>3, <2>4
  <1> QED BY <1>1, <1>2

\* The dimensions of an array.
LEMMA IntReaderIs ==
    ASSUME NEW b \in Bytes
    PROVE  /\ IsReader(IntReader(b), Len(b))
           /\ \A n \in GotBy(IntReader(b), Len(b)) : n \in Int
  <1>0. Len(b) \in Nat
    BY BytesLen
  <1>1. ASSUME NEW p \in 0..Len(b)
        PROVE  /\ Ends(IntReader(b)[p], p, Len(b))
               /\ IntReader(b)[p].is = "done" => /\ p + 1 <= IntReader(b)[p].at
                                                 /\ IntReader(b)[p].got \in Int
    <2> DEFINE n == IntAt(b, p, 4)
    <2>0. p \in Nat /\ p \in p..Len(b)
      BY <1>0
    <2>1. IntReader(b)[p] = ReadInt(b, p, 4)
      BY DEF IntReader, Places
    <2>2. IF Len(b) - p < 4 THEN ReadInt(b, p, 4) = Throws(p)
          ELSE ReadInt(b, p, 4) = Done(p + 4, n) /\ n \in Int /\ p + 4 \in 0..Len(b)
      BY ReadIntIs
    <2> HIDE DEF n
    <2>3. CASE Len(b) - p < 4
      <3>1. IntReader(b)[p] = Throws(p)
        BY <2>1, <2>2, <2>3
      <3> QED BY <1>0, <2>0, <3>1, MayEnd, WaysToEnd
    <2>4. CASE ~ (Len(b) - p < 4)
      <3>1. IntReader(b)[p] = Done(p + 4, n) /\ n \in Int /\ p + 4 \in 0..Len(b)
        BY <2>1, <2>2, <2>4
      <3>2. p + 4 \in p..Len(b) /\ p + 1 <= p + 4
        BY <1>0, <2>0, <3>1
      <3>3. Ends(IntReader(b)[p], p, Len(b))
        BY <1>0, <2>0, <3>1, <3>2, MayEnd
      <3>4. IntReader(b)[p].at = p + 4 /\ IntReader(b)[p].got = n
        BY <3>1, WaysToEnd
      <3> QED BY <3>1, <3>2, <3>3, <3>4
    <2> QED BY <2>3, <2>4
  <1>2. IsReader(IntReader(b), Len(b))
    BY <1>1 DEF IsReader
  <1>3. ASSUME NEW n \in GotBy(IntReader(b), Len(b)) PROVE n \in Int
    BY <1>1 DEF GotBy
  <1> QED BY <1>2, <1>3

LEMMA ReadItemIs ==
    ASSUME NEW t, NEW n, NEW item
    PROVE  ReadItem(t, n, item) =
             IF item.is # "done" THEN item
             ELSE IF Storable(t, n, item.got) THEN item ELSE Throws(item.at)
  BY Zenon DEF ReadItem, Then

\* The readers of the elements of an array.
ItemReader(b, t, n, item) == [from \in Places(b) |-> ReadItem(t, n, item[from])]

LEMMA ItemReaderIs ==
    ASSUME NEW b \in Bytes, NEW t, NEW n, NEW item, IsReader(item, Len(b))
    PROVE  IsReader(ItemReader(b, t, n, item), Len(b))
  <1>0. Len(b) \in Nat
    BY BytesLen
  <1> DEFINE f == ItemReader(b, t, n, item)
  <1>1. ASSUME NEW p \in 0..Len(b)
        PROVE  Ends(f[p], p, Len(b)) /\ (f[p].is = "done" => p + 1 <= f[p].at)
    <2>1. f[p] = ReadItem(t, n, item[p])
      BY DEF ItemReader, Places
    <2>2. Ends(item[p], p, Len(b)) /\ (item[p].is = "done" => p + 1 <= item[p].at)
      BY DEF IsReader
    <2>3. f[p] = item[p] \/ f[p] = Throws(item[p].at)
      BY <2>1, ReadItemIs
    <2>4. Ends(Throws(item[p].at), p, Len(b))
      <3>1. p \in Nat /\ item[p].at \in p..Len(b)
        BY <1>0, <2>2 DEF Ends
      <3> QED BY <1>0, <3>1, MayEnd
    <2> HIDE DEF f
    <2> QED BY <2>2, <2>3, <2>4, WaysToEnd
  <1> HIDE DEF f
  <1>2. IsReader(f, Len(b))
    BY <1>1 DEF IsReader
  <1> QED BY <1>2 DEF f

\* The elements of an array of these dimensions, from p on.
ItemsAt(b, p, t, dims, item) ==
    Each(p, Times(ElementCount(dims, Len(b) - p), ItemReader(b, t, Len(dims), item)))

LEMMA ReadItemsIs ==
    ASSUME NEW b, NEW p, NEW t, NEW dims, NEW item
    PROVE  ReadItems(b, p, t, dims, item) =
             IF ItemsAt(b, p, t, dims, item).is # "done" THEN ItemsAt(b, p, t, dims, item)
             ELSE Done(ItemsAt(b, p, t, dims, item).at,
                       <<[dims |-> dims, items |-> ItemsAt(b, p, t, dims, item).got]>>)
  BY Zenon DEF ReadItems, Then, ItemsAt, ItemReader, Readable

LEMMA ReadItemsEnds ==
    ASSUME NEW b \in Bytes, NEW p \in 0..Len(b), NEW t, NEW dims \in Seq(Int),
           NEW item, IsReader(item, Len(b))
    PROVE  Ends(ReadItems(b, p, t, dims, item), p, Len(b))
  <1> DEFINE r == ItemsAt(b, p, t, dims, item)
             f == ItemReader(b, t, Len(dims), item)
             n == ElementCount(dims, Len(b) - p)
             x == <<[dims |-> dims, items |-> r.got]>>
  <1>0. Len(b) \in Nat /\ p \in Nat /\ Len(b) - p \in Nat
    BY BytesLen
  <1>1. IsReader(f, Len(b))
    BY ItemReaderIs
  <1>2. n \in Int
    BY <1>0, ElementsSettle
  <1>3. Ends(r, p, Len(b))
    <2> HIDE DEF f, n
    <2>1. Ends(Each(p, Times(n, f)), p, Len(b))
      BY <1>0, <1>1, <1>2, TimesEnds
    <2> QED BY <2>1 DEF ItemsAt, f, n
  <1>4. ReadItems(b, p, t, dims, item) = IF r.is # "done" THEN r ELSE Done(r.at, x)
    BY ReadItemsIs
  <1> HIDE DEF r, f, n, x
  <1>5. Ends(Done(r.at, x), p, Len(b))
    <2>1. r.at \in p..Len(b)
      BY <1>3 DEF Ends
    <2> QED BY <1>0, <2>1, MayEnd
  <1> QED BY <1>3, <1>4, <1>5

\* The dimensions that begin at p.
DimsAt(b, p, n) == Each(p, Times(n, IntReader(b)))

LEMMA ReadArrayIs ==
    ASSUME NEW b \in Bytes, NEW p \in 0..Len(b), NEW t, NEW items, t.sub # <<>>
    PROVE  IF Len(b) - p < 4 THEN ReadArray(b, p, t, items) = Throws(p)
           ELSE /\ IntAt(b, p, 4) \in Int
                /\ p + 4 \in 0..Len(b)
                /\ ReadArray(b, p, t, items) =
                     IF IntAt(b, p, 4) \notin 1..3 THEN Throws(p + 4)
                     ELSE IF DimsAt(b, p + 4, IntAt(b, p, 4)).is # "done"
                     THEN DimsAt(b, p + 4, IntAt(b, p, 4))
                     ELSE IF \E i \in DOMAIN DimsAt(b, p + 4, IntAt(b, p, 4)).got :
                                DimsAt(b, p + 4, IntAt(b, p, 4)).got[i] < 0
                     THEN Throws(DimsAt(b, p + 4, IntAt(b, p, 4)).at)
                     ELSE ReadItems(b, DimsAt(b, p + 4, IntAt(b, p, 4)).at, t.sub[1],
                                    DimsAt(b, p + 4, IntAt(b, p, 4)).got, items[1])
  <1> DEFINE r == ReadInt(b, p, 4)
             n == IntAt(b, p, 4)
             D(a, k) == DimsAt(b, a, k)
  <1>1. ReadArray(b, p, t, items) =
            IF r.is = "done" THEN
                IF r.got \notin 1..3 THEN Throws(r.at)
                ELSE IF D(r.at, r.got).is = "done" THEN
                    IF \E i \in DOMAIN D(r.at, r.got).got : D(r.at, r.got).got[i] < 0
                    THEN Throws(D(r.at, r.got).at)
                    ELSE ReadItems(b, D(r.at, r.got).at, t.sub[1], D(r.at, r.got).got, items[1])
                ELSE D(r.at, r.got)
            ELSE r
    BY Zenon DEF ReadArray, Then, DimsAt
  <1>2. IF Len(b) - p < 4 THEN r = Throws(p)
        ELSE r = Done(p + 4, n) /\ n \in Int /\ p + 4 \in 0..Len(b)
    BY ReadIntIs
  <1> HIDE DEF r, n
  <1>3. CASE Len(b) - p < 4
    <2>1. r = Throws(p) /\ r.is # "done"
      BY <1>2, <1>3, WaysToEnd
    <2> QED BY <1>1, <1>3, <2>1
  <1>4. CASE ~ (Len(b) - p < 4)
    <2>1. r = Done(p + 4, n) /\ n \in Int /\ p + 4 \in 0..Len(b)
      BY <1>2, <1>4
    <2>2. r.is = "done" /\ r.at = p + 4 /\ r.got = n
      BY <2>1, WaysToEnd
    <2> DEFINE d == DimsAt(b, p + 4, n)
    <2>3. ReadArray(b, p, t, items) =
                IF n \notin 1..3 THEN Throws(p + 4)
                ELSE IF d.is # "done" THEN d
                ELSE IF \E i \in DOMAIN d.got : d.got[i] < 0 THEN Throws(d.at)
                ELSE ReadItems(b, d.at, t.sub[1], d.got, items[1])
      BY <1>1, <2>2, Zenon
    <2> QED BY <1>4, <2>1, <2>3, Zenon DEF n
  <1> QED BY <1>3, <1>4

LEMMA DimsEnd ==
    ASSUME NEW b \in Bytes, NEW p \in 0..Len(b), NEW n \in Int
    PROVE  /\ Ends(DimsAt(b, p, n), p, Len(b))
           /\ DimsAt(b, p, n).is = "done" => DimsAt(b, p, n).got \in Seq(Int)
  <1> DEFINE G == GotBy(IntReader(b), Len(b))
             r == Each(p, Times(n, IntReader(b)))
  <1>0. Len(b) \in Nat
    BY BytesLen
  <1>1. IsReader(IntReader(b), Len(b)) /\ \A k \in G : k \in Int
    BY IntReaderIs
  <1>2. Ends(r, p, Len(b)) /\ (r.is = "done" => r.got \in Seq(G))
    BY <1>0, <1>1, TimesEnds
  <1> HIDE DEF G, r
  <1>3. ASSUME r.got \in Seq(G) PROVE r.got \in Seq(Int)
    <2> DEFINE s == r.got
    <2>1. s \in Seq(G)
      BY <1>3
    <2> HIDE DEF s
    <2>2. s \in Seq(Int)
      BY <1>1, <2>1
    <2> QED BY <2>2 DEF s
  <1> QED BY <1>2, <1>3 DEF DimsAt, r

LEMMA ReadArrayEnds ==
    ASSUME NEW b \in Bytes, NEW p \in 0..Len(b), NEW t, NEW items,
           t.sub # <<>> => IsReader(items[1], Len(b))
    PROVE  Ends(ReadArray(b, p, t, items), p, Len(b))
  <1>0. Len(b) \in Nat /\ p \in Nat /\ p \in p..Len(b)
    BY BytesLen
  <1>1. CASE t.sub = <<>>
    <2>1. ReadArray(b, p, t, items) = Throws(p)
      BY <1>1 DEF ReadArray
    <2> QED BY <1>0, <2>1, MayEnd
  <1>2. CASE t.sub # <<>> /\ Len(b) - p < 4
    <2>1. ReadArray(b, p, t, items) = Throws(p)
      BY <1>2, ReadArrayIs
    <2> QED BY <1>0, <2>1, MayEnd
  <1>3. CASE t.sub # <<>> /\ ~ (Len(b) - p < 4)
    <2> DEFINE n == IntAt(b, p, 4)
               d == DimsAt(b, p + 4, n)
               r == ReadItems(b, d.at, t.sub[1], d.got, items[1])
    <2>1. /\ n \in Int
          /\ p + 4 \in 0..Len(b)
          /\ ReadArray(b, p, t, items) = IF n \notin 1..3 THEN Throws(p + 4)
                                         ELSE IF d.is # "done" THEN d
                                         ELSE IF \E i \in DOMAIN d.got : d.got[i] < 0
                                         THEN Throws(d.at)
                                         ELSE r
      BY <1>3, ReadArrayIs
    <2>2. Ends(d, p + 4, Len(b)) /\ (d.is = "done" => d.got \in Seq(Int))
      BY <2>1, DimsEnd
    <2>3. d.at \in p + 4..Len(b) /\ p + 4 \in Nat /\ p <= p + 4 /\ p + 4 \in p..Len(b)
      BY <1>0, <2>1, <2>2 DEF Ends
    <2>4. d.at \in 0..Len(b) /\ d.at \in Nat /\ p <= d.at /\ d.at \in p..Len(b)
      BY <1>0, <2>3
    <2>5. ASSUME d.is = "done" PROVE Ends(r, d.at, Len(b))
      <3> DEFINE s == d.got
                 a == d.at
                 u == t.sub[1]
                 i == items[1]
      <3>1. s \in Seq(Int) /\ a \in 0..Len(b) /\ IsReader(i, Len(b))
        BY <1>3, <2>2, <2>4, <2>5
      <3> HIDE DEF s, a, u, i, d
      <3>2. Ends(ReadItems(b, a, u, s, i), a, Len(b))
        BY <3>1, ReadItemsEnds
      <3> QED BY <3>2 DEF s, a, u, i, r
    <2> HIDE DEF n, d, r
    <2>6. d.is = "done" => Ends(r, p, Len(b))
      BY <1>0, <2>4, <2>5, EndsLater
    <2>7. Ends(d, p, Len(b))
      BY <1>0, <2>2, <2>3, EndsLater
    <2>8. Ends(Throws(p + 4), p, Len(b)) /\ Ends(Throws(d.at), p, Len(b))
      BY <1>0, <2>3, <2>4, MayEnd
    <2> QED BY <2>1, <2>6, <2>7, <2>8, Zenon
  <1> QED BY <1>1, <1>2, <1>3

LEMMA ReadRowIs ==
    ASSUME NEW p, NEW columns
    PROVE  ReadRow(p, columns) =
             IF Each(p, columns).is # "done" THEN Each(p, columns)
             ELSE Done(Each(p, columns).at, <<Each(p, columns).got>>)
  BY Zenon DEF ReadRow, Then

LEMMA ReadRowEnds ==
    ASSUME NEW m \in Nat, NEW p \in 0..m, NEW columns, Len(columns) \in Nat,
           \A i \in 1..Len(columns) : IsReader(columns[i], m)
    PROVE  Ends(ReadRow(p, columns), p, m)
  <1> DEFINE r == Each(p, columns)
  <1>1. Ends(r, p, m)
    BY EachEnds
  <1>2. ReadRow(p, columns) = IF r.is # "done" THEN r ELSE Done(r.at, <<r.got>>)
    BY ReadRowIs
  <1> HIDE DEF r
  <1>3. p \in Nat /\ r.at \in p..m
    BY <1>1 DEF Ends
  <1>4. Ends(Done(r.at, <<r.got>>), p, m)
    BY <1>3, MayEnd
  <1> QED BY <1>1, <1>2, <1>4

LEMMA ReadNonNullIs ==
    ASSUME NEW b, NEW p, NEW t, NEW subs
    PROVE  /\ t.data \in DOMAIN Width =>
                 ReadNonNull(b, p, t, subs) = ReadBytes(b, p, Width[t.data])
           /\ t.data \in {"text", "bytea"} => ReadNonNull(b, p, t, subs) = ReadSized(b, p)
           /\ t.data = "array" => ReadNonNull(b, p, t, subs) = ReadArray(b, p, t, subs)
           /\ t.data = "udt" => ReadNonNull(b, p, t, subs) = ReadRow(p, subs)
  BY Kinds DEF ReadNonNull

\* A value that is not null, or null.
ValueAt(b, p, t, subs) ==
    IF b[p + 1] # CharD THEN ReadNull(p + 1, t) ELSE ReadNonNull(b, p + 1, t, subs)

LEMMA ReadValueByIs ==
    ASSUME NEW b, NEW p, NEW t, NEW subs
    PROVE  ReadValueBy(b, p, t, subs) =
             IF Len(b) - p < 1 THEN Throws(p)
             ELSE IF ValueAt(b, p, t, subs).is = "lacking"
             THEN Throws(ValueAt(b, p, t, subs).at)
             ELSE ValueAt(b, p, t, subs)
  <1>1. CASE Len(b) - p < 1
    BY <1>1, WaysToEnd DEF ReadValueBy, NotNull, Readable
  <1>2. CASE ~ (Len(b) - p < 1)
    BY <1>2, Zenon DEF ReadValueBy, NotNull, Readable, ValueAt
  <1> QED BY <1>1, <1>2

\* A reader of values of the type t, by the readers of the values of its subtypes.
LEMMA ValueReaderIs ==
    ASSUME NEW b \in Bytes, NEW t, NEW G, IsTypeOver(t, G),
           NEW subs, Len(subs) = Len(t.sub),
           \A i \in 1..Len(t.sub) : IsReader(subs[i], Len(b))
    PROVE  IsReader(ValueReader(b, t, subs), Len(b))
  <1> DEFINE m == Len(b)
             f == ValueReader(b, t, subs)
  <1>0. m \in Nat
    BY BytesLen
  <1>00. Len(t.sub) \in Nat /\ (t.sub # <<>> => Len(t.sub) >= 1)
    BY DEF IsTypeOver
  <1>1. ASSUME NEW p \in 0..m
        PROVE  Ends(f[p], p, m) /\ (f[p].is = "done" => p + 1 <= f[p].at)
    <2> DEFINE r == ValueAt(b, p, t, subs)
    <2>1. f[p] = IF m - p < 1 THEN Throws(p)
                 ELSE IF r.is = "lacking" THEN Throws(r.at) ELSE r
      <3>1. f[p] = ReadValueBy(b, p, t, subs)
        BY DEF ValueReader, Places
      <3> QED BY <3>1, ReadValueByIs
    <2>2. p \in Nat /\ p \in p..m
      BY <1>0
    <2>3. CASE m - p < 1
      <3>1. f[p] = Throws(p)
        BY <2>1, <2>3
      <3> QED BY <1>0, <2>2, <3>1, MayEnd, WaysToEnd
    <2>4. CASE ~ (m - p < 1)
      <3>1. p + 1 \in 0..m /\ p + 1 \in Nat /\ p <= p + 1 /\ p + 1 \in (p + 1)..m
        BY <1>0, <2>2, <2>4
      <3>2. Ends(r, p + 1, m)
        <4>1. CASE b[p + 1] # CharD
          <5>1. r = ReadNull(p + 1, t)
            BY <4>1 DEF ValueAt
          <5>2. ASSUME NEW got PROVE Ends(Done(p + 1, got), p + 1, m) /\ Ends(Throws(p + 1), p + 1, m)
            BY <1>0, <3>1, MayEnd
          <5> QED BY <5>1, <5>2 DEF ReadNull
        <4>2. CASE b[p + 1] = CharD
          <5>0. r = ReadNonNull(b, p + 1, t, subs)
            BY <4>2 DEF ValueAt
          <5> HIDE DEF r
          <5>1. CASE t.data \in DOMAIN Width
            <6>1. r = ReadBytes(b, p + 1, Width[t.data]) /\ Width[t.data] \in Nat
              BY <5>0, <5>1, ReadNonNullIs, Kinds
            <6> QED BY <3>1, <6>1, ReadBytesEnds
          <5>2. CASE t.data \in {"text", "bytea"}
            <6>1. r = ReadSized(b, p + 1)
              BY <5>0, <5>2, ReadNonNullIs
            <6> QED BY <3>1, <6>1, ReadSizedEnds
          <5>3. CASE t.data = "array"
            <6>1. r = ReadArray(b, p + 1, t, subs)
              BY <5>0, <5>3, ReadNonNullIs
            <6>2. t.sub # <<>> => IsReader(subs[1], m)
              BY <1>00
            <6> QED BY <3>1, <6>1, <6>2, ReadArrayEnds
          <5>4. CASE t.data = "udt"
            <6>1. r = ReadRow(p + 1, subs)
              BY <5>0, <5>4, ReadNonNullIs
            <6>2. Len(subs) \in Nat /\ \A i \in 1..Len(subs) : IsReader(subs[i], m)
              BY <1>00
            <6> QED BY <1>0, <3>1, <6>1, <6>2, ReadRowEnds
          <5>5. t.data \in DOMAIN Width \cup {"text", "bytea", "array", "udt"}
            <6>1. PICK i \in DOMAIN DataTypes : t.data = DataTypes[i]
              BY DEF IsTypeOver
            <6> QED BY <6>1, Kinds
          <5> QED BY <5>1, <5>2, <5>3, <5>4, <5>5
        <4> QED BY <4>1, <4>2
      <3> HIDE DEF r, f, m
      <3>3. r.at \in (p + 1)..m
        BY <3>2 DEF Ends
      <3>4. r.at \in p..m /\ p + 1 <= r.at
        BY <1>0, <2>2, <3>3
      <3>5. Ends(r, p, m) /\ Ends(Throws(r.at), p, m)
        BY <1>0, <2>2, <3>1, <3>2, <3>4, EndsLater, MayEnd
      <3>6. f[p] = Throws(r.at) \/ f[p] = r
        BY <2>1, <2>4
      <3> QED BY <3>4, <3>5, <3>6, WaysToEnd
    <2> QED BY <2>3, <2>4
  <1> HIDE DEF f, m
  <1>2. IsReader(f, m)
    BY <1>1 DEF IsReader
  <1> QED BY <1>2 DEF f, m

\* The values of every type that may have been read, the flattest first.
LEMMA ValuesEnd ==
    ASSUME NEW b \in Bytes
    PROVE  /\ \A t \in GotBy(FlatTypes(b), Len(b)) : IsReader(FlatValues(b, t), Len(b))
           /\ \A t \in GotBy(Types2(b), Len(b)) : IsReader(NestedValues(b, t), Len(b))
           /\ \A t \in GotBy(Types3(b), Len(b)) : IsReader(DeepValues(b, t), Len(b))
           /\ \A t \in GotBy(Types4(b), Len(b)) :
                 IsReader(ValueReader(b, t, [i \in DOMAIN t.sub |-> DeepValues(b, t.sub[i])]),
                          Len(b))
  <1> DEFINE m == Len(b)
  <1>0. ASSUME NEW t, NEW G, IsTypeOver(t, G), NEW subs, DOMAIN subs = DOMAIN t.sub,
               subs = [i \in DOMAIN t.sub |-> subs[i]]
        PROVE  /\ Len(subs) = Len(t.sub) /\ DOMAIN t.sub = 1..Len(t.sub)
               /\ \A i \in DOMAIN t.sub : t.sub[i] \in G
    <2>1. t.sub \in Seq(G)
      BY <1>0 DEF IsTypeOver
    <2>2. DOMAIN t.sub = 1..Len(t.sub) /\ Len(t.sub) \in Nat
          /\ \A i \in DOMAIN t.sub : t.sub[i] \in G
      BY <2>1
    <2> DEFINE n == Len(t.sub)
    <2>3. n \in Nat /\ subs = [i \in 1..n |-> subs[i]]
      BY <1>0, <2>2
    <2> HIDE DEF n
    <2>4. Len(subs) = n
      BY <2>3
    <2> QED BY <2>2, <2>4 DEF n
  <1>1. ASSUME NEW t \in GotBy(FlatTypes(b), m) PROVE IsReader(FlatValues(b, t), m)
    <2> DEFINE subs == [i \in DOMAIN t.sub |-> Unread(b)]
               G == GotBy(Unread(b), m)
    <2>1. IsTypeOver(t, G)
      BY <1>1, TypesEnd
    <2>2. DOMAIN subs = DOMAIN t.sub /\ subs = [i \in DOMAIN t.sub |-> subs[i]]
          /\ \A i \in DOMAIN t.sub : subs[i] = Unread(b)
      OBVIOUS
    <2> HIDE DEF subs, G
    <2>3. Len(subs) = Len(t.sub) /\ DOMAIN t.sub = 1..Len(t.sub)
      BY <1>0, <2>1, <2>2
    <2>4. \A i \in 1..Len(t.sub) : IsReader(subs[i], Len(b))
      BY <2>2, <2>3, UnreadIs
    <2>5. IsReader(ValueReader(b, t, subs), Len(b))
      BY <2>1, <2>3, <2>4, ValueReaderIs
    <2> QED BY <2>5 DEF FlatValues, subs
  <1>2. ASSUME NEW t \in GotBy(Types2(b), m) PROVE IsReader(NestedValues(b, t), m)
    <2> DEFINE subs == [i \in DOMAIN t.sub |-> FlatValues(b, t.sub[i])]
               G == GotBy(FlatTypes(b), m)
    <2>1. IsTypeOver(t, G)
      BY <1>2, TypesEnd
    <2>2. DOMAIN subs = DOMAIN t.sub /\ subs = [i \in DOMAIN t.sub |-> subs[i]]
          /\ \A i \in DOMAIN t.sub : subs[i] = FlatValues(b, t.sub[i])
      OBVIOUS
    <2> HIDE DEF subs
    <2>3. Len(subs) = Len(t.sub) /\ DOMAIN t.sub = 1..Len(t.sub)
          /\ \A i \in DOMAIN t.sub : t.sub[i] \in G
      <3> HIDE DEF G
      <3> QED BY <1>0, <2>1, <2>2
    <2>4. \A i \in 1..Len(t.sub) : IsReader(subs[i], Len(b))
      BY <1>1, <2>2, <2>3
    <2> HIDE DEF G
    <2>5. IsReader(ValueReader(b, t, subs), Len(b))
      BY <2>1, <2>3, <2>4, ValueReaderIs
    <2> QED BY <2>5 DEF NestedValues, subs
  <1>3. ASSUME NEW t \in GotBy(Types3(b), m) PROVE IsReader(DeepValues(b, t), m)
    <2> DEFINE subs == [i \in DOMAIN t.sub |-> NestedValues(b, t.sub[i])]
               G == GotBy(Types2(b), m)
    <2>1. IsTypeOver(t, G)
      BY <1>3, TypesEnd
    <2>2. DOMAIN subs = DOMAIN t.sub /\ subs = [i \in DOMAIN t.sub |-> subs[i]]
          /\ \A i \in DOMAIN t.sub : subs[i] = NestedValues(b, t.sub[i])
      OBVIOUS
    <2> HIDE DEF subs
    <2>3. Len(subs) = Len(t.sub) /\ DOMAIN t.sub = 1..Len(t.sub)
          /\ \A i \in DOMAIN t.sub : t.sub[i] \in G
      <3> HIDE DEF G
      <3> QED BY <1>0, <2>1, <2>2
    <2>4. \A i \in 1..Len(t.sub) : IsReader(subs[i], Len(b))
      BY <1>2, <2>2, <2>3
    <2> HIDE DEF G
    <2>5. IsReader(ValueReader(b, t, subs), Len(b))
      BY <2>1, <2>3, <2>4, ValueReaderIs
    <2> QED BY <2>5 DEF DeepValues, subs
  <1>4. ASSUME NEW t \in GotBy(Types4(b), m)
        PROVE  IsReader(ValueReader(b, t, [i \in DOMAIN t.sub |-> DeepValues(b, t.sub[i])]), m)
    <2> DEFINE subs == [i \in DOMAIN t.sub |-> DeepValues(b, t.sub[i])]
               G == GotBy(Types3(b), m)
    <2>1. IsTypeOver(t, G)
      BY <1>4, TypesEnd
    <2>2. DOMAIN subs = DOMAIN t.sub /\ subs = [i \in DOMAIN t.sub |-> subs[i]]
          /\ \A i \in DOMAIN t.sub : subs[i] = DeepValues(b, t.sub[i])
      OBVIOUS
    <2> HIDE DEF subs
    <2>3. Len(subs) = Len(t.sub) /\ DOMAIN t.sub = 1..Len(t.sub)
          /\ \A i \in DOMAIN t.sub : t.sub[i] \in G
      <3> HIDE DEF G
      <3> QED BY <1>0, <2>1, <2>2
    <2>4. \A i \in 1..Len(t.sub) : IsReader(subs[i], Len(b))
      BY <1>3, <2>2, <2>3
    <2> HIDE DEF G
    <2>5. IsReader(ValueReader(b, t, subs), Len(b))
      BY <2>1, <2>3, <2>4, ValueReaderIs
    <2> QED BY <2>5 DEF subs
  <1> QED BY <1>1, <1>2, <1>3, <1>4

-----------------------------------------------------------------------------
(* Arguments.                                                              *)

\* The name, the type and the value of the argument that begins at p.
ArgNameAt(b, p) == ReadString(b, p)
ArgTypeAt(b, p) == ReadType(b, ArgNameAt(b, p).at)
ArgValueAt(b, p) == ReadValue(b, ArgTypeAt(b, p).at, ArgTypeAt(b, p).got)
ArgumentAt(b, p) ==
    [name |-> ArgNameAt(b, p).got, type |-> ArgTypeAt(b, p).got,
     value |-> ArgValueAt(b, p).got]

LEMMA ReadArgumentIs ==
    ASSUME NEW b, NEW p
    PROVE  ReadArgument(b, p) =
             IF ArgNameAt(b, p).is # "done" THEN ArgNameAt(b, p)
             ELSE IF ArgTypeAt(b, p).is # "done" THEN ArgTypeAt(b, p)
             ELSE IF ArgValueAt(b, p).is # "done" THEN ArgValueAt(b, p)
             ELSE Done(ArgValueAt(b, p).at, ArgumentAt(b, p))
  BY Zenon DEF ReadArgument, Then, ArgNameAt, ArgTypeAt, ArgValueAt, ArgumentAt

LEMMA ReadTypeEnds ==
    ASSUME NEW b \in Bytes, NEW p \in 0..Len(b)
    PROVE  /\ Ends(ReadType(b, p), p, Len(b))
           /\ ReadType(b, p).is = "done" => ReadType(b, p).got \in GotBy(Types4(b), Len(b))
  <1>1. ReadType(b, p) = Types4(b)[p] /\ IsReader(Types4(b), Len(b))
    BY ReadTypeIs, TypesEnd
  <1> QED BY <1>1 DEF IsReader, GotBy

LEMMA ReadValueEnds ==
    ASSUME NEW b \in Bytes, NEW p \in 0..Len(b), NEW t \in GotBy(Types4(b), Len(b))
    PROVE  Ends(ReadValue(b, p, t), p, Len(b))
  <1> DEFINE f == ValueReader(b, t, [i \in DOMAIN t.sub |-> DeepValues(b, t.sub[i])])
  <1>1. IsReader(f, Len(b))
    BY ValuesEnd
  <1>2. ReadValue(b, p, t) = f[p]
    BY DEF ReadValue, ValueReader, Places
  <1> HIDE DEF f
  <1> QED BY <1>1, <1>2 DEF IsReader

LEMMA ReadArgumentEnds ==
    ASSUME NEW b \in Bytes, NEW p \in 0..Len(b)
    PROVE  Ends(ReadArgument(b, p), p, Len(b))
  <1> DEFINE r == ReadArgument(b, p)
             n == ArgNameAt(b, p)
             t == ArgTypeAt(b, p)
             v == ArgValueAt(b, p)
             x == ArgumentAt(b, p)
  <1>0. Len(b) \in Nat /\ p \in Nat
    BY BytesLen
  <1>1. r = IF n.is # "done" THEN n ELSE IF t.is # "done" THEN t
            ELSE IF v.is # "done" THEN v ELSE Done(v.at, x)
    BY ReadArgumentIs
  <1>2. Ends(n, p, Len(b))
    BY StringsEnd DEF ArgNameAt
  <1>3. n.at \in p..Len(b) /\ n.at \in 0..Len(b) /\ n.at \in Nat
    BY <1>0, <1>2 DEF Ends
  <1>4. Ends(t, n.at, Len(b)) /\ (t.is = "done" => t.got \in GotBy(Types4(b), Len(b)))
    BY <1>3, ReadTypeEnds DEF ArgTypeAt
  <1>5. t.at \in n.at..Len(b) /\ t.at \in p..Len(b) /\ t.at \in 0..Len(b) /\ t.at \in Nat
    BY <1>0, <1>3, <1>4 DEF Ends
  <1>6. t.is = "done" => Ends(v, t.at, Len(b))
    BY <1>4, <1>5, ReadValueEnds DEF ArgValueAt
  <1> HIDE DEF r, n, t, v, x
  <1>7. Ends(t, p, Len(b))
    BY <1>0, <1>3, <1>4, EndsLater
  <1>8. ASSUME t.is = "done" PROVE Ends(v, p, Len(b)) /\ Ends(Done(v.at, x), p, Len(b))
    <2>1. Ends(v, p, Len(b))
      BY <1>0, <1>5, <1>6, <1>8, EndsLater
    <2>2. v.at \in p..Len(b)
      BY <2>1 DEF Ends
    <2> QED BY <1>0, <2>1, <2>2, MayEnd
  <1>9. Ends(r, p, Len(b))
    BY <1>1, <1>2, <1>7, <1>8
  <1> QED BY <1>9 DEF r

-----------------------------------------------------------------------------
(* The type invariant.                                                     *)

\* What may have been read of the stream as an argument.
ReadArguments ==
    {ReadArgument(SubSeq(stream.bytes, 1, n), p).got : n \in 0..Len(stream.bytes),
                                                       p \in 0..Len(stream.bytes)}

\* bytes is a beginning of the stream.
Beginning == bytes = SubSeq(stream.bytes, 1, Len(bytes)) /\ Len(bytes) <= Len(stream.bytes)

\* A request has its arguments only when their number is known.
CallTypeOK ==
    /\ DOMAIN call = DOMAIN EmptyCall
    /\ call.numArgs \in Nat
    /\ call.args \in Seq(ReadArguments)
    /\ Len(call.args) <= call.numArgs
    /\ state \notin {"WAITING", "ARGUMENTS"} => call.args = <<>>

DeliveredOK ==
    /\ delivered \in Seq(Range(delivered))
    /\ \A i \in DOMAIN delivered : Len(delivered[i].args) = delivered[i].numArgs

\* The inductive invariant.
DecoderInv ==
    /\ sent \in Sessions
    /\ stream.bytes \in Bytes
    /\ bytes \in Bytes
    /\ Beginning
    /\ at \in 0..Len(bytes)
    /\ state \in States
    /\ decoding \in BOOLEAN
    /\ open \in BOOLEAN
    /\ CallTypeOK
    /\ DeliveredOK

\* The inductive invariant has the type invariant in it.
LEMMA DecoderInvType ==
    ASSUME DecoderInv
    PROVE  DecoderTypeOK
  <1>1. IsPrefix(bytes, stream.bytes)
    BY DEF DecoderInv, Beginning, IsPrefix
  <1> QED BY <1>1 DEF DecoderInv, DecoderTypeOK, CallTypeOK, DeliveredOK

LEMMA IsASequence ==
    ASSUME NEW S, NEW s \in Seq(S)
    PROVE  IsSequence(s) /\ \A x \in S : IsSequence(Append(s, x))
  <1>1. ASSUME NEW u \in Seq(S) PROVE u \in Seq(Range(u))
    <2>1. \A i \in 1..Len(u) : u[i] \in Range(u)
      BY DEF Range
    <2> QED BY <2>1
  <1>2. \A x \in S : Append(s, x) \in Seq(S)
    OBVIOUS
  <1> QED BY <1>1, <1>2 DEF IsSequence

LEMMA EmptyCallIs ==
    /\ DOMAIN EmptyCall = {"name", "src", "oid", "hasChanged", "retType", "retset",
                           "numArgs", "args"}
    /\ EmptyCall.numArgs = 0
    /\ EmptyCall.args = <<>>
  BY DEF EmptyCall

\* A field is read, before the arguments are.
LEMMA FieldRead ==
    ASSUME CallTypeOK, stream' = stream, state \notin {"WAITING", "ARGUMENTS"},
           NEW field \in {"name", "src", "oid", "hasChanged", "retType", "retset"}, NEW x,
           call' = [call EXCEPT ![field] = x]
    PROVE  CallTypeOK'
  <1>1. DOMAIN call' = DOMAIN EmptyCall
    BY DEF CallTypeOK
  <1>2. call'.numArgs = call.numArgs /\ call'.args = call.args
    BY EmptyCallIs DEF CallTypeOK
  <1>3. ReadArguments' = ReadArguments
    BY DEF ReadArguments
  <1>4. call.args = <<>>
    BY DEF CallTypeOK
  <1> QED BY <1>1, <1>2, <1>3, <1>4 DEF CallTypeOK

\* Nothing of the request changes.
LEMMA CallKept ==
    ASSUME CallTypeOK, stream' = stream, call' = call, state' = state
    PROVE  CallTypeOK'
  <1>1. ReadArguments' = ReadArguments
    BY DEF ReadArguments
  <1> QED BY <1>1 DEF CallTypeOK

LEMMA DeliveredKept ==
    ASSUME DeliveredOK, delivered' = delivered
    PROVE  DeliveredOK'
  BY DEF DeliveredOK

LEMMA DeliveredMore ==
    ASSUME DeliveredOK, NEW c, Len(c.args) = c.numArgs, delivered' = Append(delivered, c)
    PROVE  DeliveredOK'
  <1> DEFINE S == Range(delivered) \cup {c}
  <1>1. delivered \in Seq(S)
    BY DEF DeliveredOK
  <1>2. c \in S
    OBVIOUS
  <1> HIDE DEF S
  <1>3. IsSequence(delivered')
    BY <1>1, <1>2, IsASequence
  <1>4. \A i \in DOMAIN delivered' : delivered'[i] = c \/ (i \in DOMAIN delivered /\ delivered'[i] = delivered[i])
    BY <1>1, <1>2
  <1> QED BY <1>3, <1>4 DEF DeliveredOK, IsSequence

\* What the steps of decode() have in common.
LEMMA DecodeKeeps ==
    ASSUME DecoderInv, sent' = sent, stream' = stream, bytes' = bytes,
           at' \in 0..Len(bytes), state' \in States,
           decoding' \in BOOLEAN, open' \in BOOLEAN, CallTypeOK', DeliveredOK'
    PROVE  DecoderInv'
  BY DEF DecoderInv, Beginning

LEMMA StaysIn ==
    ASSUME DecoderInv, NEW i \in 0..Len(bytes), StayIn(i)
    PROVE  DecoderInv'
  <1>1. CallTypeOK' /\ DeliveredOK'
    BY CallKept, DeliveredKept DEF DecoderInv, StayIn, ReturnAt
  <1> QED BY <1>1, DecodeKeeps DEF DecoderInv, StayIn, ReturnAt

LEMMA ThrowsOut ==
    ASSUME DecoderInv, NEW i \in 0..Len(bytes), ThrowAt(i)
    PROVE  DecoderInv'
  <1>1. CallTypeOK' /\ DeliveredOK'
    BY CallKept, DeliveredKept DEF DecoderInv, ThrowAt
  <1> QED BY <1>1, DecodeKeeps DEF DecoderInv, ThrowAt

LEMMA GoesTo ==
    ASSUME DecoderInv, NEW next \in States, NEW c, NEW i \in 0..Len(bytes),
           GoTo(next, c, i), CallTypeOK'
    PROVE  DecoderInv'
  <1>1. DeliveredOK'
    BY DeliveredKept DEF DecoderInv, GoTo
  <1> QED BY <1>1, DecodeKeeps DEF DecoderInv, GoTo, ReturnAt

LEMMA Delivers ==
    ASSUME DecoderInv, NEW next \in States, NEW c, NEW i \in 0..Len(bytes),
           Deliver(next, c, i), CallTypeOK', Len(c.args) = c.numArgs
    PROVE  DecoderInv'
  <1>1. DeliveredOK'
    BY DeliveredMore DEF DecoderInv, Deliver
  <1> QED BY <1>1, DecodeKeeps DEF DecoderInv, Deliver, ReturnAt

\* The fields that are strings.
LEMMA StringStep ==
    ASSUME DecoderInv, NEW s \in {"FUNCTION_NAME", "FUNCTION_DEFINTION"},
           NEW field \in {"name", "src"}, NEW next \in States, DecodeString(s, field, next)
    PROVE  DecoderInv'
  <1> DEFINE r == ReadString(bytes, at)
  <1>1. Ends(r, at, Len(bytes)) /\ Len(bytes) \in Nat
    BY StringsEnd, BytesLen DEF DecoderInv
  <1>2. r.at \in 0..Len(bytes)
    BY <1>1 DEF Ends, DecoderInv
  <1>3. IF r.is = "done" THEN GoTo(next, [call EXCEPT ![field] = r.got], r.at)
        ELSE StayIn(r.at)
    BY DEF DecodeString
  <1> HIDE DEF r
  <1>4. CASE r.is = "done"
    <2>1. GoTo(next, [call EXCEPT ![field] = r.got], r.at)
      BY <1>3, <1>4
    <2>2. CallTypeOK'
      BY <2>1, FieldRead DEF GoTo, ReturnAt, DecoderInv, DecodeString, InCase
    <2> QED BY <1>2, <2>1, <2>2, GoesTo
  <1>5. CASE r.is # "done"
    BY <1>2, <1>3, <1>5, StaysIn
  <1> QED BY <1>4, <1>5

\* The fields that are numbers.
LEMMA IntStep ==
    ASSUME DecoderInv, NEW s \in {"OID", "HAS_CHANGED", "SET_RETURNING"},
           NEW field \in {"oid", "hasChanged", "retset"}, NEW next \in States,
           DecodeInt(s, field, next)
    PROVE  DecoderInv'
  <1> DEFINE r == ReadInt(bytes, at, 4)
             x == IF s = "OID" THEN r.got ELSE r.got = 1
  <1>1. r = Throws(at) \/ (r = Done(at + 4, IntAt(bytes, at, 4)) /\ at + 4 \in 0..Len(bytes))
    BY ReadIntIs DEF DecoderInv
  <1>2. IF r.is = "throws" THEN ThrowAt(at) ELSE GoTo(next, [call EXCEPT ![field] = x], r.at)
    BY DEF DecodeInt
  <1> HIDE DEF r, x
  <1>3. CASE r.is = "throws"
    <2>1. ThrowAt(at) /\ at \in 0..Len(bytes)
      BY <1>2, <1>3 DEF DecoderInv
    <2> QED BY <2>1, ThrowsOut
  <1>4. CASE r.is # "throws"
    <2>1. r.at \in 0..Len(bytes) /\ GoTo(next, [call EXCEPT ![field] = x], r.at)
      BY <1>1, <1>2, <1>4, WaysToEnd
    <2>2. CallTypeOK'
      BY <2>1, FieldRead DEF GoTo, ReturnAt, DecoderInv, DecodeInt, InCase
    <2> QED BY <2>1, <2>2, GoesTo
  <1> QED BY <1>3, <1>4

LEMMA ReturnTypeStep ==
    ASSUME DecoderInv, DecodeReturnType
    PROVE  DecoderInv'
  <1> DEFINE r == ReadType(bytes, at)
  <1>1. Ends(r, at, Len(bytes)) /\ Len(bytes) \in Nat
    BY ReadTypeEnds, BytesLen DEF DecoderInv
  <1>2. r.at \in 0..Len(bytes) /\ r.is \in {"done", "lacking", "throws"}
    <2>1. r.at \in at..Len(bytes)
      BY <1>1 DEF Ends
    <2>2. r.is \in {"done", "lacking", "throws"}
      BY <1>1, EndsIn
    <2> QED BY <1>1, <2>1, <2>2 DEF DecoderInv
  <1>3. /\ r.is = "throws" => ThrowAt(r.at)
        /\ r.is = "lacking" => GoTo("SET_RETURNING", call, r.at)
        /\ r.is = "done" =>
              GoTo("SET_RETURNING", [call EXCEPT !.retType = <<r.got>>], r.at)
    BY DEF DecodeReturnType
  <1> HIDE DEF r
  <1>4. "SET_RETURNING" \in States
    BY DEF States
  <1>5. CASE r.is = "throws"
    BY <1>2, <1>3, <1>5, ThrowsOut
  <1>6. CASE r.is = "lacking"
    <2>1. GoTo("SET_RETURNING", call, r.at)
      BY <1>3, <1>6
    <2>2. ReadArguments' = ReadArguments /\ call' = call /\ call.args = <<>>
      BY <2>1 DEF GoTo, ReturnAt, ReadArguments, DecodeReturnType, InCase, DecoderInv, CallTypeOK
    <2>3. CallTypeOK'
      BY <2>2 DEF CallTypeOK, DecoderInv
    <2> QED BY <1>2, <1>4, <2>1, <2>3, GoesTo
  <1>7. CASE r.is = "done"
    <2> DEFINE x == <<r.got>>
    <2>1. GoTo("SET_RETURNING", [call EXCEPT !.retType = x], r.at)
      BY <1>3, <1>7
    <2> HIDE DEF x
    <2>2. CallTypeOK'
      BY <2>1, FieldRead DEF GoTo, ReturnAt, DecoderInv, DecodeReturnType, InCase
    <2> QED BY <1>2, <1>4, <2>1, <2>2, GoesTo
  <1> QED BY <1>2, <1>5, <1>6, <1>7

LEMMA NumArgumentsStep ==
    ASSUME DecoderInv, DecodeNumArguments
    PROVE  DecoderInv'
  <1> DEFINE r == ReadInt(bytes, at, 4)
             c == [call EXCEPT !.numArgs = r.got]
  <1>1. \/ r = Throws(at)
        \/ /\ r = Done(at + 4, IntAt(bytes, at, 4))
           /\ IntAt(bytes, at, 4) \in Int
           /\ at + 4 \in 0..Len(bytes)
    BY ReadIntIs DEF DecoderInv
  <1>2. /\ state = "NUM_ARGUMENTS"
        /\ IF r.is = "throws" \/ r.got < 0 THEN ThrowAt(r.at)
           ELSE IF r.got = 0 THEN Deliver("WAITING", c, r.at) ELSE GoTo("ARGUMENTS", c, r.at)
    BY DEF DecodeNumArguments, InCase
  <1>3. r.at \in 0..Len(bytes) /\ (r.is # "throws" => r.got \in Int)
    BY <1>1, WaysToEnd DEF DecoderInv
  <1>4. /\ DOMAIN c = DOMAIN EmptyCall /\ c.numArgs = r.got /\ c.args = <<>>
        /\ call.args = <<>>
    BY <1>2, EmptyCallIs DEF DecoderInv, CallTypeOK
  <1> HIDE DEF r, c
  <1>5. ASSUME call' = c, stream' = stream, ~ (r.is = "throws" \/ r.got < 0) PROVE CallTypeOK'
    <2>1. ReadArguments' = ReadArguments
      BY <1>5 DEF ReadArguments
    <2>2. r.got \in Nat
      BY <1>3, <1>5
    <2>3. c.args \in Seq(ReadArguments) /\ Len(c.args) = 0 /\ Len(c.args) <= c.numArgs
      BY <1>4, <2>2
    <2>4. /\ DOMAIN call' = DOMAIN EmptyCall
          /\ call'.numArgs \in Nat
          /\ call'.args \in Seq(ReadArguments')
          /\ Len(call'.args) <= call'.numArgs
          /\ call'.args = <<>>
      BY <1>4, <1>5, <2>1, <2>2, <2>3
    <2> QED BY <2>4 DEF CallTypeOK
  <1>6. "WAITING" \in States /\ "ARGUMENTS" \in States
    BY DEF States
  <1>7. CASE r.is = "throws" \/ r.got < 0
    BY <1>2, <1>3, <1>7, ThrowsOut
  <1>8. CASE ~ (r.is = "throws" \/ r.got < 0) /\ r.got = 0
    <2>1. Deliver("WAITING", c, r.at)
      BY <1>2, <1>8
    <2>2. CallTypeOK'
      BY <1>5, <1>8, <2>1 DEF Deliver, ReturnAt
    <2>3. Len(c.args) = c.numArgs
      BY <1>4, <1>8
    <2> QED BY <1>3, <1>6, <2>1, <2>2, <2>3, Delivers
  <1>9. CASE ~ (r.is = "throws" \/ r.got < 0) /\ r.got # 0
    <2>1. GoTo("ARGUMENTS", c, r.at)
      BY <1>2, <1>9
    <2>2. CallTypeOK'
      BY <1>5, <1>9, <2>1 DEF GoTo, ReturnAt
    <2> QED BY <1>3, <1>6, <2>1, <2>2, GoesTo
  <1> QED BY <1>7, <1>8, <1>9

LEMMA ArgumentStep ==
    ASSUME DecoderInv, DecodeArgument
    PROVE  DecoderInv'
  <1> DEFINE r == ReadArgument(bytes, at)
             c == [call EXCEPT !.args = Append(call.args, r.got)]
  <1>0. at \in 0..Len(bytes) /\ Len(bytes) \in Nat /\ "ARGUMENTS" \in States
    BY BytesLen DEF DecoderInv, States
  <1>1. Ends(r, at, Len(bytes))
    BY ReadArgumentEnds DEF DecoderInv
  <1>2. r.at \in 0..Len(bytes) /\ r.is \in {"done", "lacking", "throws"}
    <2>1. r.at \in at..Len(bytes)
      BY <1>1 DEF Ends
    <2>2. r.is \in {"done", "lacking", "throws"}
      BY <1>1, EndsIn
    <2> QED BY <1>0, <2>1, <2>2
  <1>3. /\ state = "ARGUMENTS"
        /\ IF Len(call.args) = call.numArgs THEN StayIn(at) ELSE
              /\ r.is = "throws" => ThrowAt(r.at)
              /\ r.is = "lacking" => StayIn(at)
              /\ r.is = "done" => IF Len(c.args) = c.numArgs THEN Deliver("ARGUMENTS", c, r.at)
                                  ELSE GoTo("ARGUMENTS", c, r.at)
    BY DEF DecodeArgument, InCase
  <1>4. r.got \in ReadArguments
    <2> DEFINE n == Len(bytes)
    <2>1. n \in 0..Len(stream.bytes) /\ bytes = SubSeq(stream.bytes, 1, n)
          /\ Len(stream.bytes) \in Nat
      BY <1>0, BytesLen DEF DecoderInv, Beginning
    <2>2. at \in 0..Len(stream.bytes)
      BY <1>0, <2>1
    <2> HIDE DEF n
    <2> QED BY <2>1, <2>2 DEF ReadArguments
  <1>5. /\ DOMAIN c = DOMAIN EmptyCall /\ c.numArgs = call.numArgs
        /\ c.args = Append(call.args, r.got)
    BY EmptyCallIs DEF DecoderInv, CallTypeOK
  <1> HIDE DEF r, c
  <1>6. /\ call.args \in Seq(ReadArguments) /\ Len(call.args) <= call.numArgs
        /\ call.numArgs \in Nat
    BY DEF DecoderInv, CallTypeOK
  <1>7. c.args \in Seq(ReadArguments) /\ Len(c.args) = Len(call.args) + 1
    <2> DEFINE s == call.args
               e == r.got
               S == ReadArguments
    <2>1. s \in Seq(S) /\ e \in S
      BY <1>4, <1>6
    <2> HIDE DEF s, e, S
    <2>2. Append(s, e) \in Seq(S) /\ Len(Append(s, e)) = Len(s) + 1
      BY <2>1
    <2> QED BY <1>5, <2>2 DEF s, e, S
  <1>8. ASSUME call' = c, stream' = stream, state' = "ARGUMENTS",
               Len(call.args) # call.numArgs
        PROVE  CallTypeOK'
    <2>1. ReadArguments' = ReadArguments
      BY <1>8 DEF ReadArguments
    <2>2. Len(c.args) <= call.numArgs
      <3>1. Len(call.args) \in Nat
        BY <1>6
      <3> QED BY <1>6, <1>7, <1>8, <3>1
    <2> QED BY <1>5, <1>6, <1>7, <1>8, <2>1, <2>2 DEF CallTypeOK
  <1>9. CASE Len(call.args) = call.numArgs \/ r.is = "lacking"
    <2>1. StayIn(at)
      BY <1>3, <1>9
    <2> QED BY <1>0, <2>1, StaysIn
  <1>10. CASE Len(call.args) # call.numArgs /\ r.is = "throws"
    <2>1. ThrowAt(r.at)
      BY <1>3, <1>10
    <2> QED BY <1>2, <2>1, ThrowsOut
  <1>11. CASE Len(call.args) # call.numArgs /\ r.is = "done" /\ Len(c.args) = c.numArgs
    <2>1. Deliver("ARGUMENTS", c, r.at)
      BY <1>3, <1>11
    <2>2. CallTypeOK'
      BY <1>8, <1>11, <2>1 DEF Deliver, ReturnAt
    <2> QED BY <1>0, <1>2, <1>11, <2>1, <2>2, Delivers
  <1>12. CASE Len(call.args) # call.numArgs /\ r.is = "done" /\ Len(c.args) # c.numArgs
    <2>1. GoTo("ARGUMENTS", c, r.at)
      BY <1>3, <1>12
    <2>2. CallTypeOK'
      BY <1>8, <1>12, <2>1 DEF GoTo, ReturnAt
    <2> QED BY <1>0, <1>2, <2>1, <2>2, GoesTo
  <1> QED BY <1>2, <1>9, <1>10, <1>11, <1>12

LEMMA EmptyCallTypeOK ==
    ASSUME call' = EmptyCall
    PROVE  CallTypeOK'
  <1>1. <<>> \in Seq(ReadArguments') /\ Len(<<>>) = 0
    OBVIOUS
  <1> QED BY <1>1, EmptyCallIs DEF CallTypeOK

\* Bytes that no request begins with are skipped.
LEMMA WaitingStep ==
    ASSUME DecoderInv, DecodeWaiting, at < Len(bytes)
    PROVE  DecoderInv'
  <1>1. at + 1 \in 0..Len(bytes) /\ "FUNCTION_NAME" \in States
    BY BytesLen DEF DecoderInv, States
  <1>2. CASE bytes[at + 1] = CharC
    <2>1. GoTo("FUNCTION_NAME", EmptyCall, at + 1)
      BY <1>2 DEF DecodeWaiting
    <2>2. CallTypeOK'
      BY <2>1, EmptyCallTypeOK DEF GoTo
    <2> QED BY <1>1, <2>1, <2>2, GoesTo
  <1>3. CASE bytes[at + 1] # CharC
    <2>1. StayIn(at + 1)
      BY <1>3 DEF DecodeWaiting
    <2> QED BY <1>1, <2>1, StaysIn
  <1> QED BY <1>2, <1>3

LEMMA ArriveStep ==
    ASSUME DecoderInv, Arrival
    PROVE  DecoderInv'
  <1>1. PICK n \in 1..(Len(stream.bytes) - Len(bytes)) : Arrive(n)
    BY DEF Arrival
  <1> DEFINE k == Len(bytes) + n
             s == stream.bytes
  <1>2. s \in Bytes /\ Len(s) \in Nat /\ Len(bytes) \in Nat
    BY BytesLen DEF DecoderInv
  <1>3. k \in Nat /\ k <= Len(s) /\ bytes' = SubSeq(s, 1, k)
    BY <1>1, <1>2 DEF Arrive
  <1>4. Slice(s, 0, k) = SubSeq(s, 1, k)
    BY <1>3 DEF Slice
  <1>5. SubSeq(s, 1, k) \in Bytes /\ Len(SubSeq(s, 1, k)) = k
    <2>1. 0 \in 0..Len(s) /\ 0 + k <= Len(s)
      BY <1>2, <1>3
    <2> QED BY <1>2, <1>3, <1>4, <2>1, BytesSlice
  <1>6. at \in 0..k
    BY <1>2 DEF DecoderInv
  <1> HIDE DEF k
  <1>7. CallTypeOK' /\ DeliveredOK' /\ stream' = stream
    BY <1>1, CallKept, DeliveredKept DEF DecoderInv, Arrive
  <1>8. bytes' \in Bytes /\ Beginning' /\ at \in 0..Len(bytes')
    BY <1>3, <1>5, <1>6, <1>7 DEF Beginning
  <1> QED BY <1>1, <1>7, <1>8 DEF DecoderInv, Arrive

\* decode() is only called when there are bytes.
Awake == decoding => at < Len(bytes)

LEMMA DecoderStep ==
    ASSUME DecoderInv, Awake, [Next]_vars
    PROVE  DecoderInv' /\ Awake'
  <1>0. States = {"WAITING", "FUNCTION_NAME", "FUNCTION_DEFINTION", "OID",
                  "HAS_CHANGED", "RETURN_TYPE", "SET_RETURNING", "NUM_ARGUMENTS",
                  "ARGUMENTS"}
    BY DEF States
  <1>1. CASE Arrival
    <2>1. DecoderInv'
      BY <1>1, ArriveStep
    <2>2. PICK n \in 1..(Len(stream.bytes) - Len(bytes)) : Arrive(n)
      BY <1>1 DEF Arrival
    <2>3. bytes' = SubSeq(stream.bytes, 1, Len(bytes) + n) /\ Len(bytes) + n <= Len(stream.bytes)
          /\ at' = at /\ at <= Len(bytes) /\ Len(bytes) \in Nat /\ Len(stream.bytes) \in Nat
          /\ stream.bytes \in Bytes
      BY <2>2, BytesLen DEF Arrive, DecoderInv
    <2>4. Len(bytes') = Len(bytes) + n
      <3>1. 0 \in 0..Len(stream.bytes) /\ Len(bytes) + n \in Nat
            /\ 0 + (Len(bytes) + n) = Len(bytes) + n
        BY <2>3
      <3>2. Len(Slice(stream.bytes, 0, Len(bytes) + n)) = Len(bytes) + n
        BY <2>3, <3>1, BytesSlice
      <3>3. Slice(stream.bytes, 0, Len(bytes) + n) = SubSeq(stream.bytes, 1, Len(bytes) + n)
        BY <3>1 DEF Slice
      <3> QED BY <2>3, <3>2, <3>3
    <2> QED BY <2>1, <2>3, <2>4 DEF Awake, DecoderInv
  <1>2. CASE Decode
    <2>1. at < Len(bytes)
      BY <1>2 DEF Decode, DecodeWaiting, DecodeString, DecodeInt, DecodeReturnType,
                  DecodeNumArguments, DecodeArgument, InCase, Awake
    <2>2. ASSUME DecodeWaiting PROVE DecoderInv'
      BY <2>1, <2>2, WaitingStep
    <2>3. ASSUME DecodeString("FUNCTION_NAME", "name", "FUNCTION_DEFINTION") PROVE DecoderInv'
      BY <1>0, <2>3, StringStep
    <2>4. ASSUME DecodeString("FUNCTION_DEFINTION", "src", "OID") PROVE DecoderInv'
      BY <1>0, <2>4, StringStep
    <2>5. ASSUME DecodeInt("OID", "oid", "HAS_CHANGED") PROVE DecoderInv'
      BY <1>0, <2>5, IntStep
    <2>6. ASSUME DecodeInt("HAS_CHANGED", "hasChanged", "RETURN_TYPE") PROVE DecoderInv'
      BY <1>0, <2>6, IntStep
    <2>7. ASSUME DecodeReturnType PROVE DecoderInv'
      BY <2>7, ReturnTypeStep
    <2>8. ASSUME DecodeInt("SET_RETURNING", "retset", "NUM_ARGUMENTS") PROVE DecoderInv'
      BY <1>0, <2>8, IntStep
    <2>9. ASSUME DecodeNumArguments PROVE DecoderInv'
      BY <2>9, NumArgumentsStep
    <2>10. ASSUME DecodeArgument PROVE DecoderInv'
      BY <2>10, ArgumentStep
    <2>11. DecoderInv'
      BY <1>2, <2>2, <2>3, <2>4, <2>5, <2>6, <2>7, <2>8, <2>9, <2>10 DEF Decode
    <2>12. decoding' => at' < Len(bytes')
      <3> DEFINE P == decoding' => at' < Len(bytes')
      <3>1. /\ \A i : StayIn(i) => P
            /\ \A next, c, i : GoTo(next, c, i) => P
            /\ \A next, c, i : Deliver(next, c, i) => P
            /\ \A i : ThrowAt(i) => P
        BY DEF StayIn, GoTo, Deliver, ReturnAt, ThrowAt
      <3>2. ASSUME NEW r, Ends(r, at, Len(bytes)) PROVE r.is \in {"done", "lacking", "throws"}
        BY <3>2, EndsIn
      <3>3. Ends(ReadType(bytes, at), at, Len(bytes)) /\ Ends(ReadArgument(bytes, at), at, Len(bytes))
        BY ReadTypeEnds, ReadArgumentEnds DEF DecoderInv
      <3>4. ReadType(bytes, at).is \in {"done", "lacking", "throws"}
            /\ ReadArgument(bytes, at).is \in {"done", "lacking", "throws"}
        BY <3>2, <3>3
      <3> HIDE DEF P
      <3>5. \A s, field, next : DecodeString(s, field, next) => P
        BY <3>1 DEF DecodeString
      <3>6. \A s, field, next : DecodeInt(s, field, next) => P
        BY <3>1 DEF DecodeInt
      <3>7. DecodeReturnType => P
        BY <3>1, <3>4 DEF DecodeReturnType
      <3>8. DecodeArgument => P
        BY <3>1, <3>4 DEF DecodeArgument
      <3>9. DecodeWaiting \/ DecodeNumArguments => P
        BY <3>1 DEF DecodeWaiting, DecodeNumArguments
      <3>10. P
        BY <1>2, <3>5, <3>6, <3>7, <3>8, <3>9 DEF Decode
      <3> QED BY <3>10 DEF P
    <2> QED BY <2>11, <2>12 DEF Awake
  <1>3. CASE UNCHANGED vars
    <2>1. CallTypeOK' /\ DeliveredOK'
      BY <1>3, CallKept, DeliveredKept DEF DecoderInv, vars
    <2> QED BY <1>3, <2>1 DEF DecoderInv, Awake, Beginning, vars
  <1> QED BY <1>1, <1>2, <1>3 DEF Next

LEMMA DecoderInit ==
    ASSUME Init
    PROVE  DecoderInv /\ Awake
  <1>1. stream.bytes = Stream(sent) /\ stream.bytes \in Bytes
    BY SessionsAssumption DEF Init
  <1>2. /\ bytes = <<>> /\ Len(bytes) = 0 /\ bytes \in Bytes
        /\ at = 0 /\ at \in 0..Len(bytes) /\ Len(stream.bytes) \in Nat
    BY <1>1, BytesLen DEF Init, Bytes
  <1>3. Beginning
    <2>1. SubSeq(stream.bytes, 1, 0) = <<>>
      BY <1>1 DEF Bytes
    <2> QED BY <1>2, <2>1 DEF Beginning
  <1>4. CallTypeOK
    <2>1. <<>> \in Seq(ReadArguments) /\ Len(<<>>) = 0
      OBVIOUS
    <2> QED BY <2>1, EmptyCallIs DEF CallTypeOK, Init
  <1>5. DeliveredOK
    <2>1. delivered = <<>>
      BY DEF Init
    <2> QED BY <2>1 DEF DeliveredOK
  <1>6. state \in States
    BY DEF Init, States
  <1> QED BY <1>1, <1>2, <1>3, <1>4, <1>5, <1>6 DEF DecoderInv, Awake, Init

\* decode() keeps its place in what has arrived, and gives a request on when it has
\* all its arguments, whatever bytes the stream has and wherever it is cut.
THEOREM DecoderTypeCorrect == Spec => []DecoderTypeOK
  <1>1. Init => DecoderInv /\ Awake
    BY DecoderInit
  <1>2. (DecoderInv /\ Awake) /\ [Next]_vars => (DecoderInv /\ Awake)'
    BY DecoderStep
  <1>3. DecoderInv => DecoderTypeOK
    BY DecoderInvType
  <1> QED BY <1>1, <1>2, <1>3, PTL DEF Spec

-----------------------------------------------------------------------------
(* What was sent is what is read: numbers and strings.                     *)

\* HasAt, for bytes.
LEMMA HasSlice ==
    ASSUME NEW b \in Bytes, NEW p \in 0..Len(b), NEW s \in Bytes, HasAt(b, p, s)
    PROVE  /\ Slice(b, p, Len(s)) = s
           /\ Len(s) \in Nat
           /\ p + Len(s) \in 0..Len(b)
           /\ Len(s) <= Len(b) - p
  <1> DEFINE B == 0..255
  <1>1. b \in Seq(B) /\ s \in Seq(B)
    BY DEF Bytes
  <1> HIDE DEF B
  <1>2. Slice(b, p, Len(s)) = s
    BY <1>1, SliceHas
  <1>3. Len(b) \in Nat /\ Len(s) \in Nat
    BY <1>1
  <1>4. p + Len(s) <= Len(b)
    BY DEF HasAt
  <1> QED BY <1>2, <1>3, <1>4

LEMMA HasTwo ==
    ASSUME NEW b \in Bytes, NEW p \in 0..Len(b), NEW s \in Bytes, NEW t \in Bytes,
           HasAt(b, p, s \o t)
    PROVE  /\ HasAt(b, p, s)
           /\ p + Len(s) \in 0..Len(b)
           /\ HasAt(b, p + Len(s), t)
           /\ Len(s \o t) = Len(s) + Len(t)
           /\ Len(s) \in Nat /\ Len(t) \in Nat
           /\ p + Len(s \o t) = (p + Len(s)) + Len(t)
           /\ p + Len(s \o t) \in 0..Len(b)
  <1> DEFINE B == 0..255
  <1>1. b \in Seq(B) /\ s \in Seq(B) /\ t \in Seq(B)
    BY DEF Bytes
  <1> HIDE DEF B
  <1>2. /\ HasAt(b, p, s)
        /\ p + Len(s) \in 0..Len(b)
        /\ HasAt(b, p + Len(s), t)
        /\ Len(s \o t) = Len(s) + Len(t)
    BY <1>1, HasBoth
  <1>3. Len(s) \in Nat /\ Len(t) \in Nat /\ Len(b) \in Nat
    BY <1>1
  <1>4. p + Len(s \o t) <= Len(b)
    BY DEF HasAt
  <1> QED BY <1>2, <1>3, <1>4

\* A number of the backend.
LEMMA Int32Reads ==
    ASSUME NEW b \in Bytes, NEW p \in 0..Len(b), NEW n \in Int32s
    PROVE  /\ Int32(n) \in Bytes /\ Len(Int32(n)) = 4
           /\ HasAt(b, p, Int32(n)) => /\ IntAt(b, p, 4) = n
                                       /\ ~ (Len(b) - p < 4)
                                       /\ p + 4 \in 0..Len(b)
                                       /\ ReadInt(b, p, 4) = Done(p + 4, n)
  <1>0. n \in Int /\ Len(b) \in Nat
    BY IntsAre, BytesLen
  <1>1. Int32(n) \in Bytes /\ Len(Int32(n)) = 4
    BY <1>0, LittleEndianBytes DEF Int32
  <1>2. ASSUME HasAt(b, p, Int32(n))
        PROVE  /\ IntAt(b, p, 4) = n
               /\ ~ (Len(b) - p < 4)
               /\ p + 4 \in 0..Len(b)
               /\ ReadInt(b, p, 4) = Done(p + 4, n)
    <2>1. Slice(b, p, 4) = Int32(n) /\ p + 4 \in 0..Len(b) /\ 4 <= Len(b) - p
      BY <1>1, <1>2, HasSlice
    <2>2. IntAt(b, p, 4) = n
      BY <2>1, Int32Signed DEF IntAt
    <2>3. ~ (Len(b) - p < 4)
      BY <1>0, <2>1
    <2>4. ReadInt(b, p, 4) = Done(p + 4, n)
      BY <2>2, <2>3, ReadIntIs
    <2> QED BY <2>1, <2>2, <2>3, <2>4
  <1> QED BY <1>1, <1>2

LEMMA Int16Reads ==
    ASSUME NEW b \in Bytes, NEW p \in 0..Len(b), NEW n \in Int16s
    PROVE  /\ Int16(n) \in Bytes /\ Len(Int16(n)) = 2
           /\ HasAt(b, p, Int16(n)) => /\ IntAt(b, p, 2) = n
                                       /\ ~ (Len(b) - p < 2)
                                       /\ p + 2 \in 0..Len(b)
  <1>0. n \in Int /\ Len(b) \in Nat
    BY IntsAre, BytesLen
  <1>1. Int16(n) \in Bytes /\ Len(Int16(n)) = 2
    BY <1>0, LittleEndianBytes DEF Int16
  <1>2. ASSUME HasAt(b, p, Int16(n))
        PROVE  IntAt(b, p, 2) = n /\ ~ (Len(b) - p < 2) /\ p + 2 \in 0..Len(b)
    <2>1. Slice(b, p, 2) = Int16(n) /\ p + 2 \in 0..Len(b) /\ 2 <= Len(b) - p
      BY <1>1, <1>2, HasSlice
    <2>2. IntAt(b, p, 2) = n
      BY <2>1, Int16Signed DEF IntAt
    <2>3. ~ (Len(b) - p < 2)
      BY <1>0, <2>1
    <2> QED BY <2>1, <2>2, <2>3
  <1> QED BY <1>1, <1>2

LEMMA StringReads ==
    ASSUME NEW b \in Bytes, NEW p \in 0..Len(b), NEW s, StringFits(s)
    PROVE  /\ CString(s) \in Bytes
           /\ HasAt(b, p, CString(s)) =>
                 /\ ReadString(b, p) = Done(p + Len(CString(s)), NameAsRead(s))
                 /\ ReadTypeName(b, p) = Done(p + Len(CString(s)), NameAsRead(s))
                 /\ p + Len(CString(s)) \in 0..Len(b)
  <1> DEFINE n == LengthSent(s)
             w == BodySent(s)
             k == Int32(n)
  <1>1. /\ CString(s) = k \o w
        /\ n \in Int32s
        /\ w \in Bytes
        /\ Len(w) = IF n < 0 THEN 0 ELSE n
    BY CStringIs
  <1>2. k \in Bytes /\ Len(k) = 4
    BY <1>1, Int32Reads
  <1> HIDE DEF k
  <1>3. k \o w \in Bytes /\ Len(k \o w) = 4 + Len(w)
    BY <1>1, <1>2, BothBytes
  <1>4. ASSUME HasAt(b, p, CString(s))
        PROVE  /\ ReadString(b, p) = Done(p + Len(CString(s)), NameAsRead(s))
               /\ ReadTypeName(b, p) = Done(p + Len(CString(s)), NameAsRead(s))
               /\ p + Len(CString(s)) \in 0..Len(b)
    <2>1. HasAt(b, p, k) /\ HasAt(b, p + 4, w)
      <3>1. HasAt(b, p, k \o w)
        BY <1>1, <1>4
      <3>2. HasAt(b, p, k) /\ HasAt(b, p + Len(k), w)
        BY <1>1, <1>2, <3>1, HasTwo
      <3> QED BY <1>2, <3>2
    <2>2. IntAt(b, p, 4) = n /\ ~ (Len(b) - p < 4) /\ p + 4 \in 0..Len(b)
      BY <1>1, <2>1, Int32Reads DEF k
    <2>3. Slice(b, p + 4, Len(w)) = w /\ (p + 4) + Len(w) \in 0..Len(b)
          /\ Len(w) <= Len(b) - (p + 4) /\ Len(w) \in Nat
      BY <1>1, <2>1, <2>2, HasSlice
    <2>4. n \in Int /\ Len(b) \in Nat /\ p \in Nat
      BY <1>1, IntsAre, BytesLen
    <2>5. (p + 4) + Len(w) = p + Len(CString(s))
      <3>1. Len(CString(s)) = 4 + Len(w)
        BY <1>1, <1>3
      <3>2. Len(w) \in Nat /\ p \in Nat
        BY <2>3, <2>4
      <3> HIDE DEF n, w
      <3> QED BY <3>1, <3>2
    <2> HIDE DEF n, w
    <2>6. CASE n < 0
      <3>1. NameAsRead(s) = <<>>
        <4>1. s = <<>>
          <5> SUFFICES ASSUME s # <<>> PROVE FALSE
            OBVIOUS
          <5>1. n = Len(s[1]) /\ w = s[1]
            BY DEF n, w, LengthSent, BodySent
          <5> QED BY <2>3, <2>6, <5>1
        <4> QED BY <4>1 DEF NameAsRead
      <3>2. p + 4 = p + Len(CString(s))
        BY <1>1, <2>4, <2>5, <2>6
      <3>3. n <= 0
        BY <2>4, <2>6
      <3> QED BY <2>2, <2>3, <2>5, <2>6, <3>1, <3>2, <3>3, ReadStringIs, ReadTypeNameIs
    <2>7. CASE ~ (n < 0)
      <3>1. Len(w) = n /\ ~ (Len(b) - (p + 4) < n)
        BY <1>1, <2>3, <2>4, <2>7
      <3>2. s = <<w>>
        <4>1. s # <<>>
          <5> SUFFICES ASSUME s = <<>> PROVE FALSE
            OBVIOUS
          <5> QED BY <2>7 DEF n, LengthSent
        <4> QED BY <4>1, CStringIs DEF w, BodySent
      <3>3. Name(w) = NameAsRead(s)
        <4>1. <<w>> = <<<<>>>> <=> w = <<>>
          OBVIOUS
        <4> QED BY <3>2, <4>1 DEF Name, NameAsRead
      <3>4. ReadString(b, p) = Done((p + 4) + n, Name(w))
        BY <2>2, <2>3, <2>7, <3>1, ReadStringIs
      <3>5. ReadTypeName(b, p) = Done((p + 4) + n, Name(w))
        <4>1. CASE n <= 0
          <5>1. n = 0 /\ (p + 4) + n = p + 4
            BY <2>4, <2>7, <4>1
          <5>2. w = <<>>
            <6> DEFINE B == 0..255
            <6>1. w \in Seq(B) /\ Len(w) = 0
              BY <1>1, <3>1, <5>1 DEF Bytes
            <6> HIDE DEF B
            <6> QED BY <6>1
          <5>3. Name(w) = <<>>
            BY <5>2 DEF Name
          <5> QED BY <2>2, <4>1, <5>1, <5>3, ReadTypeNameIs
        <4>2. CASE ~ (n <= 0)
          BY <2>2, <2>3, <3>1, <4>2, ReadTypeNameIs
        <4> QED BY <4>1, <4>2
      <3> QED BY <2>3, <2>5, <3>1, <3>3, <3>4, <3>5
    <2> QED BY <2>6, <2>7
  <1> QED BY <1>1, <1>3, <1>4

-----------------------------------------------------------------------------
(* What was sent is what is read: types.                                   *)

LEMMA OrdinalIs ==
    ASSUME NEW t, HeadFits(t)
    PROVE  /\ Ordinal(t.data) \in 0..255
           /\ Ordinal(t.data) + 1 \in DOMAIN DataTypes
           /\ DataTypes[Ordinal(t.data) + 1] = t.data
  BY OrdinalOf DEF HeadFits

\* s has one element for each of those of t.
Along(s, t) == s = [i \in DOMAIN t |-> s[i]]

LEMMA AlongIs ==
    ASSUME NEW S, NEW t \in Seq(S), NEW s, Along(s, t), NEW T, \A i \in DOMAIN t : s[i] \in T
    PROVE  s \in Seq(T) /\ Len(s) = Len(t) /\ DOMAIN t = 1..Len(t) /\ Len(t) \in Nat
  <1> DEFINE n == Len(t)
  <1>1. n \in Nat /\ DOMAIN t = 1..n
    OBVIOUS
  <1> HIDE DEF n
  <1>2. s = [i \in 1..n |-> s[i]]
    BY <1>1 DEF Along
  <1>3. [i \in 1..n |-> s[i]] \in Seq(T) /\ Len([i \in 1..n |-> s[i]]) = n
    BY <1>1
  <1>4. s \in Seq(T) /\ Len(s) = n
    BY <1>2, <1>3
  <1> QED BY <1>1, <1>4 DEF n

\* The bytes of a type's subtypes, with their number.
SubBytes(t, subs) ==
    IF Composite(t.data) THEN Int16(Len(t.sub)) \o FlattenSeq(subs) ELSE <<>>

LEMMA SubTypesRead ==
    ASSUME NEW b \in Bytes, NEW p \in 0..Len(b), NEW t, HeadFits(t), Composite(t.data),
           NEW f, IsReader(f, Len(b)),
           NEW subs, Along(subs, t.sub), \A i \in DOMAIN t.sub : subs[i] \in Bytes,
           NEW gots, Along(gots, t.sub),
           \A i \in DOMAIN t.sub : Reads(f, b, subs[i], gots[i])
    PROVE  /\ SubBytes(t, subs) \in Bytes
           /\ HasAt(b, p, SubBytes(t, subs)) =>
                 ReadSubTypes(b, p, f) = Done(p + Len(SubBytes(t, subs)), gots)
  <1> DEFINE B == 0..255
             n == Len(t.sub)
             k == Int16(n)
             e == FlattenSeq(subs)
             G == {gots[i] : i \in DOMAIN t.sub}
             S == Range(t.sub)
  <1>1. t.sub \in Seq(S) /\ n \in Int16s
    BY DEF HeadFits, IsSequence
  <1>2. /\ subs \in Seq(Bytes) /\ Len(subs) = n /\ DOMAIN t.sub = 1..n /\ n \in Nat
        /\ gots \in Seq(G) /\ Len(gots) = n
    <2>1. \A i \in DOMAIN t.sub : gots[i] \in G
      OBVIOUS
    <2> HIDE DEF G, S
    <2> QED BY <1>1, <2>1, AlongIs
  <1>3. k \in Bytes /\ Len(k) = 2
    BY <1>1, Int16Reads
  <1>4. e \in Bytes
    <2>1. subs \in Seq(Seq(B))
      BY <1>2 DEF Bytes
    <2> HIDE DEF B
    <2>2. e \in Seq(B)
      BY <2>1, FlattenType
    <2> QED BY <2>2 DEF B, Bytes
  <1>5. SubBytes(t, subs) = k \o e
    BY DEF SubBytes
  <1>6. k \o e \in Bytes /\ Len(k \o e) = 2 + Len(e) /\ Len(e) \in Nat
    <2> HIDE DEF k, e
    <2> QED BY <1>3, <1>4, BothBytes
  <1>7. ASSUME HasAt(b, p, k \o e)
        PROVE  ReadSubTypes(b, p, f) = Done(p + Len(k \o e), gots)
    <2>1. HasAt(b, p, k) /\ HasAt(b, p + 2, e) /\ p + 2 \in 0..Len(b)
      <3> HIDE DEF k, e
      <3>1. HasAt(b, p, k) /\ HasAt(b, p + Len(k), e) /\ p + Len(k) \in 0..Len(b)
        BY <1>3, <1>4, <1>7, HasTwo
      <3> QED BY <1>3, <3>1
    <2>2. IntAt(b, p, 2) = n /\ ~ (Len(b) - p < 2)
      BY <1>1, <2>1, Int16Reads
    <2>3. Len(b) \in Nat /\ p \in Nat
      BY BytesLen
    <2> DEFINE fs == Times(n, f)
               q == p + 2
    <2>4. Len(fs) = n /\ \A i \in 1..n : fs[i] = f
      <3>1. n \in Int /\ (n > 0 => n = n) /\ (~ (n > 0) => n = 0)
        BY <1>2
      <3> HIDE DEF n
      <3> QED BY <3>1, TimesIs
    <2>5. q \in 0..Len(b) /\ HasAt(b, q, e) /\ q \in Nat
      BY <2>1, <2>3
    <2> HIDE DEF fs, n, q, B, G, S
    <2>6. /\ b \in Seq(B) /\ subs \in Seq(Seq(B))
          /\ \A i \in 1..Len(fs) : IsReader(fs[i], Len(b))
          /\ \A i \in 1..Len(fs) : Reads(fs[i], b, subs[i], gots[i])
          /\ Len(fs) \in Nat /\ Len(subs) = Len(fs) /\ Len(gots) = Len(fs)
      <3>1. b \in Seq(B) /\ subs \in Seq(Seq(B))
        BY <1>2 DEF Bytes, B
      <3>2. Len(fs) \in Nat /\ Len(subs) = Len(fs) /\ Len(gots) = Len(fs)
        BY <1>2, <2>4
      <3>3. \A i \in 1..Len(fs) : fs[i] = f /\ i \in DOMAIN t.sub
        BY <1>2, <2>4
      <3>4. \A i \in 1..Len(fs) : IsReader(fs[i], Len(b))
        BY <3>3, Zenon
      <3>5. \A i \in 1..Len(fs) : Reads(fs[i], b, subs[i], gots[i])
        BY <3>3, Zenon
      <3> QED BY <3>1, <3>2, <3>4, <3>5, Zenon
    <2>7. Each(q, fs) = Done(q + Len(e), gots)
      <3>1. gots \in Seq(G) /\ q \in 0..Len(b) /\ HasAt(b, q, FlattenSeq(subs))
        BY <1>2, <2>5
      <3>2. ReadOneEach(fs, b, subs, gots)
        BY <2>6, Zenon DEF ReadOneEach
      <3> HIDE DEF e
      <3>3. Each(q, fs) = Done(q + Len(FlattenSeq(subs)), gots)
        BY <2>6, <3>1, <3>2, EachReads
      <3> QED BY <3>3 DEF e
    <2>8. q + n <= Len(b)
      <3>1. /\ Ends(Each(q, fs), q, Len(b))
            /\ Each(q, fs).is = "done" => q + Len(fs) <= Each(q, fs).at
        BY <2>3, <2>5, <2>6, EachEnds
      <3>2. Each(q, fs).is = "done"
        BY <2>7, WaysToEnd
      <3>3. Each(q, fs).at \in q..Len(b) /\ q + n <= Each(q, fs).at
        BY <2>4, <3>1, <3>2 DEF Ends
      <3> QED BY <1>2, <2>3, <2>5, <3>3
    <2>9. SubCount(b, p) = n /\ ~ (n < 0)
      <3>1. ~ (n > Len(b) - q)
        BY <1>2, <2>3, <2>5, <2>8
      <3> QED BY <1>2, <2>2, <3>1 DEF SubCount, Capped, q
    <2>10. ReadSubTypes(b, p, f) = Each(q, fs)
      <3>1. ReadSubTypes(b, p, f) = Each(p + 2, Times(SubCount(b, p), f))
        BY <2>2, <2>9, ReadSubTypesIs
      <3> QED BY <2>9, <3>1 DEF fs, q
    <2>11. q + Len(e) = p + Len(k \o e)
      <3> HIDE DEF k, e
      <3> QED BY <1>6, <2>3 DEF q
    <2> QED BY <2>7, <2>10, <2>11
  <1> QED BY <1>5, <1>6, <1>7

\* A type is read as it was sent, when its subtypes are.
LEMMA TypeOverReads ==
    ASSUME NEW b \in Bytes, NEW t, HeadFits(t), NEW f, IsReader(f, Len(b)),
           NEW subs, Along(subs, t.sub), \A i \in DOMAIN t.sub : subs[i] \in Bytes,
           NEW gots, Along(gots, t.sub),
           \A i \in DOMAIN t.sub : Reads(f, b, subs[i], gots[i])
    PROVE  /\ TypeBytesOver(t, subs) \in Bytes
           /\ Len(TypeBytesOver(t, subs)) \in Nat \ {0}
           /\ Reads(TypeReader(b, f), b, TypeBytesOver(t, subs), TypeAsReadOver(t, gots))
  <1> DEFINE n == Ordinal(t.data)
             o == <<n>>
             c == CString(t.name)
             e == SubBytes(t, subs)
             w == TypeBytesOver(t, subs)
  <1>1. w = (o \o c) \o e
    BY DEF TypeBytesOver, SubBytes
  <1>2. o \in Bytes /\ Len(o) = 1
    BY OrdinalIs, OneByte
  <1>3. 0 \in 0..Len(b) /\ Len(b) \in Nat
    BY BytesLen
  <1>4. c \in Bytes
    BY <1>3, StringReads DEF HeadFits
  <1>5. e \in Bytes
    <2>1. CASE Composite(t.data)
      BY <1>3, <2>1, SubTypesRead
    <2>2. CASE ~ Composite(t.data)
      <3>1. e = <<>>
        BY <2>2 DEF SubBytes
      <3> QED BY <3>1 DEF Bytes
    <2> QED BY <2>1, <2>2
  <1> HIDE DEF o, c, e, w
  <1>6. o \o c \in Bytes /\ Len(o \o c) = 1 + Len(c) /\ Len(c) \in Nat
    BY <1>2, <1>4, BothBytes
  <1>7. w \in Bytes /\ Len(w) = (1 + Len(c)) + Len(e) /\ Len(e) \in Nat
    BY <1>1, <1>5, <1>6, BothBytes
  <1>8. ASSUME NEW p \in 0..Len(b), HasAt(b, p, w)
        PROVE  ReadTypeBy(b, p, f) = Done(p + Len(w), TypeAsReadOver(t, gots))
    <2>1. HasAt(b, p, o \o c) /\ p + Len(o \o c) \in 0..Len(b) /\ HasAt(b, p + Len(o \o c), e)
      <3>1. HasAt(b, p, (o \o c) \o e)
        BY <1>1, <1>8
      <3> QED BY <1>5, <1>6, <3>1, HasTwo
    <2>2. HasAt(b, p, o) /\ p + 1 \in 0..Len(b) /\ HasAt(b, p + 1, c)
      <3>1. HasAt(b, p, o) /\ p + Len(o) \in 0..Len(b) /\ HasAt(b, p + Len(o), c)
        BY <1>2, <1>4, <2>1, HasTwo
      <3> QED BY <1>2, <3>1
    <2>3. b[p + 1] = n
      BY <2>2, OneByte, OrdinalIs DEF o
    <2>4. b[p + 1] + 1 \in DOMAIN DataTypes /\ DataAt(b, p) = t.data
      BY <2>3, OrdinalIs DEF DataAt
    <2> DEFINE r == NameAt(b, p)
               s == SubAt(b, p, f)
               x == NameAsRead(t.name)
               q == p + Len(o \o c)
    <2>5. r = Done((p + 1) + Len(c), x)
      BY <2>2, StringReads DEF NameAt, HeadFits, c
    <2>6. (p + 1) + Len(c) = q /\ p + Len(w) = q + Len(e) /\ ~ (Len(b) - p < 1)
      <3>1. p \in Nat
        BY <1>3
      <3> QED BY <1>3, <1>6, <1>7, <2>2, <3>1
    <2>7. q \in 0..Len(b) /\ HasAt(b, q, e)
      BY <2>1
    <2> HIDE DEF r, s, x, q
    <2>8. r.is = "done" /\ r.at = q /\ r.got = x
      BY <2>5, <2>6, WaysToEnd
    <2>9. s = Done(q + Len(e), gots)
      <3>1. CASE Composite(t.data)
        <4>1. s = ReadSubTypes(b, q, f)
          BY <2>4, <2>8, <3>1 DEF SubAt, s, r
        <4>2. q \in 0..Len(b) /\ HasAt(b, q, SubBytes(t, subs))
          BY <2>7 DEF e
        <4>3. ReadSubTypes(b, q, f) = Done(q + Len(SubBytes(t, subs)), gots)
          BY <3>1, <4>2, SubTypesRead
        <4> QED BY <4>1, <4>3 DEF e
      <3>2. CASE ~ Composite(t.data)
        <4>1. s = Done(q, <<>>)
          BY <2>4, <2>8, <3>2 DEF SubAt, s, r
        <4>2. t.sub = <<>> /\ e = <<>>
          BY <3>2 DEF HeadFits, SubBytes, e
        <4>3. gots = <<>>
          <5>1. gots = [i \in DOMAIN t.sub |-> gots[i]]
            BY DEF Along
          <5>2. DOMAIN t.sub = {}
            BY <4>2
          <5>3. gots = [i \in {} |-> gots[i]] /\ <<>> = [i \in {} |-> gots[i]]
            BY <5>1, <5>2
          <5> QED BY <5>3
        <4>4. q + Len(e) = q
          <5>1. Len(<<>>) = 0 /\ q \in Nat
            BY <1>3, <2>7
          <5> QED BY <4>2, <5>1
        <4> QED BY <4>1, <4>3, <4>4
      <3> QED BY <3>1, <3>2
    <2>10. s.is = "done" /\ s.at = q + Len(e) /\ s.got = gots
      BY <2>9, WaysToEnd
    <2>11. TypeAt(b, p, f) = TypeAsReadOver(t, gots)
      BY <2>4, <2>8, <2>10 DEF TypeAt, TypeAsReadOver, r, s, x
    <2>12. ReadTypeBy(b, p, f) = Done(s.at, TypeAt(b, p, f))
      BY <2>4, <2>6, <2>8, <2>10, ReadTypeByIs DEF r, s
    <2> QED BY <2>6, <2>10, <2>11, <2>12
  <1>9. Reads(TypeReader(b, f), b, w, TypeAsReadOver(t, gots))
    <2>1. ASSUME NEW p \in 0..Len(b) PROVE TypeReader(b, f)[p] = ReadTypeBy(b, p, f)
      BY DEF TypeReader, Places
    <2> QED BY <1>8, <2>1 DEF Reads
  <1> QED BY <1>7, <1>9 DEF w

\* As deep as types nest.
LEMMA FlatTypeReads ==
    ASSUME NEW b \in Bytes, NEW t, FlatTypeFits(t)
    PROVE  /\ FlatTypeBytes(t) \in Bytes
           /\ Reads(FlatTypes(b), b, FlatTypeBytes(t), FlatTypeAsRead(t))
  <1>1. HeadFits(t) /\ t.sub = <<>>
    BY DEF FlatTypeFits
  <1> DEFINE e == <<>>
  <1>2. DOMAIN t.sub = {} /\ Along(e, t.sub)
    BY <1>1 DEF Along
  <1>3. IsReader(Unread(b), Len(b))
    BY UnreadIs
  <1> HIDE DEF e
  <1>4. /\ TypeBytesOver(t, e) \in Bytes
        /\ Reads(TypeReader(b, Unread(b)), b, TypeBytesOver(t, e), TypeAsReadOver(t, e))
    BY <1>1, <1>2, <1>3, TypeOverReads
  <1> QED BY <1>4 DEF FlatTypeBytes, FlatTypes, FlatTypeAsRead, e

LEMMA NestedTypeReads ==
    ASSUME NEW b \in Bytes, NEW t, NestedTypeFits(t)
    PROVE  /\ NestedTypeBytes(t) \in Bytes
           /\ Reads(Types2(b), b, NestedTypeBytes(t), NestedTypeAsRead(t))
  <1> DEFINE subs == [i \in DOMAIN t.sub |-> FlatTypeBytes(t.sub[i])]
             gots == [i \in DOMAIN t.sub |-> FlatTypeAsRead(t.sub[i])]
             f == FlatTypes(b)
  <1>1. HeadFits(t) /\ IsReader(f, Len(b))
    BY TypesEnd DEF NestedTypeFits
  <1>2. Along(subs, t.sub) /\ Along(gots, t.sub)
    BY DEF Along
  <1>3. \A i \in DOMAIN t.sub : subs[i] \in Bytes /\ Reads(f, b, subs[i], gots[i])
    BY FlatTypeReads DEF NestedTypeFits
  <1> HIDE DEF subs, gots, f
  <1>4. /\ TypeBytesOver(t, subs) \in Bytes
        /\ Reads(TypeReader(b, f), b, TypeBytesOver(t, subs), TypeAsReadOver(t, gots))
    BY <1>1, <1>2, <1>3, TypeOverReads
  <1> QED BY <1>4 DEF NestedTypeBytes, NestedTypeAsRead, Types2, subs, gots, f

LEMMA DeepTypeReads ==
    ASSUME NEW b \in Bytes, NEW t, DeepTypeFits(t)
    PROVE  /\ DeepTypeBytes(t) \in Bytes
           /\ Reads(Types3(b), b, DeepTypeBytes(t), DeepTypeAsRead(t))
  <1> DEFINE subs == [i \in DOMAIN t.sub |-> NestedTypeBytes(t.sub[i])]
             gots == [i \in DOMAIN t.sub |-> NestedTypeAsRead(t.sub[i])]
             f == Types2(b)
  <1>1. HeadFits(t) /\ IsReader(f, Len(b))
    BY TypesEnd DEF DeepTypeFits
  <1>2. Along(subs, t.sub) /\ Along(gots, t.sub)
    BY DEF Along
  <1>3. \A i \in DOMAIN t.sub : subs[i] \in Bytes /\ Reads(f, b, subs[i], gots[i])
    BY NestedTypeReads DEF DeepTypeFits
  <1> HIDE DEF subs, gots, f
  <1>4. /\ TypeBytesOver(t, subs) \in Bytes
        /\ Reads(TypeReader(b, f), b, TypeBytesOver(t, subs), TypeAsReadOver(t, gots))
    BY <1>1, <1>2, <1>3, TypeOverReads
  <1> QED BY <1>4 DEF DeepTypeBytes, DeepTypeAsRead, Types3, subs, gots, f

LEMMA TypeReads ==
    ASSUME NEW b \in Bytes, NEW t, TypeFits(t)
    PROVE  /\ TypeBytes(t) \in Bytes
           /\ Len(TypeBytes(t)) \in Nat \ {0}
           /\ Reads(Types4(b), b, TypeBytes(t), TypeAsRead(t))
  <1> DEFINE subs == [i \in DOMAIN t.sub |-> DeepTypeBytes(t.sub[i])]
             gots == [i \in DOMAIN t.sub |-> DeepTypeAsRead(t.sub[i])]
             f == Types3(b)
  <1>1. HeadFits(t) /\ IsReader(f, Len(b))
    BY TypesEnd DEF TypeFits
  <1>2. Along(subs, t.sub) /\ Along(gots, t.sub)
    BY DEF Along
  <1>3. \A i \in DOMAIN t.sub : subs[i] \in Bytes /\ Reads(f, b, subs[i], gots[i])
    BY DeepTypeReads DEF TypeFits
  <1> HIDE DEF subs, gots, f
  <1>4. /\ TypeBytesOver(t, subs) \in Bytes
        /\ Len(TypeBytesOver(t, subs)) \in Nat \ {0}
        /\ Reads(TypeReader(b, f), b, TypeBytesOver(t, subs), TypeAsReadOver(t, gots))
    BY <1>1, <1>2, <1>3, TypeOverReads
  <1> QED BY <1>4 DEF TypeBytes, TypeAsRead, Types4, subs, gots, f

-----------------------------------------------------------------------------
(* What was sent is what is read: values.                                  *)

\* Each of the readers reads bytes and gets its own.
ReadBytesEach(fs, b, ps, gots) ==
    ps \in Seq(Bytes) /\ IsSequence(gots) /\ ReadOneEach(fs, b, ps, gots)

\* Readers in a row read bytes in a row, of which each has at least one.
LEMMA EachBytesRead ==
    ASSUME NEW b \in Bytes, NEW p \in 0..Len(b), NEW fs, NEW ps, NEW gots,
           ReadBytesEach(fs, b, ps, gots),
           HasAt(b, p, FlattenSeq(ps))
    PROVE  /\ Each(p, fs) = Done(p + Len(FlattenSeq(ps)), gots)
           /\ p + Len(FlattenSeq(ps)) \in 0..Len(b)
           /\ p + Len(fs) <= Len(b)
           /\ Len(fs) \in Nat
  <1> DEFINE B == 0..255
             e == FlattenSeq(ps)
             G == Range(gots)
  <1>0. ps \in Seq(Bytes) /\ gots \in Seq(G) /\ ReadOneEach(fs, b, ps, gots)
    BY DEF ReadBytesEach, IsSequence
  <1>1. b \in Seq(B) /\ ps \in Seq(Seq(B))
    BY <1>0 DEF Bytes
  <1>2. e \in Bytes /\ Len(e) \in Nat
    BY <1>0, FlattenBytes
  <1>3. p + Len(e) \in 0..Len(b)
    <2> HIDE DEF e
    <2> QED BY <1>2, HasSlice DEF e
  <1> HIDE DEF B, G
  <1>4. Each(p, fs) = Done(p + Len(e), gots)
    BY <1>0, <1>1, EachReads
  <1> HIDE DEF e
  <1>5. Len(fs) \in Nat /\ \A i \in 1..Len(fs) : IsReader(fs[i], Len(b))
    BY <1>0, Zenon DEF ReadOneEach
  <1>6. Len(b) \in Nat
    BY BytesLen
  <1>7. Each(p, fs).is = "done" => p + Len(fs) <= Each(p, fs).at
    BY <1>5, <1>6, EachEnds
  <1>8. p + Len(fs) <= p + Len(e)
    BY <1>4, <1>7, WaysToEnd
  <1>9. p + Len(fs) <= Len(b)
    <2>1. p \in Nat
      BY <1>6
    <2> QED BY <1>2, <1>3, <1>5, <1>6, <1>8, <2>1
  <1> QED BY <1>3, <1>4, <1>5, <1>9 DEF e

LEMMA ScalarReads ==
    ASSUME NEW b \in Bytes, NEW p \in 0..Len(b), NEW x \in Bytes, HasAt(b, p, x)
    PROVE  ReadBytes(b, p, Len(x)) = Done(p + Len(x), <<x>>)
  <1>1. Slice(b, p, Len(x)) = x /\ Len(x) \in Nat /\ Len(x) <= Len(b) - p
    BY HasSlice
  <1>2. ~ (Len(b) - p < Len(x))
    <2>1. Len(b) \in Nat
      BY BytesLen
    <2> QED BY <1>1, <2>1
  <1> QED BY <1>1, <1>2 DEF ReadBytes, Readable

LEMMA SizedReads ==
    ASSUME NEW b \in Bytes, NEW p \in 0..Len(b), NEW x \in Bytes, Len(x) \in Int32s
    PROVE  /\ Int32(Len(x)) \o x \in Bytes
           /\ HasAt(b, p, Int32(Len(x)) \o x) =>
                 ReadSized(b, p) = Done(p + Len(Int32(Len(x)) \o x), <<x>>)
  <1> DEFINE n == Len(x)
             k == Int32(n)
  <1>0. Len(b) \in Nat /\ n \in Nat
    BY BytesLen
  <1>1. k \in Bytes /\ Len(k) = 4
    BY <1>0, Int32Reads
  <1> HIDE DEF k, n
  <1>2. k \o x \in Bytes /\ Len(k \o x) = 4 + Len(x)
    BY <1>1, BothBytes
  <1>3. ASSUME HasAt(b, p, k \o x)
        PROVE  ReadSized(b, p) = Done(p + Len(k \o x), <<x>>)
    <2>1. HasAt(b, p, k) /\ p + 4 \in 0..Len(b) /\ HasAt(b, p + 4, x)
      <3>1. HasAt(b, p, k) /\ p + Len(k) \in 0..Len(b) /\ HasAt(b, p + Len(k), x)
        BY <1>1, <1>3, HasTwo
      <3> QED BY <1>1, <3>1
    <2>2. IntAt(b, p, 4) = n /\ ~ (Len(b) - p < 4)
      BY <2>1, Int32Reads DEF k, n
    <2>3. ReadSized(b, p) = ReadBytes(b, p + 4, n)
      <3>1. ~ (n < 0)
        BY <1>0
      <3> QED BY <2>2, <3>1, ReadSizedIs
    <2>4. ReadBytes(b, p + 4, n) = Done((p + 4) + n, <<x>>)
      BY <2>1, ScalarReads DEF n
    <2>5. (p + 4) + n = p + Len(k \o x)
      <3>1. p \in Nat
        BY <1>0
      <3> QED BY <1>0, <1>2, <3>1 DEF n
    <2> QED BY <2>3, <2>4, <2>5
  <1> QED BY <1>2, <1>3 DEF k, n

\* The type tr is read where t was sent.
TypeFor(tr, t, G) ==
    /\ IsTypeOver(tr, G)
    /\ tr.data = t.data
    /\ Len(tr.sub) = Len(t.sub)
    /\ \A i \in 1..Len(t.sub) : tr.sub[i].data = t.sub[i].data

\* The reader of the ith part of a value.
PartReader(t, subs, i) == IF t.data = "array" THEN subs[1] ELSE subs[i]

\* The readers of the subtypes' values.
SubReaders(b, t, subs) ==
    /\ Len(subs) = Len(t.sub)
    /\ \A i \in 1..Len(t.sub) : IsReader(subs[i], Len(b))

\* They read the parts.
PartsRead(b, t, v, subs, parts) ==
    /\ Along(parts, PartsOf(t, v))
    /\ \A i \in DOMAIN PartsOf(t, v) :
          /\ parts[i] \in Bytes
          /\ Reads(PartReader(t, subs, i), b, parts[i], PartsOf(t, v)[i].value)

\* The parts of a row and of an array.
LEMMA RowParts ==
    ASSUME NEW t, HeadFits(t), NEW v, Fits(t, v), v # <<>>, t.data = "udt"
    PROVE  /\ Len(t.sub) \in Nat
           /\ v[1] \in Seq(Range(v[1]))
           /\ Len(v[1]) = Len(t.sub)
           /\ PartsOf(t, v) = [i \in 1..Len(t.sub) |-> Part(t.sub[i], v[1][i])]
  <1>1. t.sub \in Seq(Range(t.sub))
    BY DEF HeadFits, IsSequence
  <1> DEFINE S == Range(t.sub)
             s == t.sub
  <1>2. DOMAIN t.sub = 1..Len(t.sub) /\ Len(t.sub) \in Nat
    <2>1. s \in Seq(S)
      BY <1>1
    <2> HIDE DEF s, S
    <2>2. DOMAIN s = 1..Len(s) /\ Len(s) \in Nat
      BY <2>1
    <2> QED BY <2>2 DEF s
  <1>3. v[1] \in Seq(Range(v[1])) /\ Len(v[1]) = Len(t.sub)
    BY DEF Fits, IsSequence
  <1>4. PartsOf(t, v) = [i \in DOMAIN t.sub |-> Part(t.sub[i], v[1][i])]
    BY Zenon DEF PartsOf
  <1> QED BY <1>2, <1>3, <1>4

LEMMA ArrayParts ==
    ASSUME NEW t, HeadFits(t), NEW v, Fits(t, v), v # <<>>, t.data = "array"
    PROVE  /\ ArrayFits(t, v[1])
           /\ Len(v[1].items) \in Nat
           /\ v[1].items \in Seq(Range(v[1].items))
           /\ PartsOf(t, v) = [i \in 1..Len(v[1].items) |-> Part(t.sub[1], v[1].items[i])]
  <1>1. ArrayFits(t, v[1])
    BY DEF Fits
  <1> DEFINE s == v[1].items
             S == Range(s)
  <1>2. s \in Seq(S)
    BY <1>1 DEF ArrayFits, IsSequence
  <1>3. DOMAIN s = 1..Len(s) /\ Len(s) \in Nat
    <2> HIDE DEF s, S
    <2> QED BY <1>2
  <1>4. PartsOf(t, v) = [i \in DOMAIN v[1].items |-> Part(t.sub[1], v[1].items[i])]
    <2>1. ~ (v # <<>> /\ t.data = "udt")
      OBVIOUS
    <2> QED BY <2>1, Zenon DEF PartsOf
  <1> QED BY <1>1, <1>2, <1>3, <1>4

LEMMA RowReads ==
    ASSUME NEW b \in Bytes, NEW t, HeadFits(t), NEW v, Fits(t, v), v # <<>>, t.data = "udt",
           NEW subs, SubReaders(b, t, subs),
           NEW parts, PartsRead(b, t, v, subs, parts)
    PROVE  /\ FlattenSeq(parts) \in Bytes
           /\ \A p \in 0..Len(b) : HasAt(b, p, FlattenSeq(parts)) =>
                 ReadRow(p, subs) = Done(p + Len(FlattenSeq(parts)), v)
  <1> DEFINE n == Len(t.sub)
             x == v[1]
             G == Range(x)
             e == FlattenSeq(parts)
             P == PartsOf(t, v)
  <1>1. /\ n \in Nat /\ x \in Seq(G) /\ Len(x) = n
        /\ P = [i \in 1..n |-> Part(t.sub[i], x[i])]
    BY RowParts
  <1>2. DOMAIN P = 1..n /\ \A i \in 1..n : P[i].value = x[i]
    BY <1>1 DEF Part
  <1>3. parts = [i \in 1..n |-> parts[i]] /\ \A i \in 1..n : parts[i] \in Bytes
    BY <1>2 DEF PartsRead, Along
  <1>4. parts \in Seq(Bytes) /\ Len(parts) = n
    <2> DEFINE S == Bytes
    <2>1. \A i \in 1..n : parts[i] \in S
      BY <1>3
    <2> HIDE DEF S, n, P
    <2>2. [i \in 1..n |-> parts[i]] \in Seq(S) /\ Len([i \in 1..n |-> parts[i]]) = n
      BY <1>1, <2>1
    <2>3. parts \in Seq(S) /\ Len(parts) = n
      BY <1>3, <2>2, Zenon
    <2> QED BY <2>3 DEF S
  <1>5. e \in Bytes
    BY <1>4, FlattenBytes
  <1>6. ReadOneEach(subs, b, parts, x)
    <2>1. Len(subs) = n /\ \A i \in 1..n : IsReader(subs[i], Len(b))
      BY DEF SubReaders
    <2>2. ASSUME NEW i \in 1..n PROVE Reads(subs[i], b, parts[i], x[i])
      <3>1. Reads(PartReader(t, subs, i), b, parts[i], P[i].value)
        BY <1>2 DEF PartsRead
      <3>2. PartReader(t, subs, i) = subs[i]
        BY DEF PartReader
      <3> QED BY <1>2, <3>1, <3>2
    <2> HIDE DEF n, x
    <2> QED BY <1>1, <1>4, <2>1, <2>2 DEF ReadOneEach
  <1>7. ASSUME NEW p \in 0..Len(b), HasAt(b, p, e)
        PROVE  ReadRow(p, subs) = Done(p + Len(e), v)
    <2>1. Each(p, subs) = Done(p + Len(e), x)
      <3>1. HasAt(b, p, FlattenSeq(parts))
        BY <1>7
      <3> HIDE DEF x, G, e
      <3>2. Each(p, subs) = Done(p + Len(FlattenSeq(parts)), x)
        <4>1. IsSequence(x)
          BY <1>1 DEF IsSequence, G
        <4>2. ReadBytesEach(subs, b, parts, x)
          BY <1>4, <1>6, <4>1 DEF ReadBytesEach
        <4> QED BY <3>1, <4>2, EachBytesRead
      <3> QED BY <3>2 DEF e
    <2> DEFINE r == Each(p, subs)
    <2>2. ReadRow(p, subs) = IF r.is # "done" THEN r ELSE Done(r.at, <<r.got>>)
      BY ReadRowIs
    <2> HIDE DEF r, e
    <2>3. r.is = "done" /\ r.at = p + Len(e) /\ r.got = x
      BY <2>1, WaysToEnd DEF r
    <2>4. v = <<x>>
      BY DEF Fits
    <2> QED BY <2>2, <2>3, <2>4
  <1> QED BY <1>5, <1>7

\* The bytes of the dimensions of an array.
DimBytes(dims) == FlattenSeq([i \in DOMAIN dims |-> Int32(dims[i])])

LEMMA DimsRead ==
    ASSUME NEW b \in Bytes, NEW dims \in Seq(Nat), \A i \in DOMAIN dims : dims[i] \in Int32s
    PROVE  /\ DimBytes(dims) \in Bytes
           /\ \A p \in 0..Len(b) : HasAt(b, p, DimBytes(dims)) =>
                 /\ DimsAt(b, p, Len(dims)) = Done(p + Len(DimBytes(dims)), dims)
                 /\ p + Len(DimBytes(dims)) \in 0..Len(b)
  <1> DEFINE n == Len(dims)
             ps == [i \in DOMAIN dims |-> Int32(dims[i])]
             f == IntReader(b)
             fs == Times(n, f)
  <1>1. n \in Nat /\ DOMAIN dims = 1..n
    OBVIOUS
  <1>2. 0 \in 0..Len(b) /\ Len(b) \in Nat
    BY BytesLen
  <1>3. \A i \in 1..n : Int32(dims[i]) \in Bytes
    BY <1>1, <1>2, Int32Reads
  <1>4. ps \in Seq(Bytes) /\ Len(ps) = n /\ \A i \in 1..n : ps[i] = Int32(dims[i])
    <2> DEFINE S == Bytes
               F(i) == Int32(dims[i])
    <2>1. \A i \in 1..n : F(i) \in S
      BY <1>3
    <2> HIDE DEF S, n, F
    <2>2. [i \in 1..n |-> F(i)] \in Seq(S) /\ Len([i \in 1..n |-> F(i)]) = n
          /\ \A i \in 1..n : [k \in 1..n |-> F(k)][i] = F(i)
      BY <1>1, <2>1
    <2>3. ps = [i \in 1..n |-> F(i)]
      BY <1>1 DEF F
    <2> HIDE DEF ps
    <2> QED BY <2>2, <2>3 DEF S, F
  <1>5. Len(fs) = n /\ \A i \in 1..n : fs[i] = f
    <2>1. n \in Int /\ (n > 0 => n = n) /\ (~ (n > 0) => n = 0)
      BY <1>1
    <2> HIDE DEF n
    <2> QED BY <2>1, TimesIs
  <1>6. IsReader(f, Len(b))
    BY IntReaderIs
  <1>7. ASSUME NEW i \in 1..n PROVE Reads(f, b, ps[i], dims[i])
    <2> DEFINE d == dims[i]
    <2>0. d \in Int32s
      BY <1>1
    <2> HIDE DEF d
    <2>1. ASSUME NEW p \in 0..Len(b), HasAt(b, p, Int32(d))
          PROVE  f[p] = Done(p + Len(Int32(d)), d)
      <3>1. f[p] = ReadInt(b, p, 4)
        BY DEF IntReader, Places
      <3> HIDE DEF f
      <3> QED BY <2>0, <2>1, <3>1, Int32Reads
    <2>2. Reads(f, b, Int32(d), d)
      BY <2>1 DEF Reads
    <2> QED BY <1>4, <2>2 DEF d
  <1> HIDE DEF ps, f, n
  <1>8. ReadOneEach(fs, b, ps, dims)
    <2>1. Len(dims) = n
      BY DEF n
    <2> HIDE DEF fs
    <2> QED BY <1>1, <1>4, <1>5, <1>6, <1>7, <2>1 DEF ReadOneEach
  <1>9. FlattenSeq(ps) \in Bytes
    BY <1>4, FlattenBytes
  <1>10. ASSUME NEW p \in 0..Len(b), HasAt(b, p, FlattenSeq(ps))
         PROVE  /\ Each(p, fs) = Done(p + Len(FlattenSeq(ps)), dims)
                /\ p + Len(FlattenSeq(ps)) \in 0..Len(b)
    <2>1. IsSequence(dims)
      BY IsASequence
    <2>2. ReadBytesEach(fs, b, ps, dims)
      BY <1>4, <1>8, <2>1 DEF ReadBytesEach
    <2> HIDE DEF fs
    <2> QED BY <1>10, <2>2, EachBytesRead
  <1> QED BY <1>9, <1>10 DEF DimBytes, DimsAt, ps, f, n

\* As many elements are read as there are.
LEMMA ItemsRead ==
    ASSUME NEW b \in Bytes, NEW p \in 0..Len(b), NEW u, NEW dims \in Seq(Nat),
           NEW S, NEW items \in Seq(S), ElementCount(dims, Len(items)) = Len(items),
           \A i \in 1..Len(items) : Storable(u, Len(dims), items[i]),
           NEW f, IsReader(f, Len(b)),
           NEW parts \in Seq(Bytes), Len(parts) = Len(items),
           \A i \in 1..Len(items) : Reads(f, b, parts[i], items[i]),
           HasAt(b, p, FlattenSeq(parts))
    PROVE  ReadItems(b, p, u, dims, f)
             = Done(p + Len(FlattenSeq(parts)), <<[dims |-> dims, items |-> items]>>)
  <1> DEFINE n == Len(items)
             g == ItemReader(b, u, Len(dims), f)
             fs == Times(n, g)
             a == p + Len(FlattenSeq(parts))
  <1>1. n \in Nat /\ Len(b) \in Nat /\ p \in Nat
    BY BytesLen
  <1>2. IsReader(g, Len(b))
    BY ItemReaderIs
  <1>3. ASSUME NEW i \in 1..n PROVE Reads(g, b, parts[i], items[i])
    <2> DEFINE w == parts[i]
               x == items[i]
    <2>1. Reads(f, b, w, x) /\ Storable(u, Len(dims), x)
      BY <1>3
    <2> HIDE DEF w, x
    <2>2. ASSUME NEW q \in 0..Len(b), HasAt(b, q, w) PROVE g[q] = Done(q + Len(w), x)
      <3>1. f[q] = Done(q + Len(w), x)
        BY <2>1, <2>2 DEF Reads
      <3>2. g[q] = ReadItem(u, Len(dims), f[q])
        BY DEF ItemReader, Places
      <3>3. f[q].is = "done" /\ f[q].got = x
        BY <3>1, WaysToEnd
      <3> QED BY <2>1, <3>1, <3>2, <3>3, ReadItemIs
    <2> HIDE DEF g
    <2>3. Reads(g, b, w, x)
      BY <2>2 DEF Reads
    <2> QED BY <2>3 DEF w, x
  <1>4. Len(fs) = n /\ \A i \in 1..n : fs[i] = g
    <2>1. n \in Int /\ (n > 0 => n = n) /\ (~ (n > 0) => n = 0)
      BY <1>1
    <2> HIDE DEF n, g
    <2> QED BY <2>1, TimesIs
  <1> HIDE DEF g, n
  <1>5. ReadOneEach(fs, b, parts, items)
    <2>1. Len(items) = n /\ Len(parts) = n
      BY DEF n
    <2> HIDE DEF fs
    <2> QED BY <1>1, <1>2, <1>3, <1>4, <2>1 DEF ReadOneEach
  <1>6. Each(p, fs) = Done(a, items) /\ p + n <= Len(b)
    <2> HIDE DEF fs
    <2>1. IsSequence(items)
      BY IsASequence
    <2>2. ReadBytesEach(fs, b, parts, items)
      BY <1>5, <2>1 DEF ReadBytesEach
    <2>3. Each(p, fs) = Done(p + Len(FlattenSeq(parts)), items) /\ p + Len(fs) <= Len(b)
      BY <2>2, EachBytesRead
    <2> QED BY <1>4, <2>3
  <1>7. ElementCount(dims, Len(b) - p) = n
    <2> DEFINE m == Len(b) - p
    <2>1. m \in Nat /\ n <= m
      BY <1>1, <1>6
    <2>2. dims \in Seq(Int)
      OBVIOUS
    <2>3. ElementCount(dims, n) = n
      BY DEF n
    <2> HIDE DEF m
    <2>4. \/ ElementCount(dims, n) = ElementCount(dims, m)
          \/ Beyond(ElementCount(dims, n), ElementCount(dims, m), n)
      BY <1>1, <2>1, <2>2, ElementsSettle
    <2>5. ~ Beyond(n, ElementCount(dims, m), n)
      BY <1>1 DEF Beyond
    <2> QED BY <2>3, <2>4, <2>5 DEF m
  <1>8. ItemsAt(b, p, u, dims, f) = Done(a, items)
    BY <1>6, <1>7 DEF ItemsAt, g
  <1> HIDE DEF a
  <1>9. /\ ItemsAt(b, p, u, dims, f).is = "done"
        /\ ItemsAt(b, p, u, dims, f).at = a
        /\ ItemsAt(b, p, u, dims, f).got = items
    BY <1>8, WaysToEnd
  <1>10. ReadItems(b, p, u, dims, f) = Done(a, <<[dims |-> dims, items |-> items]>>)
    BY <1>9, ReadItemsIs
  <1> QED BY <1>10 DEF a

\* What goes before the elements of an array, and all of it.
ArrayHead(x) == Int32(Len(x.dims)) \o DimBytes(x.dims)
ArrayBytes(x, parts) == ArrayHead(x) \o FlattenSeq(parts)

LEMMA ArrayReads ==
    ASSUME NEW b \in Bytes, NEW t, HeadFits(t), NEW v, Fits(t, v), v # <<>>, t.data = "array",
           NEW tr, NEW G, TypeFor(tr, t, G),
           NEW subs, SubReaders(b, t, subs),
           NEW parts, PartsRead(b, t, v, subs, parts)
    PROVE  /\ ArrayBytes(v[1], parts) \in Bytes
           /\ \A p \in 0..Len(b) : HasAt(b, p, ArrayBytes(v[1], parts)) =>
                 ReadArray(b, p, tr, subs) = Done(p + Len(ArrayBytes(v[1], parts)), v)
  <1> DEFINE x == v[1]
             dims == x.dims
             items == x.items
             S == Range(items)
             n == Len(items)
             k == Len(dims)
             f == subs[1]
             u == tr.sub[1]
             P == PartsOf(t, v)
  <1>0. Len(b) \in Nat /\ 0 \in 0..Len(b)
    BY BytesLen
  <1>1. /\ n \in Nat /\ items \in Seq(S)
        /\ P = [i \in 1..n |-> Part(t.sub[1], items[i])]
        /\ ArrayFits(t, x)
    BY ArrayParts
  <1>2. /\ t.sub # <<>>
        /\ dims \in Seq(Nat) /\ k \in 1..3
        /\ \A i \in DOMAIN dims : dims[i] \in Int32s
        /\ ElementCount(dims, n) = n
        /\ \A i \in DOMAIN items : Storable(t.sub[1], k, items[i])
        /\ x = [dims |-> dims, items |-> items]
    BY <1>1 DEF ArrayFits
  <1>3. DOMAIN P = 1..n /\ \A i \in 1..n : P[i].value = items[i]
    BY <1>1 DEF Part
  <1>4. parts = [i \in 1..n |-> parts[i]] /\ \A i \in 1..n : parts[i] \in Bytes
    BY <1>3 DEF PartsRead, Along
  <1>5. parts \in Seq(Bytes) /\ Len(parts) = n
    <2> DEFINE T == Bytes
    <2>1. \A i \in 1..n : parts[i] \in T
      BY <1>4
    <2> HIDE DEF T, n, P
    <2>2. [i \in 1..n |-> parts[i]] \in Seq(T) /\ Len([i \in 1..n |-> parts[i]]) = n
      BY <1>1, <2>1
    <2>3. parts \in Seq(T) /\ Len(parts) = n
      BY <1>4, <2>2, Zenon
    <2> QED BY <2>3 DEF T
  <1>6. \A i \in 1..n : Reads(f, b, parts[i], items[i])
    <2>1. ASSUME NEW i \in 1..n PROVE Reads(f, b, parts[i], items[i])
      <3>1. Reads(PartReader(t, subs, i), b, parts[i], P[i].value)
        BY <1>3 DEF PartsRead
      <3>2. PartReader(t, subs, i) = f
        BY DEF PartReader
      <3> QED BY <1>3, <3>1, <3>2
    <2> QED BY <2>1
  <1>7. Len(t.sub) \in Nat /\ 1 \in 1..Len(t.sub) /\ tr.sub # <<>> /\ u.data = t.sub[1].data
        /\ IsReader(f, Len(b))
    <2> DEFINE s == t.sub
               R == Range(s)
               s2 == tr.sub
    <2>1. s \in Seq(R) /\ s # <<>> /\ s2 \in Seq(G) /\ Len(s2) = Len(s)
      BY <1>2 DEF HeadFits, IsSequence, TypeFor, IsTypeOver
    <2> HIDE DEF s, R, s2
    <2>2. Len(s) \in Nat /\ 1 \in 1..Len(s) /\ s2 # <<>>
      BY <2>1
    <2>3. \A i \in 1..Len(t.sub) : tr.sub[i].data = t.sub[i].data
      BY DEF TypeFor
    <2>4. \A i \in 1..Len(t.sub) : IsReader(subs[i], Len(b))
      BY DEF SubReaders
    <2> QED BY <2>2, <2>3, <2>4 DEF s, s2
  <1>8. \A i \in 1..n : Storable(u, k, items[i])
    <2>1. DOMAIN items = 1..n
      <3> DEFINE s == items
      <3>1. s \in Seq(S)
        BY <1>1
      <3> HIDE DEF s, S
      <3>2. DOMAIN s = 1..Len(s)
        BY <3>1
      <3> QED BY <3>2 DEF s
    <2> QED BY <1>2, <1>7, <2>1 DEF Storable
  <1> DEFINE h == Int32(k)
             d == DimBytes(dims)
             e == FlattenSeq(parts)
  <1>9. /\ d \in Bytes
        /\ \A p \in 0..Len(b) : HasAt(b, p, d) =>
              /\ DimsAt(b, p, k) = Done(p + Len(d), dims)
              /\ p + Len(d) \in 0..Len(b)
    <2> HIDE DEF dims
    <2>1. dims \in Seq(Nat) /\ \A i \in DOMAIN dims : dims[i] \in Int32s
      BY <1>2
    <2> QED BY <2>1, DimsRead
  <1>10. k \in Int32s
    <2>1. k \in Int /\ k >= -1 /\ k <= MaxInt32
      <3>1. k \in {1, 2, 3}
        BY <1>2
      <3> HIDE DEF k
      <3> QED BY <3>1, SMT DEF MaxInt32
    <2> QED BY <2>1, IntsAre
  <1>11. h \in Bytes /\ Len(h) = 4
    <2> HIDE DEF k
    <2> QED BY <1>0, <1>10, Int32Reads
  <1>12. e \in Bytes
    BY <1>5, FlattenBytes
  <1>13. ArrayHead(x) = h \o d /\ ArrayBytes(x, parts) = (h \o d) \o e
    BY DEF ArrayHead, ArrayBytes
  <1>14. (h \o d) \o e \in Bytes /\ h \o d \in Bytes
    <2> HIDE DEF h, d, e
    <2>1. h \o d \in Bytes
      BY <1>9, <1>11, BothBytes
    <2> QED BY <1>12, <2>1, BothBytes
  <1>15. ASSUME NEW p \in 0..Len(b), HasAt(b, p, (h \o d) \o e)
         PROVE  ReadArray(b, p, tr, subs) = Done(p + Len((h \o d) \o e), v)
    <2>1. /\ HasAt(b, p, h) /\ p + 4 \in 0..Len(b)
          /\ HasAt(b, p + 4, d) /\ (p + 4) + Len(d) \in 0..Len(b)
          /\ HasAt(b, (p + 4) + Len(d), e)
          /\ ((p + 4) + Len(d)) + Len(e) = p + Len((h \o d) \o e)
      <3> HIDE DEF h, d, e
      <3>1. /\ HasAt(b, p, h \o d)
            /\ HasAt(b, p + Len(h \o d), e)
            /\ p + Len((h \o d) \o e) = (p + Len(h \o d)) + Len(e)
        BY <1>12, <1>14, <1>15, HasTwo
      <3>2. /\ HasAt(b, p, h) /\ p + Len(h) \in 0..Len(b)
            /\ HasAt(b, p + Len(h), d)
            /\ p + Len(h \o d) = (p + Len(h)) + Len(d)
            /\ p + Len(h \o d) \in 0..Len(b)
        BY <1>9, <1>11, <3>1, HasTwo
      <3> QED BY <1>11, <3>1, <3>2
    <2> DEFINE q == p + 4
               a == q + Len(d)
    <2>2. IntAt(b, p, 4) = k /\ ~ (Len(b) - p < 4)
      <3> HIDE DEF k
      <3> QED BY <1>10, <2>1, Int32Reads DEF h
    <2>3. DimsAt(b, q, k) = Done(a, dims)
      BY <1>9, <2>1
    <2> DEFINE dd == DimsAt(b, q, k)
               r == ReadItems(b, a, u, dims, f)
    <2>4. dd.is = "done" /\ dd.at = a /\ dd.got = dims
      <3> HIDE DEF a, dims
      <3> QED BY <2>3, WaysToEnd
    <2>5. ~ \E i \in DOMAIN dims : dims[i] < 0
      <3> DEFINE s == dims
      <3>1. s \in Seq(Nat)
        BY <1>2
      <3> HIDE DEF s
      <3>2. ~ \E i \in DOMAIN s : s[i] < 0
        BY <3>1
      <3> QED BY <3>2 DEF s
    <2>6. ReadArray(b, p, tr, subs) = r
      <3>1. ReadArray(b, p, tr, subs) =
                     IF k \notin 1..3 THEN Throws(q)
                     ELSE IF dd.is # "done" THEN dd
                     ELSE IF \E i \in DOMAIN dd.got : dd.got[i] < 0
                     THEN Throws(dd.at)
                     ELSE ReadItems(b, dd.at, u, dd.got, f)
        <4> HIDE DEF k
        <4> QED BY <1>7, <2>2, ReadArrayIs
      <3> HIDE DEF dd, k, r, a, dims
      <3>2. ReadArray(b, p, tr, subs) = ReadItems(b, dd.at, u, dd.got, f)
        BY <1>2, <2>4, <2>5, <3>1, Zenon
      <3> QED BY <2>4, <3>2, Zenon DEF r
    <2>7. r = Done(a + Len(e), <<[dims |-> dims, items |-> items]>>)
      <3>1. a \in 0..Len(b) /\ HasAt(b, a, FlattenSeq(parts))
        BY <2>1
      <3>2. dims \in Seq(Nat) /\ ElementCount(dims, Len(items)) = Len(items)
        BY <1>2
      <3>3. \A i \in 1..Len(items) : Storable(u, Len(dims), items[i])
        BY <1>8
      <3>4. parts \in Seq(Bytes) /\ Len(parts) = Len(items)
        BY <1>5
      <3>5. \A i \in 1..Len(items) : Reads(f, b, parts[i], items[i])
        BY <1>6
      <3>6. items \in Seq(S) /\ IsReader(f, Len(b))
        BY <1>1, <1>7
      <3> HIDE DEF a, dims, items, S, u, f, e, r
      <3>7. ReadItems(b, a, u, dims, f)
             = Done(a + Len(FlattenSeq(parts)), <<[dims |-> dims, items |-> items]>>)
        BY <3>1, <3>2, <3>3, <3>4, <3>5, <3>6, ItemsRead
      <3> QED BY <3>7 DEF r, e
    <2>8. v = <<x>>
      BY DEF Fits
    <2>9. <<[dims |-> dims, items |-> items]>> = v
      BY <1>2, <2>8, Zenon
    <2> QED BY <2>1, <2>6, <2>7, <2>9
  <1> QED BY <1>13, <1>14, <1>15

\* The bytes of a value that is not null, after the byte that says so.
BodyBytes(t, v, parts) ==
    CASE t.data \in DOMAIN Width -> v[1]
      [] t.data \in {"text", "bytea"} -> Int32(Len(v[1])) \o v[1]
      [] t.data = "udt" -> FlattenSeq(parts)
      [] t.data = "array" -> ArrayBytes(v[1], parts)

LEMMA ValueBytesIs ==
    ASSUME NEW t, NEW v, NEW parts
    PROVE  ValueBytesOver(t, v, parts) =
             IF v = <<>> THEN <<CharN>> ELSE <<CharD>> \o BodyBytes(t, v, parts)
  BY DEF ValueBytesOver, BodyBytes, ArrayBytes, ArrayHead, DimBytes

LEMMA BodyIs ==
    ASSUME NEW t, NEW v, NEW parts
    PROVE  /\ t.data \in DOMAIN Width => BodyBytes(t, v, parts) = v[1]
           /\ t.data \in {"text", "bytea"} => BodyBytes(t, v, parts) = Int32(Len(v[1])) \o v[1]
           /\ t.data = "udt" => BodyBytes(t, v, parts) = FlattenSeq(parts)
           /\ t.data = "array" => BodyBytes(t, v, parts) = ArrayBytes(v[1], parts)
  BY Kinds DEF BodyBytes

\* What is not null.
LEMMA BodyReads ==
    ASSUME NEW b \in Bytes, NEW t, HeadFits(t), NEW v, Fits(t, v), v # <<>>,
           NEW tr, NEW G, TypeFor(tr, t, G),
           NEW subs, SubReaders(b, t, subs),
           NEW parts, PartsRead(b, t, v, subs, parts)
    PROVE  /\ BodyBytes(t, v, parts) \in Bytes
           /\ \A p \in 0..Len(b) : HasAt(b, p, BodyBytes(t, v, parts)) =>
                 ReadNonNull(b, p, tr, subs) = Done(p + Len(BodyBytes(t, v, parts)), v)
  <1> DEFINE x == v[1]
             e == BodyBytes(t, v, parts)
  <1>0. v = <<x>> /\ tr.data = t.data
    BY DEF Fits, TypeFor
  <1>1. CASE t.data \in DOMAIN Width
    <2>1. x \in Bytes /\ Len(x) = Width[t.data]
      BY <1>1 DEF Fits
    <2>2. e = x
      BY <1>1, BodyIs
    <2>3. ASSUME NEW p \in 0..Len(b), HasAt(b, p, x)
          PROVE  ReadNonNull(b, p, tr, subs) = Done(p + Len(x), v)
      <3>1. ReadNonNull(b, p, tr, subs) = ReadBytes(b, p, Len(x))
        BY <1>0, <1>1, <2>1, ReadNonNullIs
      <3>2. ReadBytes(b, p, Len(x)) = Done(p + Len(x), <<x>>)
        BY <2>1, <2>3, ScalarReads
      <3> QED BY <1>0, <3>1, <3>2, Zenon
    <2> QED BY <2>1, <2>2, <2>3
  <1>2. CASE t.data \in {"text", "bytea"}
    <2>1. x \in Bytes /\ Len(x) \in Int32s
      BY <1>2 DEF Fits
    <2> DEFINE w == Int32(Len(x)) \o x
    <2>2. e = w
      BY <1>2, BodyIs
    <2>3. /\ w \in Bytes
          /\ \A p \in 0..Len(b) : HasAt(b, p, w) => ReadSized(b, p) = Done(p + Len(w), <<x>>)
      <3>1. 0 \in 0..Len(b)
        BY BytesLen
      <3> HIDE DEF x
      <3> QED BY <2>1, <3>1, SizedReads
    <2>4. \A p : ReadNonNull(b, p, tr, subs) = ReadSized(b, p)
      BY <1>0, <1>2, ReadNonNullIs
    <2>5. \A p \in 0..Len(b) : HasAt(b, p, w) => ReadSized(b, p) = Done(p + Len(w), v)
      BY <1>0, <2>3
    <2> HIDE DEF w, e
    <2> QED BY <2>2, <2>3, <2>4, <2>5, Zenon DEF e
  <1>3. CASE t.data = "udt"
    <2> DEFINE w == FlattenSeq(parts)
    <2>1. e = w
      BY <1>3, BodyIs
    <2>2. /\ w \in Bytes
          /\ \A p \in 0..Len(b) : HasAt(b, p, w) => ReadRow(p, subs) = Done(p + Len(w), v)
      BY <1>3, RowReads
    <2>3. \A p : ReadNonNull(b, p, tr, subs) = ReadRow(p, subs)
      BY <1>0, <1>3, ReadNonNullIs
    <2> HIDE DEF w, e
    <2> QED BY <2>1, <2>2, <2>3, Zenon DEF e
  <1>4. CASE t.data = "array"
    <2> DEFINE w == ArrayBytes(v[1], parts)
    <2>1. e = w
      BY <1>4, BodyIs
    <2>2. /\ w \in Bytes
          /\ \A p \in 0..Len(b) : HasAt(b, p, w) => ReadArray(b, p, tr, subs) = Done(p + Len(w), v)
      BY <1>4, ArrayReads
    <2>3. \A p : ReadNonNull(b, p, tr, subs) = ReadArray(b, p, tr, subs)
      BY <1>0, <1>4, ReadNonNullIs
    <2> HIDE DEF w, e
    <2> QED BY <2>1, <2>2, <2>3, Zenon DEF e
  <1>5. t.data \in DOMAIN Width \cup {"text", "bytea", "array", "udt"}
    BY Kinds DEF HeadFits
  <1> QED BY <1>1, <1>2, <1>3, <1>4, <1>5

\* A value is read as it was sent, when its parts are.
LEMMA ValueOverReads ==
    ASSUME NEW b \in Bytes, NEW t, HeadFits(t), NEW v, Fits(t, v),
           NEW tr, NEW G, TypeFor(tr, t, G),
           NEW subs, SubReaders(b, t, subs),
           NEW parts, PartsRead(b, t, v, subs, parts)
    PROVE  /\ ValueBytesOver(t, v, parts) \in Bytes
           /\ IsReader(ValueReader(b, tr, subs), Len(b))
           /\ Reads(ValueReader(b, tr, subs), b, ValueBytesOver(t, v, parts), v)
  <1> DEFINE w == ValueBytesOver(t, v, parts)
             f == ValueReader(b, tr, subs)
  <1>0. Len(b) \in Nat
    BY BytesLen
  <1>1. IsReader(f, Len(b))
    <2>1. IsTypeOver(tr, G) /\ Len(subs) = Len(tr.sub)
          /\ \A i \in 1..Len(tr.sub) : IsReader(subs[i], Len(b))
      BY DEF TypeFor, SubReaders
    <2> QED BY <2>1, ValueReaderIs
  <1>2. \A p \in 0..Len(b) : f[p] = ReadValueBy(b, p, tr, subs)
    BY DEF ValueReader, Places
  <1>3. CharN \in 0..255 /\ CharD \in 0..255 /\ CharN # CharD
    BY DEF CharN, CharD
  <1> HIDE DEF f
  <1>4. CASE v = <<>>
    <2>1. w = <<CharN>>
      BY <1>4, ValueBytesIs
    <2>2. w \in Bytes /\ Len(w) = 1
      BY <1>3, <2>1, OneByte
    <2>3. ASSUME NEW p \in 0..Len(b), HasAt(b, p, w) PROVE f[p] = Done(p + Len(w), v)
      <3>1. b[p + 1] = CharN
        BY <1>3, <2>1, <2>3, OneByte
      <3>2. ~ (Len(b) - p < 1)
        BY <1>0, <2>2, <2>3 DEF HasAt
      <3>3. tr.data \notin {"array", "bytea"}
        BY <1>4 DEF Fits, TypeFor
      <3>4. ValueAt(b, p, tr, subs) = Done(p + 1, <<>>)
        BY <1>3, <3>1, <3>3 DEF ValueAt, ReadNull
      <3>5. ReadValueBy(b, p, tr, subs) = Done(p + 1, <<>>)
        BY <3>2, <3>4, ReadValueByIs, WaysToEnd
      <3> QED BY <1>2, <1>4, <2>2, <3>5
    <2> QED BY <1>1, <2>2, <2>3 DEF Reads, f
  <1>5. CASE v # <<>>
    <2> DEFINE o == <<CharD>>
               e == BodyBytes(t, v, parts)
    <2>1. w = o \o e
      BY <1>5, ValueBytesIs
    <2>2. o \in Bytes /\ Len(o) = 1
      BY <1>3, OneByte
    <2>3. /\ e \in Bytes
          /\ \A p \in 0..Len(b) : HasAt(b, p, e) =>
                ReadNonNull(b, p, tr, subs) = Done(p + Len(e), v)
      BY <1>5, BodyReads
    <2> HIDE DEF e, o, w
    <2>4. w \in Bytes /\ Len(w) = 1 + Len(e) /\ Len(e) \in Nat
      BY <2>1, <2>2, <2>3, BothBytes
    <2>5. ASSUME NEW p \in 0..Len(b), HasAt(b, p, w) PROVE f[p] = Done(p + Len(w), v)
      <3>1. HasAt(b, p, o) /\ p + 1 \in 0..Len(b) /\ HasAt(b, p + 1, e)
            /\ p + Len(w) = (p + 1) + Len(e)
        <4>1. HasAt(b, p, o \o e)
          BY <2>1, <2>5
        <4>2. HasAt(b, p, o) /\ p + Len(o) \in 0..Len(b) /\ HasAt(b, p + Len(o), e)
              /\ p + Len(o \o e) = (p + Len(o)) + Len(e)
          BY <2>2, <2>3, <4>1, HasTwo
        <4> QED BY <2>1, <2>2, <4>2
      <3>2. b[p + 1] = CharD
        BY <1>3, <3>1, OneByte DEF o
      <3>3. ~ (Len(b) - p < 1)
        BY <1>0, <3>1
      <3>4. ValueAt(b, p, tr, subs) = ReadNonNull(b, p + 1, tr, subs)
        BY <3>2 DEF ValueAt
      <3>5. ValueAt(b, p, tr, subs) = Done(p + Len(w), v)
        BY <2>3, <3>1, <3>4
      <3>6. ReadValueBy(b, p, tr, subs) = ValueAt(b, p, tr, subs)
        BY <3>3, <3>5, ReadValueByIs, WaysToEnd
      <3> QED BY <1>2, <3>5, <3>6
    <2> QED BY <1>1, <2>4, <2>5 DEF Reads, f, w
  <1> QED BY <1>4, <1>5

\* Which subtype the ith part of a value is of.
SubOf(t, i) == IF t.data = "array" THEN 1 ELSE i

LEMMA PartsAre ==
    ASSUME NEW t, HeadFits(t), NEW v, Fits(t, v), NEW i \in DOMAIN PartsOf(t, v)
    PROVE  /\ SubOf(t, i) \in DOMAIN t.sub
           /\ PartsOf(t, v)[i] = Part(t.sub[SubOf(t, i)], PartsOf(t, v)[i].value)
  <1>0. /\ DOMAIN t.sub = 1..Len(t.sub) /\ Len(t.sub) \in Nat
        /\ t.sub # <<>> => 1 \in DOMAIN t.sub
    <2> DEFINE s == t.sub
               S == Range(s)
    <2>1. s \in Seq(S)
      BY DEF HeadFits, IsSequence
    <2> HIDE DEF s, S
    <2>2. DOMAIN s = 1..Len(s) /\ Len(s) \in Nat /\ (s # <<>> => 1 \in DOMAIN s)
      BY <2>1
    <2> QED BY <2>2 DEF s
  <1>1. CASE v # <<>> /\ t.data = "udt"
    <2>1. PartsOf(t, v) = [k \in 1..Len(t.sub) |-> Part(t.sub[k], v[1][k])]
      BY <1>1, RowParts
    <2>2. i \in 1..Len(t.sub) /\ PartsOf(t, v)[i] = Part(t.sub[i], v[1][i]) /\ SubOf(t, i) = i
      BY <1>1, <2>1 DEF SubOf
    <2> QED BY <1>0, <2>2 DEF Part
  <1>2. CASE v # <<>> /\ t.data = "array"
    <2>1. /\ PartsOf(t, v) = [k \in 1..Len(v[1].items) |-> Part(t.sub[1], v[1].items[k])]
          /\ t.sub # <<>>
      BY <1>2, ArrayParts DEF ArrayFits
    <2>2. PartsOf(t, v)[i] = Part(t.sub[1], v[1].items[i]) /\ SubOf(t, i) = 1
      BY <1>2, <2>1 DEF SubOf
    <2> QED BY <1>0, <2>1, <2>2 DEF Part
  <1>3. CASE ~ (v # <<>> /\ t.data = "udt") /\ ~ (v # <<>> /\ t.data = "array")
    <2>1. PartsOf(t, v) = <<>>
      BY <1>3, Zenon DEF PartsOf
    <2> QED BY <2>1
  <1> QED BY <1>1, <1>2, <1>3

\* The subtypes as they are read.
SubsFor(t, gots) ==
    Along(gots, t.sub) /\ \A i \in DOMAIN t.sub : gots[i].data = t.sub[i].data

LEMMA TypeForOver ==
    ASSUME NEW t, HeadFits(t), NEW gots, SubsFor(t, gots)
    PROVE  /\ TypeFor(TypeAsReadOver(t, gots), t, {gots[i] : i \in DOMAIN t.sub})
           /\ TypeAsReadOver(t, gots).sub = gots
           /\ TypeAsReadOver(t, gots).data = t.data
           /\ DOMAIN gots = DOMAIN t.sub
           /\ DOMAIN t.sub = 1..Len(t.sub) /\ Len(t.sub) \in Nat
  <1> DEFINE tr == TypeAsReadOver(t, gots)
             G == {gots[i] : i \in DOMAIN t.sub}
             S == Range(t.sub)
  <1>1. tr.sub = gots /\ tr.data = t.data
    BY DEF TypeAsReadOver
  <1>2. gots \in Seq(G) /\ Len(gots) = Len(t.sub) /\ DOMAIN t.sub = 1..Len(t.sub)
        /\ Len(t.sub) \in Nat
    <2>1. t.sub \in Seq(S) /\ Along(gots, t.sub) /\ \A i \in DOMAIN t.sub : gots[i] \in G
      BY DEF HeadFits, IsSequence, SubsFor
    <2> HIDE DEF G, S
    <2> QED BY <2>1, AlongIs
  <1>3. \A i \in 1..Len(t.sub) : gots[i].data = t.sub[i].data
    BY <1>2 DEF SubsFor
  <1>4. \E i \in DOMAIN DataTypes : t.data = DataTypes[i]
    BY DEF HeadFits
  <1>5. DOMAIN gots = DOMAIN t.sub
    BY DEF SubsFor, Along
  <1> HIDE DEF tr, G
  <1>6. TypeFor(tr, t, G)
    BY <1>1, <1>2, <1>3, <1>4 DEF TypeFor, IsTypeOver
  <1> QED BY <1>1, <1>2, <1>5, <1>6 DEF tr, G

\* A value of a type is read when those of its subtypes are: gots are these as
\* they are read, rd the readers of their values.
LEMMA ValueLevel ==
    ASSUME NEW b \in Bytes, NEW t, HeadFits(t), NEW gots, SubsFor(t, gots),
           NEW rd, Along(rd, t.sub), \A i \in DOMAIN t.sub : IsReader(rd[i], Len(b))
    PROVE  /\ IsReader(ValueReader(b, TypeAsReadOver(t, gots), rd), Len(b))
           /\ \A v, parts :
                 /\ Fits(t, v)
                 /\ Along(parts, PartsOf(t, v))
                 /\ \A i \in DOMAIN PartsOf(t, v) :
                       /\ parts[i] \in Bytes
                       /\ Reads(rd[SubOf(t, i)], b, parts[i], PartsOf(t, v)[i].value)
                 => /\ ValueBytesOver(t, v, parts) \in Bytes
                    /\ Reads(ValueReader(b, TypeAsReadOver(t, gots), rd), b,
                             ValueBytesOver(t, v, parts), v)
  <1> DEFINE tr == TypeAsReadOver(t, gots)
             G == {gots[i] : i \in DOMAIN t.sub}
             R == {rd[i] : i \in DOMAIN t.sub}
             S == Range(t.sub)
  <1>1. TypeFor(tr, t, G)
    BY TypeForOver
  <1>2. SubReaders(b, t, rd)
    <2>1. t.sub \in Seq(S) /\ \A i \in DOMAIN t.sub : rd[i] \in R
      BY DEF HeadFits, IsSequence
    <2> HIDE DEF R, S
    <2>2. Len(rd) = Len(t.sub) /\ DOMAIN t.sub = 1..Len(t.sub)
      BY <2>1, AlongIs
    <2> QED BY <2>2 DEF SubReaders
  <1> HIDE DEF tr, G
  <1>3. IsReader(ValueReader(b, tr, rd), Len(b))
    <2>1. IsTypeOver(tr, G) /\ Len(rd) = Len(tr.sub)
          /\ \A i \in 1..Len(tr.sub) : IsReader(rd[i], Len(b))
      BY <1>1, <1>2 DEF TypeFor, SubReaders
    <2> QED BY <2>1, ValueReaderIs
  <1>4. ASSUME NEW v, NEW parts, Fits(t, v), Along(parts, PartsOf(t, v)),
               \A i \in DOMAIN PartsOf(t, v) :
                       /\ parts[i] \in Bytes
                       /\ Reads(rd[SubOf(t, i)], b, parts[i], PartsOf(t, v)[i].value)
        PROVE  /\ ValueBytesOver(t, v, parts) \in Bytes
               /\ Reads(ValueReader(b, tr, rd), b, ValueBytesOver(t, v, parts), v)
    <2>1. \A i : PartReader(t, rd, i) = rd[SubOf(t, i)]
      BY DEF PartReader, SubOf
    <2>2. PartsRead(b, t, v, rd, parts)
      BY <1>4, <2>1 DEF PartsRead
    <2> QED BY <1>1, <1>2, <1>4, <2>2, ValueOverReads
  <1> QED BY <1>3, <1>4 DEF tr

-----------------------------------------------------------------------------
(* As deep as types nest.                                                  *)

LEMMA FlatValueReads ==
    ASSUME NEW b \in Bytes, NEW t, FlatTypeFits(t)
    PROVE  /\ IsReader(FlatValues(b, FlatTypeAsRead(t)), Len(b))
           /\ \A v : FlatValueFits(Part(t, v)) =>
                 /\ FlatValueBytes(Part(t, v)) \in Bytes
                 /\ Reads(FlatValues(b, FlatTypeAsRead(t)), b, FlatValueBytes(Part(t, v)), v)
  <1> DEFINE gots == <<>>
             tr == FlatTypeAsRead(t)
             rd == [i \in DOMAIN tr.sub |-> Unread(b)]
             f == ValueReader(b, tr, rd)
  <1>1. HeadFits(t) /\ t.sub = <<>> /\ DOMAIN t.sub = {}
    BY DEF FlatTypeFits
  <1>2. SubsFor(t, gots)
    BY <1>1 DEF SubsFor, Along
  <1>3. tr = TypeAsReadOver(t, gots) /\ tr.sub = <<>>
    BY DEF FlatTypeAsRead, TypeAsReadOver
  <1>4. Along(rd, t.sub)
    BY <1>1, <1>3 DEF Along
  <1>5. f = FlatValues(b, tr)
    BY DEF FlatValues
  <1> HIDE DEF gots, rd, tr, f
  <1>6. /\ IsReader(f, Len(b))
        /\ \A v, parts :
                 /\ Fits(t, v)
                 /\ Along(parts, PartsOf(t, v))
                 /\ \A i \in DOMAIN PartsOf(t, v) :
                       /\ parts[i] \in Bytes
                       /\ Reads(rd[SubOf(t, i)], b, parts[i], PartsOf(t, v)[i].value)
                 => /\ ValueBytesOver(t, v, parts) \in Bytes
                    /\ Reads(f, b, ValueBytesOver(t, v, parts), v)
    BY <1>1, <1>2, <1>3, <1>4, ValueLevel DEF f
  <1>7. ASSUME NEW v, FlatValueFits(Part(t, v))
        PROVE  /\ FlatValueBytes(Part(t, v)) \in Bytes
               /\ Reads(f, b, FlatValueBytes(Part(t, v)), v)
    <2>1. Fits(t, v)
      BY <1>7 DEF FlatValueFits, Part
    <2>2. DOMAIN PartsOf(t, v) = {}
      BY <1>1, <2>1, PartsAre
    <2> DEFINE parts == <<>>
    <2>3. Along(parts, PartsOf(t, v))
      BY <2>2 DEF Along
    <2>4. FlatValueBytes(Part(t, v)) = ValueBytesOver(t, v, parts)
      BY DEF FlatValueBytes, Part
    <2> HIDE DEF parts
    <2> QED BY <1>6, <2>1, <2>2, <2>3, <2>4
  <1> QED BY <1>5, <1>6, <1>7 DEF tr

LEMMA NestedValueReads ==
    ASSUME NEW b \in Bytes, NEW t, NestedTypeFits(t)
    PROVE  /\ IsReader(NestedValues(b, NestedTypeAsRead(t)), Len(b))
           /\ \A v : NestedValueFits(Part(t, v)) =>
                 /\ NestedValueBytes(Part(t, v)) \in Bytes
                 /\ Reads(NestedValues(b, NestedTypeAsRead(t)), b, NestedValueBytes(Part(t, v)), v)
  <1> DEFINE gots == [i \in DOMAIN t.sub |-> FlatTypeAsRead(t.sub[i])]
             tr == NestedTypeAsRead(t)
             rd == [i \in DOMAIN tr.sub |-> FlatValues(b, tr.sub[i])]
             f == ValueReader(b, tr, rd)
  <1>1. HeadFits(t) /\ \A i \in DOMAIN t.sub : FlatTypeFits(t.sub[i])
    BY DEF NestedTypeFits
  <1>2. SubsFor(t, gots) /\ \A i \in DOMAIN t.sub : gots[i] = FlatTypeAsRead(t.sub[i])
    BY DEF SubsFor, Along, FlatTypeAsRead, TypeAsReadOver
  <1>3. tr = TypeAsReadOver(t, gots) /\ tr.sub = gots
    BY DEF NestedTypeAsRead, TypeAsReadOver
  <1>4. /\ Along(rd, t.sub)
        /\ \A i \in DOMAIN t.sub : rd[i] = FlatValues(b, FlatTypeAsRead(t.sub[i]))
    BY <1>2, <1>3 DEF Along
  <1>5. f = NestedValues(b, tr)
    BY DEF NestedValues
  <1> HIDE DEF gots, rd, tr, f
  <1>6. \A i \in DOMAIN t.sub : IsReader(rd[i], Len(b))
    BY <1>1, <1>4, FlatValueReads
  <1>7. /\ IsReader(f, Len(b))
        /\ \A v, parts :
                 /\ Fits(t, v)
                 /\ Along(parts, PartsOf(t, v))
                 /\ \A i \in DOMAIN PartsOf(t, v) :
                       /\ parts[i] \in Bytes
                       /\ Reads(rd[SubOf(t, i)], b, parts[i], PartsOf(t, v)[i].value)
                 => /\ ValueBytesOver(t, v, parts) \in Bytes
                    /\ Reads(f, b, ValueBytesOver(t, v, parts), v)
    BY <1>1, <1>2, <1>3, <1>4, <1>6, ValueLevel DEF f
  <1>8. ASSUME NEW v, NestedValueFits(Part(t, v))
        PROVE  /\ NestedValueBytes(Part(t, v)) \in Bytes
               /\ Reads(f, b, NestedValueBytes(Part(t, v)), v)
    <2> DEFINE P == PartsOf(t, v)
               parts == [i \in DOMAIN P |-> FlatValueBytes(P[i])]
    <2>1. Fits(t, v) /\ \A i \in DOMAIN P : FlatValueFits(P[i])
      BY <1>8 DEF NestedValueFits, Part
    <2>2. Along(parts, P) /\ \A i \in DOMAIN P : parts[i] = FlatValueBytes(P[i])
      BY DEF Along
    <2>3. NestedValueBytes(Part(t, v)) = ValueBytesOver(t, v, parts)
      BY DEF NestedValueBytes, Part
    <2> HIDE DEF parts, P
    <2>4. ASSUME NEW i \in DOMAIN P
          PROVE  parts[i] \in Bytes /\ Reads(rd[SubOf(t, i)], b, parts[i], P[i].value)
      <3> DEFINE j == SubOf(t, i)
                 u == t.sub[j]
                 x == P[i].value
      <3>1. j \in DOMAIN t.sub /\ P[i] = Part(u, x)
        BY <1>1, <2>1, PartsAre DEF P
      <3> HIDE DEF j, u, x
      <3>2. FlatTypeFits(u) /\ FlatValueFits(Part(u, x))
        BY <1>1, <2>1, <3>1 DEF u
      <3>3. FlatValueBytes(Part(u, x)) \in Bytes
            /\ Reads(FlatValues(b, FlatTypeAsRead(u)), b, FlatValueBytes(Part(u, x)), x)
        BY <3>2, FlatValueReads
      <3>4. rd[j] = FlatValues(b, FlatTypeAsRead(u))
        BY <1>4, <3>1 DEF u
      <3> QED BY <2>2, <3>1, <3>3, <3>4 DEF j, x
    <2> QED BY <1>7, <2>1, <2>2, <2>3, <2>4 DEF P
  <1> QED BY <1>5, <1>7, <1>8 DEF tr

LEMMA DeepValueReads ==
    ASSUME NEW b \in Bytes, NEW t, DeepTypeFits(t)
    PROVE  /\ IsReader(DeepValues(b, DeepTypeAsRead(t)), Len(b))
           /\ \A v : DeepValueFits(Part(t, v)) =>
                 /\ DeepValueBytes(Part(t, v)) \in Bytes
                 /\ Reads(DeepValues(b, DeepTypeAsRead(t)), b, DeepValueBytes(Part(t, v)), v)
  <1> DEFINE gots == [i \in DOMAIN t.sub |-> NestedTypeAsRead(t.sub[i])]
             tr == DeepTypeAsRead(t)
             rd == [i \in DOMAIN tr.sub |-> NestedValues(b, tr.sub[i])]
             f == ValueReader(b, tr, rd)
  <1>1. HeadFits(t) /\ \A i \in DOMAIN t.sub : NestedTypeFits(t.sub[i])
    BY DEF DeepTypeFits
  <1>2. SubsFor(t, gots) /\ \A i \in DOMAIN t.sub : gots[i] = NestedTypeAsRead(t.sub[i])
    BY DEF SubsFor, Along, NestedTypeAsRead, TypeAsReadOver
  <1>3. tr = TypeAsReadOver(t, gots) /\ tr.sub = gots
    BY DEF DeepTypeAsRead, TypeAsReadOver
  <1>4. /\ Along(rd, t.sub)
        /\ \A i \in DOMAIN t.sub : rd[i] = NestedValues(b, NestedTypeAsRead(t.sub[i]))
    BY <1>2, <1>3 DEF Along
  <1>5. f = DeepValues(b, tr)
    BY DEF DeepValues
  <1> HIDE DEF gots, rd, tr, f
  <1>6. \A i \in DOMAIN t.sub : IsReader(rd[i], Len(b))
    BY <1>1, <1>4, NestedValueReads
  <1>7. /\ IsReader(f, Len(b))
        /\ \A v, parts :
                 /\ Fits(t, v)
                 /\ Along(parts, PartsOf(t, v))
                 /\ \A i \in DOMAIN PartsOf(t, v) :
                       /\ parts[i] \in Bytes
                       /\ Reads(rd[SubOf(t, i)], b, parts[i], PartsOf(t, v)[i].value)
                 => /\ ValueBytesOver(t, v, parts) \in Bytes
                    /\ Reads(f, b, ValueBytesOver(t, v, parts), v)
    BY <1>1, <1>2, <1>3, <1>4, <1>6, ValueLevel DEF f
  <1>8. ASSUME NEW v, DeepValueFits(Part(t, v))
        PROVE  /\ DeepValueBytes(Part(t, v)) \in Bytes
               /\ Reads(f, b, DeepValueBytes(Part(t, v)), v)
    <2> DEFINE P == PartsOf(t, v)
               parts == [i \in DOMAIN P |-> NestedValueBytes(P[i])]
    <2>1. Fits(t, v) /\ \A i \in DOMAIN P : NestedValueFits(P[i])
      BY <1>8 DEF DeepValueFits, Part
    <2>2. Along(parts, P) /\ \A i \in DOMAIN P : parts[i] = NestedValueBytes(P[i])
      BY DEF Along
    <2>3. DeepValueBytes(Part(t, v)) = ValueBytesOver(t, v, parts)
      BY DEF DeepValueBytes, Part
    <2> HIDE DEF parts, P
    <2>4. ASSUME NEW i \in DOMAIN P
          PROVE  parts[i] \in Bytes /\ Reads(rd[SubOf(t, i)], b, parts[i], P[i].value)
      <3> DEFINE j == SubOf(t, i)
                 u == t.sub[j]
                 x == P[i].value
      <3>1. j \in DOMAIN t.sub /\ P[i] = Part(u, x)
        BY <1>1, <2>1, PartsAre DEF P
      <3> HIDE DEF j, u, x
      <3>2. NestedTypeFits(u) /\ NestedValueFits(Part(u, x))
        BY <1>1, <2>1, <3>1 DEF u
      <3>3. NestedValueBytes(Part(u, x)) \in Bytes
            /\ Reads(NestedValues(b, NestedTypeAsRead(u)), b, NestedValueBytes(Part(u, x)), x)
        BY <3>2, NestedValueReads
      <3>4. rd[j] = NestedValues(b, NestedTypeAsRead(u))
        BY <1>4, <3>1 DEF u
      <3> QED BY <2>2, <3>1, <3>3, <3>4 DEF j, x
    <2> QED BY <1>7, <2>1, <2>2, <2>3, <2>4 DEF P
  <1> QED BY <1>5, <1>7, <1>8 DEF tr

\* The reader of all the values that are read.
AllValues(b, t) == ValueReader(b, t, [i \in DOMAIN t.sub |-> DeepValues(b, t.sub[i])])

LEMMA ValueReads ==
    ASSUME NEW b \in Bytes, NEW t, TypeFits(t)
    PROVE  /\ IsReader(AllValues(b, TypeAsRead(t)), Len(b))
           /\ \A v : ValueFits(Part(t, v)) =>
                 /\ ValueBytes(t, v) \in Bytes
                 /\ Reads(AllValues(b, TypeAsRead(t)), b, ValueBytes(t, v), v)
  <1> DEFINE gots == [i \in DOMAIN t.sub |-> DeepTypeAsRead(t.sub[i])]
             tr == TypeAsRead(t)
             rd == [i \in DOMAIN tr.sub |-> DeepValues(b, tr.sub[i])]
             f == ValueReader(b, tr, rd)
  <1>1. HeadFits(t) /\ \A i \in DOMAIN t.sub : DeepTypeFits(t.sub[i])
    BY DEF TypeFits
  <1>2. SubsFor(t, gots) /\ \A i \in DOMAIN t.sub : gots[i] = DeepTypeAsRead(t.sub[i])
    BY DEF SubsFor, Along, DeepTypeAsRead, TypeAsReadOver
  <1>3. tr = TypeAsReadOver(t, gots) /\ tr.sub = gots
    BY DEF TypeAsRead, TypeAsReadOver
  <1>4. /\ Along(rd, t.sub)
        /\ \A i \in DOMAIN t.sub : rd[i] = DeepValues(b, DeepTypeAsRead(t.sub[i]))
    BY <1>2, <1>3 DEF Along
  <1>5. f = AllValues(b, tr)
    BY DEF AllValues
  <1> HIDE DEF gots, rd, tr, f
  <1>6. \A i \in DOMAIN t.sub : IsReader(rd[i], Len(b))
    BY <1>1, <1>4, DeepValueReads
  <1>7. /\ IsReader(f, Len(b))
        /\ \A v, parts :
                 /\ Fits(t, v)
                 /\ Along(parts, PartsOf(t, v))
                 /\ \A i \in DOMAIN PartsOf(t, v) :
                       /\ parts[i] \in Bytes
                       /\ Reads(rd[SubOf(t, i)], b, parts[i], PartsOf(t, v)[i].value)
                 => /\ ValueBytesOver(t, v, parts) \in Bytes
                    /\ Reads(f, b, ValueBytesOver(t, v, parts), v)
    BY <1>1, <1>2, <1>3, <1>4, <1>6, ValueLevel DEF f
  <1>8. ASSUME NEW v, ValueFits(Part(t, v))
        PROVE  /\ ValueBytes(t, v) \in Bytes
               /\ Reads(f, b, ValueBytes(t, v), v)
    <2> DEFINE P == PartsOf(t, v)
               parts == [i \in DOMAIN P |-> DeepValueBytes(P[i])]
    <2>1. Fits(t, v) /\ \A i \in DOMAIN P : DeepValueFits(P[i])
      BY <1>8 DEF ValueFits, Part
    <2>2. Along(parts, P) /\ \A i \in DOMAIN P : parts[i] = DeepValueBytes(P[i])
      BY DEF Along
    <2>3. ValueBytes(t, v) = ValueBytesOver(t, v, parts)
      BY DEF ValueBytes
    <2> HIDE DEF parts, P
    <2>4. ASSUME NEW i \in DOMAIN P
          PROVE  parts[i] \in Bytes /\ Reads(rd[SubOf(t, i)], b, parts[i], P[i].value)
      <3> DEFINE j == SubOf(t, i)
                 u == t.sub[j]
                 x == P[i].value
      <3>1. j \in DOMAIN t.sub /\ P[i] = Part(u, x)
        BY <1>1, <2>1, PartsAre DEF P
      <3> HIDE DEF j, u, x
      <3>2. DeepTypeFits(u) /\ DeepValueFits(Part(u, x))
        BY <1>1, <2>1, <3>1 DEF u
      <3>3. DeepValueBytes(Part(u, x)) \in Bytes
            /\ Reads(DeepValues(b, DeepTypeAsRead(u)), b, DeepValueBytes(Part(u, x)), x)
        BY <3>2, DeepValueReads
      <3>4. rd[j] = DeepValues(b, DeepTypeAsRead(u))
        BY <1>4, <3>1 DEF u
      <3> QED BY <2>2, <3>1, <3>3, <3>4 DEF j, x
    <2> QED BY <1>7, <2>1, <2>2, <2>3, <2>4 DEF P
  <1> QED BY <1>5, <1>7, <1>8 DEF tr

-----------------------------------------------------------------------------
(* What was sent is what is read: arguments.                               *)

\* An argument is read as it was sent.
LEMMA ArgumentReads ==
    ASSUME NEW b \in Bytes, NEW a, ArgumentFits(a)
    PROVE  /\ ArgumentBytes(a) \in Bytes
           /\ HeaderBytes(a) \in Bytes
           /\ Len(HeaderBytes(a)) \in Nat \ {0}
           /\ Len(ArgumentBytes(a)) \in Nat
           /\ Len(HeaderBytes(a)) <= Len(ArgumentBytes(a))
           /\ \A p \in 0..Len(b) : HasAt(b, p, HeaderBytes(a)) =>
                 /\ ArgNameAt(b, p).is = "done"
                 /\ ArgTypeAt(b, p) = Done(p + Len(HeaderBytes(a)), TypeAsRead(a.type))
           /\ \A p \in 0..Len(b) : HasAt(b, p, ArgumentBytes(a)) =>
                 /\ HasAt(b, p, HeaderBytes(a))
                 /\ ReadArgument(b, p) = Done(p + Len(ArgumentBytes(a)), ArgumentAsRead(a))
  <1> DEFINE s == CString(a.name)
             t == TypeBytes(a.type)
             v == ValueBytes(a.type, a.value)
             h == HeaderBytes(a)
             w == ArgumentBytes(a)
             x == TypeAsRead(a.type)
             f == AllValues(b, x)
  <1>0. StringFits(a.name) /\ TypeFits(a.type) /\ ValueFits(Part(a.type, a.value))
    BY DEF ArgumentFits
  <1>00. Len(b) \in Nat /\ 0 \in 0..Len(b)
    BY BytesLen
  <1>1. h = s \o t /\ w = h \o v
    BY DEF HeaderBytes, ArgumentBytes
  <1>2. s \in Bytes
    BY <1>0, <1>00, StringReads
  <1>3. t \in Bytes /\ Len(t) \in Nat \ {0} /\ Reads(Types4(b), b, t, x)
    BY <1>0, TypeReads
  <1>4. v \in Bytes /\ Reads(f, b, v, a.value)
    BY <1>0, ValueReads
  <1> HIDE DEF s, t, v, h, w, x, f
  <1>5. h \in Bytes /\ Len(h) = Len(s) + Len(t) /\ Len(s) \in Nat
    BY <1>1, <1>2, <1>3, BothBytes
  <1>6. w \in Bytes /\ Len(w) = Len(h) + Len(v) /\ Len(v) \in Nat /\ Len(h) \in Nat
    BY <1>1, <1>4, <1>5, BothBytes
  <1>7. ASSUME NEW p \in 0..Len(b), HasAt(b, p, h)
        PROVE  /\ ArgNameAt(b, p) = Done(p + Len(s), NameAsRead(a.name))
               /\ ArgTypeAt(b, p) = Done(p + Len(h), x)
    <2>1. HasAt(b, p, s) /\ p + Len(s) \in 0..Len(b) /\ HasAt(b, p + Len(s), t)
          /\ p + Len(h) = (p + Len(s)) + Len(t)
      <3>1. HasAt(b, p, s \o t)
        BY <1>1, <1>7
      <3> QED BY <1>1, <1>2, <1>3, <3>1, HasTwo
    <2>2. ReadString(b, p) = Done(p + Len(s), NameAsRead(a.name))
      BY <1>0, <2>1, StringReads DEF s
    <2>3. ArgNameAt(b, p).at = p + Len(s)
      BY <2>2, WaysToEnd DEF ArgNameAt
    <2>4. ReadType(b, p + Len(s)) = Done((p + Len(s)) + Len(t), x)
      BY <1>3, <2>1, ReadTypeIs DEF Reads
    <2> QED BY <2>1, <2>2, <2>3, <2>4 DEF ArgTypeAt, ArgNameAt
  <1>8. ASSUME NEW p \in 0..Len(b), HasAt(b, p, w)
        PROVE  HasAt(b, p, h) /\ ReadArgument(b, p) = Done(p + Len(w), ArgumentAsRead(a))
    <2>1. HasAt(b, p, h) /\ p + Len(h) \in 0..Len(b) /\ HasAt(b, p + Len(h), v)
          /\ p + Len(w) = (p + Len(h)) + Len(v)
      <3>1. HasAt(b, p, h \o v)
        BY <1>1, <1>8
      <3> QED BY <1>1, <1>4, <1>5, <3>1, HasTwo
    <2> DEFINE n == ArgNameAt(b, p)
               y == ArgTypeAt(b, p)
               z == ArgValueAt(b, p)
               m == NameAsRead(a.name)
               q == p + Len(s)
               q2 == p + Len(h)
               q3 == p + Len(w)
    <2>2. n = Done(q, m) /\ y = Done(q2, x)
      BY <1>7, <2>1
    <2>3. z = ReadValue(b, y.at, y.got)
      BY DEF ArgValueAt
    <2> HIDE DEF n, y, z, m, q, q2, q3
    <2>4. n.is = "done" /\ n.got = m /\ y.is = "done" /\ y.at = q2 /\ y.got = x
      BY <2>2, WaysToEnd
    <2>5. f[q2] = Done(q3, a.value)
      BY <1>4, <2>1 DEF Reads, q2, q3
    <2>6. z = f[q2]
      <3>1. q2 \in 0..Len(b)
        BY <2>1 DEF q2
      <3> QED BY <2>3, <2>4, <3>1 DEF ReadValue, AllValues, ValueReader, Places, f
    <2>7. z.is = "done" /\ z.at = q3 /\ z.got = a.value
      BY <2>5, <2>6, WaysToEnd
    <2>8. ReadArgument(b, p) = Done(z.at, ArgumentAt(b, p))
      BY <2>4, <2>7, ReadArgumentIs DEF n, y, z
    <2>9. ArgumentAt(b, p) = ArgumentAsRead(a)
      BY <2>4, <2>7 DEF ArgumentAt, ArgumentAsRead, n, y, z, m, x
    <2> QED BY <2>1, <2>7, <2>8, <2>9 DEF q3
  <1>9. Len(h) \in Nat \ {0} /\ Len(h) <= Len(w) /\ Len(w) \in Nat
    BY <1>3, <1>5, <1>6
  <1> QED BY <1>5, <1>6, <1>7, <1>8, <1>9, WaysToEnd DEF h, w, x

-----------------------------------------------------------------------------
(* More bytes: what the readers do with a beginning of the stream.         *)

\* b is a beginning of b2.
Begins(b, b2) ==
    /\ b \in Bytes /\ b2 \in Bytes
    /\ Len(b) <= Len(b2)
    /\ \A i \in 1..Len(b) : b[i] = b2[i]

LEMMA SameInt ==
    ASSUME NEW b, NEW b2, Begins(b, b2), NEW p \in 0..Len(b)
    PROVE  /\ Len(b) \in Nat /\ Len(b2) \in Nat /\ p \in 0..Len(b2) /\ p \in Nat
           /\ \A n \in Nat : ~ (Len(b) - p < n) =>
                 Slice(b2, p, n) = Slice(b, p, n) /\ ~ (Len(b2) - p < n)
           /\ \A w \in {2, 4} : ~ (Len(b) - p < w) =>
                 IntAt(b2, p, w) = IntAt(b, p, w) /\ ~ (Len(b2) - p < w)
  <1> DEFINE B == 0..255
  <1>1. b \in Seq(B) /\ b2 \in Seq(B) /\ Len(b) <= Len(b2)
        /\ \A i \in 1..Len(b) : b[i] = b2[i]
    BY DEF Begins, Bytes
  <1> HIDE DEF B
  <1>2. Len(b) \in Nat /\ Len(b2) \in Nat /\ p \in 0..Len(b2) /\ p \in Nat
    BY <1>1
  <1>3. ASSUME NEW n \in Nat, ~ (Len(b) - p < n)
        PROVE  Slice(b2, p, n) = Slice(b, p, n) /\ ~ (Len(b2) - p < n)
    <2>1. p + n <= Len(b) /\ p + n <= Len(b2) /\ ~ (Len(b2) - p < n)
      BY <1>1, <1>2, <1>3
    <2> DEFINE s == Slice(b, p, n)
               s2 == Slice(b2, p, n)
    <2>2. s \in Seq(B) /\ Len(s) = n /\ \A i \in 1..n : s[i] = b[p + i]
      BY <1>1, <2>1, SliceIs
    <2>3. s2 \in Seq(B) /\ Len(s2) = n /\ \A i \in 1..n : s2[i] = b2[p + i]
      BY <1>1, <1>2, <2>1, SliceIs
    <2>4. \A i \in 1..n : s2[i] = s[i]
      <3>1. \A i \in 1..n : p + i \in 1..Len(b)
        BY <1>2, <2>1
      <3> QED BY <1>1, <2>2, <2>3, <3>1
    <2> HIDE DEF s, s2
    <2>5. s2 = s
      BY <2>2, <2>3, <2>4
    <2> QED BY <2>1, <2>5 DEF s, s2
  <1>4. ASSUME NEW w \in {2, 4}, ~ (Len(b) - p < w)
        PROVE  IntAt(b2, p, w) = IntAt(b, p, w) /\ ~ (Len(b2) - p < w)
    <2>1. w \in Nat
      OBVIOUS
    <2>2. Slice(b2, p, w) = Slice(b, p, w) /\ ~ (Len(b2) - p < w)
      BY <1>3, <1>4, <2>1
    <2> QED BY <2>2 DEF IntAt
  <1> QED BY <1>2, <1>3, <1>4

\* A string, and the name of a type.
LEMMA StringsSettle ==
    ASSUME NEW b, NEW b2, Begins(b, b2), NEW p \in 0..Len(b)
    PROVE  /\ ReadString(b, p).is # "lacking" => ReadString(b2, p) = ReadString(b, p)
           /\ ReadTypeName(b, p).is # "lacking" => ReadTypeName(b2, p) = ReadTypeName(b, p)
  <1>0. b \in Bytes /\ b2 \in Bytes /\ Len(b) \in Nat /\ Len(b2) \in Nat /\ p \in 0..Len(b2)
        /\ Len(b) <= Len(b2)
    BY SameInt DEF Begins
  <1>1. CASE Len(b) - p < 4
    <2>1. ReadString(b, p) = Lacking(p) /\ ReadTypeName(b, p) = Lacking(p)
      BY <1>0, <1>1, ReadStringIs, ReadTypeNameIs
    <2> QED BY <2>1, WaysToEnd
  <1>2. CASE ~ (Len(b) - p < 4)
    <2> DEFINE n == IntAt(b, p, 4)
               q == p + 4
               s == Name(Slice(b, q, n))
               s2 == Name(Slice(b2, q, n))
    <2>1. n \in Int /\ q \in 0..Len(b)
      BY <1>0, <1>2, ReadStringIs
    <2>2. IntAt(b2, p, 4) = n /\ ~ (Len(b2) - p < 4)
      BY <1>2, SameInt
    <2>3. /\ ReadString(b, p) = IF n < 0 THEN Done(q, <<>>)
                                ELSE IF Len(b) - q < n THEN Lacking(q)
                                ELSE Done(q + n, s)
          /\ ReadTypeName(b, p) = IF n <= 0 THEN Done(q, <<>>)
                                  ELSE IF Len(b) - q < n THEN Lacking(q)
                                  ELSE Done(q + n, s)
      BY <1>0, <1>2, ReadStringIs, ReadTypeNameIs
    <2>4. /\ ReadString(b2, p) = IF n < 0 THEN Done(q, <<>>)
                                 ELSE IF Len(b2) - q < n THEN Lacking(q)
                                 ELSE Done(q + n, s2)
          /\ ReadTypeName(b2, p) = IF n <= 0 THEN Done(q, <<>>)
                                   ELSE IF Len(b2) - q < n THEN Lacking(q)
                                   ELSE Done(q + n, s2)
      BY <1>0, <2>2, ReadStringIs, ReadTypeNameIs
    <2>5. ASSUME ~ (n < 0), ~ (Len(b) - q < n)
          PROVE  s2 = s /\ ~ (Len(b2) - q < n)
      <3>1. n \in Nat
        BY <2>1, <2>5
      <3> HIDE DEF n, q
      <3> QED BY <2>1, <2>5, <3>1, SameInt
    <2> HIDE DEF n, q, s, s2
    <2>6. CASE n < 0
      <3>1. n <= 0
        BY <2>1, <2>6
      <3> QED BY <2>3, <2>4, <2>6, <3>1
    <2>7. CASE ~ (n < 0) /\ ~ (Len(b) - q < n)
      BY <2>3, <2>4, <2>5, <2>7
    <2>8. CASE ~ (n < 0) /\ Len(b) - q < n
      <3>1. ReadString(b, p) = Lacking(q)
        BY <2>3, <2>8
      <3>2. ReadTypeName(b, p) = Lacking(q) \/ ReadTypeName(b2, p) = ReadTypeName(b, p)
        BY <2>3, <2>4, <2>8
      <3> QED BY <3>1, <3>2, WaysToEnd
    <2> QED BY <2>6, <2>7, <2>8
  <1> QED BY <1>1, <1>2

\* The readers of types f of b and g of b2 settle.
SettleOn(b, b2, f, g) ==
    IsReader(f, Len(b)) /\ IsReader(g, Len(b2)) /\ Settles(f, g, Len(b))

LEMMA SubTypesSettle ==
    ASSUME NEW b, NEW b2, Begins(b, b2), NEW p \in 0..Len(b),
           NEW f, NEW g, SettleOn(b, b2, f, g)
    PROVE  ReadSubTypes(b, p, f).is # "lacking" =>
             ReadSubTypes(b2, p, g) = ReadSubTypes(b, p, f)
  <1>0. b \in Bytes /\ b2 \in Bytes /\ Len(b) \in Nat /\ Len(b2) \in Nat /\ p \in 0..Len(b2)
        /\ Len(b) <= Len(b2) /\ p \in Nat
    BY SameInt DEF Begins
  <1>1. CASE Len(b) - p < 2
    <2>1. ReadSubTypes(b, p, f) = Lacking(p)
      BY <1>0, <1>1, ReadSubTypesIs
    <2> QED BY <2>1, WaysToEnd
  <1>2. CASE ~ (Len(b) - p < 2)
    <2> DEFINE n == IntAt(b, p, 2)
               q == p + 2
               k == SubCount(b, p)
               k2 == SubCount(b2, p)
               fs == Times(k, f)
               gs == Times(k2, g)
    <2>1. /\ n \in Int /\ q \in 0..Len(b)
          /\ ReadSubTypes(b, p, f) = IF n < 0 THEN Throws(q) ELSE Each(q, fs)
      BY <1>0, <1>2, ReadSubTypesIs
    <2>2. IntAt(b2, p, 2) = n /\ ~ (Len(b2) - p < 2)
      BY <1>2, SameInt
    <2>3. ReadSubTypes(b2, p, g) = IF n < 0 THEN Throws(q) ELSE Each(q, gs)
      BY <1>0, <2>2, ReadSubTypesIs
    <2>4. /\ k \in Int /\ k2 \in Int
          /\ k <= k2 /\ (k < k2 => k > Len(b) - q)
      BY <1>0, <2>1, <2>2 DEF SubCount, Capped
    <2> HIDE DEF n, q, k, k2
    <2>5. CASE n < 0
      BY <2>1, <2>3, <2>5
    <2>6. CASE ~ (n < 0)
      <3>1. /\ Len(fs) \in Nat /\ Len(fs) = (IF k > 0 THEN k ELSE 0)
            /\ \A i \in 1..k : fs[i] = f
        BY <2>4, TimesIs
      <3>2. /\ Len(gs) \in Nat /\ Len(gs) = (IF k2 > 0 THEN k2 ELSE 0)
            /\ \A i \in 1..k2 : gs[i] = g
        BY <2>4, TimesIs
      <3> HIDE DEF fs, gs
      <3>3. \A i \in 1..Len(fs) : fs[i] = f /\ gs[i] = g
        <4>1. ASSUME NEW i \in 1..Len(fs) PROVE i \in 1..k /\ i \in 1..k2
          BY <2>4, <3>1
        <4> QED BY <3>1, <3>2, <4>1
      <3>4. \A i \in 1..Len(gs) : gs[i] = g
        <4>1. ASSUME NEW i \in 1..Len(gs) PROVE i \in 1..k2
          BY <2>4, <3>2
        <4> QED BY <3>2, <4>1
      <3>5. /\ \A i \in 1..Len(fs) : IsReader(fs[i], Len(b))
            /\ \A i \in 1..Len(gs) : IsReader(gs[i], Len(b2))
            /\ \A i \in 1..Len(fs) : Settles(fs[i], gs[i], Len(b))
        BY <3>3, <3>4 DEF SettleOn
      <3>6. Len(fs) <= Len(gs) /\ (Len(fs) < Len(gs) => Len(fs) > Len(b) - q)
        BY <1>0, <2>1, <2>4, <3>1, <3>2
      <3>7. Each(q, fs).is # "lacking" => Each(q, gs) = Each(q, fs)
        <4>1. SettleEach(fs, gs, Len(b), Len(b2))
          BY <3>1, <3>2, <3>5, <3>6 DEF SettleEach
        <4> QED BY <1>0, <2>1, <3>6, <4>1, EachSettles
      <3> QED BY <2>1, <2>3, <2>6, <3>7
    <2> QED BY <2>5, <2>6
  <1> QED BY <1>1, <1>2

LEMMA TypeReaderSettles ==
    ASSUME NEW b, NEW b2, Begins(b, b2), NEW f, NEW g, SettleOn(b, b2, f, g)
    PROVE  SettleOn(b, b2, TypeReader(b, f), TypeReader(b2, g))
  <1>0. b \in Bytes /\ b2 \in Bytes /\ IsReader(f, Len(b)) /\ IsReader(g, Len(b2))
    BY DEF Begins, SettleOn
  <1>1. IsReader(TypeReader(b, f), Len(b)) /\ IsReader(TypeReader(b2, g), Len(b2))
    BY <1>0, TypeReaderIs
  <1>2. ASSUME NEW p \in 0..Len(b), ReadTypeBy(b, p, f).is # "lacking"
        PROVE  ReadTypeBy(b2, p, g) = ReadTypeBy(b, p, f)
    <2>0. Len(b) \in Nat /\ Len(b2) \in Nat /\ p \in 0..Len(b2) /\ p \in Nat /\ Len(b) <= Len(b2)
      BY SameInt DEF Begins
    <2>1. ~ (Len(b) - p < 1)
      <3>1. ASSUME Len(b) - p < 1 PROVE FALSE
        <4>1. ReadTypeBy(b, p, f) = Lacking(p)
          BY <3>1, ReadTypeByIs
        <4> QED BY <1>2, <4>1, WaysToEnd
      <3> QED BY <3>1
    <2>2. ~ (Len(b2) - p < 1) /\ b2[p + 1] = b[p + 1] /\ p + 1 \in 0..Len(b)
      BY <2>0, <2>1 DEF Begins
    <2> DEFINE r == NameAt(b, p)
               s == SubAt(b, p, f)
               r2 == NameAt(b2, p)
               s2 == SubAt(b2, p, g)
               x == TypeAt(b, p, f)
               x2 == TypeAt(b2, p, g)
               q == ReadTypeBy(b, p, f)
               q2 == ReadTypeBy(b2, p, g)
               ok == b[p + 1] + 1 \in DOMAIN DataTypes
    <2>3. q = IF ~ ok THEN Throws(p + 1) ELSE IF r.is # "done" THEN r
              ELSE IF s.is # "done" THEN s ELSE Done(s.at, x)
      BY <2>1, ReadTypeByIs
    <2>4. q2 = IF ~ ok THEN Throws(p + 1) ELSE IF r2.is # "done" THEN r2
               ELSE IF s2.is # "done" THEN s2 ELSE Done(s2.at, x2)
      BY <2>2, ReadTypeByIs
    <2>5. r.is # "lacking" => r2 = r
      BY <2>2, StringsSettle DEF NameAt
    <2>6. Ends(r, p + 1, Len(b))
      BY <1>0, <2>2, StringsEnd DEF NameAt
    <2>7. DataAt(b2, p) = DataAt(b, p)
      BY <2>2 DEF DataAt
    <2>8. ASSUME r2 = r, s.is # "lacking", r.is = "done" PROVE s2 = s
      <3>1. r.at \in 0..Len(b)
        <4>1. r.at \in (p + 1)..Len(b)
          BY <2>6 DEF Ends
        <4> QED BY <2>0, <4>1
      <3> DEFINE a == r.at
      <3>2. CASE Composite(DataAt(b, p))
        <4>1. s = ReadSubTypes(b, a, f) /\ s2 = ReadSubTypes(b2, a, g)
          BY <2>7, <2>8, <3>2 DEF SubAt
        <4> HIDE DEF a, s, s2
        <4> QED BY <2>8, <3>1, <4>1, SubTypesSettle DEF a
      <3>3. CASE ~ Composite(DataAt(b, p))
        BY <2>7, <2>8, <3>3 DEF SubAt
      <3> QED BY <3>2, <3>3
    <2>9. r2 = r /\ s2 = s => x2 = x
      BY <2>7 DEF TypeAt
    <2>10. q.is # "lacking"
      BY <1>2
    <2> SUFFICES q2 = q
      OBVIOUS
    <2> HIDE DEF r, s, r2, s2, x, x2, q, q2, ok
    <2>11. CASE ~ ok
      BY <2>3, <2>4, <2>11
    <2>12. CASE ok /\ r.is # "done"
      <3>1. q = r
        BY <2>3, <2>12
      <3> QED BY <2>4, <2>5, <2>10, <2>12, <3>1
    <2>13. CASE ok /\ r.is = "done" /\ s.is # "done"
      <3>1. q = s /\ r2 = r
        BY <2>3, <2>5, <2>13
      <3>2. s2 = s
        BY <2>8, <2>10, <2>13, <3>1
      <3> QED BY <2>4, <2>13, <3>1, <3>2
    <2>14. CASE ok /\ r.is = "done" /\ s.is = "done"
      <3>1. r2 = r
        BY <2>5, <2>14
      <3>2. s2 = s
        BY <2>8, <2>14, <3>1
      <3> QED BY <2>3, <2>4, <2>9, <2>14, <3>1, <3>2
    <2> QED BY <2>11, <2>12, <2>13, <2>14
  <1>3. Settles(TypeReader(b, f), TypeReader(b2, g), Len(b))
    <2>1. ASSUME NEW p \in 0..Len(b)
          PROVE  /\ TypeReader(b, f)[p] = ReadTypeBy(b, p, f)
                 /\ TypeReader(b2, g)[p] = ReadTypeBy(b2, p, g)
      <3>1. p \in 0..Len(b2)
        BY SameInt
      <3> QED BY <3>1 DEF TypeReader, Places
    <2> QED BY <1>2, <2>1 DEF Settles
  <1> QED BY <1>1, <1>3 DEF SettleOn

LEMMA TypesSettle ==
    ASSUME NEW b, NEW b2, Begins(b, b2), NEW p \in 0..Len(b)
    PROVE  ReadType(b, p).is # "lacking" => ReadType(b2, p) = ReadType(b, p)
  <1>0. b \in Bytes /\ b2 \in Bytes /\ \A q \in 0..Len(b) : q \in 0..Len(b2)
    BY SameInt DEF Begins
  <1>1. SettleOn(b, b2, Unread(b), Unread(b2))
    <2>1. \A q \in 0..Len(b) : Unread(b)[q] = Throws(q) /\ Unread(b2)[q] = Throws(q)
      BY <1>0 DEF Unread, Places
    <2>2. Settles(Unread(b), Unread(b2), Len(b))
      BY <2>1 DEF Settles
    <2> QED BY <1>0, <2>2, UnreadIs DEF SettleOn
  <1>2. SettleOn(b, b2, FlatTypes(b), FlatTypes(b2))
    BY <1>1, TypeReaderSettles DEF FlatTypes
  <1>3. SettleOn(b, b2, Types2(b), Types2(b2))
    BY <1>2, TypeReaderSettles DEF Types2
  <1>4. SettleOn(b, b2, Types3(b), Types3(b2))
    BY <1>3, TypeReaderSettles DEF Types3
  <1>5. SettleOn(b, b2, Types4(b), Types4(b2))
    BY <1>4, TypeReaderSettles DEF Types4
  <1>6. Settles(Types4(b), Types4(b2), Len(b))
    BY <1>5 DEF SettleOn
  <1>7. ReadType(b, p) = Types4(b)[p] /\ ReadType(b2, p) = Types4(b2)[p]
    BY <1>0, ReadTypeIs
  <1> QED BY <1>6, <1>7 DEF Settles

\* Of an argument whose name and type are not all there, bytes are lacking.
LEMMA HeaderLacks ==
    ASSUME NEW b, NEW b2, Begins(b, b2), NEW p \in 0..Len(b),
           NEW a, ArgumentFits(a), HasAt(b2, p, HeaderBytes(a)),
           Len(b) < p + Len(HeaderBytes(a))
    PROVE  ReadArgument(b, p).is = "lacking"
  <1> DEFINE h == HeaderBytes(a)
             n == ArgNameAt(b, p)
             t == ArgTypeAt(b, p)
             n2 == ArgNameAt(b2, p)
             t2 == ArgTypeAt(b2, p)
             x == TypeAsRead(a.type)
  <1>0. b \in Bytes /\ b2 \in Bytes /\ Len(b) \in Nat /\ p \in 0..Len(b2) /\ p \in Nat
    BY SameInt DEF Begins
  <1>1. n2.is = "done" /\ t2 = Done(p + Len(h), x) /\ Len(h) \in Nat
    BY <1>0, ArgumentReads
  <1>2. Ends(n, p, Len(b))
    BY <1>0, StringsEnd DEF ArgNameAt
  <1>3. n.is # "lacking" => n2 = n
    BY StringsSettle DEF ArgNameAt
  <1>4. n.at \in 0..Len(b) /\ n.at \in Nat
    <2>1. n.at \in p..Len(b)
      BY <1>2 DEF Ends
    <2> QED BY <1>0, <2>1
  <1>5. Ends(t, n.at, Len(b))
    BY <1>0, <1>4, ReadTypeEnds DEF ArgTypeAt
  <1>6. ASSUME n2 = n, t.is # "lacking" PROVE t2 = t
    <2>1. t = ReadType(b, n.at) /\ t2 = ReadType(b2, n2.at)
      BY DEF ArgTypeAt
    <2> HIDE DEF t, t2, n, n2
    <2> QED BY <1>4, <1>6, <2>1, TypesSettle
  <1>7. CASE n.is = "lacking"
    <2>1. ReadArgument(b, p) = n
      BY <1>7, ReadArgumentIs
    <2> QED BY <1>7, <2>1
  <1>8. CASE n.is # "lacking"
    <2>1. n.is = "done" /\ n2 = n
      BY <1>1, <1>3, <1>8
    <2>2. t.is = "lacking"
      <3>1. ASSUME t.is # "lacking" PROVE FALSE
        <4>1. t = Done(p + Len(h), x)
          BY <1>1, <1>6, <2>1, <3>1
        <4> HIDE DEF t, x, h, n
        <4>2. t.at = p + Len(h)
          BY <4>1, WaysToEnd
        <4>3. t.at \in n.at..Len(b)
          BY <1>5 DEF Ends
        <4>4. Len(b) < p + Len(h)
          BY DEF h
        <4> QED BY <1>0, <1>1, <1>4, <4>2, <4>3, <4>4
      <3> QED BY <3>1
    <2>3. ReadArgument(b, p) = t
      BY <2>1, <2>2, ReadArgumentIs
    <2> QED BY <2>2, <2>3
  <1> QED BY <1>7, <1>8

-----------------------------------------------------------------------------
(* A session, and where it may be cut.                                     *)

\* The fields of a request, each of at least one byte.
FieldsSent(r) ==
    /\ r.args \in Seq(Range(r.args)) /\ Len(r.args) \in Nat
    /\ DOMAIN r.args = 1..Len(r.args)
    /\ Fields(r) \in Seq(Bytes)
    /\ Len(Fields(r)) = 8 + Len(r.args)
    /\ Fields(r)[1] = <<CharC>>
    /\ Fields(r)[2] = CString(r.name)
    /\ Fields(r)[3] = CString(r.src)
    /\ Fields(r)[4] = Int32(r.oid)
    /\ Fields(r)[5] = Int32(r.hasChanged)
    /\ Fields(r)[6] = TypeBytes(r.retType)
    /\ Fields(r)[7] = Int32(r.retset)
    /\ Fields(r)[8] = Int32(Len(r.args))
    /\ \A i \in 9..(8 + Len(r.args)) :
          i - 8 \in DOMAIN r.args /\ Fields(r)[i] = ArgumentBytes(r.args[i - 8])
    /\ \A i \in 1..(8 + Len(r.args)) : MayComeAlone(r, i) < Len(Fields(r)[i])
    /\ \A i \in 1..(8 + Len(r.args)) : MayComeAlone(r, i) \in Nat

\* A string has at least the bytes of its length.
LEMMA CStringLong ==
    ASSUME NEW s, StringFits(s)
    PROVE  CString(s) \in Bytes /\ Len(CString(s)) >= 4
  <1>1. /\ CString(s) = Int32(LengthSent(s)) \o BodySent(s)
        /\ LengthSent(s) \in Int32s /\ BodySent(s) \in Bytes
    BY CStringIs
  <1>2. <<>> \in Bytes /\ 0 \in 0..Len(<<>>)
    BY DEF Bytes
  <1> DEFINE n == LengthSent(s)
             t == Int32(n)
             u == BodySent(s)
  <1> HIDE DEF n, u
  <1>3. t \in Bytes /\ Len(t) = 4
    BY <1>1, <1>2, Int32Reads DEF n
  <1> HIDE DEF t
  <1>4. t \o u \in Bytes /\ Len(t \o u) = Len(t) + Len(u) /\ Len(u) \in Nat
    BY <1>1, <1>3, BothBytes DEF u
  <1> QED BY <1>1, <1>3, <1>4 DEF t, u, n

LEMMA FieldsAre ==
    ASSUME NEW r, RequestFits(r)
    PROVE  FieldsSent(r)
  <1> DEFINE head == << <<CharC>>, CString(r.name), CString(r.src), Int32(r.oid),
                       Int32(r.hasChanged), TypeBytes(r.retType), Int32(r.retset),
                       Int32(Len(r.args)) >>
             tail == [i \in DOMAIN r.args |-> ArgumentBytes(r.args[i])]
             f == Fields(r)
             n == Len(r.args)
             B == Bytes
  <1>0. <<>> \in Bytes /\ 0 \in 0..Len(<<>>)
    BY DEF Bytes
  <1>1. /\ StringFits(r.name) /\ StringFits(r.src)
        /\ r.oid \in Int32s /\ r.hasChanged \in Int32s /\ r.retset \in Int32s
        /\ TypeFits(r.retType) /\ IsSequence(r.args) /\ n \in Int32s
        /\ \A i \in DOMAIN r.args : ArgumentFits(r.args[i])
    BY DEF RequestFits
  <1>2. r.args \in Seq(Range(r.args))
    BY <1>1 DEF IsSequence
  <1>3. n \in Nat /\ DOMAIN r.args = 1..n
    <2> DEFINE s == r.args
               S == Range(r.args)
    <2>1. s \in Seq(S)
      BY <1>2
    <2> HIDE DEF s, S
    <2>2. Len(s) \in Nat /\ DOMAIN s = 1..Len(s)
      BY <2>1
    <2> QED BY <2>2 DEF s
  <1>4. \A k \in Int32s : Int32(k) \in Bytes /\ Len(Int32(k)) = 4
    BY <1>0, Int32Reads
  <1>5. <<CharC>> \in Bytes /\ Len(<<CharC>>) = 1
    BY OneByte DEF CharC
  <1>6. \A i \in DOMAIN r.args : /\ ArgumentBytes(r.args[i]) \in Bytes
                                 /\ Len(HeaderBytes(r.args[i])) \in Nat \ {0}
                                 /\ Len(ArgumentBytes(r.args[i])) \in Nat
                                 /\ Len(HeaderBytes(r.args[i])) <= Len(ArgumentBytes(r.args[i]))
    BY <1>0, <1>1, ArgumentReads
  <1>7. /\ CString(r.name) \in Bytes /\ Len(CString(r.name)) >= 4
        /\ CString(r.src) \in Bytes /\ Len(CString(r.src)) >= 4
    BY <1>1, CStringLong
  <1>8. TypeBytes(r.retType) \in Bytes /\ Len(TypeBytes(r.retType)) \in Nat \ {0}
    BY <1>0, <1>1, TypeReads
  <1>9. head \in Seq(B) /\ Len(head) = 8
    <2>1. /\ <<CharC>> \in B /\ CString(r.name) \in B /\ CString(r.src) \in B
          /\ Int32(r.oid) \in B /\ Int32(r.hasChanged) \in B /\ TypeBytes(r.retType) \in B
          /\ Int32(r.retset) \in B /\ Int32(n) \in B
      BY <1>1, <1>4, <1>5, <1>7, <1>8
    <2> HIDE DEF B
    <2> QED BY <2>1
  <1>10. tail \in Seq(B) /\ Len(tail) = n /\ \A i \in 1..n : tail[i] = ArgumentBytes(r.args[i])
    <2>1. tail = [i \in 1..n |-> ArgumentBytes(r.args[i])]
      BY <1>3
    <2>2. \A i \in 1..n : ArgumentBytes(r.args[i]) \in B
      BY <1>3, <1>6
    <2> HIDE DEF B, n, tail
    <2> QED BY <1>3, <2>1, <2>2
  <1>11. f = head \o tail
    BY DEF Fields
  <1>12. /\ head[1] = <<CharC>> /\ head[2] = CString(r.name) /\ head[3] = CString(r.src)
         /\ head[4] = Int32(r.oid) /\ head[5] = Int32(r.hasChanged)
         /\ head[6] = TypeBytes(r.retType) /\ head[7] = Int32(r.retset)
         /\ head[8] = Int32(n)
    OBVIOUS
  <1> HIDE DEF head, tail, f, B
  <1>13. /\ f \in Seq(B) /\ Len(f) = 8 + n
         /\ \A i \in 1..8 : f[i] = head[i]
         /\ \A i \in 9..(8 + n) : f[i] = tail[i - 8]
    <2> HIDE DEF n
    <2>0. head \in Seq(B) /\ tail \in Seq(B) /\ Len(head) = 8 /\ Len(tail) = n /\ n \in Nat
      BY <1>3, <1>9, <1>10
    <2>1. /\ f \in Seq(B) /\ Len(f) = 8 + n
          /\ \A i \in 1..8 : f[i] = head[i]
          /\ \A i \in 1..n : f[8 + i] = tail[i]
      <3> DEFINE q == head \o tail
      <3>1. head \in Seq(B) /\ tail \in Seq(B)
        BY <2>0
      <3>2. /\ q \in Seq(B) /\ Len(q) = Len(head) + Len(tail)
            /\ \A i \in 1..Len(head) : q[i] = head[i]
            /\ \A i \in 1..Len(tail) : q[Len(head) + i] = tail[i]
        BY <3>1, Concatenated
      <3> HIDE DEF q
      <3>3. f = q
        BY <1>11 DEF q
      <3>4. Len(head) = 8 /\ Len(tail) = n
        BY <2>0
      <3> QED BY <3>2, <3>3, <3>4
    <2>2. ASSUME NEW i \in 9..(8 + n) PROVE f[i] = tail[i - 8]
      <3>1. i - 8 \in 1..n /\ 8 + (i - 8) = i
        BY <2>0
      <3> QED BY <2>1, <3>1
    <2> QED BY <2>1, <2>2
  <1>14. /\ f[1] = <<CharC>> /\ f[2] = CString(r.name) /\ f[3] = CString(r.src)
         /\ f[4] = Int32(r.oid) /\ f[5] = Int32(r.hasChanged)
         /\ f[6] = TypeBytes(r.retType) /\ f[7] = Int32(r.retset)
         /\ f[8] = Int32(n)
    BY <1>12, <1>13
  <1> HIDE DEF n
  <1>15. \A i \in 9..(8 + n) : /\ i - 8 \in DOMAIN r.args
                               /\ f[i] = ArgumentBytes(r.args[i - 8])
    BY <1>3, <1>10, <1>13
  <1>16. ASSUME NEW i \in 1..(8 + n)
         PROVE  MayComeAlone(r, i) < Len(f[i]) /\ MayComeAlone(r, i) \in Nat
    <2>1. CASE i \in {2, 3}
      <3>1. MayComeAlone(r, i) = 3
        BY <2>1 DEF MayComeAlone
      <3>2. Len(f[i]) >= 4 /\ Len(f[i]) \in Nat
        BY <1>7, <1>14, <2>1, BytesLen
      <3> QED BY <3>1, <3>2
    <2>2. CASE i > 8
      <3>1. i \in 9..(8 + n)
        BY <1>3, <2>2
      <3>2. MayComeAlone(r, i) = Len(HeaderBytes(r.args[i - 8])) - 1
        BY <2>2 DEF MayComeAlone
      <3>3. i - 8 \in DOMAIN r.args /\ f[i] = ArgumentBytes(r.args[i - 8])
        BY <1>15, <3>1
      <3>4. /\ Len(HeaderBytes(r.args[i - 8])) \in Nat \ {0}
            /\ Len(ArgumentBytes(r.args[i - 8])) \in Nat
            /\ Len(HeaderBytes(r.args[i - 8])) <= Len(ArgumentBytes(r.args[i - 8]))
        BY <1>6, <3>3
      <3> QED BY <3>2, <3>3, <3>4
    <2>3. CASE i \in {1, 4, 5, 6, 7, 8}
      <3>1. MayComeAlone(r, i) = 0
        BY <2>3 DEF MayComeAlone
      <3>2. Len(f[i]) \in Nat \ {0}
        <4>1. Len(f[1]) = 1 /\ Len(f[6]) \in Nat \ {0}
          BY <1>5, <1>8, <1>14
        <4>2. n \in Int32s
          BY <1>1 DEF n
        <4>3. f[4] = Int32(r.oid) /\ f[5] = Int32(r.hasChanged) /\ f[7] = Int32(r.retset)
              /\ f[8] = Int32(n) /\ r.oid \in Int32s /\ r.hasChanged \in Int32s
              /\ r.retset \in Int32s
          BY <1>1, <1>14
        <4>4. Len(f[4]) = 4 /\ Len(f[5]) = 4 /\ Len(f[7]) = 4 /\ Len(f[8]) = 4
          BY <1>4, <4>2, <4>3
        <4>5. /\ Len(f[1]) \in Nat \ {0} /\ Len(f[4]) \in Nat \ {0} /\ Len(f[5]) \in Nat \ {0}
              /\ Len(f[6]) \in Nat \ {0} /\ Len(f[7]) \in Nat \ {0} /\ Len(f[8]) \in Nat \ {0}
          BY <4>1, <4>4
        <4> QED BY <2>3, <4>5
      <3> QED BY <3>1, <3>2
    <2>4. i \in {2, 3} \/ i > 8 \/ i \in {1, 4, 5, 6, 7, 8}
      BY <1>3
    <2> QED BY <2>1, <2>2, <2>3, <2>4
  <1>17. \A i \in 1..(8 + n) : MayComeAlone(r, i) < Len(f[i]) /\ MayComeAlone(r, i) \in Nat
    BY <1>16
  <1> QED BY <1>2, <1>3, <1>13, <1>14, <1>15, <1>17 DEF FieldsSent, f, n, B

\* The bytes of the requests, how many there are of the first c of them, and
\* how many of the first i fields of one.
CallsOf(session) == [c \in DOMAIN session |-> CallBytes(session[c])]
Before(session, c) == LengthOf(CallsOf(session), c)
Within(session, c, i) == LengthOf(Fields(session[c]), i)
StartOf(session, c, i) == Before(session, c - 1) + Within(session, c, i - 1)

\* How many fields request c has.
FieldsOf(session, c) == 8 + Len(session[c].args)

LEMMA SessionIs ==
    ASSUME NEW session, SessionFits(session)
    PROVE  /\ session \in Seq(Range(session)) /\ Len(session) \in Nat
           /\ DOMAIN session = 1..Len(session)
           /\ \A c \in 1..Len(session) :
                 /\ RequestFits(session[c])
                 /\ FieldsSent(session[c])
                 /\ FieldsOf(session, c) \in Nat /\ FieldsOf(session, c) >= 8
                 /\ c < Len(session) => Len(session[c].args) = 0
           /\ CallsOf(session) \in Seq(Bytes) /\ Len(CallsOf(session)) = Len(session)
           /\ \A c \in 1..Len(session) : CallsOf(session)[c] = CallBytes(session[c])
  <1>1. session \in Seq(Range(session))
    BY DEF SessionFits, IsSequence
  <1>2. Len(session) \in Nat /\ DOMAIN session = 1..Len(session)
    <2> DEFINE S == Range(session)
    <2>1. session \in Seq(S)
      BY <1>1
    <2> HIDE DEF S
    <2> QED BY <2>1
  <1>3. ASSUME NEW c \in 1..Len(session)
        PROVE  /\ RequestFits(session[c])
               /\ FieldsSent(session[c])
               /\ FieldsOf(session, c) \in Nat /\ FieldsOf(session, c) >= 8
               /\ c < Len(session) => Len(session[c].args) = 0
    <2>1. RequestFits(session[c]) /\ (c < Len(session) => session[c].args = <<>>)
      <3>1. c \in DOMAIN session
        BY <1>2
      <3> QED BY <3>1, Zenon DEF SessionFits
    <2>2. FieldsSent(session[c])
      BY <2>1, FieldsAre
    <2>3. Len(session[c].args) \in Nat
      BY <2>2 DEF FieldsSent
    <2>4. Len(<<>>) = 0
      OBVIOUS
    <2> QED BY <2>1, <2>2, <2>3, <2>4 DEF FieldsOf
  <1>4. \A c \in 1..Len(session) : CallBytes(session[c]) \in Bytes
    <2> SUFFICES ASSUME NEW c \in 1..Len(session) PROVE CallBytes(session[c]) \in Bytes
      OBVIOUS
    <2>1. Fields(session[c]) \in Seq(Bytes)
      BY <1>3 DEF FieldsSent
    <2> QED BY <2>1, FlattenBytes DEF CallBytes
  <1>5. /\ CallsOf(session) \in Seq(Bytes) /\ Len(CallsOf(session)) = Len(session)
        /\ \A c \in 1..Len(session) : CallsOf(session)[c] = CallBytes(session[c])
    <2> DEFINE B == Bytes
               f == [c \in 1..Len(session) |-> CallBytes(session[c])]
    <2>1. CallsOf(session) = f
      BY <1>2 DEF CallsOf
    <2>2. \A c \in 1..Len(session) : CallBytes(session[c]) \in B
      BY <1>4
    <2> HIDE DEF B
    <2>3. f \in Seq(B) /\ Len(f) = Len(session)
          /\ \A c \in 1..Len(session) : f[c] = CallBytes(session[c])
      BY <1>2, <2>2
    <2> HIDE DEF f
    <2> QED BY <2>1, <2>3 DEF B
  <1> QED BY <1>1, <1>2, <1>3, <1>5

\* Where field i of request c is.
FieldPlace(session, c, i) ==
    /\ Starts(session)[c][i] = StartOf(session, c, i)
    /\ StartOf(session, c, i) \in 0..Len(Stream(session))
    /\ HasAt(Stream(session), StartOf(session, c, i), Fields(session[c])[i])
    /\ Before(session, c - 1) <= StartOf(session, c, i)
    /\ StartOf(session, c, i) + Len(Fields(session[c])[i])
         = Before(session, c - 1) + Within(session, c, i)
    /\ Within(session, c, i) <= Within(session, c, FieldsOf(session, c))
    /\ Len(Fields(session[c])[i]) \in Nat
    /\ Fields(session[c])[i] \in Bytes

LEMMA PlaceOf ==
    ASSUME NEW session, SessionFits(session)
    PROVE  /\ Stream(session) \in Bytes
           /\ \A c \in 0..Len(session) : Before(session, c) \in Nat
           /\ Before(session, 0) = 0
           /\ Before(session, Len(session)) = Len(Stream(session))
           /\ \A c, d \in 0..Len(session) : c <= d => Before(session, c) <= Before(session, d)
           /\ \A c \in 1..Len(session) :
                 /\ Before(session, c) = Before(session, c - 1)
                                         + Within(session, c, FieldsOf(session, c))
                 /\ Within(session, c, 0) = 0
                 /\ DOMAIN Starts(session)[c] = 1..FieldsOf(session, c)
                 /\ \A i \in 0..FieldsOf(session, c) : Within(session, c, i) \in Nat
                 /\ \A i, j \in 0..FieldsOf(session, c) :
                       i <= j => Within(session, c, i) <= Within(session, c, j)
                 /\ \A i \in 1..FieldsOf(session, c) : FieldPlace(session, c, i)
           /\ Starts(session)[Len(session) + 1][1] = Len(Stream(session))
  <1> DEFINE calls == CallsOf(session)
             n == Len(session)
             s == FlattenSeq(calls)
  <1>0. /\ n \in Nat /\ calls \in Seq(Bytes) /\ Len(calls) = n
        /\ \A c \in 1..n : calls[c] = CallBytes(session[c])
        /\ \A c \in 1..n : /\ FieldsSent(session[c])
                           /\ FieldsOf(session, c) \in Nat /\ FieldsOf(session, c) >= 8
    BY SessionIs
  <1>1. Stream(session) = s
    BY DEF Stream, CallsOf
  <1>2. /\ s \in Bytes
        /\ LengthOf(calls, 0) = 0
        /\ LengthOf(calls, Len(calls)) = Len(s)
        /\ \A k \in 0..Len(calls) : LengthOf(calls, k) \in Nat
        /\ \A k \in 1..Len(calls) :
              /\ Len(calls[k]) \in Nat
              /\ calls[k] \in Bytes
              /\ LengthOf(calls, k) = LengthOf(calls, k - 1) + Len(calls[k])
              /\ HasAt(s, LengthOf(calls, k - 1), calls[k])
        /\ \A j, k \in 0..Len(calls) : j <= k => LengthOf(calls, j) <= LengthOf(calls, k)
    BY <1>0, FlattenBytesAt
  <1> HIDE DEF calls, s
  <1>3. /\ Stream(session) \in Bytes
        /\ \A c \in 0..n : Before(session, c) \in Nat
        /\ Before(session, 0) = 0
        /\ Before(session, n) = Len(Stream(session))
        /\ \A c, d \in 0..n : c <= d => Before(session, c) <= Before(session, d)
    BY <1>0, <1>1, <1>2 DEF Before, calls
  <1> DEFINE In(c, fields) ==
                 [i \in DOMAIN fields |-> LengthOf(calls, c - 1) + LengthOf(fields, i - 1)]
             Row(c) == IF c <= n THEN In(c, Fields(session[c])) ELSE <<LengthOf(calls, n)>>
  <1>4. Starts(session) = [c \in 1..(n + 1) |-> Row(c)]
    BY DEF Starts, calls, CallsOf
  <1> HIDE DEF In, Row
  <1>5. \A c \in 1..(n + 1) : Starts(session)[c] = Row(c)
    BY <1>4
  <1>6. Starts(session)[n + 1][1] = Len(Stream(session))
    <2>1. n + 1 \in 1..(n + 1) /\ ~ (n + 1 <= n)
      BY <1>0
    <2>2. Starts(session)[n + 1] = <<LengthOf(calls, n)>>
      BY <1>5, <2>1 DEF Row
    <2>3. <<LengthOf(calls, n)>>[1] = LengthOf(calls, n)
      OBVIOUS
    <2> QED BY <1>0, <1>1, <1>2, <2>2, <2>3
  <1>7. ASSUME NEW c \in 1..n
        PROVE  /\ Before(session, c) = Before(session, c - 1)
                                       + Within(session, c, FieldsOf(session, c))
               /\ Within(session, c, 0) = 0
               /\ DOMAIN Starts(session)[c] = 1..FieldsOf(session, c)
               /\ \A i \in 0..FieldsOf(session, c) : Within(session, c, i) \in Nat
               /\ \A i, j \in 0..FieldsOf(session, c) :
                     i <= j => Within(session, c, i) <= Within(session, c, j)
               /\ \A i \in 1..FieldsOf(session, c) : FieldPlace(session, c, i)
    <2> DEFINE f == Fields(session[c])
               w == FieldsOf(session, c)
               x == CallBytes(session[c])
               In0 == LengthOf(calls, c - 1)
    <2>0. f \in Seq(Bytes) /\ Len(f) = w /\ w \in Nat
      BY <1>0 DEF FieldsSent, FieldsOf
    <2>1. FlattenSeq(f) = x
      BY DEF CallBytes
    <2>2. /\ x \in Bytes
          /\ LengthOf(f, 0) = 0
          /\ LengthOf(f, Len(f)) = Len(x)
          /\ \A k \in 0..Len(f) : LengthOf(f, k) \in Nat
          /\ \A k \in 1..Len(f) :
                /\ Len(f[k]) \in Nat
                /\ f[k] \in Bytes
                /\ LengthOf(f, k) = LengthOf(f, k - 1) + Len(f[k])
                /\ HasAt(x, LengthOf(f, k - 1), f[k])
          /\ \A j, k \in 0..Len(f) : j <= k => LengthOf(f, j) <= LengthOf(f, k)
      BY <2>0, <2>1, FlattenBytesAt
    <2>3. DOMAIN f = 1..w
      <3> DEFINE B == Bytes
      <3>1. f \in Seq(B)
        BY <2>0
      <3> HIDE DEF f, B, w
      <3> QED BY <2>0, <3>1
    <2> HIDE DEF f, x, w
    <2>4. \A i : Within(session, c, i) = LengthOf(f, i)
      BY DEF Within, f
    <2>5. Before(session, c) = LengthOf(calls, c) /\ Before(session, c - 1) = In0
      BY DEF Before, calls
    <2>6. calls[c] = x /\ c \in 1..Len(calls) /\ c - 1 \in 0..Len(calls)
      BY <1>0 DEF x
    <2> HIDE DEF In0
    <2>7. /\ LengthOf(calls, c) = In0 + Len(x) /\ In0 \in Nat /\ HasAt(s, In0, x)
          /\ Len(x) \in Nat
      BY <1>2, <2>6 DEF In0
    <2>8. Starts(session)[c] = [i \in 1..w |-> In0 + LengthOf(f, i - 1)]
      <3>1. c \in 1..(n + 1) /\ c <= n
        BY <1>0
      <3>2. Starts(session)[c] = In(c, f)
        BY <1>5, <3>1 DEF Row, f
      <3> QED BY <2>3, <3>2 DEF In, In0
    <2>9. ASSUME NEW i \in 1..w PROVE FieldPlace(session, c, i)
      <3>1. i - 1 \in 0..w /\ i \in 0..w /\ w \in 0..w /\ i <= w
        BY <2>0
      <3>2. StartOf(session, c, i) = In0 + LengthOf(f, i - 1)
        BY <2>4, <2>5 DEF StartOf
      <3>3. Starts(session)[c][i] = StartOf(session, c, i)
        BY <2>8, <3>2
      <3>4. /\ Len(f[i]) \in Nat /\ f[i] \in Bytes
            /\ LengthOf(f, i) = LengthOf(f, i - 1) + Len(f[i])
            /\ HasAt(x, LengthOf(f, i - 1), f[i])
            /\ LengthOf(f, i) <= LengthOf(f, w)
            /\ LengthOf(f, i - 1) \in Nat
        BY <2>0, <2>2, <3>1
      <3>5. HasAt(s, In0 + LengthOf(f, i - 1), f[i])
        <4> DEFINE A == 0..255
                   k == LengthOf(f, i - 1)
                   p == f[i]
        <4>1. s \in Seq(A) /\ x \in Seq(A) /\ p \in Seq(A)
          BY <1>2, <2>2, <3>4 DEF Bytes
        <4>2. In0 \in Nat /\ k \in Nat /\ HasAt(s, In0, x) /\ HasAt(x, k, p)
          BY <2>7, <3>4
        <4> HIDE DEF A, k, p
        <4>3. HasAt(s, In0 + k, p)
          BY <4>1, <4>2, HasPart
        <4> QED BY <4>3 DEF k, p
      <3>6. In0 + LengthOf(f, i - 1) \in 0..Len(s)
        <4>1. (In0 + LengthOf(f, i - 1)) + Len(f[i]) <= Len(s)
          BY <3>5 DEF HasAt
        <4>2. Len(s) \in Nat
          BY <1>2, BytesLen
        <4> QED BY <2>7, <3>4, <4>1, <4>2
      <3>7. (In0 + LengthOf(f, i - 1)) + Len(f[i]) = In0 + LengthOf(f, i)
            /\ In0 <= In0 + LengthOf(f, i - 1)
        BY <2>7, <3>4
      <3> QED BY <1>1, <2>4, <2>5, <3>2, <3>3, <3>4, <3>5, <3>6, <3>7 DEF FieldPlace, f, w
    <2>10. w \in 0..w /\ Len(x) = LengthOf(f, w)
      BY <2>0, <2>2
    <2>11. DOMAIN Starts(session)[c] = 1..w
      BY <2>8
    <2>12. Before(session, c) = Before(session, c - 1) + Within(session, c, w)
      BY <2>4, <2>5, <2>7, <2>10
    <2>13. /\ Within(session, c, 0) = 0
           /\ \A i \in 0..w : Within(session, c, i) \in Nat
           /\ \A i, j \in 0..w : i <= j => Within(session, c, i) <= Within(session, c, j)
      BY <2>0, <2>2, <2>4
    <2> QED BY <2>9, <2>11, <2>12, <2>13 DEF w
  <1> QED BY <1>3, <1>6, <1>7

\* A cut leaves a field whole, unless it comes next: then no more of it is
\* there than may come alone.
LEMMA CutIs ==
    ASSUME NEW session, SessionFits(session), NEW n \in SafeCuts(session),
           NEW c \in 1..Len(session), NEW i \in 1..FieldsOf(session, c)
    PROVE  \/ StartOf(session, c, i) + Len(Fields(session[c])[i]) <= n
           \/ n <= StartOf(session, c, i) + MayComeAlone(session[c], i)
  <1> DEFINE s == Stream(session)
             m == Len(session)
             start == Starts(session)
             W(d) == FieldsOf(session, d)
             Bf(d) == Before(session, d)
             Wi(d, j) == Within(session, d, j)
             St(d, j) == StartOf(session, d, j)
             Fl(d, j) == Len(Fields(session[d])[j])
             Mc(d, j) == MayComeAlone(session[d], j)
  <1>0. /\ m \in Nat /\ DOMAIN session = 1..m
        /\ \A d \in 1..m : FieldsSent(session[d]) /\ W(d) \in Nat
    BY SessionIs
  <1>1. /\ s \in Bytes
        /\ \A d \in 0..m : Bf(d) \in Nat
        /\ \A d, e \in 0..m : d <= e => Bf(d) <= Bf(e)
        /\ \A d \in 1..m :
              /\ Bf(d) = Bf(d - 1) + Wi(d, W(d))
              /\ DOMAIN start[d] = 1..W(d)
              /\ \A j \in 0..W(d) : Wi(d, j) \in Nat
              /\ \A j, k \in 0..W(d) : j <= k => Wi(d, j) <= Wi(d, k)
              /\ \A j \in 1..W(d) : FieldPlace(session, d, j)
        /\ start[m + 1][1] = Len(s)
    BY PlaceOf
  <1>2. \A d \in 1..m : \A j \in 1..W(d) : Mc(d, j) < Fl(d, j) /\ Mc(d, j) \in Nat
    BY <1>0 DEF FieldsSent, FieldsOf
  <1>3. \A d \in 1..m : \A j \in 1..W(d) :
           /\ start[d][j] = St(d, j)
           /\ HasAt(s, St(d, j), Fields(session[d])[j])
           /\ St(d, j) + Fl(d, j) = Bf(d - 1) + Wi(d, j)
           /\ St(d, j) = Bf(d - 1) + Wi(d, j - 1)
           /\ Fl(d, j) \in Nat
    BY <1>1 DEF FieldPlace, StartOf
  <1>4. \/ n = start[m + 1][1]
        \/ \E d \in 1..m : \E j \in 1..W(d) : \E k \in 0..Mc(d, j) : n = start[d][j] + k
    <2> DEFINE Into(d, j) == {start[d][j] + k : k \in 0..Mc(d, j)}
    <2>1. SafeCuts(session) = {start[m + 1][1]}
             \cup UNION {UNION {Into(d, j) : j \in DOMAIN start[d]} : d \in DOMAIN session}
      BY DEF SafeCuts
    <2>2. CASE n = start[m + 1][1]
      BY <2>2
    <2>3. CASE n # start[m + 1][1]
      <3>1. n \in UNION {UNION {Into(d, j) : j \in DOMAIN start[d]} : d \in DOMAIN session}
        <4> HIDE DEF Into, start
        <4> QED BY <2>1, <2>3
      <3>2. PICK d \in DOMAIN session : n \in UNION {Into(d, j) : j \in DOMAIN start[d]}
        <4> HIDE DEF Into, start
        <4> QED BY <3>1, Zenon
      <3>3. PICK j \in DOMAIN start[d] : n \in Into(d, j)
        <4> HIDE DEF Into, start
        <4> QED BY <3>2, Zenon
      <3>4. \E k \in 0..Mc(d, j) : n = start[d][j] + k
        BY <3>3
      <3>5. d \in 1..m /\ j \in 1..W(d)
        BY <1>0, <1>1, <3>2, <3>3
      <3> QED BY <3>4, <3>5
    <2> QED BY <2>2, <2>3
  <1> HIDE DEF s, m, start, W, Bf, Wi, St, Fl, Mc
  <1> SUFFICES St(c, i) + Fl(c, i) <= n \/ n <= St(c, i) + Mc(c, i)
    BY DEF St, Fl, Mc
  <1>5. c \in 1..m /\ i \in 1..W(c) /\ c \in Nat /\ i \in Nat
    <2>1. c \in 1..m /\ i \in 1..W(c)
      BY DEF m, W
    <2> QED BY <1>0, <2>1
  <1>6. /\ St(c, i) + Fl(c, i) = Bf(c - 1) + Wi(c, i)
        /\ St(c, i) = Bf(c - 1) + Wi(c, i - 1)
        /\ Bf(c - 1) \in Nat /\ Bf(c) \in Nat /\ Wi(c, i) \in Nat /\ Wi(c, i - 1) \in Nat
        /\ Bf(c) = Bf(c - 1) + Wi(c, W(c)) /\ Wi(c, i) <= Wi(c, W(c)) /\ Wi(c, W(c)) \in Nat
        /\ Mc(c, i) \in Nat /\ Fl(c, i) \in Nat
    <2>1. /\ c - 1 \in 0..m /\ c \in 0..m /\ i - 1 \in 0..W(c) /\ i \in 0..W(c)
          /\ W(c) \in 0..W(c) /\ i <= W(c)
      BY <1>0, <1>5
    <2> QED BY <1>1, <1>2, <1>3, <1>5, <2>1
  <1>9. /\ St(c, i) \in Nat /\ Bf(c - 1) <= St(c, i) /\ St(c, i) + Fl(c, i) <= Bf(c)
        /\ St(c, i) <= St(c, i) + Mc(c, i)
    <2> DEFINE x1 == Bf(c - 1)
               y1 == Wi(c, i - 1)
               z1 == Wi(c, i)
               u1 == St(c, i)
               v1 == Fl(c, i)
               w1 == Wi(c, W(c))
               q1 == Bf(c)
               o1 == Mc(c, i)
    <2>1. /\ u1 + v1 = x1 + z1 /\ u1 = x1 + y1 /\ x1 \in Nat /\ y1 \in Nat /\ z1 \in Nat /\ q1 \in Nat
          /\ v1 \in Nat /\ o1 \in Nat /\ q1 = x1 + w1 /\ z1 <= w1 /\ w1 \in Nat
      BY <1>6
    <2> HIDE DEF x1, y1, z1, u1, v1, w1, q1, o1
    <2>2. u1 \in Nat /\ x1 <= u1 /\ u1 + v1 <= q1 /\ u1 <= u1 + o1
      BY <2>1
    <2> QED BY <2>2 DEF x1, y1, z1, u1, v1, w1, q1, o1
  <1>10. /\ St(c, i) + Fl(c, i) = Bf(c - 1) + Wi(c, i)
         /\ St(c, i) = Bf(c - 1) + Wi(c, i - 1)
    BY <1>6
  <1>11. Mc(c, i) \in Nat /\ Fl(c, i) \in Nat /\ Bf(c - 1) \in Nat /\ Bf(c) \in Nat
    BY <1>6
  <1> DEFINE x == Bf(c - 1)
             u == St(c, i)
             v == Fl(c, i)
             q == Bf(c)
             o == Mc(c, i)
  <1> HIDE DEF x, u, v, q, o
  <1>12. /\ u \in Nat /\ x <= u /\ u + v <= q /\ u <= u + o
         /\ o \in Nat /\ v \in Nat /\ x \in Nat /\ q \in Nat
    BY <1>9, <1>11 DEF x, u, v, q, o
  <1> SUFFICES u + v <= n \/ n <= u + o
    BY DEF u, v, o
  <1>7. CASE n = start[m + 1][1]
    <2>1. n = Len(s)
      BY <1>1, <1>7
    <2>2. HasAt(s, St(c, i), Fields(session[c])[i])
      BY <1>3, <1>5
    <2> QED BY <2>1, <2>2 DEF HasAt, Fl, u, v
  <1>8. ASSUME NEW d \in 1..m, NEW j \in 1..W(d), NEW k \in 0..Mc(d, j), n = start[d][j] + k
        PROVE  u + v <= n \/ n <= u + o
    <2>1. /\ d - 1 \in 0..m /\ d \in 0..m /\ j - 1 \in 0..W(d) /\ j \in 0..W(d)
          /\ W(d) \in 0..W(d) /\ j <= W(d) /\ d \in Nat /\ j \in Nat
      BY <1>0
    <2>2. /\ n = St(d, j) + k
          /\ St(d, j) + Fl(d, j) = Bf(d - 1) + Wi(d, j)
          /\ St(d, j) = Bf(d - 1) + Wi(d, j - 1)
      BY <1>3, <1>8
    <2>3. Mc(d, j) < Fl(d, j) /\ Mc(d, j) \in Nat /\ Fl(d, j) \in Nat
      BY <1>2, <1>3
    <2>4. /\ Bf(d - 1) \in Nat /\ Bf(d) \in Nat /\ Wi(d, j) \in Nat /\ Wi(d, j - 1) \in Nat
          /\ Bf(d) = Bf(d - 1) + Wi(d, W(d)) /\ Wi(d, j) <= Wi(d, W(d)) /\ Wi(d, W(d)) \in Nat
      BY <1>1, <2>1
    <2>8. /\ n \in Nat /\ Bf(d - 1) + Wi(d, j - 1) <= n /\ n < Bf(d - 1) + Wi(d, j)
          /\ Bf(d - 1) + Wi(d, j) <= Bf(d) /\ Bf(d - 1) <= n
          /\ n < Bf(d)
      <3> DEFINE x2 == Bf(d - 1)
                 y2 == Wi(d, j - 1)
                 z2 == Wi(d, j)
                 u2 == St(d, j)
                 v2 == Fl(d, j)
                 w2 == Wi(d, W(d))
                 q2 == Bf(d)
                 o2 == Mc(d, j)
      <3>1. /\ n = u2 + k /\ u2 + v2 = x2 + z2 /\ u2 = x2 + y2 /\ x2 \in Nat /\ y2 \in Nat /\ z2 \in Nat
            /\ v2 \in Nat /\ o2 < v2 /\ o2 \in Nat /\ q2 = x2 + w2 /\ z2 <= w2 /\ w2 \in Nat /\ k \in 0..o2
        BY <2>2, <2>3, <2>4
      <3> HIDE DEF x2, y2, z2, u2, v2, w2, q2, o2
      <3>2. /\ n \in Nat /\ x2 + y2 <= n /\ n < x2 + z2 /\ x2 + z2 <= q2 /\ x2 <= n /\ n < q2
        BY <3>1
      <3> QED BY <3>2 DEF x2, y2, z2, u2, v2, w2, q2, o2
    <2> DEFINE r == Bf(d - 1)
               t == Bf(d)
    <2> HIDE DEF r, t
    <2>9. n \in Nat /\ r <= n /\ n < t /\ r \in Nat /\ t \in Nat
      BY <2>4, <2>8 DEF r, t
    <2>5. CASE d < c
      <3>1. t <= x
        <4>1. d <= c - 1 /\ c - 1 \in 0..m
          BY <1>0, <1>5, <2>1, <2>5
        <4> QED BY <1>1, <2>1, <4>1 DEF t, x
      <3> QED BY <1>12, <2>9, <3>1
    <2>6. CASE c < d
      <3>1. q <= r
        <4>1. c <= d - 1 /\ c \in 0..m
          BY <1>0, <1>5, <2>1, <2>6
        <4> QED BY <1>1, <2>1, <4>1 DEF q, r
      <3> QED BY <1>12, <2>9, <3>1
    <2>7. CASE c = d
      <3> DEFINE a == Wi(c, i)
                 b == Wi(c, i - 1)
                 e == Wi(c, j)
                 g == Wi(c, j - 1)
      <3>4. /\ u + v = x + a /\ u = x + b
        BY <1>10 DEF u, v, x
      <3>5. /\ x + g <= n /\ n < x + e
        BY <2>7, <2>8 DEF x
      <3>6. a \in Nat /\ b \in Nat /\ e \in Nat /\ g \in Nat
        BY <1>6, <2>4, <2>7
      <3> HIDE DEF a, b, e, g
      <3>1. CASE j < i
        <4>1. e <= b
          <5>1. j <= i - 1 /\ i - 1 \in 0..W(c) /\ j \in 0..W(c)
            BY <1>0, <1>5, <2>1, <2>7, <3>1
          <5> QED BY <1>1, <1>5, <5>1 DEF e, b
        <4> QED BY <1>12, <2>9, <3>4, <3>5, <3>6, <4>1
      <3>2. CASE i < j
        <4>1. a <= g
          <5>1. i <= j - 1 /\ j - 1 \in 0..W(c) /\ i \in 0..W(c)
            BY <1>0, <1>5, <2>1, <2>7, <3>2
          <5> QED BY <1>1, <1>5, <5>1 DEF a, g
        <4> QED BY <1>12, <2>9, <3>4, <3>5, <3>6, <4>1
      <3>3. CASE i = j
        <4>1. n = u + k /\ k <= o /\ k \in Nat
          BY <2>2, <2>3, <2>7, <3>3 DEF u, o
        <4> QED BY <1>12, <4>1
      <3> QED BY <1>5, <2>1, <3>1, <3>2, <3>3
    <2> QED BY <1>5, <2>1, <2>5, <2>6, <2>7
  <1> QED BY <1>4, <1>7, <1>8

-----------------------------------------------------------------------------
(* The decoder, on the way through a session.                              *)

\* The bytes come as decode() is prepared for them, and are those of sessions
\* that it can read.
Prepared == ~CutAnywhere /\ \A session \in Sessions : SessionFits(session)

\* The state that waits for field i.
StateFor(i) ==
    CASE i = 1 -> "WAITING"
      [] i = 2 -> "FUNCTION_NAME"
      [] i = 3 -> "FUNCTION_DEFINTION"
      [] i = 4 -> "OID"
      [] i = 5 -> "HAS_CHANGED"
      [] i = 6 -> "RETURN_TYPE"
      [] i = 7 -> "SET_RETURNING"
      [] i = 8 -> "NUM_ARGUMENTS"
      [] OTHER -> "ARGUMENTS"

\* What is read of the request r when its field i comes next.
ReadUpTo(r, i) ==
    [name       |-> IF i > 2 THEN NameAsRead(r.name) ELSE <<>>,
     src        |-> IF i > 3 THEN NameAsRead(r.src) ELSE <<>>,
     oid        |-> IF i > 4 THEN r.oid ELSE 0,
     hasChanged |-> IF i > 5 THEN r.hasChanged = 1 ELSE FALSE,
     retType    |-> IF i > 6 THEN <<TypeAsRead(r.retType)>> ELSE <<>>,
     retset     |-> IF i > 7 THEN r.retset = 1 ELSE FALSE,
     numArgs    |-> IF i > 8 THEN Len(r.args) ELSE 0,
     args       |-> [j \in 1..(i - 9) |-> ArgumentAsRead(r.args[j])]]

\* Of request c, the fields before field i are read.
ReadingField(c, i) ==
    /\ c \in 1..Len(sent) /\ i \in 2..FieldsOf(sent, c)
    /\ Len(delivered) = c - 1
    /\ state = StateFor(i)
    /\ at = StartOf(sent, c, i)
    /\ call = ReadUpTo(sent[c], i)

\* Nothing of the next request is read.
BetweenRequests ==
    /\ Len(delivered) \in 0..Len(sent)
    /\ at = Before(sent, Len(delivered))
    /\ \/ state = "WAITING"
       \/ /\ state = "ARGUMENTS" /\ Len(call.args) = call.numArgs
          /\ Len(delivered) = Len(sent)

\* The inductive invariant, with DecoderInv and Awake.
Steady ==
    /\ open
    /\ stream = [bytes |-> Stream(sent), starts |-> Starts(sent), cuts |-> SafeCuts(sent)]
    /\ decoding => Len(bytes) \in SafeCuts(sent)
    /\ \A j \in DOMAIN delivered : delivered[j] = AsRead(sent[j])
    /\ BetweenRequests \/ \E c, i : ReadingField(c, i)

\* What it is good for.
LEMMA SteadyIs ==
    ASSUME DecoderInv, Steady, SessionFits(sent)
    PROVE  InSync /\ StaysOpen /\ CalledAsSent
  <1>0. open /\ stream.starts = Starts(sent)
    BY DEF Steady
  <1>1. /\ Len(sent) \in Nat
        /\ \A c \in 1..Len(sent) : FieldsSent(sent[c]) /\ FieldsOf(sent, c) \in Nat
    BY SessionIs
  <1>2. /\ Before(sent, Len(sent)) = Len(Stream(sent))
        /\ Starts(sent)[Len(sent) + 1][1] = Len(Stream(sent))
        /\ \A c \in 1..Len(sent) : /\ Within(sent, c, 0) = 0
                                   /\ \A i \in 1..FieldsOf(sent, c) : FieldPlace(sent, c, i)
        /\ \A c \in 0..Len(sent) : Before(sent, c) \in Nat
    BY PlaceOf
  <1>3. ASSUME BetweenRequests
        PROVE  /\ NextField = 1
               /\ at = Starts(sent)[Len(delivered) + 1][1]
               /\ Len(delivered) <= Len(sent)
    <2> DEFINE d == Len(delivered)
    <2>0. d \in Nat /\ d \in 0..Len(sent) /\ at = Before(sent, d)
      BY <1>1, <1>3 DEF BetweenRequests
    <2>1. NextField = 1
      BY <1>3 DEF BetweenRequests, NextField
    <2>2. CASE d = Len(sent)
      BY <1>2, <2>0, <2>1, <2>2
    <2>3. CASE d < Len(sent)
      <3>1. d + 1 \in 1..Len(sent) /\ (d + 1) - 1 = d
        BY <1>1, <2>0, <2>3
      <3>2. 1 \in 1..FieldsOf(sent, d + 1)
        BY <3>1, SessionIs
      <3>3. Starts(sent)[d + 1][1] = Before(sent, d) + Within(sent, d + 1, 0)
        <4>1. FieldPlace(sent, d + 1, 1)
          BY <1>2, <3>1, <3>2
        <4>2. 1 - 1 = 0
          OBVIOUS
        <4> QED BY <3>1, <4>1, <4>2 DEF FieldPlace, StartOf
      <3>4. Within(sent, d + 1, 0) = 0 /\ Before(sent, d) \in Nat
        BY <1>2, <2>0, <3>1
      <3> QED BY <2>0, <2>1, <3>3, <3>4
    <2> QED BY <1>1, <2>0, <2>2, <2>3
  <1>4. ASSUME NEW c, NEW i, ReadingField(c, i)
        PROVE  /\ NextField = i
               /\ at = Starts(sent)[Len(delivered) + 1][i]
               /\ Len(delivered) <= Len(sent)
    <2>0. /\ c \in 1..Len(sent) /\ i \in 2..FieldsOf(sent, c) /\ Len(delivered) = c - 1
          /\ state = StateFor(i) /\ at = StartOf(sent, c, i) /\ call = ReadUpTo(sent[c], i)
      BY <1>4 DEF ReadingField
    <2>1. FieldsSent(sent[c]) /\ FieldsOf(sent, c) = 8 + Len(sent[c].args)
          /\ Len(sent[c].args) \in Nat
      BY <1>1, <2>0 DEF FieldsSent, FieldsOf
    <2>2. NextField = i
      <3>1. CASE i \in 2..8
        BY <2>0, <3>1 DEF NextField, StateFor
      <3>2. CASE i > 8
        <4>1. state = "ARGUMENTS"
          BY <2>0, <3>2 DEF StateFor
        <4>2. /\ call.args = [j \in 1..(i - 9) |-> ArgumentAsRead(sent[c].args[j])]
              /\ call.numArgs = Len(sent[c].args)
          BY <2>0, <3>2 DEF ReadUpTo
        <4>3. i - 9 \in Nat /\ i - 9 < Len(sent[c].args)
          BY <2>0, <2>1, <3>2
        <4>4. Len(call.args) = i - 9
          BY <4>2, <4>3
        <4>5. NextField = 9 + Len(call.args)
          <5>1. Len(call.args) # call.numArgs
            BY <2>1, <4>2, <4>3, <4>4
          <5> QED BY <4>1, <5>1 DEF NextField
        <4> QED BY <2>0, <2>1, <4>4, <4>5
      <3> QED BY <2>0, <2>1, <3>1, <3>2
    <2>3. Starts(sent)[c][i] = StartOf(sent, c, i)
      <3>1. i \in 1..FieldsOf(sent, c)
        BY <2>0, <2>1
      <3> QED BY <1>2, <2>0, <3>1 DEF FieldPlace
    <2>4. Len(delivered) + 1 = c /\ Len(delivered) <= Len(sent)
      BY <1>1, <2>0
    <2> QED BY <2>0, <2>2, <2>3, <2>4
  <1>5. at = Starts(sent)[Len(delivered) + 1][NextField] /\ Len(delivered) <= Len(sent)
    <2>1. CASE BetweenRequests
      BY <1>3, <2>1
    <2>2. CASE \E c, i : ReadingField(c, i)
      BY <1>4, <2>2
    <2> QED BY <2>1, <2>2 DEF Steady
  <1>6. \A j \in DOMAIN delivered : delivered[j] = AsRead(sent[j])
    BY DEF Steady
  <1> QED BY <1>0, <1>5, <1>6 DEF InSync, StaysOpen, CalledAsSent

\* At the beginning.
LEMMA SteadyInit ==
    ASSUME Init, SessionFits(sent)
    PROVE  Steady
  <1>1. Before(sent, 0) = 0 /\ Len(sent) \in Nat
    BY PlaceOf, SessionIs
  <1>2. delivered = <<>> /\ Len(delivered) = 0 /\ at = 0 /\ state = "WAITING"
        /\ decoding = FALSE /\ open = TRUE
    BY DEF Init
  <1>3. BetweenRequests
    BY <1>1, <1>2 DEF BetweenRequests
  <1>4. \A j \in DOMAIN delivered : delivered[j] = AsRead(sent[j])
    BY <1>2
  <1>5. stream = [bytes |-> Stream(sent), starts |-> Starts(sent), cuts |-> SafeCuts(sent)]
    BY DEF Init
  <1> QED BY <1>2, <1>3, <1>4, <1>5 DEF Steady

\* bytes is a beginning of the stream, and what is whole in it is where it was sent.
LEMMA FieldArrived ==
    ASSUME DecoderInv, Awake, Steady, SessionFits(sent), decoding,
           NEW c \in 1..Len(sent), NEW i \in 1..FieldsOf(sent, c), at = StartOf(sent, c, i)
    PROVE  /\ Begins(bytes, Stream(sent))
           /\ HasAt(Stream(sent), at, Fields(sent[c])[i])
           /\ \/ /\ HasAt(bytes, at, Fields(sent[c])[i])
                 /\ at + Len(Fields(sent[c])[i])
                      = Before(sent, c - 1) + Within(sent, c, i)
                 /\ at + Len(Fields(sent[c])[i]) \in 0..Len(bytes)
              \/ /\ Len(bytes) <= at + MayComeAlone(sent[c], i)
                 /\ 0 < MayComeAlone(sent[c], i)
  <1> DEFINE s == Stream(sent)
             f == Fields(sent[c])[i]
             a == MayComeAlone(sent[c], i)
  <1>1. /\ HasAt(s, at, f) /\ f \in Bytes /\ Len(f) \in Nat
        /\ at + Len(f) = Before(sent, c - 1) + Within(sent, c, i)
    BY PlaceOf DEF FieldPlace
  <1>2. bytes \in Bytes /\ s \in Bytes /\ at < Len(bytes) /\ at \in 0..Len(bytes)
        /\ Len(bytes) \in Nat /\ Len(s) \in Nat /\ at \in Nat
    <2>1. bytes \in Bytes /\ at \in 0..Len(bytes) /\ at < Len(bytes)
      BY DEF DecoderInv, Awake
    <2>2. s \in Bytes
      BY PlaceOf
    <2> QED BY <2>1, <2>2, BytesLen
  <1>3. bytes = SubSeq(s, 1, Len(bytes)) /\ Len(bytes) <= Len(s)
    BY DEF DecoderInv, Beginning, Steady
  <1>4. Begins(bytes, s)
    <2> DEFINE n == Len(bytes)
    <2>1. Slice(s, 0, n) = SubSeq(s, 1, n)
      BY <1>2 DEF Slice
    <2>2. \A k \in 1..n : Slice(s, 0, n)[k] = s[0 + k]
      <3> DEFINE A == 0..255
      <3>1. s \in Seq(A) /\ 0 \in 0..Len(s) /\ n \in Nat /\ 0 + n <= Len(s)
        BY <1>2, <1>3 DEF Bytes
      <3> HIDE DEF A, n, s
      <3> QED BY <3>1, SliceIs
    <2>3. \A k \in 1..n : bytes[k] = s[k]
      <3> HIDE DEF s
      <3> QED BY <1>2, <1>3, <2>1, <2>2
    <2> QED BY <1>2, <1>3, <2>3 DEF Begins
  <1>5. \/ at + Len(f) <= Len(bytes)
        \/ Len(bytes) <= at + a
    <2>1. Len(bytes) \in SafeCuts(sent)
      BY DEF Steady
    <2> QED BY <2>1, CutIs
  <1>6. a \in Nat
    <2>1. FieldsSent(sent[c]) /\ i \in 1..(8 + Len(sent[c].args))
      BY SessionIs DEF FieldsOf
    <2> QED BY <2>1 DEF FieldsSent
  <1>7. CASE at + Len(f) <= Len(bytes)
    <2>1. HasAt(bytes, at, f)
      <3>1. ASSUME NEW k \in 1..Len(f) PROVE bytes[at + k] = f[k]
        <4>1. at + k \in 1..Len(bytes)
          BY <1>1, <1>2, <1>7
        <4>2. bytes[at + k] = s[at + k]
          BY <1>4, <4>1 DEF Begins
        <4> QED BY <1>1, <4>2 DEF HasAt
      <3> QED BY <1>7, <3>1 DEF HasAt
    <2>2. at + Len(f) \in 0..Len(bytes)
      BY <1>1, <1>2, <1>7
    <2> QED BY <1>1, <1>4, <2>1, <2>2
  <1>8. CASE Len(bytes) <= at + a
    <2>1. 0 < a
      BY <1>2, <1>6, <1>8
    <2> QED BY <1>1, <1>4, <1>8, <2>1
  <1> QED BY <1>5, <1>7, <1>8

\* The arguments read so far.
ArgsUpTo(r, i) == [j \in 1..(i - 9) |-> ArgumentAsRead(r.args[j])]

LEMMA NoArgsYet ==
    ASSUME NEW r, NEW i \in 1..9
    PROVE  ArgsUpTo(r, i) = <<>>
  <1>1. 1..(i - 9) = {}
    OBVIOUS
  <1>2. ArgsUpTo(r, i) = [j \in {} |-> ArgumentAsRead(r.args[j])]
    BY <1>1 DEF ArgsUpTo
  <1>3. [j \in {} |-> ArgumentAsRead(r.args[j])] = <<>>
    OBVIOUS
  <1> QED BY <1>2, <1>3

\* Field by field.
LEMMA UpToIs ==
    ASSUME NEW r, NEW i \in Nat
    PROVE  /\ DOMAIN ReadUpTo(r, i) = {"name", "src", "oid", "hasChanged", "retType",
                                       "retset", "numArgs", "args"}
           /\ ReadUpTo(r, i).name = IF i > 2 THEN NameAsRead(r.name) ELSE <<>>
           /\ ReadUpTo(r, i).src = IF i > 3 THEN NameAsRead(r.src) ELSE <<>>
           /\ ReadUpTo(r, i).oid = IF i > 4 THEN r.oid ELSE 0
           /\ ReadUpTo(r, i).hasChanged = IF i > 5 THEN r.hasChanged = 1 ELSE FALSE
           /\ ReadUpTo(r, i).retType = IF i > 6 THEN <<TypeAsRead(r.retType)>> ELSE <<>>
           /\ ReadUpTo(r, i).retset = IF i > 7 THEN r.retset = 1 ELSE FALSE
           /\ ReadUpTo(r, i).numArgs = IF i > 8 THEN Len(r.args) ELSE 0
           /\ ReadUpTo(r, i).args = ArgsUpTo(r, i)
  BY DEF ReadUpTo, ArgsUpTo

\* Nothing is read of a request but its first byte.
LEMMA UpToFirst ==
    ASSUME NEW r
    PROVE  ReadUpTo(r, 2) = EmptyCall
  <1>1. ArgsUpTo(r, 2) = <<>>
    BY NoArgsYet
  <1> QED BY <1>1 DEF ReadUpTo, EmptyCall, ArgsUpTo

\* One field more.
LEMMA UpToNext ==
    ASSUME NEW r
    PROVE  /\ [ReadUpTo(r, 2) EXCEPT !["name"] = NameAsRead(r.name)] = ReadUpTo(r, 3)
           /\ [ReadUpTo(r, 3) EXCEPT !["src"] = NameAsRead(r.src)] = ReadUpTo(r, 4)
           /\ [ReadUpTo(r, 4) EXCEPT !["oid"] = r.oid] = ReadUpTo(r, 5)
           /\ [ReadUpTo(r, 5) EXCEPT !["hasChanged"] = (r.hasChanged = 1)] = ReadUpTo(r, 6)
           /\ [ReadUpTo(r, 6) EXCEPT !["retType"] = <<TypeAsRead(r.retType)>>] = ReadUpTo(r, 7)
           /\ [ReadUpTo(r, 7) EXCEPT !["retset"] = (r.retset = 1)] = ReadUpTo(r, 8)
           /\ [ReadUpTo(r, 8) EXCEPT !["numArgs"] = Len(r.args)] = ReadUpTo(r, 9)
  <1> DEFINE x1 == NameAsRead(r.name)
             x2 == NameAsRead(r.src)
             x3 == r.oid
             x4 == r.hasChanged = 1
             x5 == <<TypeAsRead(r.retType)>>
             x6 == r.retset = 1
             x7 == Len(r.args)
             no == FALSE
             Rec(a, b, c, d, e, f, g) ==
                [name |-> a, src |-> b, oid |-> c, hasChanged |-> d, retType |-> e,
                 retset |-> f, numArgs |-> g, args |-> <<>>]
  <1>1. \A i \in 1..9 : ArgsUpTo(r, i) = <<>>
    BY NoArgsYet
  <1>2. /\ ReadUpTo(r, 2) = Rec(<<>>, <<>>, 0, no, <<>>, no, 0)
        /\ ReadUpTo(r, 3) = Rec(x1, <<>>, 0, no, <<>>, no, 0)
        /\ ReadUpTo(r, 4) = Rec(x1, x2, 0, no, <<>>, no, 0)
        /\ ReadUpTo(r, 5) = Rec(x1, x2, x3, no, <<>>, no, 0)
        /\ ReadUpTo(r, 6) = Rec(x1, x2, x3, x4, <<>>, no, 0)
        /\ ReadUpTo(r, 7) = Rec(x1, x2, x3, x4, x5, no, 0)
        /\ ReadUpTo(r, 8) = Rec(x1, x2, x3, x4, x5, x6, 0)
        /\ ReadUpTo(r, 9) = Rec(x1, x2, x3, x4, x5, x6, x7)
    <2>0. \A i \in 1..9 : [j \in 1..(i - 9) |-> ArgumentAsRead(r.args[j])] = <<>>
      BY <1>1 DEF ArgsUpTo
    <2>2. ReadUpTo(r, 2) = Rec(<<>>, <<>>, 0, no, <<>>, no, 0)
      BY <2>0 DEF ReadUpTo
    <2>3. ReadUpTo(r, 3) = Rec(x1, <<>>, 0, no, <<>>, no, 0)
      BY <2>0 DEF ReadUpTo
    <2>4. ReadUpTo(r, 4) = Rec(x1, x2, 0, no, <<>>, no, 0)
      BY <2>0 DEF ReadUpTo
    <2>5. ReadUpTo(r, 5) = Rec(x1, x2, x3, no, <<>>, no, 0)
      BY <2>0 DEF ReadUpTo
    <2>6. ReadUpTo(r, 6) = Rec(x1, x2, x3, x4, <<>>, no, 0)
      BY <2>0 DEF ReadUpTo
    <2>7. ReadUpTo(r, 7) = Rec(x1, x2, x3, x4, x5, no, 0)
      BY <2>0 DEF ReadUpTo
    <2>8. ReadUpTo(r, 8) = Rec(x1, x2, x3, x4, x5, x6, 0)
      BY <2>0 DEF ReadUpTo
    <2>9. ReadUpTo(r, 9) = Rec(x1, x2, x3, x4, x5, x6, x7)
      BY <2>0 DEF ReadUpTo
    <2> HIDE DEF Rec, x1, x2, x3, x4, x5, x6, x7, no
    <2> QED BY <2>2, <2>3, <2>4, <2>5, <2>6, <2>7, <2>8, <2>9
  <1>4. ASSUME NEW a, NEW b, NEW c, NEW d, NEW e, NEW f, NEW g, NEW x
        PROVE  /\ [Rec(a, b, c, d, e, f, g) EXCEPT !["name"] = x] = Rec(x, b, c, d, e, f, g)
               /\ [Rec(a, b, c, d, e, f, g) EXCEPT !["src"] = x] = Rec(a, x, c, d, e, f, g)
               /\ [Rec(a, b, c, d, e, f, g) EXCEPT !["oid"] = x] = Rec(a, b, x, d, e, f, g)
               /\ [Rec(a, b, c, d, e, f, g) EXCEPT !["hasChanged"] = x] = Rec(a, b, c, x, e, f, g)
               /\ [Rec(a, b, c, d, e, f, g) EXCEPT !["retType"] = x] = Rec(a, b, c, d, x, f, g)
               /\ [Rec(a, b, c, d, e, f, g) EXCEPT !["retset"] = x] = Rec(a, b, c, d, e, x, g)
               /\ [Rec(a, b, c, d, e, f, g) EXCEPT !["numArgs"] = x] = Rec(a, b, c, d, e, f, x)
    <2>1. [Rec(a, b, c, d, e, f, g) EXCEPT !["name"] = x] = Rec(x, b, c, d, e, f, g)
      OBVIOUS
    <2>2. [Rec(a, b, c, d, e, f, g) EXCEPT !["src"] = x] = Rec(a, x, c, d, e, f, g)
      OBVIOUS
    <2>3. [Rec(a, b, c, d, e, f, g) EXCEPT !["oid"] = x] = Rec(a, b, x, d, e, f, g)
      OBVIOUS
    <2>4. [Rec(a, b, c, d, e, f, g) EXCEPT !["hasChanged"] = x] = Rec(a, b, c, x, e, f, g)
      OBVIOUS
    <2>5. [Rec(a, b, c, d, e, f, g) EXCEPT !["retType"] = x] = Rec(a, b, c, d, x, f, g)
      OBVIOUS
    <2>6. [Rec(a, b, c, d, e, f, g) EXCEPT !["retset"] = x] = Rec(a, b, c, d, e, x, g)
      OBVIOUS
    <2>7. [Rec(a, b, c, d, e, f, g) EXCEPT !["numArgs"] = x] = Rec(a, b, c, d, e, f, x)
      OBVIOUS
    <2> QED BY <2>1, <2>2, <2>3, <2>4, <2>5, <2>6, <2>7
  <1> HIDE DEF x1, x2, x3, x4, x5, x6, x7, no, Rec
  <1>11. [ReadUpTo(r, 2) EXCEPT !["name"] = x1] = ReadUpTo(r, 3)
    <2>1. [Rec(<<>>, <<>>, 0, no, <<>>, no, 0) EXCEPT !["name"] = x1] = Rec(x1, <<>>, 0, no, <<>>, no, 0)
      BY DEF Rec
    <2>2. ReadUpTo(r, 2) = Rec(<<>>, <<>>, 0, no, <<>>, no, 0) /\ ReadUpTo(r, 3) = Rec(x1, <<>>, 0, no, <<>>, no, 0)
      BY <1>2
    <2> QED BY <2>1, <2>2, Zenon
  <1>12. [ReadUpTo(r, 3) EXCEPT !["src"] = x2] = ReadUpTo(r, 4)
    <2>1. [Rec(x1, <<>>, 0, no, <<>>, no, 0) EXCEPT !["src"] = x2] = Rec(x1, x2, 0, no, <<>>, no, 0)
      BY DEF Rec
    <2>2. ReadUpTo(r, 3) = Rec(x1, <<>>, 0, no, <<>>, no, 0) /\ ReadUpTo(r, 4) = Rec(x1, x2, 0, no, <<>>, no, 0)
      BY <1>2
    <2> QED BY <2>1, <2>2, Zenon
  <1>13. [ReadUpTo(r, 4) EXCEPT !["oid"] = x3] = ReadUpTo(r, 5)
    <2>1. [Rec(x1, x2, 0, no, <<>>, no, 0) EXCEPT !["oid"] = x3] = Rec(x1, x2, x3, no, <<>>, no, 0)
      BY DEF Rec
    <2>2. ReadUpTo(r, 4) = Rec(x1, x2, 0, no, <<>>, no, 0) /\ ReadUpTo(r, 5) = Rec(x1, x2, x3, no, <<>>, no, 0)
      BY <1>2
    <2> QED BY <2>1, <2>2, Zenon
  <1>14. [ReadUpTo(r, 5) EXCEPT !["hasChanged"] = x4] = ReadUpTo(r, 6)
    <2>1. [Rec(x1, x2, x3, no, <<>>, no, 0) EXCEPT !["hasChanged"] = x4] = Rec(x1, x2, x3, x4, <<>>, no, 0)
      BY DEF Rec
    <2>2. ReadUpTo(r, 5) = Rec(x1, x2, x3, no, <<>>, no, 0) /\ ReadUpTo(r, 6) = Rec(x1, x2, x3, x4, <<>>, no, 0)
      BY <1>2
    <2> QED BY <2>1, <2>2, Zenon
  <1>15. [ReadUpTo(r, 6) EXCEPT !["retType"] = x5] = ReadUpTo(r, 7)
    <2>1. [Rec(x1, x2, x3, x4, <<>>, no, 0) EXCEPT !["retType"] = x5] = Rec(x1, x2, x3, x4, x5, no, 0)
      BY DEF Rec
    <2>2. ReadUpTo(r, 6) = Rec(x1, x2, x3, x4, <<>>, no, 0) /\ ReadUpTo(r, 7) = Rec(x1, x2, x3, x4, x5, no, 0)
      BY <1>2
    <2> QED BY <2>1, <2>2, Zenon
  <1>16. [ReadUpTo(r, 7) EXCEPT !["retset"] = x6] = ReadUpTo(r, 8)
    <2>1. [Rec(x1, x2, x3, x4, x5, no, 0) EXCEPT !["retset"] = x6] = Rec(x1, x2, x3, x4, x5, x6, 0)
      BY DEF Rec
    <2>2. ReadUpTo(r, 7) = Rec(x1, x2, x3, x4, x5, no, 0) /\ ReadUpTo(r, 8) = Rec(x1, x2, x3, x4, x5, x6, 0)
      BY <1>2
    <2> QED BY <2>1, <2>2, Zenon
  <1>17. [ReadUpTo(r, 8) EXCEPT !["numArgs"] = x7] = ReadUpTo(r, 9)
    <2>1. [Rec(x1, x2, x3, x4, x5, x6, 0) EXCEPT !["numArgs"] = x7] = Rec(x1, x2, x3, x4, x5, x6, x7)
      BY DEF Rec
    <2>2. ReadUpTo(r, 8) = Rec(x1, x2, x3, x4, x5, x6, 0) /\ ReadUpTo(r, 9) = Rec(x1, x2, x3, x4, x5, x6, x7)
      BY <1>2
    <2> QED BY <2>1, <2>2, Zenon
  <1> QED BY <1>11, <1>12, <1>13, <1>14, <1>15, <1>16, <1>17 DEF x1, x2, x3, x4, x5, x6, x7

\* One argument more.
LEMMA UpToArgument ==
    ASSUME NEW r, FieldsSent(r), NEW i \in 9..(8 + Len(r.args))
    PROVE  [ReadUpTo(r, i) EXCEPT
              !.args = Append(ReadUpTo(r, i).args, ArgumentAsRead(r.args[i - 8]))]
             = ReadUpTo(r, i + 1)
  <1> DEFINE s == ArgsUpTo(r, i)
             e == ArgumentAsRead(r.args[i - 8])
             G == {ArgumentAsRead(r.args[j]) : j \in Nat}
  <1>0. i - 9 \in Nat /\ (i + 1) - 9 = (i - 9) + 1 /\ i - 8 = (i - 9) + 1 /\ i \in Nat
        /\ i > 8 /\ i + 1 \in Nat /\ i + 1 > 8 /\ Len(r.args) \in Nat
    BY DEF FieldsSent
  <1>1. s = [j \in 1..(i - 9) |-> ArgumentAsRead(r.args[j])]
        /\ ArgsUpTo(r, i + 1) = [j \in 1..((i - 9) + 1) |-> ArgumentAsRead(r.args[j])]
    BY <1>0 DEF ArgsUpTo
  <1>2. \A j \in Nat : ArgumentAsRead(r.args[j]) \in G
    OBVIOUS
  <1>3. Append(s, e) = ArgsUpTo(r, i + 1)
    <2> DEFINE n == i - 9
               g == [j \in Nat |-> ArgumentAsRead(r.args[j])]
    <2>1. n \in Nat /\ s = [j \in 1..n |-> g[j]] /\ e = g[n + 1]
          /\ ArgsUpTo(r, i + 1) = [j \in 1..(n + 1) |-> g[j]]
      <3>1. n \in Nat /\ i - 8 = n + 1 /\ n + 1 \in Nat
        BY <1>0
      <3>2. \A j \in Nat : g[j] = ArgumentAsRead(r.args[j])
        OBVIOUS
      <3>3. e = g[n + 1]
        BY <3>1, <3>2
      <3>4. \A j \in 1..n : j \in Nat
        OBVIOUS
      <3>5. \A j \in 1..(n + 1) : j \in Nat
        OBVIOUS
      <3>6. s = [j \in 1..n |-> g[j]]
        <4> HIDE DEF g, s, n
        <4>1. s = [j \in 1..n |-> ArgumentAsRead(r.args[j])]
          BY <1>1 DEF n
        <4> QED BY <3>2, <3>4, <4>1
      <3>7. ArgsUpTo(r, i + 1) = [j \in 1..(n + 1) |-> g[j]]
        <4> HIDE DEF g, s, n
        <4>1. ArgsUpTo(r, i + 1) = [j \in 1..(n + 1) |-> ArgumentAsRead(r.args[j])]
          BY <1>1 DEF n
        <4> QED BY <3>2, <3>5, <4>1
      <3> QED BY <3>1, <3>3, <3>6, <3>7
    <2>2. \A j \in Nat : g[j] \in G
      OBVIOUS
    <2> HIDE DEF n, g, G, s, e
    <2>3. s \in Seq(G) /\ Len(s) = n /\ e \in G
      BY <2>1, <2>2
    <2>4. Append([j \in 1..n |-> g[j]], g[n + 1]) = [j \in 1..(n + 1) |-> g[j]]
      BY <2>1, <2>2
    <2> QED BY <2>1, <2>4
  <1>4. /\ ReadUpTo(r, i).args = s
        /\ ReadUpTo(r, i) = [name |-> NameAsRead(r.name), src |-> NameAsRead(r.src),
                             oid |-> r.oid, hasChanged |-> r.hasChanged = 1,
                             retType |-> <<TypeAsRead(r.retType)>>, retset |-> r.retset = 1,
                             numArgs |-> Len(r.args), args |-> s]
        /\ ReadUpTo(r, i + 1) = [name |-> NameAsRead(r.name), src |-> NameAsRead(r.src),
                             oid |-> r.oid, hasChanged |-> r.hasChanged = 1,
                             retType |-> <<TypeAsRead(r.retType)>>, retset |-> r.retset = 1,
                             numArgs |-> Len(r.args), args |-> ArgsUpTo(r, i + 1)]
    <2>1. i > 2 /\ i > 3 /\ i > 4 /\ i > 5 /\ i > 6 /\ i > 7 /\ i > 8
          /\ i + 1 > 2 /\ i + 1 > 3 /\ i + 1 > 4 /\ i + 1 > 5 /\ i + 1 > 6 /\ i + 1 > 7
      BY <1>0
    <2> QED BY <1>0, <2>1 DEF ReadUpTo, ArgsUpTo
  <1> DEFINE t == ArgsUpTo(r, i + 1)
             Rec(a) == [name |-> NameAsRead(r.name), src |-> NameAsRead(r.src),
                             oid |-> r.oid, hasChanged |-> r.hasChanged = 1,
                             retType |-> <<TypeAsRead(r.retType)>>, retset |-> r.retset = 1,
                             numArgs |-> Len(r.args), args |-> a]
  <1> HIDE DEF s, e, t
  <1>5. ReadUpTo(r, i).args = s /\ ReadUpTo(r, i) = Rec(s) /\ ReadUpTo(r, i + 1) = Rec(t)
        /\ Append(s, e) = t
    BY <1>3, <1>4 DEF t
  <1>6. [Rec(s) EXCEPT !.args = t] = Rec(t)
    OBVIOUS
  <1> HIDE DEF Rec
  <1>7. [ReadUpTo(r, i) EXCEPT !.args = Append(ReadUpTo(r, i).args, e)] = ReadUpTo(r, i + 1)
    BY <1>5, <1>6
  <1> QED BY <1>7 DEF e

\* All of them are read.
LEMMA UpToLast ==
    ASSUME NEW r, FieldsSent(r)
    PROVE  /\ ReadUpTo(r, 9 + Len(r.args)) = AsRead(r)
           /\ AsRead(r).numArgs = Len(r.args)
           /\ Len(AsRead(r).args) = Len(r.args)
  <1> DEFINE n == Len(r.args)
             i == 9 + n
  <1>0. n \in Nat /\ DOMAIN r.args = 1..n
    BY DEF FieldsSent
  <1>1. i - 9 = n /\ i > 2 /\ i > 3 /\ i > 4 /\ i > 5 /\ i > 6 /\ i > 7 /\ i > 8
    BY <1>0
  <1> HIDE DEF i
  <1>2. ReadUpTo(r, i) = AsRead(r)
    BY <1>0, <1>1 DEF ReadUpTo, AsRead
  <1>3. AsRead(r).numArgs = n /\ AsRead(r).args = [j \in 1..n |-> ArgumentAsRead(r.args[j])]
    BY <1>0 DEF AsRead
  <1>4. Len([j \in 1..n |-> ArgumentAsRead(r.args[j])]) = n
    <2> HIDE DEF n
    <2> QED BY <1>0
  <1> QED BY <1>2, <1>3, <1>4 DEF i

\* What the steps leave as it is.
LEMMA SteadyKept ==
    ASSUME Steady, sent' = sent, stream' = stream, bytes' = bytes, open' = open,
           decoding, \A j \in DOMAIN delivered' : delivered'[j] = AsRead(sent[j]),
           BetweenRequests' \/ \E c, i : ReadingField(c, i)'
    PROVE  Steady'
  BY DEF Steady

LEMMA StaysSteady ==
    ASSUME DecoderInv, Steady, decoding, StayIn(at)
    PROVE  Steady'
  <1>1. /\ sent' = sent /\ stream' = stream /\ bytes' = bytes /\ open' = open
        /\ at' = at /\ state' = state /\ call' = call /\ delivered' = delivered
    BY DEF StayIn, ReturnAt
  <1>2. BetweenRequests => BetweenRequests'
    BY <1>1 DEF BetweenRequests
  <1>3. \A c, i : ReadingField(c, i) => ReadingField(c, i)'
    BY <1>1 DEF ReadingField
  <1>4. \A j \in DOMAIN delivered' : delivered'[j] = AsRead(sent[j])
    BY <1>1 DEF Steady
  <1>5. BetweenRequests' \/ \E c, i : ReadingField(c, i)'
    BY <1>2, <1>3 DEF Steady
  <1> QED BY <1>1, <1>4, <1>5, SteadyKept

\* A field is read.
LEMMA FieldReadOn ==
    ASSUME DecoderInv, Steady, SessionFits(sent), decoding,
           NEW c \in 1..Len(sent), NEW i \in 1..FieldsOf(sent, c), i < FieldsOf(sent, c),
           Len(delivered) = c - 1,
           GoTo(StateFor(i + 1), ReadUpTo(sent[c], i + 1),
                Before(sent, c - 1) + Within(sent, c, i))
    PROVE  Steady'
  <1>1. /\ sent' = sent /\ stream' = stream /\ bytes' = bytes /\ open' = open
        /\ at' = Before(sent, c - 1) + Within(sent, c, i)
        /\ state' = StateFor(i + 1) /\ call' = ReadUpTo(sent[c], i + 1)
        /\ delivered' = delivered
    BY DEF GoTo, ReturnAt
  <1>2. i + 1 \in 2..FieldsOf(sent, c) /\ (i + 1) - 1 = i
    BY SessionIs
  <1>3. at' = StartOf(sent, c, i + 1)
    BY <1>1, <1>2 DEF StartOf
  <1>4. ReadingField(c, i + 1)'
    BY <1>1, <1>2, <1>3 DEF ReadingField
  <1>5. \A j \in DOMAIN delivered' : delivered'[j] = AsRead(sent[j])
    BY <1>1 DEF Steady
  <1> QED BY <1>1, <1>4, <1>5, SteadyKept

\* A request is read.
LEMMA RequestReadOn ==
    ASSUME DecoderInv, Steady, SessionFits(sent), decoding,
           NEW c \in 1..Len(sent), Len(delivered) = c - 1,
           NEW next, next = "WAITING" \/ (next = "ARGUMENTS" /\ c = Len(sent)),
           NEW x, x = AsRead(sent[c]),
           Deliver(next, x, Before(sent, c - 1) + Within(sent, c, FieldsOf(sent, c)))
    PROVE  Steady'
  <1>1. /\ sent' = sent /\ stream' = stream /\ bytes' = bytes /\ open' = open
        /\ at' = Before(sent, c - 1) + Within(sent, c, FieldsOf(sent, c))
        /\ state' = next /\ call' = x /\ delivered' = Append(delivered, x)
    BY DEF Deliver, ReturnAt
  <1>2. at' = Before(sent, c)
    BY <1>1, PlaceOf
  <1>3. FieldsSent(sent[c]) /\ Len(sent) \in Nat
    BY SessionIs
  <1>4. x.numArgs = Len(sent[c].args) /\ Len(x.args) = Len(sent[c].args)
    BY <1>3, UpToLast
  <1>5. Len(delivered') = c /\ \A j \in DOMAIN delivered' : delivered'[j] = AsRead(sent[j])
    <2> DEFINE S == Range(delivered) \cup {x}
               d == delivered
               q == Append(d, x)
               n == Len(sent)
    <2>1. d \in Seq(S)
      <3>1. delivered \in Seq(Range(delivered))
        BY DEF DecoderInv, DeliveredOK
      <3> DEFINE R == Range(delivered)
      <3>2. d \in Seq(R) /\ R \subseteq S
        BY <3>1
      <3> HIDE DEF R, S, d
      <3> QED BY <3>2
    <2>2. x \in S /\ Len(d) = c - 1 /\ c \in 1..n /\ n \in Nat
      BY <1>3
    <2>3. \A j \in DOMAIN d : d[j] = AsRead(sent[j])
      BY DEF Steady
    <2> HIDE DEF S, d, n
    <2>4. /\ q \in Seq(S) /\ Len(q) = c /\ DOMAIN q = 1..c
          /\ \A j \in 1..(c - 1) : q[j] = d[j]
          /\ q[c] = x
          /\ DOMAIN d = 1..(c - 1)
      BY <2>1, <2>2
    <2>5. ASSUME NEW j \in 1..c PROVE q[j] = AsRead(sent[j])
      <3>1. CASE j = c
        BY <2>4, <3>1
      <3>2. CASE j # c
        <4>1. j \in 1..(c - 1)
          BY <2>2, <3>2
        <4> QED BY <2>3, <2>4, <4>1
      <3> QED BY <3>1, <3>2
    <2>6. delivered' = q
      BY <1>1 DEF d
    <2> HIDE DEF q
    <2> QED BY <2>4, <2>5, <2>6
  <1>6. BetweenRequests'
    <2>1. c \in 0..Len(sent) /\ Len(call'.args) = call'.numArgs
      BY <1>1, <1>3, <1>4
    <2> QED BY <1>1, <1>2, <1>5, <2>1 DEF BetweenRequests
  <1> QED BY <1>1, <1>5, <1>6, SteadyKept

\* The states tell the fields apart, up to the arguments.
LEMMA StatesApart ==
    /\ StateFor(1) = "WAITING" /\ StateFor(2) = "FUNCTION_NAME"
    /\ StateFor(3) = "FUNCTION_DEFINTION" /\ StateFor(4) = "OID"
    /\ StateFor(5) = "HAS_CHANGED" /\ StateFor(6) = "RETURN_TYPE"
    /\ StateFor(7) = "SET_RETURNING" /\ StateFor(8) = "NUM_ARGUMENTS"
    /\ \A i \in Nat : i > 8 => StateFor(i) = "ARGUMENTS"
    /\ \A i, j \in 1..8 : StateFor(i) = StateFor(j) => i = j
    /\ \A i \in 1..8 : StateFor(i) # "ARGUMENTS"
  <1>1. /\ StateFor(1) = "WAITING" /\ StateFor(2) = "FUNCTION_NAME"
        /\ StateFor(3) = "FUNCTION_DEFINTION" /\ StateFor(4) = "OID"
        /\ StateFor(5) = "HAS_CHANGED" /\ StateFor(6) = "RETURN_TYPE"
        /\ StateFor(7) = "SET_RETURNING" /\ StateFor(8) = "NUM_ARGUMENTS"
    BY DEF StateFor
  <1>2. \A i \in Nat : i > 8 => StateFor(i) = "ARGUMENTS"
    BY DEF StateFor
  <1>3. \A i \in 1..8 : i \in {1, 2, 3, 4, 5, 6, 7, 8}
    OBVIOUS
  <1>4. \A i, j \in {1, 2, 3, 4, 5, 6, 7, 8} : StateFor(i) = StateFor(j) => i = j
    BY <1>1
  <1>5. \A i \in {1, 2, 3, 4, 5, 6, 7, 8} : StateFor(i) # "ARGUMENTS"
    BY <1>1
  <1> QED BY <1>1, <1>2, <1>3, <1>4, <1>5

\* Which request and which field a state is about.
LEMMA ReadsField ==
    ASSUME Steady, SessionFits(sent), NEW i \in 2..8, state = StateFor(i)
    PROVE  \E c \in 1..Len(sent) : ReadingField(c, i) /\ i \in 1..FieldsOf(sent, c)
  <1>1. ~ BetweenRequests
    <2>1. StateFor(i) # "ARGUMENTS" /\ StateFor(i) # StateFor(1)
      BY StatesApart
    <2> QED BY <2>1, StatesApart DEF BetweenRequests
  <1>2. PICK c, j : ReadingField(c, j)
    BY <1>1 DEF Steady
  <1>3. c \in 1..Len(sent) /\ j \in 2..FieldsOf(sent, c) /\ StateFor(i) = StateFor(j)
    BY <1>2 DEF ReadingField
  <1>4. FieldsOf(sent, c) \in Nat /\ FieldsOf(sent, c) >= 8
    BY <1>3, SessionIs
  <1>5. j = i
    <2>1. j \in Nat /\ (j > 8 \/ j \in 1..8)
      BY <1>3, <1>4
    <2>2. ~ (j > 8)
      BY <1>3, <2>1, StatesApart
    <2> QED BY <1>3, <2>1, <2>2, StatesApart
  <1>6. i \in 1..FieldsOf(sent, c)
    BY <1>4
  <1> QED BY <1>2, <1>3, <1>5, <1>6

\* What comes alone of the fields before the arguments.
LEMMA AloneIs ==
    ASSUME NEW r
    PROVE  /\ MayComeAlone(r, 1) = 0 /\ MayComeAlone(r, 2) = 3 /\ MayComeAlone(r, 3) = 3
           /\ MayComeAlone(r, 4) = 0 /\ MayComeAlone(r, 5) = 0 /\ MayComeAlone(r, 6) = 0
           /\ MayComeAlone(r, 7) = 0 /\ MayComeAlone(r, 8) = 0
           /\ \A i \in Nat : i > 8 => MayComeAlone(r, i) = Len(HeaderBytes(r.args[i - 8])) - 1
  BY DEF MayComeAlone

LEMMA SteadyWaiting ==
    ASSUME DecoderInv, Awake, Steady, SessionFits(sent), DecodeWaiting
    PROVE  Steady'
  <1> DEFINE d == Len(delivered)
             c == d + 1
  <1>0. decoding /\ state = "WAITING"
    BY DEF DecodeWaiting, InCase
  <1>1. BetweenRequests
    <2>1. SUFFICES ASSUME NEW e, NEW i, ReadingField(e, i) PROVE FALSE
      BY DEF Steady
    <2>2. e \in 1..Len(sent) /\ i \in 2..FieldsOf(sent, e) /\ state = StateFor(i)
      BY <2>1 DEF ReadingField
    <2>3. FieldsOf(sent, e) \in Nat
      BY <2>2, SessionIs
    <2>4. i \in Nat /\ (i > 8 \/ i \in 1..8) /\ i # 1
      BY <2>2, <2>3
    <2> QED BY <1>0, <2>2, <2>4, StatesApart
  <1>2. d \in 0..Len(sent) /\ at = Before(sent, d) /\ Len(sent) \in Nat
    BY <1>1, SessionIs DEF BetweenRequests
  <1>3. d # Len(sent)
    <2>1. at < Len(bytes) /\ Len(bytes) <= Len(Stream(sent)) /\ at \in 0..Len(bytes)
          /\ Len(bytes) \in Nat /\ Len(Stream(sent)) \in Nat
      BY <1>0, PlaceOf, BytesLen DEF DecoderInv, Awake, Beginning, Steady
    <2>2. Before(sent, Len(sent)) = Len(Stream(sent))
      BY PlaceOf
    <2> QED BY <1>2, <2>1, <2>2
  <1>4. c \in 1..Len(sent) /\ d = c - 1 /\ c - 1 \in 0..Len(sent)
    BY <1>2, <1>3
  <1> HIDE DEF c
  <1>5. /\ 1 \in 1..FieldsOf(sent, c) /\ 1 < FieldsOf(sent, c) /\ FieldsSent(sent[c])
        /\ FieldsOf(sent, c) \in Nat
    BY <1>4, SessionIs
  <1>6. at = StartOf(sent, c, 1)
    <2>1. Within(sent, c, 0) = 0 /\ Before(sent, c - 1) \in Nat /\ 1 - 1 = 0
      BY <1>4, PlaceOf
    <2> QED BY <1>2, <1>4, <2>1 DEF StartOf
  <1>7. /\ HasAt(bytes, at, Fields(sent[c])[1])
        /\ at + Len(Fields(sent[c])[1]) = Before(sent, c - 1) + Within(sent, c, 1)
    <2>1. ~ (0 < MayComeAlone(sent[c], 1))
      BY AloneIs
    <2> QED BY <1>0, <1>4, <1>5, <1>6, <2>1, FieldArrived
  <1>8. Fields(sent[c])[1] = <<CharC>>
    BY <1>5 DEF FieldsSent
  <1>9. bytes[at + 1] = CharC /\ Len(<<CharC>>) = 1
    <2>1. HasAt(bytes, at, <<CharC>>)
      BY <1>7, <1>8
    <2>2. CharC \in 0..255
      BY DEF CharC
    <2>3. bytes \in Bytes /\ at \in 0..Len(bytes)
      BY DEF DecoderInv
    <2> QED BY <2>1, <2>2, <2>3, OneByte
  <1>10. GoTo("FUNCTION_NAME", EmptyCall, at + 1)
    BY <1>9 DEF DecodeWaiting
  <1>11. GoTo(StateFor(1 + 1), ReadUpTo(sent[c], 1 + 1),
              Before(sent, c - 1) + Within(sent, c, 1))
    <2>1. 1 + 1 = 2 /\ StateFor(2) = "FUNCTION_NAME" /\ ReadUpTo(sent[c], 2) = EmptyCall
      BY StatesApart, UpToFirst
    <2>2. at + 1 = Before(sent, c - 1) + Within(sent, c, 1)
      BY <1>7, <1>8, <1>9
    <2> QED BY <1>10, <2>1, <2>2
  <1> QED BY <1>0, <1>4, <1>5, <1>11, FieldReadOn

\* A field that is read, or of which too little is there.
FieldHere(c, i) ==
    /\ c \in 1..Len(sent) /\ i \in 1..FieldsOf(sent, c)
    /\ ReadingField(c, i)
    /\ RequestFits(sent[c]) /\ FieldsSent(sent[c])
    /\ bytes \in Bytes /\ at \in 0..Len(bytes) /\ Len(bytes) \in Nat
    /\ Len(delivered) = c - 1
    /\ call = ReadUpTo(sent[c], i)
    /\ \/ /\ HasAt(bytes, at, Fields(sent[c])[i])
          /\ at + Len(Fields(sent[c])[i]) = Before(sent, c - 1) + Within(sent, c, i)
       \/ Len(bytes) <= at + MayComeAlone(sent[c], i) /\ 0 < MayComeAlone(sent[c], i)

LEMMA FieldIsHere ==
    ASSUME DecoderInv, Awake, Steady, SessionFits(sent), decoding,
           NEW i \in 2..8, state = StateFor(i)
    PROVE  \E c : FieldHere(c, i)
  <1>1. PICK c \in 1..Len(sent) : ReadingField(c, i) /\ i \in 1..FieldsOf(sent, c)
    BY ReadsField
  <1>2. at = StartOf(sent, c, i) /\ Len(delivered) = c - 1 /\ call = ReadUpTo(sent[c], i)
    BY <1>1 DEF ReadingField
  <1>3. RequestFits(sent[c]) /\ FieldsSent(sent[c])
    BY <1>1, SessionIs
  <1>4. bytes \in Bytes /\ at \in 0..Len(bytes) /\ Len(bytes) \in Nat
    BY BytesLen DEF DecoderInv
  <1>5. \/ /\ HasAt(bytes, at, Fields(sent[c])[i])
           /\ at + Len(Fields(sent[c])[i]) = Before(sent, c - 1) + Within(sent, c, i)
        \/ Len(bytes) <= at + MayComeAlone(sent[c], i) /\ 0 < MayComeAlone(sent[c], i)
    BY <1>1, <1>2, FieldArrived
  <1> QED BY <1>1, <1>2, <1>3, <1>4, <1>5 DEF FieldHere

\* In each request, field i is this string, and goes to this field of the call.
StringsFor(i, field, s) ==
    \A c : FieldHere(c, i) =>
        /\ Fields(sent[c])[i] = CString(s[c]) /\ StringFits(s[c])
        /\ [ReadUpTo(sent[c], i) EXCEPT ![field] = NameAsRead(s[c])]
             = ReadUpTo(sent[c], i + 1)

\* The same for a number.
IntsFor(i, field, n) ==
    \A c : FieldHere(c, i) =>
        /\ Fields(sent[c])[i] = Int32(n[c]) /\ n[c] \in Int32s
        /\ [ReadUpTo(sent[c], i) EXCEPT ![field] = IF i = 4 THEN n[c] ELSE n[c] = 1]
             = ReadUpTo(sent[c], i + 1)

\* The name and the source.
LEMMA SteadyString ==
    ASSUME DecoderInv, Awake, Steady, SessionFits(sent), NEW i \in {2, 3},
           NEW field, DecodeString(StateFor(i), field, StateFor(i + 1)),
           NEW s, StringsFor(i, field, s)
    PROVE  Steady'
  <1> DEFINE r == ReadString(bytes, at)
  <1>1. decoding /\ state = StateFor(i) /\ i \in 2..8
    BY DEF DecodeString, InCase
  <1>2. PICK c : FieldHere(c, i)
    BY <1>1, FieldIsHere
  <1>3. /\ c \in 1..Len(sent) /\ i \in 1..FieldsOf(sent, c)
        /\ bytes \in Bytes /\ at \in 0..Len(bytes) /\ Len(bytes) \in Nat
        /\ Len(delivered) = c - 1 /\ call = ReadUpTo(sent[c], i)
        /\ \/ /\ HasAt(bytes, at, Fields(sent[c])[i])
              /\ at + Len(Fields(sent[c])[i]) = Before(sent, c - 1) + Within(sent, c, i)
           \/ Len(bytes) <= at + MayComeAlone(sent[c], i)
    BY <1>2 DEF FieldHere
  <1>4. /\ Fields(sent[c])[i] = CString(s[c]) /\ StringFits(s[c])
        /\ [ReadUpTo(sent[c], i) EXCEPT ![field] = NameAsRead(s[c])] = ReadUpTo(sent[c], i + 1)
    BY <1>2 DEF StringsFor
  <1>5. IF r.is = "done" THEN GoTo(StateFor(i + 1), [call EXCEPT ![field] = r.got], r.at)
        ELSE StayIn(r.at)
    BY DEF DecodeString
  <1>6. CASE Len(bytes) <= at + MayComeAlone(sent[c], i)
    <2>1. MayComeAlone(sent[c], i) = 3
      BY AloneIs
    <2>2. r = Lacking(at)
      BY <1>3, <1>6, <2>1, ReadStringIs
    <2>3. StayIn(at)
      BY <1>5, <2>2, WaysToEnd
    <2> QED BY <1>1, <2>3, StaysSteady
  <1>7. CASE /\ HasAt(bytes, at, Fields(sent[c])[i])
             /\ at + Len(Fields(sent[c])[i]) = Before(sent, c - 1) + Within(sent, c, i)
    <2> DEFINE x == NameAsRead(s[c])
               k == Before(sent, c - 1) + Within(sent, c, i)
    <2>1. r = Done(k, x)
      BY <1>3, <1>4, <1>7, StringReads
    <2> HIDE DEF r, x, k
    <2>2. r.is = "done" /\ r.at = k /\ r.got = x
      BY <2>1, WaysToEnd
    <2>3. GoTo(StateFor(i + 1), [call EXCEPT ![field] = x], k)
      BY <1>5, <2>2
    <2>4. [call EXCEPT ![field] = x] = ReadUpTo(sent[c], i + 1)
      BY <1>3, <1>4 DEF x
    <2>5. GoTo(StateFor(i + 1), ReadUpTo(sent[c], i + 1), k)
      BY <2>3, <2>4
    <2>6. i < FieldsOf(sent, c)
      BY <1>3, SessionIs
    <2> QED BY <1>1, <1>3, <2>5, <2>6, FieldReadOn DEF k
  <1> QED BY <1>3, <1>6, <1>7

\* The numbers.
LEMMA SteadyInt ==
    ASSUME DecoderInv, Awake, Steady, SessionFits(sent), NEW i \in {4, 5, 7},
           NEW field, DecodeInt(StateFor(i), field, StateFor(i + 1)),
           NEW n, IntsFor(i, field, n)
    PROVE  Steady'
  <1> DEFINE r == ReadInt(bytes, at, 4)
  <1>1. decoding /\ state = StateFor(i) /\ i \in 2..8
    BY DEF DecodeInt, InCase
  <1>2. PICK c : FieldHere(c, i)
    BY <1>1, FieldIsHere
  <1>3. /\ c \in 1..Len(sent) /\ i \in 1..FieldsOf(sent, c)
        /\ bytes \in Bytes /\ at \in 0..Len(bytes) /\ Len(bytes) \in Nat
        /\ Len(delivered) = c - 1 /\ call = ReadUpTo(sent[c], i)
        /\ HasAt(bytes, at, Fields(sent[c])[i])
        /\ at + Len(Fields(sent[c])[i]) = Before(sent, c - 1) + Within(sent, c, i)
    <2>1. ~ (0 < MayComeAlone(sent[c], i))
      BY AloneIs
    <2> QED BY <1>2, <2>1 DEF FieldHere
  <1>4. /\ Fields(sent[c])[i] = Int32(n[c]) /\ n[c] \in Int32s
        /\ [ReadUpTo(sent[c], i) EXCEPT ![field] = IF i = 4 THEN n[c] ELSE n[c] = 1]
             = ReadUpTo(sent[c], i + 1)
    BY <1>2 DEF IntsFor
  <1> DEFINE x == n[c]
             k == Before(sent, c - 1) + Within(sent, c, i)
  <1>5. r = Done(k, x)
    <2>1. HasAt(bytes, at, Int32(x)) /\ x \in Int32s
      BY <1>3, <1>4
    <2>2. r = Done(at + 4, x) /\ Len(Int32(x)) = 4
      BY <1>3, <2>1, Int32Reads
    <2> QED BY <1>3, <1>4, <2>2
  <1>6. IF r.is = "throws" THEN ThrowAt(at)
        ELSE GoTo(StateFor(i + 1),
                  [call EXCEPT ![field] = IF StateFor(i) = "OID" THEN r.got ELSE r.got = 1], r.at)
    BY DEF DecodeInt
  <1> HIDE DEF r, x, k
  <1>7. r.is = "done" /\ r.at = k /\ r.got = x
    BY <1>5, WaysToEnd
  <1>8. GoTo(StateFor(i + 1), [call EXCEPT ![field] = IF StateFor(i) = "OID" THEN x ELSE x = 1], k)
    BY <1>6, <1>7
  <1>9. StateFor(i) = "OID" <=> i = 4
    BY StatesApart
  <1>10. [call EXCEPT ![field] = IF StateFor(i) = "OID" THEN x ELSE x = 1]
           = ReadUpTo(sent[c], i + 1)
    BY <1>3, <1>4, <1>9 DEF x
  <1>11. GoTo(StateFor(i + 1), ReadUpTo(sent[c], i + 1), k)
    BY <1>8, <1>10
  <1>12. i < FieldsOf(sent, c)
    BY <1>3, SessionIs
  <1> QED BY <1>1, <1>3, <1>11, <1>12, FieldReadOn DEF k

LEMMA SteadyReturnType ==
    ASSUME DecoderInv, Awake, Steady, SessionFits(sent), DecodeReturnType
    PROVE  Steady'
  <1> DEFINE r == ReadType(bytes, at)
  <1>1. decoding /\ state = StateFor(6) /\ 6 \in 2..8
    BY StatesApart DEF DecodeReturnType, InCase
  <1>2. PICK c : FieldHere(c, 6)
    BY <1>1, FieldIsHere
  <1>3. /\ c \in 1..Len(sent) /\ 6 \in 1..FieldsOf(sent, c)
        /\ bytes \in Bytes /\ at \in 0..Len(bytes) /\ Len(bytes) \in Nat
        /\ Len(delivered) = c - 1 /\ call = ReadUpTo(sent[c], 6)
        /\ RequestFits(sent[c]) /\ FieldsSent(sent[c])
        /\ HasAt(bytes, at, Fields(sent[c])[6])
        /\ at + Len(Fields(sent[c])[6]) = Before(sent, c - 1) + Within(sent, c, 6)
    <2>1. ~ (0 < MayComeAlone(sent[c], 6))
      BY AloneIs
    <2> QED BY <1>2, <2>1 DEF FieldHere
  <1> DEFINE t == sent[c].retType
             x == TypeAsRead(t)
             k == Before(sent, c - 1) + Within(sent, c, 6)
  <1>4. Fields(sent[c])[6] = TypeBytes(t) /\ TypeFits(t)
    BY <1>3 DEF FieldsSent, RequestFits
  <1>5. r = Done(k, x)
    <2>1. HasAt(bytes, at, TypeBytes(t)) /\ at + Len(TypeBytes(t)) = k
      BY <1>3, <1>4
    <2>2. Reads(Types4(bytes), bytes, TypeBytes(t), x)
      BY <1>3, <1>4, TypeReads
    <2>3. Types4(bytes)[at] = Done(k, x)
      BY <1>3, <2>1, <2>2 DEF Reads
    <2> QED BY <1>3, <2>3, ReadTypeIs
  <1>6. /\ r.is = "done" => GoTo("SET_RETURNING", [call EXCEPT !.retType = <<r.got>>], r.at)
    BY DEF DecodeReturnType
  <1> HIDE DEF r, x, k
  <1>7. r.is = "done" /\ r.at = k /\ r.got = x
    BY <1>5, WaysToEnd
  <1>8. GoTo("SET_RETURNING", [call EXCEPT !.retType = <<x>>], k)
    BY <1>6, <1>7
  <1>9. [call EXCEPT !.retType = <<x>>] = ReadUpTo(sent[c], 7)
    BY <1>3, UpToNext DEF x
  <1>10. GoTo(StateFor(6 + 1), ReadUpTo(sent[c], 6 + 1), k)
    <2>1. 6 + 1 = 7 /\ StateFor(7) = "SET_RETURNING"
      BY StatesApart
    <2> QED BY <1>8, <1>9, <2>1
  <1>11. 6 < FieldsOf(sent, c)
    BY <1>3, SessionIs
  <1> QED BY <1>1, <1>3, <1>10, <1>11, FieldReadOn DEF k

LEMMA SteadyNumArguments ==
    ASSUME DecoderInv, Awake, Steady, SessionFits(sent), DecodeNumArguments
    PROVE  Steady'
  <1> DEFINE r == ReadInt(bytes, at, 4)
             e == [call EXCEPT !.numArgs = r.got]
  <1>1. decoding /\ state = StateFor(8) /\ 8 \in 2..8
    BY StatesApart DEF DecodeNumArguments, InCase
  <1>2. PICK c : FieldHere(c, 8)
    BY <1>1, FieldIsHere
  <1>3. /\ c \in 1..Len(sent) /\ 8 \in 1..FieldsOf(sent, c)
        /\ bytes \in Bytes /\ at \in 0..Len(bytes) /\ Len(bytes) \in Nat
        /\ Len(delivered) = c - 1 /\ call = ReadUpTo(sent[c], 8)
        /\ RequestFits(sent[c]) /\ FieldsSent(sent[c])
        /\ HasAt(bytes, at, Fields(sent[c])[8])
        /\ at + Len(Fields(sent[c])[8]) = Before(sent, c - 1) + Within(sent, c, 8)
    <2>1. ~ (0 < MayComeAlone(sent[c], 8))
      BY AloneIs
    <2> QED BY <1>2, <2>1 DEF FieldHere
  <1> DEFINE x == Len(sent[c].args)
             k == Before(sent, c - 1) + Within(sent, c, 8)
  <1>4. Fields(sent[c])[8] = Int32(x) /\ x \in Int32s /\ x \in Nat /\ FieldsOf(sent, c) = 8 + x
    BY <1>3 DEF FieldsSent, RequestFits, FieldsOf
  <1>5. r = Done(k, x)
    <2>1. HasAt(bytes, at, Int32(x))
      BY <1>3, <1>4
    <2>2. r = Done(at + 4, x) /\ Len(Int32(x)) = 4
      BY <1>3, <1>4, <2>1, Int32Reads
    <2> QED BY <1>3, <1>4, <2>2
  <1>6. IF r.is = "throws" \/ r.got < 0 THEN ThrowAt(r.at)
        ELSE IF r.got = 0 THEN Deliver("WAITING", e, r.at) ELSE GoTo("ARGUMENTS", e, r.at)
    BY DEF DecodeNumArguments
  <1> HIDE DEF r, k
  <1>7. r.is = "done" /\ r.at = k /\ r.got = x
    <2> HIDE DEF x
    <2> QED BY <1>5, WaysToEnd
  <1>8. e = ReadUpTo(sent[c], 9)
    <2>1. e = [call EXCEPT !.numArgs = x]
      BY <1>7
    <2>2. [ReadUpTo(sent[c], 8) EXCEPT !.numArgs = x] = ReadUpTo(sent[c], 9)
      BY UpToNext
    <2> HIDE DEF e, x
    <2> QED BY <1>3, <2>1, <2>2
  <1> HIDE DEF e, x
  <1>9. CASE x = 0
    <2>1. Deliver("WAITING", e, k)
      BY <1>6, <1>7, <1>9
    <2>2. e = AsRead(sent[c])
      <3>1. ReadUpTo(sent[c], 9 + x) = AsRead(sent[c])
        BY <1>3, UpToLast DEF x
      <3>2. 9 + x = 9
        BY <1>9
      <3> QED BY <1>8, <3>1, <3>2
    <2>3. k = Before(sent, c - 1) + Within(sent, c, FieldsOf(sent, c))
      <3>1. FieldsOf(sent, c) = 8
        BY <1>4, <1>9
      <3> QED BY <3>1 DEF k
    <2>4. Deliver("WAITING", e, Before(sent, c - 1) + Within(sent, c, FieldsOf(sent, c)))
      BY <2>1, <2>3
    <2> QED BY <1>1, <1>3, <2>2, <2>4, RequestReadOn
  <1>10. CASE x # 0
    <2>1. GoTo("ARGUMENTS", e, k)
      BY <1>4, <1>6, <1>7, <1>10
    <2>2. 8 < FieldsOf(sent, c)
      BY <1>4, <1>10
    <2>3. 8 + 1 = 9 /\ StateFor(9) = "ARGUMENTS"
      BY StatesApart
    <2>4. GoTo(StateFor(8 + 1), ReadUpTo(sent[c], 8 + 1),
               Before(sent, c - 1) + Within(sent, c, 8))
      BY <1>8, <2>1, <2>3 DEF k
    <2> QED BY <1>1, <1>3, <2>2, <2>4, FieldReadOn
  <1> QED BY <1>9, <1>10

\* Which argument comes next.
LEMMA ReadsArgument ==
    ASSUME Steady, SessionFits(sent), state = "ARGUMENTS", Len(call.args) # call.numArgs
    PROVE  \E c, i : /\ c \in 1..Len(sent) /\ i \in 9..FieldsOf(sent, c)
                     /\ ReadingField(c, i)
  <1>1. ~ BetweenRequests
    BY DEF BetweenRequests
  <1>2. PICK c, j : ReadingField(c, j)
    BY <1>1 DEF Steady
  <1>3. c \in 1..Len(sent) /\ j \in 2..FieldsOf(sent, c) /\ StateFor(j) = "ARGUMENTS"
    BY <1>2 DEF ReadingField
  <1>4. FieldsOf(sent, c) \in Nat
    BY <1>3, SessionIs
  <1>5. j > 8 /\ j \in Nat
    <2>1. j \in Nat /\ (j > 8 \/ j \in 1..8)
      BY <1>3, <1>4
    <2> QED BY <1>3, <2>1, StatesApart
  <1>6. j \in 9..FieldsOf(sent, c)
    BY <1>3, <1>4, <1>5
  <1> QED BY <1>2, <1>3, <1>6

LEMMA SteadyArgument ==
    ASSUME DecoderInv, Awake, Steady, SessionFits(sent), DecodeArgument
    PROVE  Steady'
  <1> DEFINE r == ReadArgument(bytes, at)
             e == [call EXCEPT !.args = Append(call.args, r.got)]
  <1>1. /\ decoding /\ state = "ARGUMENTS"
        /\ IF Len(call.args) = call.numArgs THEN StayIn(at) ELSE
              /\ r.is = "lacking" => StayIn(at)
              /\ r.is = "done" => IF Len(e.args) = e.numArgs THEN Deliver("ARGUMENTS", e, r.at)
                                  ELSE GoTo("ARGUMENTS", e, r.at)
    BY DEF DecodeArgument, InCase
  <1>2. CASE Len(call.args) = call.numArgs
    BY <1>1, <1>2, StaysSteady
  <1>3. CASE Len(call.args) # call.numArgs
    <2>1. PICK c, i : /\ c \in 1..Len(sent) /\ i \in 9..FieldsOf(sent, c)
                      /\ ReadingField(c, i)
      BY <1>1, <1>3, ReadsArgument
    <2> DEFINE q == sent[c]
               a == q.args[i - 8]
               n == Len(q.args)
               x == ArgumentAsRead(a)
               k == Before(sent, c - 1) + Within(sent, c, i)
               f == Fields(q)[i]
    <2>2. /\ RequestFits(q) /\ FieldsSent(q) /\ FieldsOf(sent, c) \in Nat
          /\ c < Len(sent) => n = 0
          /\ Len(sent) \in Nat
      BY <2>1, SessionIs
    <2>3. FieldsOf(sent, c) = 8 + n /\ n \in Nat
      BY <2>2 DEF FieldsOf, FieldsSent
    <2>4. /\ i \in 9..(8 + n) /\ i \in 1..FieldsOf(sent, c) /\ i \in Nat /\ i > 8 /\ n > 0
          /\ i + 1 > 8 /\ i + 1 \in Nat
      BY <2>1, <2>3
    <2>5. c = Len(sent)
      BY <2>1, <2>2, <2>4
    <2>6. /\ at = StartOf(sent, c, i) /\ Len(delivered) = c - 1
          /\ call = ReadUpTo(q, i)
      BY <2>1 DEF ReadingField
    <2>7. i - 8 \in DOMAIN q.args /\ f = ArgumentBytes(a) /\ ArgumentFits(a)
      <3>1. i - 8 \in DOMAIN q.args /\ f = ArgumentBytes(a)
        BY <2>2, <2>4 DEF FieldsSent
      <3> QED BY <2>2, <3>1 DEF RequestFits
    <2>8. bytes \in Bytes /\ at \in 0..Len(bytes) /\ Len(bytes) \in Nat
      BY BytesLen DEF DecoderInv
    <2>9. /\ Begins(bytes, Stream(sent))
          /\ HasAt(Stream(sent), at, f)
          /\ \/ HasAt(bytes, at, f) /\ at + Len(f) = k
             \/ Len(bytes) <= at + MayComeAlone(q, i)
      BY <1>1, <2>1, <2>4, <2>6, FieldArrived
    <2>10. CASE Len(bytes) <= at + MayComeAlone(q, i)
      <3>1. MayComeAlone(q, i) = Len(HeaderBytes(a)) - 1
        BY <2>4, AloneIs
      <3>2. /\ Stream(sent) \in Bytes /\ at \in 0..Len(Stream(sent))
        BY <2>8, <2>9, BytesLen DEF Begins
      <3>3. HasAt(Stream(sent), at, HeaderBytes(a)) /\ Len(HeaderBytes(a)) \in Nat
        BY <2>7, <2>9, <3>2, ArgumentReads
      <3>4. Len(bytes) < at + Len(HeaderBytes(a))
        BY <2>8, <2>10, <3>1, <3>3
      <3>5. r.is = "lacking"
        BY <2>7, <2>8, <2>9, <3>3, <3>4, HeaderLacks
      <3>6. StayIn(at)
        BY <1>1, <1>3, <3>5
      <3> QED BY <1>1, <3>6, StaysSteady
    <2>11. CASE HasAt(bytes, at, f) /\ at + Len(f) = k
      <3>1. r = Done(k, x)
        <4> DEFINE y == q.args[i - 8]
        <4>1. HasAt(bytes, at, ArgumentBytes(y)) /\ at + Len(ArgumentBytes(y)) = k
              /\ ArgumentFits(y)
          BY <2>7, <2>11
        <4>2. x = ArgumentAsRead(y)
          OBVIOUS
        <4> HIDE DEF y, k, x
        <4>3. ReadArgument(bytes, at) = Done(at + Len(ArgumentBytes(y)), ArgumentAsRead(y))
          BY <2>8, <4>1, ArgumentReads
        <4> QED BY <4>1, <4>2, <4>3
      <3> HIDE DEF r, k, x
      <3>2. r.is = "done" /\ r.at = k /\ r.got = x
        BY <3>1, WaysToEnd
      <3>3. e = ReadUpTo(q, i + 1)
        <4>1. e = [call EXCEPT !.args = Append(call.args, x)]
          BY <3>2
        <4>2. [ReadUpTo(q, i) EXCEPT !.args = Append(ReadUpTo(q, i).args, x)]
                = ReadUpTo(q, i + 1)
          BY <2>2, <2>4, UpToArgument DEF x
        <4> HIDE DEF e, q
        <4> QED BY <2>6, <4>1, <4>2
      <3>4. e.numArgs = n /\ e.args = ArgsUpTo(q, i + 1)
        BY <2>4, <3>3, UpToIs
      <3>5. Len(e.args) = i - 8
        <4>1. (i + 1) - 9 = i - 8 /\ i - 8 \in Nat
          BY <2>4
        <4>2. ArgsUpTo(q, i + 1) = [j \in 1..(i - 8) |-> ArgumentAsRead(q.args[j])]
          BY <4>1 DEF ArgsUpTo
        <4> DEFINE m == i - 8
        <4>3. m \in Nat /\ e.args = [j \in 1..m |-> ArgumentAsRead(q.args[j])]
          BY <3>4, <4>1, <4>2
        <4> HIDE DEF m, e, q
        <4>4. Len(e.args) = m
          BY <4>3
        <4> QED BY <4>4 DEF m
      <3> HIDE DEF e
      <3>6. CASE i = 8 + n
        <4>1. Deliver("ARGUMENTS", e, k)
          BY <1>1, <1>3, <2>3, <3>2, <3>4, <3>5, <3>6
        <4>2. e = AsRead(sent[c])
          <5>1. i + 1 = 9 + n
            BY <2>3, <3>6
          <5> QED BY <2>2, <3>3, <5>1, UpToLast
        <4>3. Deliver("ARGUMENTS", e, Before(sent, c - 1) + Within(sent, c, FieldsOf(sent, c)))
          BY <2>3, <3>6, <4>1 DEF k
        <4> QED BY <1>1, <2>1, <2>5, <2>6, <4>2, <4>3, RequestReadOn
      <3>7. CASE i # 8 + n
        <4>1. GoTo("ARGUMENTS", e, k)
          BY <1>1, <1>3, <2>3, <2>4, <3>2, <3>4, <3>5, <3>7
        <4>2. i < FieldsOf(sent, c)
          BY <2>3, <2>4, <3>7
        <4>3. StateFor(i + 1) = "ARGUMENTS"
          BY <2>4, StatesApart
        <4>4. GoTo(StateFor(i + 1), ReadUpTo(sent[c], i + 1),
                   Before(sent, c - 1) + Within(sent, c, i))
          BY <3>3, <4>1, <4>3 DEF k
        <4> QED BY <1>1, <2>1, <2>4, <2>6, <4>2, <4>4, FieldReadOn
      <3> QED BY <3>6, <3>7
    <2> QED BY <2>9, <2>10, <2>11
  <1> QED BY <1>2, <1>3

LEMMA SteadyArrival ==
    ASSUME DecoderInv, Steady, ~CutAnywhere, Arrival
    PROVE  Steady'
  <1>1. PICK n \in 1..(Len(stream.bytes) - Len(bytes)) : Arrive(n)
    BY DEF Arrival
  <1> DEFINE k == Len(bytes) + n
             s == stream.bytes
  <1>2. s \in Bytes /\ Len(s) \in Nat /\ Len(bytes) \in Nat
    BY BytesLen DEF DecoderInv
  <1>3. k \in Nat /\ k <= Len(s) /\ bytes' = SubSeq(s, 1, k) /\ k \in stream.cuts
    BY <1>1, <1>2 DEF Arrive
  <1>4. Len(bytes') = k
    <2>1. Slice(s, 0, k) = SubSeq(s, 1, k)
      BY <1>3 DEF Slice
    <2>2. 0 \in 0..Len(s) /\ 0 + k <= Len(s)
      BY <1>2, <1>3
    <2>3. Len(Slice(s, 0, k)) = k
      BY <1>2, <1>3, <2>2, BytesSlice
    <2> QED BY <1>3, <2>1, <2>3
  <1>5. /\ sent' = sent /\ stream' = stream /\ open' = open /\ at' = at /\ state' = state
        /\ call' = call /\ delivered' = delivered
    BY <1>1 DEF Arrive
  <1>6. stream.cuts = SafeCuts(sent)
    BY DEF Steady
  <1>7. BetweenRequests => BetweenRequests'
    BY <1>5 DEF BetweenRequests
  <1>8. \A c, i : ReadingField(c, i) => ReadingField(c, i)'
    BY <1>5 DEF ReadingField
  <1>9. BetweenRequests' \/ \E c, i : ReadingField(c, i)'
    BY <1>7, <1>8 DEF Steady
  <1> QED BY <1>3, <1>4, <1>5, <1>6, <1>9 DEF Steady

\* The decoder gets on as it should.
LEMMA SteadyStep ==
    ASSUME DecoderInv, Awake, Steady, Prepared, [Next]_vars
    PROVE  Steady'
  <1>0. SessionFits(sent) /\ ~CutAnywhere
    BY DEF DecoderInv, Prepared
  <1>1. CASE Arrival
    BY <1>0, <1>1, SteadyArrival
  <1>2. CASE Decode
    <2> DEFINE names == [c \in 1..Len(sent) |-> sent[c].name]
               sources == [c \in 1..Len(sent) |-> sent[c].src]
               oids == [c \in 1..Len(sent) |-> sent[c].oid]
               changes == [c \in 1..Len(sent) |-> sent[c].hasChanged]
               sets == [c \in 1..Len(sent) |-> sent[c].retset]
    <2>0. /\ StateFor(2) = "FUNCTION_NAME" /\ StateFor(3) = "FUNCTION_DEFINTION"
          /\ StateFor(4) = "OID" /\ StateFor(5) = "HAS_CHANGED"
          /\ StateFor(6) = "RETURN_TYPE" /\ StateFor(7) = "SET_RETURNING"
          /\ StateFor(8) = "NUM_ARGUMENTS"
          /\ 2 + 1 = 3 /\ 3 + 1 = 4 /\ 4 + 1 = 5 /\ 5 + 1 = 6 /\ 7 + 1 = 8
      BY StatesApart
    <2>1. ASSUME NEW c, NEW i, FieldHere(c, i)
          PROVE  /\ FieldsSent(sent[c]) /\ RequestFits(sent[c])
                 /\ names[c] = sent[c].name /\ sources[c] = sent[c].src
                 /\ oids[c] = sent[c].oid /\ changes[c] = sent[c].hasChanged
                 /\ sets[c] = sent[c].retset
      BY <2>1 DEF FieldHere
    <2> HIDE DEF names, sources, oids, changes, sets
    <2>2. ASSUME DecodeWaiting PROVE Steady'
      BY <1>0, <2>2, SteadyWaiting
    <2>3. ASSUME DecodeString("FUNCTION_NAME", "name", "FUNCTION_DEFINTION") PROVE Steady'
      <3>1. ASSUME NEW c, FieldHere(c, 2)
            PROVE  /\ Fields(sent[c])[2] = CString(names[c]) /\ StringFits(names[c])
                   /\ [ReadUpTo(sent[c], 2) EXCEPT !["name"] = NameAsRead(names[c])]
                        = ReadUpTo(sent[c], 2 + 1)
        <4>1. FieldsSent(sent[c]) /\ RequestFits(sent[c]) /\ names[c] = sent[c].name
          BY <2>1, <3>1
        <4>2. [ReadUpTo(sent[c], 2) EXCEPT !["name"] = NameAsRead(sent[c].name)]
                = ReadUpTo(sent[c], 3)
          BY UpToNext
        <4>3. Fields(sent[c])[2] = CString(sent[c].name) /\ StringFits(sent[c].name)
          BY <4>1 DEF FieldsSent, RequestFits
        <4> QED BY <2>0, <4>1, <4>2, <4>3
      <3>2. DecodeString(StateFor(2), "name", StateFor(2 + 1)) /\ 2 \in {2, 3}
        BY <2>0, <2>3
      <3>3. StringsFor(2, "name", names)
        BY <3>1 DEF StringsFor
      <3> QED BY <1>0, <3>2, <3>3, SteadyString
    <2>4. ASSUME DecodeString("FUNCTION_DEFINTION", "src", "OID") PROVE Steady'
      <3>1. ASSUME NEW c, FieldHere(c, 3)
            PROVE  /\ Fields(sent[c])[3] = CString(sources[c]) /\ StringFits(sources[c])
                   /\ [ReadUpTo(sent[c], 3) EXCEPT !["src"] = NameAsRead(sources[c])]
                        = ReadUpTo(sent[c], 3 + 1)
        <4>1. FieldsSent(sent[c]) /\ RequestFits(sent[c]) /\ sources[c] = sent[c].src
          BY <2>1, <3>1
        <4>2. [ReadUpTo(sent[c], 3) EXCEPT !["src"] = NameAsRead(sent[c].src)]
                = ReadUpTo(sent[c], 4)
          BY UpToNext
        <4>3. Fields(sent[c])[3] = CString(sent[c].src) /\ StringFits(sent[c].src)
          BY <4>1 DEF FieldsSent, RequestFits
        <4> QED BY <2>0, <4>1, <4>2, <4>3
      <3>2. DecodeString(StateFor(3), "src", StateFor(3 + 1)) /\ 3 \in {2, 3}
        BY <2>0, <2>4
      <3>3. StringsFor(3, "src", sources)
        BY <3>1 DEF StringsFor
      <3> QED BY <1>0, <3>2, <3>3, SteadyString
    <2>5. ASSUME DecodeInt("OID", "oid", "HAS_CHANGED") PROVE Steady'
      <3>1. ASSUME NEW c, FieldHere(c, 4)
            PROVE  /\ Fields(sent[c])[4] = Int32(oids[c]) /\ oids[c] \in Int32s
                   /\ [ReadUpTo(sent[c], 4) EXCEPT
                         !["oid"] = IF 4 = 4 THEN oids[c] ELSE oids[c] = 1]
                        = ReadUpTo(sent[c], 4 + 1)
        <4>1. FieldsSent(sent[c]) /\ RequestFits(sent[c]) /\ oids[c] = sent[c].oid
          BY <2>1, <3>1
        <4>2. [ReadUpTo(sent[c], 4) EXCEPT !["oid"] = sent[c].oid] = ReadUpTo(sent[c], 5)
          BY UpToNext
        <4>3. Fields(sent[c])[4] = Int32(sent[c].oid) /\ sent[c].oid \in Int32s
          BY <4>1 DEF FieldsSent, RequestFits
        <4>4. (IF 4 = 4 THEN oids[c] ELSE oids[c] = 1) = sent[c].oid
          BY <4>1
        <4> QED BY <2>0, <4>1, <4>2, <4>3, <4>4
      <3>2. DecodeInt(StateFor(4), "oid", StateFor(4 + 1)) /\ 4 \in {4, 5, 7}
        BY <2>0, <2>5
      <3>3. IntsFor(4, "oid", oids)
        BY <3>1 DEF IntsFor
      <3> QED BY <1>0, <3>2, <3>3, SteadyInt
    <2>6. ASSUME DecodeInt("HAS_CHANGED", "hasChanged", "RETURN_TYPE") PROVE Steady'
      <3>1. ASSUME NEW c, FieldHere(c, 5)
            PROVE  /\ Fields(sent[c])[5] = Int32(changes[c]) /\ changes[c] \in Int32s
                   /\ [ReadUpTo(sent[c], 5) EXCEPT
                         !["hasChanged"] = IF 5 = 4 THEN changes[c] ELSE changes[c] = 1]
                        = ReadUpTo(sent[c], 5 + 1)
        <4>1. FieldsSent(sent[c]) /\ RequestFits(sent[c]) /\ changes[c] = sent[c].hasChanged
          BY <2>1, <3>1
        <4>2. [ReadUpTo(sent[c], 5) EXCEPT !["hasChanged"] = (sent[c].hasChanged = 1)]
                = ReadUpTo(sent[c], 6)
          BY UpToNext
        <4>3. Fields(sent[c])[5] = Int32(sent[c].hasChanged) /\ sent[c].hasChanged \in Int32s
          BY <4>1 DEF FieldsSent, RequestFits
        <4>4. (IF 5 = 4 THEN changes[c] ELSE changes[c] = 1) = (sent[c].hasChanged = 1)
          BY <4>1
        <4> QED BY <2>0, <4>1, <4>2, <4>3, <4>4
      <3>2. DecodeInt(StateFor(5), "hasChanged", StateFor(5 + 1)) /\ 5 \in {4, 5, 7}
        BY <2>0, <2>6
      <3>3. IntsFor(5, "hasChanged", changes)
        BY <3>1 DEF IntsFor
      <3> QED BY <1>0, <3>2, <3>3, SteadyInt
    <2>7. ASSUME DecodeReturnType PROVE Steady'
      BY <1>0, <2>7, SteadyReturnType
    <2>8. ASSUME DecodeInt("SET_RETURNING", "retset", "NUM_ARGUMENTS") PROVE Steady'
      <3>1. ASSUME NEW c, FieldHere(c, 7)
            PROVE  /\ Fields(sent[c])[7] = Int32(sets[c]) /\ sets[c] \in Int32s
                   /\ [ReadUpTo(sent[c], 7) EXCEPT
                         !["retset"] = IF 7 = 4 THEN sets[c] ELSE sets[c] = 1]
                        = ReadUpTo(sent[c], 7 + 1)
        <4>1. FieldsSent(sent[c]) /\ RequestFits(sent[c]) /\ sets[c] = sent[c].retset
          BY <2>1, <3>1
        <4>2. [ReadUpTo(sent[c], 7) EXCEPT !["retset"] = (sent[c].retset = 1)]
                = ReadUpTo(sent[c], 8)
          BY UpToNext
        <4>3. Fields(sent[c])[7] = Int32(sent[c].retset) /\ sent[c].retset \in Int32s
          BY <4>1 DEF FieldsSent, RequestFits
        <4>4. (IF 7 = 4 THEN sets[c] ELSE sets[c] = 1) = (sent[c].retset = 1)
          BY <4>1
        <4> QED BY <2>0, <4>1, <4>2, <4>3, <4>4
      <3>2. DecodeInt(StateFor(7), "retset", StateFor(7 + 1)) /\ 7 \in {4, 5, 7}
        BY <2>0, <2>8
      <3>3. IntsFor(7, "retset", sets)
        BY <3>1 DEF IntsFor
      <3> QED BY <1>0, <3>2, <3>3, SteadyInt
    <2>9. ASSUME DecodeNumArguments PROVE Steady'
      BY <1>0, <2>9, SteadyNumArguments
    <2>10. ASSUME DecodeArgument PROVE Steady'
      BY <1>0, <2>10, SteadyArgument
    <2> QED BY <1>2, <2>2, <2>3, <2>4, <2>5, <2>6, <2>7, <2>8, <2>9, <2>10 DEF Decode
  <1>3. CASE UNCHANGED vars
    <2>1. /\ sent' = sent /\ stream' = stream /\ bytes' = bytes /\ open' = open
          /\ at' = at /\ state' = state /\ call' = call /\ delivered' = delivered
          /\ decoding' = decoding
      BY <1>3 DEF vars
    <2>2. BetweenRequests => BetweenRequests'
      BY <2>1 DEF BetweenRequests
    <2>3. \A c, i : ReadingField(c, i) => ReadingField(c, i)'
      BY <2>1 DEF ReadingField
    <2>4. BetweenRequests' \/ \E c, i : ReadingField(c, i)'
      BY <2>2, <2>3 DEF Steady
    <2> QED BY <2>1, <2>4 DEF Steady
  <1> QED BY <1>1, <1>2, <1>3 DEF Next

LEMMA DecoderSteady ==
    ASSUME Prepared
    PROVE  Spec => [](DecoderInv /\ Steady)
  <1>1. Init => DecoderInv /\ Awake /\ Steady
    <2> SUFFICES ASSUME Init PROVE DecoderInv /\ Awake /\ Steady
      OBVIOUS
    <2>1. sent \in Sessions /\ SessionFits(sent)
      BY DEF Init, Prepared
    <2> QED BY <2>1, DecoderInit, SteadyInit
  <1>2. (DecoderInv /\ Awake /\ Steady) /\ [Next]_vars => (DecoderInv /\ Awake /\ Steady)'
    <2> SUFFICES ASSUME DecoderInv, Awake, Steady, [Next]_vars
                 PROVE  DecoderInv' /\ Awake' /\ Steady'
      OBVIOUS
    <2> QED BY DecoderStep, SteadyStep
  <1> QED BY <1>1, <1>2, PTL DEF Spec

\* What the invariant says of the sessions decode() is prepared for.
LEMMA PreparedSteadyIs ==
    ASSUME Prepared, DecoderInv, Steady
    PROVE  InSync /\ StaysOpen /\ CalledAsSent
  <1>1. SessionFits(sent)
    BY DEF DecoderInv, Prepared
  <1> QED BY <1>1, SteadyIs

\* decode() takes none of the bytes of a field before all of them are there, and leaves
\* no state before its field is read: for every session of requests that it can read,
\* in pieces that it is prepared for.
THEOREM DecoderInSync ==
    ASSUME Prepared
    PROVE  Spec => []InSync
  <1>1. DecoderInv /\ Steady => InSync
    BY PreparedSteadyIs
  <1> QED BY <1>1, DecoderSteady, PTL

\* Nothing that it gets then makes it throw, and close the connection.
THEOREM DecoderStaysOpen ==
    ASSUME Prepared
    PROVE  Spec => []StaysOpen
  <1>1. DecoderInv /\ Steady => StaysOpen
    BY PreparedSteadyIs
  <1> QED BY <1>1, DecoderSteady, PTL

\* Then what the decoder delivers is what was sent, to the eyes of Java: reading undoes
\* writing, for the types, values and names of every request.
THEOREM DecoderDelivers ==
    ASSUME Prepared
    PROVE  Spec => []CalledAsSent
  <1>1. DecoderInv /\ Steady => CalledAsSent
    BY PreparedSteadyIs
  <1> QED BY <1>1, DecoderSteady, PTL
=============================================================================
