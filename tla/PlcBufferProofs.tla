-------------------------- MODULE PlcBufferProofs --------------------------
(***************************************************************************)
(* Proofs about PlcBuffer, for every buffer size, every sizes of requests  *)
(* and every bound on the bytes.                                           *)
(*                                                                         *)
(* First come the lemmas about the buffer: what memcpy, plcBufferMaybeReset*)
(* and plcBufferMaybeResize do to the bytes a buffer holds.  Then the      *)
(* inductive invariant and, from it, the theorems.                         *)
(***************************************************************************)
EXTENDS PlcBuffer, SequenceTheorems, TLAPS

\* One buffer of the type invariant and of WithinBounds.
BufferOK(b) ==
    BufferType(b) /\ b.pStart <= b.pEnd /\ b.pEnd <= b.bufSize

\* r keeps what b holds.
Keeps(r, b) ==
    /\ Live(r) = Live(b)
    /\ \A first \in Int : Holds(b, first) => Holds(r, first)

-----------------------------------------------------------------------------
(* Buffers and their fields.                                               *)

\* The fields of a buffer made of four values are these values.
LEMMA BufferFields ==
    ASSUME NEW d, NEW s, NEW p, NEW e
    PROVE  /\ Buffer(d, s, p, e).data = d
           /\ Buffer(d, s, p, e).bufSize = s
           /\ Buffer(d, s, p, e).pStart = p
           /\ Buffer(d, s, p, e).pEnd = e
  BY DEF Buffer

\* What BufferOK says of the fields, without the record they are in.
LEMMA BufferParts ==
    ASSUME NEW b, BufferOK(b)
    PROVE  /\ b.bufSize \in Nat /\ b.pStart \in Nat /\ b.pEnd \in Nat
           /\ b.data \in [0..(b.bufSize - 1) -> Int]
           /\ b.pStart <= b.pEnd /\ b.pEnd <= b.bufSize
           /\ Live(b) \in Nat /\ Live(b) = b.pEnd - b.pStart
  BY DEF BufferOK, BufferType, Live

\* A memory and two cursors inside it make a buffer.
LEMMA MakeBuffer ==
    ASSUME NEW s \in Nat, NEW d \in [0..(s - 1) -> Int],
           NEW p \in Nat, NEW e \in Nat, p <= e, e <= s
    PROVE  BufferOK(Buffer(d, s, p, e)) /\ Live(Buffer(d, s, p, e)) = e - p
  BY BufferFields DEF BufferOK, BufferType, Live

-----------------------------------------------------------------------------
(* memcpy.                                                                 *)

\* Moving n bytes to the front of a memory keeps them and their order.
LEMMA MoveRun ==
    ASSUME NEW s \in Nat, NEW src \in [0..(s - 1) -> Int],
           NEW t \in Nat, NEW dst \in [0..(t - 1) -> Int],
           NEW p \in Nat, NEW n \in Nat, p + n <= s, n <= t
    PROVE  /\ Moved(dst, src, p, n) \in [0..(t - 1) -> Int]
           /\ \A first \in Int :
                 Consecutive(src, p, n, first)
                    => Consecutive(Moved(dst, src, p, n), 0, n, first)
  BY DEF Moved, Consecutive

\* Writing behind the live bytes keeps them, and appends the new ones.
LEMMA WriteRun ==
    ASSUME NEW s \in Nat, NEW m \in [0..(s - 1) -> Int],
           NEW p \in Nat, NEW e \in Nat, NEW n \in Nat, p <= e, e + n <= s,
           NEW byte \in Int
    PROVE  /\ Written(m, e, n, byte) \in [0..(s - 1) -> Int]
           /\ \A first \in Int :
                 /\ Consecutive(m, p, e - p, first)
                 /\ byte = first + (e - p)
                 => Consecutive(Written(m, e, n, byte), p, (e - p) + n, first)
  BY DEF Written, Consecutive

\* Repacked keeps what a buffer holds in any memory it fits into.
LEMMA Repack ==
    ASSUME NEW b, BufferOK(b), NEW size \in Nat, Live(b) <= size,
           NEW dst \in [0..(size - 1) -> Int]
    PROVE  LET r == Repacked(dst, size, b) IN
           BufferOK(r) /\ Keeps(r, b) /\ r.bufSize = size /\ r.pStart = 0
  <1> DEFINE m == b.data
             p == b.pStart
             n == Live(b)
             d == Moved(dst, m, p, n)
  <1>1. /\ b.bufSize \in Nat /\ p \in Nat /\ n \in Nat
        /\ m \in [0..(b.bufSize - 1) -> Int]
        /\ p + n <= b.bufSize /\ n <= size
    BY BufferParts
  <1>2. Repacked(dst, size, b) = Buffer(d, size, 0, n)
    BY DEF Repacked
  <1>3. \A first \in Int : Holds(b, first) => Consecutive(m, p, n, first)
    BY DEF Holds
  <1> HIDE DEF m, p, n
  <1>4. /\ d \in [0..(size - 1) -> Int]
        /\ \A first \in Int :
              Consecutive(m, p, n, first) => Consecutive(d, 0, n, first)
    BY <1>1, MoveRun, Zenon
  <1> HIDE DEF d
  <1>5. BufferOK(Buffer(d, size, 0, n)) /\ Live(Buffer(d, size, 0, n)) = n
    <2>1. d \in [0..(size - 1) -> Int] /\ 0 \in Nat /\ 0 <= n /\ n - 0 = n
      BY <1>1, <1>4
    <2> QED BY <1>1, <2>1, MakeBuffer
  <1>6. Keeps(Repacked(dst, size, b), b)
    BY <1>2, <1>3, <1>4, <1>5, BufferFields DEF Keeps, Holds, n
  <1> QED BY <1>2, <1>5, <1>6, BufferFields

-----------------------------------------------------------------------------
(* plcBufferMaybeReset and plcBufferMaybeResize.                           *)

\* Setting both cursors of an empty buffer to 0 loses nothing.
LEMMA Rewind ==
    ASSUME NEW b, BufferOK(b)
    PROVE  LET r == Rewound(b) IN
           /\ BufferOK(r) /\ Keeps(r, b) /\ r.bufSize = b.bufSize
           /\ Live(b) = 0 => r.pStart = 0
  <1>1. CASE b.pStart = b.pEnd
    <2>1. Rewound(b) = Buffer(b.data, b.bufSize, 0, 0)
      BY <1>1 DEF Rewound
    <2>2. BufferOK(Rewound(b)) /\ Live(Rewound(b)) = 0 /\ Live(b) = 0
      BY <1>1, <2>1, BufferParts, MakeBuffer
    <2>3. Keeps(Rewound(b), b)
      BY <2>1, <2>2, BufferFields DEF Keeps, Holds, Consecutive
    <2> QED BY <2>1, <2>2, <2>3, BufferFields
  <1>2. CASE b.pStart # b.pEnd
    <2>1. Live(b) # 0
      BY <1>2, BufferParts
    <2> QED BY <1>2, <2>1 DEF Rewound, Keeps
  <1> QED BY <1>1, <1>2

\* plcBufferMaybeReset keeps what the buffer holds and the size of its memory.
LEMMA ResetKeeps ==
    ASSUME NEW b, BufferOK(b)
    PROVE  LET r == MaybeReset(b) IN
           /\ BufferOK(r) /\ Keeps(r, b) /\ r.bufSize = b.bufSize
           /\ Live(b) = 0 => r.pStart = 0
  <1> DEFINE w == Rewound(b)
  <1>1. /\ BufferOK(w) /\ Keeps(w, b) /\ w.bufSize = b.bufSize
        /\ Live(b) = 0 => w.pStart = 0
    BY Rewind
  <1>2. MaybeReset(b) = Compacted(w)
    BY DEF MaybeReset
  <1> HIDE DEF w
  <1>3. CASE w.pStart > w.bufSize \div 2
    <2>1. Compacted(w) = Repacked(w.data, w.bufSize, w)
      BY <1>3 DEF Compacted
    <2>2. /\ w.bufSize \in Nat /\ Live(w) <= w.bufSize
          /\ w.data \in [0..(w.bufSize - 1) -> Int]
      BY <1>1, BufferParts
    <2>3. /\ BufferOK(Compacted(w)) /\ Keeps(Compacted(w), w)
          /\ Compacted(w).bufSize = w.bufSize /\ Compacted(w).pStart = 0
      BY <1>1, <2>1, <2>2, Repack
    <2> QED BY <1>1, <1>2, <2>3 DEF Keeps
  <1>4. CASE ~(w.pStart > w.bufSize \div 2)
    BY <1>1, <1>2, <1>4 DEF Compacted
  <1> QED BY <1>3, <1>4

\* A size computed for x bytes holds more than x bytes.
LEMMA SizeForHolds ==
    ASSUME NEW x \in Nat
    PROVE  SizeFor(x) \in Nat /\ SizeFor(x) > x
  BY BufferAssumption DEF SizeFor

\* plcBufferMaybeResize keeps what the buffer holds, and makes room for n more.
LEMMA ResizeKeeps ==
    ASSUME NEW b, BufferOK(b), NEW n \in Nat
    PROVE  LET r == MaybeResize(b, n) IN
           BufferOK(r) /\ Keeps(r, b) /\ HasRoom(r, n)
  <1> DEFINE dataSize == Live(b) + n + MinFree
             r == MaybeResize(b, n)
  <1>1. Live(b) \in Nat /\ dataSize \in Nat /\ Live(b) + n <= dataSize
    BY BufferParts, BufferAssumption
  <1>2. ASSUME NEW size \in Nat, dataSize <= size, r = Reallocated(b, size)
        PROVE  BufferOK(r) /\ Keeps(r, b) /\ HasRoom(r, n)
    <2> HIDE DEF r, dataSize
    <2>1. Allocated(size) \in [0..(size - 1) -> Int]
      BY DEF Allocated, Garbage
    <2>2. /\ BufferOK(r) /\ Keeps(r, b) /\ r.bufSize = size /\ r.pStart = 0
      BY <1>1, <1>2, <2>1, Repack DEF Reallocated
    <2>3. r.pEnd = Live(b)
      BY <2>2, BufferParts DEF Keeps
    <2> QED BY <1>1, <1>2, <2>2, <2>3 DEF HasRoom
  <1>3. CASE dataSize < b.bufSize \div 5 /\ b.bufSize > BufferSize
    <2>1. r = Reallocated(b, SizeFor(dataSize * 2))
      BY <1>3 DEF MaybeResize
    <2>2. SizeFor(dataSize * 2) \in Nat /\ dataSize <= SizeFor(dataSize * 2)
      BY <1>1, SizeForHolds
    <2> QED BY <1>2, <2>1, <2>2
  <1>4. CASE /\ ~(dataSize < b.bufSize \div 5 /\ b.bufSize > BufferSize)
             /\ b.pEnd + n > b.bufSize - MinFree
    <2>1. r = Reallocated(b, SizeFor(dataSize))
      BY <1>4 DEF MaybeResize
    <2>2. SizeFor(dataSize) \in Nat /\ dataSize <= SizeFor(dataSize)
      BY <1>1, SizeForHolds
    <2> QED BY <1>2, <2>1, <2>2
  <1>5. CASE /\ ~(dataSize < b.bufSize \div 5 /\ b.bufSize > BufferSize)
             /\ ~(b.pEnd + n > b.bufSize - MinFree)
    <2>1. r = b
      BY <1>5 DEF MaybeResize
    <2>2. HasRoom(b, n)
      BY <1>5, BufferParts, BufferAssumption DEF HasRoom
    <2> QED BY <2>1, <2>2 DEF Keeps
  <1> QED BY <1>3, <1>4, <1>5

-----------------------------------------------------------------------------
(* Storing behind the live bytes, and taking the first of them.            *)

\* With room for n bytes, storing them stays inside the memory, and when they
\* continue what the buffer holds, the buffer holds them after the rest.
LEMMA StoreKeeps ==
    ASSUME NEW b, BufferOK(b), NEW n \in Nat, NEW byte \in Int, HasRoom(b, n)
    PROVE  LET r == Stored(b, n, byte) IN
           /\ BufferOK(r) /\ r.bufSize = b.bufSize /\ r.pEnd = b.pEnd + n
           /\ Live(r) = Live(b) + n
           /\ \A first \in Int : Holds(b, first) /\ byte = first + Live(b)
                                    => Holds(r, first)
  <1> DEFINE m == b.data
             p == b.pStart
             e == b.pEnd
             s == b.bufSize
             d == Written(m, e, n, byte)
  <1>1. /\ s \in Nat /\ p \in Nat /\ e \in Nat
        /\ m \in [0..(s - 1) -> Int] /\ p <= e /\ e + n <= s
        /\ Live(b) = e - p
    BY BufferParts DEF HasRoom
  <1>2. Stored(b, n, byte) = Buffer(d, s, p, e + n)
    BY DEF Stored
  <1>3. \A first \in Int : Holds(b, first) => Consecutive(m, p, e - p, first)
    BY <1>1 DEF Holds
  <1> HIDE DEF m, p, e, s
  <1>4. /\ d \in [0..(s - 1) -> Int]
        /\ \A first \in Int :
              /\ Consecutive(m, p, e - p, first)
              /\ byte = first + (e - p)
              => Consecutive(d, p, (e - p) + n, first)
    BY <1>1, WriteRun, Zenon
  <1> HIDE DEF d
  <1>5. e + n \in Nat /\ p <= e + n /\ (e + n) - p = (e - p) + n
    BY <1>1
  <1>6. d \in [0..(s - 1) -> Int]
    BY <1>4
  <1>7. /\ BufferOK(Buffer(d, s, p, e + n))
        /\ Live(Buffer(d, s, p, e + n)) = (e - p) + n
    <2> DEFINE f == e + n
               r == Buffer(d, s, p, f)
    <2>1. f \in Nat /\ p <= f /\ f <= s /\ f - p = (e - p) + n
      BY <1>1, <1>5
    <2> HIDE DEF f
    <2>2. /\ r.data = d /\ r.bufSize = s /\ r.pStart = p /\ r.pEnd = f
      BY BufferFields
    <2>3. r = Buffer(r.data, r.bufSize, r.pStart, r.pEnd)
      BY <2>2
    <2> HIDE DEF r
    <2>4. BufferType(r)
      BY <1>1, <1>6, <2>1, <2>2, <2>3 DEF BufferType
    <2>5. BufferOK(r) /\ Live(r) = f - p
      BY <1>1, <2>1, <2>2, <2>4 DEF BufferOK, Live
    <2> QED BY <2>1, <2>5 DEF r, f
  <1>8. \A first \in Int : Holds(b, first) /\ byte = first + Live(b)
                              => Holds(Stored(b, n, byte), first)
    BY <1>1, <1>2, <1>3, <1>4, <1>7, BufferFields DEF Holds
  <1> QED BY <1>1, <1>2, <1>7, <1>8, BufferFields DEF e, s

\* The first k live bytes are a sequence of k bytes that starts where the
\* buffer starts.
LEMMA FrontSequence ==
    ASSUME NEW b, BufferOK(b), NEW k \in Nat, k <= Live(b)
    PROVE  /\ Front(b, k) \in Seq(Int)
           /\ Len(Front(b, k)) = k
           /\ \A first \in Int : Holds(b, first) =>
                 \A i \in 1..k : Front(b, k)[i] = first + i - 1
  <1> DEFINE m == b.data
             p == b.pStart
  <1>1. p \in Nat /\ m \in [0..(b.bufSize - 1) -> Int] /\ p + k <= b.bufSize
        /\ b.bufSize \in Nat
    BY BufferParts
  <1>2. Front(b, k) = [i \in 1..k |-> m[p + i - 1]]
    BY DEF Front
  <1>3. \A first \in Int : Holds(b, first) =>
           \A i \in p..(p + k - 1) : m[i] = first + (i - p)
    BY BufferParts DEF Holds, Consecutive
  <1> HIDE DEF m, p
  <1>4. Front(b, k) \in [1..k -> Int]
    BY <1>1, <1>2
  <1>5. Front(b, k) \in Seq(Int) /\ Len(Front(b, k)) = k
    BY <1>4, SeqDef, LenProperties
  <1>6. ASSUME NEW first \in Int, Holds(b, first), NEW i \in 1..k
        PROVE  Front(b, k)[i] = first + i - 1
    <2>1. p + i - 1 \in p..(p + k - 1)
      BY <1>1
    <2>2. m[p + i - 1] = first + ((p + i - 1) - p)
      BY <1>3, <1>6, <2>1
    <2> QED BY <1>1, <1>2, <2>2
  <1> QED BY <1>5, <1>6

\* Without its first k bytes a buffer holds the others.
LEMMA TakeKeeps ==
    ASSUME NEW b, BufferOK(b), NEW k \in Nat, k <= Live(b)
    PROVE  LET r == Without(b, k) IN
           /\ BufferOK(r) /\ Live(r) = Live(b) - k
           /\ r.bufSize = b.bufSize /\ r.pEnd = b.pEnd
           /\ \A first \in Int : Holds(b, first) => Holds(r, first + k)
  <1> DEFINE m == b.data
             p == b.pStart
             e == b.pEnd
             s == b.bufSize
             r == Buffer(m, s, p + k, e)
  <1>1. /\ s \in Nat /\ p \in Nat /\ e \in Nat
        /\ m \in [0..(s - 1) -> Int] /\ p + k <= e /\ e <= s
        /\ Live(b) = e - p
    BY BufferParts
  <1>2. Without(b, k) = r
    BY DEF Without
  <1>3. \A first \in Int : Holds(b, first) => Consecutive(m, p, e - p, first)
    BY <1>1 DEF Holds
  <1> HIDE DEF m, p, e, s
  <1>4. BufferOK(r) /\ Live(r) = (e - p) - k
    <2>1. p + k \in Nat /\ e - (p + k) = (e - p) - k
      BY <1>1
    <2> QED BY <1>1, <2>1, MakeBuffer
  <1>5. ASSUME NEW first \in Int, Consecutive(m, p, e - p, first)
        PROVE  Consecutive(m, p + k, (e - p) - k, first + k)
    BY <1>1, <1>5 DEF Consecutive
  <1>6. \A first \in Int : Holds(b, first) => Holds(r, first + k)
    BY <1>3, <1>4, <1>5, BufferFields DEF Holds
  <1> HIDE DEF r
  <1> QED BY <1>1, <1>2, <1>4, <1>6, BufferFields DEF e, s, r

-----------------------------------------------------------------------------
(* The inductive invariant.                                                *)

\* s is the beginning of a stream: 0, 1, 2, ...
Counted(s) == s \in Seq(Int) /\ \A i \in 1..Len(s) : s[i] = i - 1

SendInv ==
    /\ BufferOK(outBuf)
    /\ writable \in BOOLEAN
    /\ offered \in Nat
    /\ Counted(wire)
    /\ Len(wire) <= offered
    /\ OutputIntact

RecvInv ==
    /\ BufferOK(inBuf)
    /\ readable \in BOOLEAN
    /\ received \in Nat
    /\ Counted(got)
    /\ InputIntact
    /\ RecvHasRoom

\* OutputIntact and WithinBounds are inductive only together: a store stays
\* inside the memory because the cursors are in order, and it continues the
\* bytes held because none was lost before.  Counted says of the bytes already
\* gone what Holds says of those still in a buffer.
IInv ==
    /\ pc \in Control
    /\ nBytes \in Nat
    /\ SendInv
    /\ RecvInv

\* Sequences keep counting when the next bytes follow.
LEMMA CountOn ==
    ASSUME NEW s, Counted(s), NEW t \in Seq(Int), NEW k \in Nat, Len(t) = k,
           \A i \in 1..k : t[i] = Len(s) + i - 1
    PROVE  /\ Counted(s \o t)
           /\ Len(s \o t) = Len(s) + k
           /\ Stream!Continues(s, s \o t)
  <1>1. s \in Seq(Int) /\ Len(s) \in Nat
    BY LenProperties DEF Counted
  <1>2. /\ s \o t \in Seq(Int)
        /\ Len(s \o t) = Len(s) + k
        /\ \A i \in 1..(Len(s) + k) :
              (s \o t)[i] = IF i <= Len(s) THEN s[i] ELSE t[i - Len(s)]
    BY <1>1, ConcatProperties
  <1>3. ASSUME NEW i \in 1..(Len(s) + k)
        PROVE  /\ i <= Len(s) => (s \o t)[i] = s[i]
               /\ (s \o t)[i] = i - 1
    <2>1. CASE i <= Len(s)
      BY <1>1, <1>2, <2>1 DEF Counted
    <2>2. CASE ~(i <= Len(s))
      <3>1. i - Len(s) \in 1..k
        BY <1>1, <2>2
      <3>2. t[i - Len(s)] = Len(s) + (i - Len(s)) - 1
        BY <3>1
      <3> QED BY <1>1, <1>2, <2>2, <3>2
    <2> QED BY <2>1, <2>2
  <1> QED BY <1>1, <1>2, <1>3 DEF Counted, Stream!Continues

\* A new buffer is a buffer, and holds nothing.
LEMMA EmptyBufferOK ==
    BufferOK(EmptyBuffer) /\ Live(EmptyBuffer) = 0 /\ Holds(EmptyBuffer, 0)
  <1>1. Allocated(BufferSize) \in [0..(BufferSize - 1) -> Int]
    BY BufferAssumption DEF Allocated, Garbage
  <1>2. BufferOK(EmptyBuffer) /\ Live(EmptyBuffer) = 0
    BY <1>1, BufferAssumption, MakeBuffer DEF EmptyBuffer
  <1>3. EmptyBuffer.pStart = 0
    BY BufferFields DEF EmptyBuffer
  <1> QED BY <1>2, <1>3 DEF Holds, Consecutive

\* The empty stream is the beginning of one.
LEMMA EmptyCounted == Counted(<<>>) /\ Len(<<>>) = 0
  BY EmptySeq DEF Counted

\* The invariant holds initially.
LEMMA InitIInv == Init => IInv
  BY EmptyBufferOK, EmptyCounted
     DEF Init, IInv, SendInv, RecvInv, Control, OutputIntact, Appended,
         InputIntact, RecvHasRoom

\* A step of the output side alone keeps the input side, unless it enters the
\* receive loop.
LEMMA RecvFrame ==
    ASSUME RecvInv, UNCHANGED recvVars, pc' # "recv"
    PROVE  RecvInv'
  BY DEF RecvInv, recvVars, InputIntact, RecvHasRoom

\* A step of the input side alone, or an abort, keeps the output side.
LEMMA SendFrame ==
    ASSUME SendInv, UNCHANGED sendVars, pc # "append", pc # "aborted",
           pc' # "append"
    PROVE  SendInv'
  BY DEF SendInv, sendVars, OutputIntact, Appended

LEMMA ConnectInv == Connect => IInv'
  BY EmptyBufferOK, EmptyCounted
     DEF Connect, FreshConnection, IInv, SendInv, RecvInv, Control,
         OutputIntact, Appended, InputIntact, RecvHasRoom

LEMMA AppendInv ==
    ASSUME IInv, NEW n \in AppendSizes, BufferAppend(n)
    PROVE  IInv'
  <1> n \in Nat
    BY BufferAssumption
  <1>1. /\ BufferOK(outBuf) /\ offered \in Nat /\ Len(wire) \in Nat
        /\ Len(wire) \in Int /\ Live(outBuf) \in Nat
        /\ Counted(wire) /\ Len(wire) <= offered
        /\ nBytes \in Nat /\ writable \in BOOLEAN
    BY BufferParts, LenProperties DEF IInv, SendInv, Counted
  <1>2. /\ pc = "idle" /\ pc' \in {"idle", "append"}
        /\ offered' = offered + n
        /\ UNCHANGED <<writable, wire>>
        /\ nBytes' \in Nat
    BY <1>1 DEF BufferAppend, AppendWithRoom, AppendWithoutFlush, AppendThenFlush
  <1>3. writable => offered = Len(wire) + Live(outBuf) /\ Holds(outBuf, Len(wire))
    BY <1>2 DEF IInv, SendInv, OutputIntact, Appended
  <1>4. RecvInv'
    <2>1. pc' # "recv" /\ UNCHANGED recvVars
      BY <1>2 DEF BufferAppend, AppendWithRoom, AppendWithoutFlush, AppendThenFlush
    <2> QED BY <2>1, RecvFrame DEF IInv
  <1>5. ASSUME NEW b, BufferOK(b), Keeps(b, outBuf), HasRoom(b, n),
               outBuf' = Stored(b, n, offered), UNCHANGED pc
        PROVE  SendInv'
    <2>1. /\ BufferOK(outBuf') /\ Live(outBuf') = Live(outBuf) + n
          /\ \A first \in Int : Holds(b, first) /\ offered = first + Live(b)
                                   => Holds(outBuf', first)
      BY <1>1, <1>5, StoreKeeps DEF Keeps
    <2>2. writable => Holds(outBuf', Len(wire))
      BY <1>1, <1>3, <1>5, <2>1 DEF Keeps
    <2> QED BY <1>1, <1>2, <1>3, <1>5, <2>1, <2>2
            DEF SendInv, OutputIntact, Appended
  <1>6. ASSUME AppendWithRoom(n)
        PROVE  SendInv'
    <2>1. Keeps(outBuf, outBuf)
      BY DEF Keeps
    <2> QED BY <1>1, <1>5, <1>6, <2>1 DEF AppendWithRoom
  <1>7. ASSUME AppendWithoutFlush(n)
        PROVE  SendInv'
    <2> DEFINE r == MaybeReset(outBuf)
               b == MaybeResize(r, n)
    <2>1. BufferOK(r) /\ Keeps(r, outBuf)
      BY <1>1, ResetKeeps
    <2> HIDE DEF r
    <2>2. BufferOK(b) /\ Keeps(b, r) /\ HasRoom(b, n)
      BY <2>1, ResizeKeeps
    <2>3. outBuf' = Stored(b, n, offered) /\ UNCHANGED pc
      BY <1>7 DEF AppendWithoutFlush, r
    <2> HIDE DEF b
    <2>4. Keeps(b, outBuf)
      BY <2>1, <2>2 DEF Keeps
    <2> QED BY <1>5, <2>2, <2>3, <2>4
  <1>8. ASSUME AppendThenFlush(n)
        PROVE  SendInv'
    <2>1. /\ BufferOK(outBuf') /\ Keeps(outBuf', outBuf)
          /\ pc' = "append" /\ nBytes' = n
      BY <1>1, <1>8, ResetKeeps DEF AppendThenFlush
    <2> QED BY <1>1, <1>2, <1>3, <2>1
            DEF SendInv, OutputIntact, Appended, Keeps
  <1>9. SendInv'
    BY <1>6, <1>7, <1>8 DEF BufferAppend
  <1> QED BY <1>2, <1>4, <1>9 DEF IInv, Control

\* send() takes the bytes the stream has next.
LEMMA SendSomeInv ==
    ASSUME IInv, NEW k \in 1..MaxBytes, SendSome(k)
    PROVE  IInv' /\ Stream!Continues(wire, wire') /\ Len(wire') <= offered
  <1>1. /\ BufferOK(outBuf) /\ offered \in Nat /\ Counted(wire)
        /\ Live(outBuf) \in Nat /\ Len(wire) \in Nat /\ nBytes \in Nat
        /\ k \in Nat /\ k <= Live(outBuf)
    BY BufferParts, LenProperties, BufferAssumption
       DEF IInv, SendInv, Counted, SendSome
  <1>2. /\ pc \in {"append", "flush"} /\ writable
        /\ wire' = wire \o Front(outBuf, k) /\ outBuf' = Without(outBuf, k)
        /\ UNCHANGED <<pc, nBytes, writable, offered, recvVars>>
    BY DEF SendSome, Sending
  <1>3. Appended = Len(wire) + Live(outBuf) /\ Holds(outBuf, Len(wire))
    BY <1>2 DEF IInv, SendInv, OutputIntact
  <1>4. /\ Counted(wire') /\ Len(wire') = Len(wire) + k
        /\ Stream!Continues(wire, wire')
    <2>1. /\ Front(outBuf, k) \in Seq(Int) /\ Len(Front(outBuf, k)) = k
          /\ \A i \in 1..k : Front(outBuf, k)[i] = Len(wire) + i - 1
      BY <1>1, <1>3, FrontSequence
    <2> QED BY <1>1, <1>2, <2>1, CountOn
  <1>5. /\ BufferOK(outBuf') /\ Live(outBuf') = Live(outBuf) - k
        /\ Holds(outBuf', Len(wire) + k)
    BY <1>1, <1>2, <1>3, TakeKeeps
  <1>6. Appended' = Appended /\ Appended <= offered
    BY <1>1, <1>2 DEF Appended
  <1>7. Len(wire') <= offered
    BY <1>1, <1>3, <1>4, <1>6
  <1>8. SendInv'
    BY <1>1, <1>2, <1>3, <1>4, <1>5, <1>6, <1>7
       DEF SendInv, OutputIntact
  <1>9. RecvInv'
    <2>1. pc' # "recv" /\ UNCHANGED recvVars
      BY <1>2
    <2> QED BY <2>1, RecvFrame DEF IInv
  <1> QED BY <1>1, <1>2, <1>4, <1>7, <1>8, <1>9 DEF IInv, Control

LEMMA SendFailsInv == IInv /\ SendFails => IInv'
  <1> SUFFICES ASSUME IInv, SendFails PROVE IInv'
    OBVIOUS
  <1>1. RecvInv'
    <2>1. pc' # "recv" /\ UNCHANGED recvVars
      BY DEF SendFails
    <2> QED BY <2>1, RecvFrame DEF IInv
  <1> QED BY <1>1 DEF SendFails, IInv, SendInv, OutputIntact, Control

\* What the end of a flush shares with the end of an append.
LEMMA FlushReturnsInv == IInv /\ FlushReturns => IInv'
  <1> SUFFICES ASSUME IInv, FlushReturns PROVE IInv'
    OBVIOUS
  <1>1. RecvInv'
    <2>1. pc' # "recv" /\ UNCHANGED recvVars
      BY DEF FlushReturns
    <2> QED BY <2>1, RecvFrame DEF IInv
  <1>2. BufferOK(outBuf') /\ Keeps(outBuf', outBuf)
    BY ResetKeeps DEF FlushReturns, IInv, SendInv
  <1>3. Len(wire) \in Int
    BY LenProperties DEF IInv, SendInv, Counted
  <1> QED BY <1>1, <1>2, <1>3
          DEF FlushReturns, IInv, SendInv, OutputIntact, Appended, Keeps,
              Control

LEMMA AppendReturnsInv == IInv /\ AppendReturns => IInv'
  <1> SUFFICES ASSUME IInv, AppendReturns PROVE IInv'
    OBVIOUS
  <1>1. RecvInv'
    <2>1. pc' # "recv" /\ UNCHANGED recvVars
      BY DEF AppendReturns
    <2> QED BY <2>1, RecvFrame DEF IInv
  <1> DEFINE r == MaybeReset(outBuf)
             b == MaybeResize(r, nBytes)
  <1>2. /\ BufferOK(outBuf) /\ Counted(wire) /\ Len(wire) \in Int
        /\ Len(wire) \in Nat /\ nBytes \in Nat /\ offered \in Nat
        /\ Len(wire) <= offered /\ writable \in BOOLEAN
        /\ Live(outBuf) \in Nat
    BY BufferParts, LenProperties DEF IInv, SendInv, Counted
  <1>3. /\ pc = "append" /\ pc' = "idle"
        /\ UNCHANGED <<nBytes, writable, offered, wire>>
        /\ outBuf' = Stored(b, nBytes, offered - nBytes)
    BY DEF AppendReturns
  <1>4. writable => /\ offered - nBytes = Len(wire) + Live(outBuf)
                    /\ Holds(outBuf, Len(wire))
    BY <1>3 DEF IInv, SendInv, OutputIntact, Appended
  <1>5. BufferOK(r) /\ Keeps(r, outBuf)
    BY <1>2, ResetKeeps
  <1> HIDE DEF r
  <1>6. BufferOK(b) /\ Keeps(b, r) /\ HasRoom(b, nBytes)
    BY <1>2, <1>5, ResizeKeeps
  <1> HIDE DEF b
  <1>7. Live(b) = Live(outBuf) /\ (Holds(outBuf, Len(wire)) => Holds(b, Len(wire)))
    BY <1>2, <1>5, <1>6 DEF Keeps
  <1>8. /\ BufferOK(outBuf') /\ Live(outBuf') = Live(outBuf) + nBytes
        /\ \A first \in Int :
              Holds(b, first) /\ offered - nBytes = first + Live(b)
                 => Holds(outBuf', first)
    <2>1. offered - nBytes \in Int
      BY <1>2
    <2> QED BY <1>2, <1>3, <1>6, <1>7, <2>1, StoreKeeps
  <1>9. writable => /\ offered = Len(wire) + Live(outBuf')
                    /\ Holds(outBuf', Len(wire))
    BY <1>2, <1>4, <1>7, <1>8
  <1>10. SendInv'
    BY <1>2, <1>3, <1>8, <1>9 DEF SendInv, OutputIntact, Appended
  <1> QED BY <1>1, <1>2, <1>3, <1>10 DEF IInv, Control

\* What is read is what the peer's stream has next.
LEMMA ReadBufferedInv ==
    ASSUME IInv, NEW n \in ReadSizes, ReadBuffered(n)
    PROVE  IInv' /\ Stream!Continues(got, got')
  <1>1. /\ BufferOK(inBuf) /\ Counted(got) /\ Len(got) \in Nat /\ n \in Nat
        /\ n <= Live(inBuf) /\ Live(inBuf) \in Nat /\ received \in Nat
        /\ received = Len(got) + Live(inBuf) /\ Holds(inBuf, Len(got))
    BY BufferParts, LenProperties, BufferAssumption
       DEF IInv, RecvInv, Counted, InputIntact, ReadBuffered
  <1>2. /\ pc = "idle" /\ got' = got \o Front(inBuf, n)
        /\ inBuf' = Without(inBuf, n)
        /\ UNCHANGED <<pc, nBytes, readable, received, sendVars>>
    BY DEF ReadBuffered
  <1>3. /\ Counted(got') /\ Len(got') = Len(got) + n
        /\ Stream!Continues(got, got')
    <2>1. /\ Front(inBuf, n) \in Seq(Int) /\ Len(Front(inBuf, n)) = n
          /\ \A i \in 1..n : Front(inBuf, n)[i] = Len(got) + i - 1
      BY <1>1, FrontSequence
    <2> QED BY <1>1, <1>2, <2>1, CountOn
  <1>4. /\ BufferOK(inBuf') /\ Live(inBuf') = Live(inBuf) - n
        /\ Holds(inBuf', Len(got) + n)
    BY <1>1, <1>2, TakeKeeps
  <1>5. RecvInv'
    BY <1>1, <1>2, <1>3, <1>4 DEF IInv, RecvInv, InputIntact, RecvHasRoom
  <1>6. SendInv'
    <2>1. /\ UNCHANGED sendVars /\ pc # "append" /\ pc # "aborted"
          /\ pc' # "append"
      BY <1>2
    <2> QED BY <2>1, SendFrame DEF IInv
  <1> QED BY <1>2, <1>3, <1>5, <1>6 DEF IInv

\* Before it calls recv() the code has made room for all it waits for.
LEMMA ReadMoreInv ==
    ASSUME IInv, NEW n \in ReadSizes, ReadMore(n)
    PROVE  IInv'
  <1> n \in Nat
    BY BufferAssumption
  <1> DEFINE r == MaybeReset(inBuf)
  <1>1. /\ BufferOK(inBuf) /\ Counted(got) /\ Len(got) \in Int
        /\ Live(inBuf) \in Nat /\ Live(inBuf) < n
        /\ Holds(inBuf, Len(got))
    BY BufferParts, LenProperties
       DEF IInv, RecvInv, Counted, InputIntact, ReadMore
  <1>2. /\ pc = "idle" /\ pc' = "recv" /\ nBytes' = n
        /\ inBuf' = MaybeResize(r, n)
        /\ UNCHANGED <<readable, received, got, sendVars>>
    BY DEF ReadMore
  <1>3. BufferOK(r) /\ Keeps(r, inBuf)
    BY <1>1, ResetKeeps
  <1> HIDE DEF r
  <1>4. BufferOK(inBuf') /\ Keeps(inBuf', r) /\ HasRoom(inBuf', n)
    BY <1>2, <1>3, ResizeKeeps
  <1>5. Live(inBuf') = Live(inBuf) /\ Holds(inBuf', Len(got))
    BY <1>1, <1>3, <1>4 DEF Keeps
  <1>6. n - Live(inBuf') <= inBuf'.bufSize - inBuf'.pEnd
    <2>1. inBuf'.bufSize \in Nat /\ inBuf'.pEnd \in Nat
      BY <1>4, BufferParts
    <2> QED BY <1>1, <1>4, <1>5, <2>1 DEF HasRoom
  <1>7. RecvInv'
    BY <1>1, <1>2, <1>4, <1>5, <1>6 DEF IInv, RecvInv, InputIntact, RecvHasRoom
  <1>8. SendInv'
    <2>1. /\ UNCHANGED sendVars /\ pc # "append" /\ pc # "aborted"
          /\ pc' # "append"
      BY <1>2
    <2> QED BY <2>1, SendFrame DEF IInv
  <1> QED BY <1>2, <1>7, <1>8 DEF IInv, Control

\* recv() stores behind the live bytes, and a read that is complete takes the
\* first of them.
LEMMA RecvSomeInv ==
    ASSUME IInv, NEW k \in 1..MaxBytes, RecvSome(k)
    PROVE  IInv' /\ Stream!Continues(got, got')
  <1> DEFINE b == Stored(inBuf, k, received)
  <1>1. /\ BufferOK(inBuf) /\ Counted(got) /\ Len(got) \in Int
        /\ Len(got) \in Nat /\ k \in Nat /\ nBytes \in Nat
        /\ Live(inBuf) \in Nat /\ received \in Nat
        /\ received = Len(got) + Live(inBuf) /\ Holds(inBuf, Len(got))
        /\ inBuf.bufSize \in Nat /\ inBuf.pEnd \in Nat
    BY BufferParts, LenProperties, BufferAssumption
       DEF IInv, RecvInv, Counted, InputIntact
  <1>2. /\ pc = "recv" /\ received' = received + k
        /\ UNCHANGED <<nBytes, readable, sendVars>>
        /\ k <= inBuf.bufSize - inBuf.pEnd
    BY <1>1 DEF RecvSome
  <1>3. /\ Live(inBuf) < nBytes
        /\ nBytes - Live(inBuf) <= inBuf.bufSize - inBuf.pEnd
    BY <1>2 DEF IInv, RecvInv, RecvHasRoom
  <1>4. /\ BufferOK(b) /\ b.bufSize = inBuf.bufSize
        /\ b.pEnd = inBuf.pEnd + k /\ Live(b) = Live(inBuf) + k
        /\ Holds(b, Len(got))
    <2>1. HasRoom(inBuf, k)
      BY <1>1, <1>2 DEF HasRoom
    <2> QED BY <1>1, <2>1, StoreKeeps
  <1>5. \/ /\ Live(b) < nBytes
           /\ inBuf' = b
           /\ UNCHANGED <<pc, got>>
        \/ /\ Live(b) >= nBytes
           /\ inBuf' = Without(b, nBytes)
           /\ got' = got \o Front(b, nBytes)
           /\ pc' = "idle"
    <2>1. IF Live(b) < nBytes
          THEN inBuf' = b /\ UNCHANGED <<pc, got>>
          ELSE /\ inBuf' = Without(b, nBytes)
               /\ got' = got \o Front(b, nBytes)
               /\ pc' = "idle"
      BY DEF RecvSome
    <2>2. Live(b) \in Int /\ nBytes \in Int
      BY <1>1, <1>4
    <2> HIDE DEF b
    <2>3. Live(b) < nBytes \/ Live(b) >= nBytes
      BY <2>2
    <2>4. Live(b) >= nBytes => ~(Live(b) < nBytes)
      BY <2>2
    <2> QED BY <2>1, <2>3, <2>4
  <1> HIDE DEF b
  <1>6. CASE /\ Live(b) < nBytes
             /\ inBuf' = b
             /\ UNCHANGED <<pc, got>>
    <2>1. RecvInv'
      <3>1. /\ received' = received + k /\ received' \in Nat
            /\ readable' \in BOOLEAN /\ Counted(got') /\ BufferOK(inBuf')
        BY <1>1, <1>2, <1>4, <1>6 DEF IInv, RecvInv, Counted
      <3>2. Len(got') = Len(got) /\ Live(inBuf') = Live(inBuf) + k
        BY <1>4, <1>6
      <3>3. InputIntact'
        BY <1>1, <1>4, <1>6, <3>1, <3>2 DEF InputIntact
      <3>4. RecvHasRoom'
        <4>1. Live(inBuf') < nBytes /\ nBytes' = nBytes
          BY <1>2, <1>6
        <4>2. /\ inBuf'.bufSize = inBuf.bufSize
              /\ inBuf'.pEnd = inBuf.pEnd + k
          BY <1>4, <1>6
        <4>3. \A x, l, size, end \in Nat :
                 x - l <= size - end => x - (l + k) <= size - (end + k)
          BY <1>1
        <4>4. nBytes - Live(inBuf') <= inBuf'.bufSize - inBuf'.pEnd
          BY <1>1, <1>3, <3>2, <4>2, <4>3
        <4> QED BY <4>1, <4>4 DEF RecvHasRoom
      <3> QED BY <3>1, <3>3, <3>4 DEF RecvInv
    <2>2. SendInv'
      BY <1>2, <1>6, SendFrame DEF IInv
    <2>3. Stream!Continues(got, got')
      BY <1>1, <1>6 DEF Stream!Continues
    <2> QED BY <1>2, <1>6, <2>1, <2>2, <2>3 DEF IInv
  <1>7. CASE /\ Live(b) >= nBytes
             /\ inBuf' = Without(b, nBytes)
             /\ got' = got \o Front(b, nBytes)
             /\ pc' = "idle"
    <2>1. /\ Front(b, nBytes) \in Seq(Int) /\ Len(Front(b, nBytes)) = nBytes
          /\ \A i \in 1..nBytes : Front(b, nBytes)[i] = Len(got) + i - 1
      <3>1. nBytes <= Live(b)
        BY <1>1, <1>4, <1>7
      <3> QED BY <1>1, <1>4, <3>1, FrontSequence
    <2>2. /\ Counted(got') /\ Len(got') = Len(got) + nBytes
          /\ Stream!Continues(got, got')
      BY <1>1, <1>7, <2>1, CountOn
    <2>3. /\ BufferOK(inBuf') /\ Live(inBuf') = Live(b) - nBytes
          /\ Holds(inBuf', Len(got) + nBytes)
      <3>1. nBytes <= Live(b)
        BY <1>1, <1>4, <1>7
      <3> QED BY <1>1, <1>4, <1>7, <3>1, TakeKeeps
    <2>4. RecvInv'
      <3>1. /\ received' = received + k /\ received' \in Nat
            /\ readable' \in BOOLEAN
        BY <1>1, <1>2 DEF IInv, RecvInv
      <3>2. InputIntact'
        BY <1>1, <1>4, <2>2, <2>3, <3>1 DEF IInv, RecvInv, InputIntact, BufferOK, Live
      <3>3. RecvHasRoom'
        BY <1>7 DEF RecvHasRoom
      <3> QED BY <2>2, <2>3, <3>1, <3>2, <3>3 DEF RecvInv
    <2>5. SendInv'
      BY <1>2, <1>7, SendFrame DEF IInv
    <2> QED BY <1>2, <1>7, <2>2, <2>4, <2>5 DEF IInv, Control
  <1> QED BY <1>5, <1>6, <1>7

LEMMA RecvFailsInv == IInv /\ RecvFails => IInv'
  BY SendFrame
     DEF RecvFails, IInv, RecvInv, InputIntact, RecvHasRoom, Control

LEMMA InterruptedInv == IInv /\ Interrupted => IInv'
  <1> SUFFICES ASSUME IInv, Interrupted PROVE IInv'
    OBVIOUS
  <1>1. RecvInv'
    <2>1. pc' # "recv" /\ UNCHANGED recvVars
      BY DEF Interrupted
    <2> QED BY <2>1, RecvFrame DEF IInv
  <1>2. SendInv'
    BY DEF Interrupted, IInv, SendInv, sendVars, OutputIntact
  <1> QED BY <1>1, <1>2 DEF Interrupted, IInv, Control

\* Disconnect and the entry into plcBufferFlush only move the control.
LEMMA ControlInv == IInv /\ (Disconnect \/ Flush) => IInv'
  <1> SUFFICES ASSUME IInv, Disconnect \/ Flush PROVE IInv'
    OBVIOUS
  <1>1. /\ pc = "idle" /\ pc' \in {"closed", "flush"}
        /\ UNCHANGED <<nBytes, sendVars, recvVars>>
    BY DEF Disconnect, Flush
  <1>2. SendInv'
    BY <1>1, SendFrame DEF IInv
  <1>3. RecvInv'
    BY <1>1, RecvFrame DEF IInv
  <1> QED BY <1>1, <1>2, <1>3 DEF IInv, Control

\* Every step keeps the invariant.
LEMMA NextIInv == IInv /\ [Next]_vars => IInv'
  <1> SUFFICES ASSUME IInv, [Next]_vars PROVE IInv'
    OBVIOUS
  <1>1. CASE Connect
    BY <1>1, ConnectInv
  <1>2. CASE Disconnect \/ Flush
    BY <1>2, ControlInv
  <1>3. CASE \E n \in AppendSizes : BufferAppend(n)
    BY <1>3, AppendInv
  <1>4. CASE \E k \in 1..MaxBytes : SendSome(k)
    BY <1>4, SendSomeInv
  <1>5. CASE SendFails
    BY <1>5, SendFailsInv
  <1>6. CASE FlushReturns
    BY <1>6, FlushReturnsInv
  <1>7. CASE AppendReturns
    BY <1>7, AppendReturnsInv
  <1>8. CASE \E n \in ReadSizes : BufferRead(n)
    BY <1>8, ReadBufferedInv, ReadMoreInv DEF BufferRead
  <1>9. CASE \E k \in 1..MaxBytes : RecvSome(k)
    BY <1>9, RecvSomeInv
  <1>10. CASE RecvFails
    BY <1>10, RecvFailsInv
  <1>11. CASE Interrupted
    BY <1>11, InterruptedInv
  <1>12. CASE UNCHANGED vars
    BY <1>12 DEF vars, IInv, SendInv, RecvInv, OutputIntact, Appended,
                 InputIntact, RecvHasRoom
  <1> QED BY <1>1, <1>2, <1>3, <1>4, <1>5, <1>6, <1>7, <1>8, <1>9, <1>10,
             <1>11, <1>12 DEF Next

\* The inductive invariant holds in every reachable state.
THEOREM Invariance == Spec => []IInv
  BY InitIInv, NextIInv, PTL DEF Spec

-----------------------------------------------------------------------------
(* The theorems.                                                           *)

\* plcBuffer stays well formed: the type invariant holds.
THEOREM TypeCorrect == Spec => []TypeOK
  <1>1. IInv => TypeOK
    BY DEF IInv, SendInv, RecvInv, TypeOK, BufferOK, Counted
  <1> QED BY <1>1, Invariance, PTL

\* The asserts of plcBufferAppend and plcBufferReceive never fail, whatever
\* the buffer size and the sizes of the requests.
THEOREM BoundsKept == Spec => []WithinBounds
  <1>1. IInv => WithinBounds
    BY DEF IInv, SendInv, RecvInv, WithinBounds, BufferOK
  <1> QED BY <1>1, Invariance, PTL

\* The output buffer loses, repeats and reorders no byte.
THEOREM OutputKept == Spec => []OutputIntact
  <1>1. IInv => OutputIntact
    BY DEF IInv, SendInv
  <1> QED BY <1>1, Invariance, PTL

\* The input buffer loses, repeats and reorders no byte.
THEOREM InputKept == Spec => []InputIntact
  <1>1. IInv => InputIntact
    BY DEF IInv, RecvInv
  <1> QED BY <1>1, Invariance, PTL

\* recv() is always given room for all that is waited for.
THEOREM RoomForRecv == Spec => []RecvHasRoom
  <1>1. IInv => RecvHasRoom
    BY DEF IInv, RecvInv
  <1> QED BY <1>1, Invariance, PTL

\* plcBufferFlush returns success only when all that was offered is sent.
THEOREM FlushIsComplete == Spec => FlushDrains
  <1>1. IInv /\ [Next]_vars =>
           [FlushReturns => /\ Live(outBuf') = 0 /\ outBuf'.pStart = 0
                            /\ writable => Len(wire) = offered]_vars
    <2> SUFFICES ASSUME IInv, FlushReturns
                 PROVE  /\ Live(outBuf') = 0 /\ outBuf'.pStart = 0
                        /\ writable => Len(wire) = offered
      OBVIOUS
    <2>1. /\ BufferOK(outBuf) /\ Live(outBuf) = 0 /\ pc = "flush"
          /\ outBuf' = MaybeReset(outBuf)
      BY DEF FlushReturns, IInv, SendInv
    <2>2. Live(outBuf') = 0 /\ outBuf'.pStart = 0
      BY <2>1, ResetKeeps DEF Keeps
    <2>3. writable => Len(wire) = offered
      <3>1. Len(wire) \in Nat
        BY LenProperties DEF IInv, SendInv, Counted
      <3> QED BY <2>1, <3>1 DEF IInv, SendInv, OutputIntact, Appended
    <2> QED BY <2>2, <2>3
  <1> QED BY <1>1, Invariance, PTL DEF Spec, FlushDrains

\* A plcConn is the reliable byte stream of ByteStream in both directions,
\* also when callers ignore a failed append.
THEOREM Refinement == Spec => StreamSpec
  <1>1. Init => Stream!Init
    BY DEF Init, Stream!Init
  <1>2. IInv /\ [Next]_vars => [Stream!Next]_(Stream!streamVars)
    <2> SUFFICES ASSUME IInv, [Next]_vars
                 PROVE  Stream!Next \/ UNCHANGED Stream!streamVars
      OBVIOUS
    <2> USE DEF Stream!Next, Stream!streamVars
    <2>1. CASE Connect
      BY <2>1 DEF Connect, FreshConnection, Stream!Open
    <2>2. CASE \E n \in AppendSizes : BufferAppend(n)
      <3>1. PICK n \in AppendSizes : BufferAppend(n)
        BY <2>2
      <3>2. n \in Nat /\ offered \in Nat
        BY BufferAssumption DEF IInv, SendInv
      <3>3. offered' = offered + n /\ UNCHANGED <<wire, got>>
        BY <3>1 DEF BufferAppend, AppendWithRoom, AppendWithoutFlush,
                    AppendThenFlush, recvVars
      <3>4. CASE n = 0
        BY <3>2, <3>3, <3>4
      <3>5. CASE n # 0
        BY <3>2, <3>3, <3>5 DEF Stream!Offer
      <3> QED BY <3>4, <3>5
    <2>3. CASE \E k \in 1..MaxBytes : SendSome(k)
      <3>1. PICK k \in 1..MaxBytes : SendSome(k)
        BY <2>3
      <3>2. /\ Stream!Continues(wire, wire') /\ Len(wire') <= offered
        BY <3>1, SendSomeInv
      <3> QED BY <3>1, <3>2 DEF Stream!Transmit, SendSome, recvVars
    <2>4. CASE \E n \in ReadSizes : BufferRead(n)
      <3>1. PICK n \in ReadSizes : BufferRead(n)
        BY <2>4
      <3>2. CASE ReadBuffered(n)
        <4>1. Stream!Continues(got, got')
          BY <3>2, ReadBufferedInv
        <4> QED BY <3>2, <4>1 DEF Stream!Take, ReadBuffered, sendVars
      <3>3. CASE ReadMore(n)
        BY <3>3 DEF ReadMore, sendVars
      <3> QED BY <3>1, <3>2, <3>3 DEF BufferRead
    <2>5. CASE \E k \in 1..MaxBytes : RecvSome(k)
      <3>1. PICK k \in 1..MaxBytes : RecvSome(k)
        BY <2>5
      <3>2. Stream!Continues(got, got')
        BY <3>1, RecvSomeInv
      <3> QED BY <3>1, <3>2 DEF Stream!Take, RecvSome, sendVars
    <2>6. CASE \/ Disconnect \/ Flush \/ SendFails \/ FlushReturns
               \/ AppendReturns \/ RecvFails \/ Interrupted \/ UNCHANGED vars
      BY <2>6 DEF Disconnect, Flush, SendFails, FlushReturns, AppendReturns,
                  RecvFails, Interrupted, vars, sendVars, recvVars
    <2> QED BY <2>1, <2>2, <2>3, <2>4, <2>5, <2>6 DEF Next
  <1> QED BY <1>1, <1>2, Invariance, PTL DEF Spec, StreamSpec, Stream!Spec

-----------------------------------------------------------------------------
(* The size of the buffers.                                                *)

\* s is a size that a buffer may have when SizeFor is asked for no more than
\* the numbers of T: a multiple of the first size, and within one of these.
Sized(s, T) ==
    /\ s % BufferSize = 0
    /\ s = BufferSize \/ \E t \in T : s <= SizeFor(t)

\* What is asked for to append, and to read: the bytes left in the buffer are
\* no more than what a flush leaves and than what one read waits for.
AppendNeeds == {BufferSize + n + MinFree : n \in AppendSizes}
ReadNeeds == {2 * n + MinFree : n \in ReadSizes}

\* A thread that flushes for an append knows how much it appends.
SizeInv ==
    /\ Sized(outBuf.bufSize, AppendNeeds)
    /\ Sized(inBuf.bufSize, ReadNeeds)
    /\ pc = "append" => nBytes \in AppendSizes

\* SizeFor is the next multiple of the buffer size, and grows with what it is
\* asked for.
LEMMA SizeForNext ==
    ASSUME NEW x \in Nat
    PROVE  /\ SizeFor(x) \in Nat
           /\ SizeFor(x) % BufferSize = 0
           /\ SizeFor(x) <= x + BufferSize
           /\ \A y \in Nat : x <= y => SizeFor(x) <= SizeFor(y)
  <1> DEFINE q(z) == z \div BufferSize
  <1>1. BufferSize \in Nat \ {0}
    BY BufferAssumption
  <1>2. \A z \in Nat : q(z) \in Nat /\ BufferSize * q(z) <= z
    BY <1>1
  <1>3. \A y \in Nat : x <= y => q(x) <= q(y)
    BY <1>1
  <1>4. \A z \in Nat : SizeFor(z) = (q(z) + 1) * BufferSize
    BY DEF SizeFor
  <1> HIDE DEF q
  <1>5. \A k \in Nat : (k * BufferSize) % BufferSize = 0
    BY <1>1
  <1>6. \A k, m \in Nat : k <= m => k * BufferSize <= m * BufferSize
    BY <1>1
  <1>7. SizeFor(x) \in Nat /\ SizeFor(x) = BufferSize * q(x) + BufferSize
    BY <1>1, <1>2, <1>4
  <1>8. SizeFor(x) % BufferSize = 0
    BY <1>2, <1>4, <1>5
  <1>9. SizeFor(x) <= x + BufferSize
    BY <1>1, <1>2, <1>7
  <1>10. ASSUME NEW y \in Nat, x <= y
         PROVE  SizeFor(x) <= SizeFor(y)
    BY <1>2, <1>3, <1>4, <1>6, <1>10
  <1> QED BY <1>7, <1>8, <1>9, <1>10

\* A buffer grows no further than the request asks, and what it shrinks to is
\* smaller than what it was.
LEMMA ResizeSized ==
    ASSUME NEW T \in SUBSET Nat, NEW b, BufferOK(b), Sized(b.bufSize, T),
           NEW n \in Nat, NEW t \in T, Live(b) + n + MinFree <= t
    PROVE  Sized(MaybeResize(b, n).bufSize, T)
  <1> DEFINE dataSize == Live(b) + n + MinFree
             s == b.bufSize
  <1>1. /\ s \in Nat /\ dataSize \in Nat /\ dataSize * 2 \in Nat /\ t \in Nat
        /\ dataSize <= t /\ BufferSize \in Nat \ {0}
    BY BufferParts, BufferAssumption
  <1>2. ASSUME NEW size \in Nat
        PROVE  Reallocated(b, size).bufSize = size
    BY BufferFields DEF Reallocated, Repacked
  <1>3. Sized(s, T)
    OBVIOUS
  <1>4. MaybeResize(b, n) = IF dataSize < s \div 5 /\ s > BufferSize
                            THEN Reallocated(b, SizeFor(dataSize * 2))
                            ELSE IF b.pEnd + n > s - MinFree
                            THEN Reallocated(b, SizeFor(dataSize))
                            ELSE b
    BY DEF MaybeResize
  <1>5. b.bufSize = s
    OBVIOUS
  <1> HIDE DEF dataSize, s
  <1>6. CASE dataSize < s \div 5 /\ s > BufferSize
    <2> DEFINE small == SizeFor(dataSize * 2)
    <2>1. /\ small \in Nat /\ small % BufferSize = 0
          /\ small <= dataSize * 2 + BufferSize
      BY <1>1, SizeForNext
    <2> HIDE DEF small
    <2>2. 2 * BufferSize <= s
      <3>1. PICK q \in Nat : s = q * BufferSize
        BY <1>1, <1>3 DEF Sized
      <3>2. q # 0 /\ q # 1
        BY <1>1, <1>6, <3>1
      <3>3. 2 * BufferSize <= q * BufferSize
        BY <1>1, <3>2
      <3> QED BY <3>1, <3>3
    <2>3. 5 * dataSize < s
      BY <1>1, <1>6
    <2>4. small <= s
      BY <1>1, <2>1, <2>2, <2>3
    <2>5. PICK u \in T : s <= SizeFor(u)
      BY <1>1, <1>3, <1>6 DEF Sized
    <2>6. small <= SizeFor(u)
      <3>1. SizeFor(u) \in Nat
        BY SizeForNext
      <3> QED BY <1>1, <2>1, <2>4, <2>5, <3>1
    <2>7. MaybeResize(b, n).bufSize = small
      BY <1>2, <1>4, <1>6, <2>1 DEF small
    <2> QED BY <2>1, <2>6, <2>7 DEF Sized
  <1>7. CASE /\ ~(dataSize < s \div 5 /\ s > BufferSize)
             /\ b.pEnd + n > s - MinFree
    <2>1. /\ SizeFor(dataSize) \in Nat /\ SizeFor(dataSize) % BufferSize = 0
          /\ SizeFor(dataSize) <= SizeFor(t)
      BY <1>1, SizeForNext
    <2>2. MaybeResize(b, n).bufSize = SizeFor(dataSize)
      BY <1>2, <1>4, <1>7, <2>1
    <2> QED BY <2>1, <2>2 DEF Sized
  <1>8. CASE /\ ~(dataSize < s \div 5 /\ s > BufferSize)
             /\ ~(b.pEnd + n > s - MinFree)
    BY <1>3, <1>4, <1>5, <1>8
  <1> QED BY <1>6, <1>7, <1>8

\* The sizes asked for are numbers.
LEMMA NeedsAreNumbers ==
    /\ AppendNeeds \in SUBSET Nat
    /\ ReadNeeds \in SUBSET Nat
    /\ \A n \in AppendSizes : n \in Nat /\ BufferSize + n + MinFree \in AppendNeeds
    /\ \A n \in ReadSizes : n \in Nat /\ 2 * n + MinFree \in ReadNeeds
  BY BufferAssumption DEF AppendNeeds, ReadNeeds

\* A buffer that was just allocated has the first size.
LEMMA EmptySized == \A T : Sized(EmptyBuffer.bufSize, T)
  <1>1. BufferSize % BufferSize = 0
    BY BufferAssumption
  <1> QED BY <1>1, BufferFields DEF Sized, EmptyBuffer

\* Storing and taking bytes leaves the memory of a buffer as it is.
LEMMA SameSize ==
    ASSUME NEW b, NEW n, NEW byte
    PROVE  /\ Stored(b, n, byte).bufSize = b.bufSize
           /\ Without(b, n).bufSize = b.bufSize
  BY BufferFields DEF Stored, Without

\* An append asks for room after the flush has left at most BufferSize bytes.
LEMMA AppendSized ==
    ASSUME IInv, SizeInv, NEW n \in AppendSizes, NEW first,
           Live(MaybeReset(outBuf)) <= BufferSize
    PROVE  Sized(Stored(MaybeResize(MaybeReset(outBuf), n), n, first).bufSize,
                 AppendNeeds)
  <1> DEFINE r == MaybeReset(outBuf)
             T == AppendNeeds
             t == BufferSize + n + MinFree
  <1>1. BufferOK(r) /\ r.bufSize = outBuf.bufSize
    BY ResetKeeps DEF IInv, SendInv
  <1>2. Sized(r.bufSize, T)
    BY <1>1 DEF SizeInv
  <1>3. /\ n \in Nat /\ t \in T /\ T \in SUBSET Nat
    BY NeedsAreNumbers
  <1>4. Live(r) <= BufferSize
    OBVIOUS
  <1> HIDE DEF r, T
  <1>5. Live(r) + n + MinFree <= t
    BY <1>1, <1>3, <1>4, BufferParts, BufferAssumption
  <1> HIDE DEF t
  <1>6. Sized(MaybeResize(r, n).bufSize, T)
    BY <1>1, <1>2, <1>3, <1>5, ResizeSized
  <1> QED BY <1>6, SameSize DEF r, T

\* A read asks for room when fewer bytes are left than it waits for.
LEMMA ReadSized ==
    ASSUME IInv, SizeInv, NEW n \in ReadSizes, Live(inBuf) < n
    PROVE  Sized(MaybeResize(MaybeReset(inBuf), n).bufSize, ReadNeeds)
  <1> DEFINE r == MaybeReset(inBuf)
             T == ReadNeeds
             t == 2 * n + MinFree
  <1>1. BufferOK(r) /\ r.bufSize = inBuf.bufSize /\ Live(r) = Live(inBuf)
    BY ResetKeeps DEF IInv, RecvInv, Keeps
  <1>2. Sized(r.bufSize, T)
    BY <1>1 DEF SizeInv
  <1>3. n \in Nat /\ t \in T /\ T \in SUBSET Nat
    BY NeedsAreNumbers
  <1>4. Live(r) < n
    BY <1>1
  <1> HIDE DEF r, T
  <1>5. Live(r) + n + MinFree <= t
    BY <1>1, <1>3, <1>4, BufferParts, BufferAssumption
  <1> HIDE DEF t
  <1>6. Sized(MaybeResize(r, n).bufSize, T)
    BY <1>1, <1>2, <1>3, <1>5, ResizeSized
  <1> QED BY <1>6 DEF r, T

\* The first sizes are sizes of both buffers.
LEMMA InitSized == Init => SizeInv
  BY EmptySized DEF Init, SizeInv

\* An append keeps the sizes: it stores where there is room, makes room in a
\* buffer that need not be flushed, or remembers how much it will append.
LEMMA AppendKeepsSizes ==
    ASSUME IInv, SizeInv, NEW n \in AppendSizes, BufferAppend(n)
    PROVE  SizeInv'
  <1>1. CASE AppendWithRoom(n)
    BY <1>1, SameSize DEF AppendWithRoom, SizeInv, recvVars
  <1>2. CASE AppendWithoutFlush(n)
    <2>1. BufferOK(MaybeReset(outBuf))
      BY ResetKeeps DEF IInv, SendInv
    <2>2. Live(MaybeReset(outBuf)) <= BufferSize
      BY <1>2, <2>1, BufferParts, BufferAssumption DEF AppendWithoutFlush, MustFlush
    <2>3. Sized(outBuf'.bufSize, AppendNeeds)
      BY <1>2, <2>2, AppendSized DEF AppendWithoutFlush
    <2> QED BY <1>2, <2>3 DEF AppendWithoutFlush, SizeInv, recvVars
  <1>3. CASE AppendThenFlush(n)
    <2>1. outBuf'.bufSize = outBuf.bufSize
      BY <1>3, ResetKeeps DEF AppendThenFlush, IInv, SendInv
    <2> QED BY <1>3, <2>1 DEF AppendThenFlush, SizeInv, recvVars
  <1> QED BY <1>1, <1>2, <1>3 DEF BufferAppend

\* The end of a flush keeps the sizes: nothing is left in the buffer.
LEMMA FlushKeepsSizes ==
    ASSUME IInv, SizeInv, FlushReturns \/ AppendReturns
    PROVE  SizeInv'
  <1>1. BufferOK(outBuf)
    BY DEF IInv, SendInv
  <1>2. CASE FlushReturns
    <2>1. outBuf'.bufSize = outBuf.bufSize
      BY <1>1, <1>2, ResetKeeps DEF FlushReturns
    <2> QED BY <1>2, <2>1 DEF FlushReturns, SizeInv, recvVars
  <1>3. CASE AppendReturns
    <2>1. nBytes \in AppendSizes
      BY <1>3 DEF AppendReturns, SizeInv
    <2>2. Live(MaybeReset(outBuf)) <= BufferSize
      BY <1>1, <1>3, ResetKeeps, BufferAssumption DEF AppendReturns, Keeps
    <2>3. Sized(outBuf'.bufSize, AppendNeeds)
      BY <1>3, <2>1, <2>2, AppendSized DEF AppendReturns
    <2> QED BY <1>3, <2>3 DEF AppendReturns, SizeInv, recvVars
  <1> QED BY <1>2, <1>3

\* A read keeps the sizes: it takes what is there, or makes room for the rest.
LEMMA ReadKeepsSizes ==
    ASSUME IInv, SizeInv, NEW n \in ReadSizes, BufferRead(n)
    PROVE  SizeInv'
  <1>1. CASE ReadBuffered(n)
    BY <1>1, SameSize DEF ReadBuffered, SizeInv, sendVars
  <1>2. CASE ReadMore(n)
    <2>1. Sized(inBuf'.bufSize, ReadNeeds)
      BY <1>2, ReadSized DEF ReadMore
    <2> QED BY <1>2, <2>1 DEF ReadMore, SizeInv, sendVars
  <1> QED BY <1>1, <1>2 DEF BufferRead

\* recv() fills the memory there is.
LEMMA RecvKeepsSizes ==
    ASSUME SizeInv, NEW k, RecvSome(k)
    PROVE  SizeInv'
  <1> DEFINE b == Stored(inBuf, k, received)
  <1>1. b.bufSize = inBuf.bufSize /\ Without(b, nBytes).bufSize = b.bufSize
    BY SameSize
  <1>2. IF Live(b) < nBytes
        THEN inBuf' = b /\ UNCHANGED <<pc, got>>
        ELSE /\ inBuf' = Without(b, nBytes)
             /\ got' = got \o Front(b, nBytes)
             /\ pc' = "idle"
    BY DEF RecvSome
  <1>3. UNCHANGED <<nBytes, outBuf>>
    BY DEF RecvSome, sendVars
  <1> HIDE DEF b
  <1>4. CASE Live(b) < nBytes
    BY <1>1, <1>2, <1>3, <1>4 DEF SizeInv
  <1>5. CASE ~(Live(b) < nBytes)
    BY <1>1, <1>2, <1>3, <1>5 DEF SizeInv
  <1> QED BY <1>4, <1>5

\* Every step keeps the sizes within what the requests need.
LEMMA NextSized == IInv /\ SizeInv /\ [Next]_vars => SizeInv'
  <1> SUFFICES ASSUME IInv, SizeInv, [Next]_vars PROVE SizeInv'
    OBVIOUS
  <1>1. CASE Connect
    BY <1>1, EmptySized DEF Connect, FreshConnection, SizeInv
  <1>2. CASE \E n \in AppendSizes : BufferAppend(n)
    BY <1>2, AppendKeepsSizes
  <1>3. CASE \E k \in 1..MaxBytes : SendSome(k)
    BY <1>3, SameSize DEF SendSome, SizeInv, recvVars
  <1>4. CASE FlushReturns \/ AppendReturns
    BY <1>4, FlushKeepsSizes
  <1>5. CASE \E n \in ReadSizes : BufferRead(n)
    BY <1>5, ReadKeepsSizes
  <1>6. CASE \E k \in 1..MaxBytes : RecvSome(k)
    BY <1>6, RecvKeepsSizes
  <1>7. CASE \/ Disconnect \/ Flush \/ SendFails \/ RecvFails \/ Interrupted
             \/ UNCHANGED vars
    BY <1>7 DEF Disconnect, Flush, SendFails, RecvFails, Interrupted, vars,
                sendVars, recvVars, SizeInv
  <1> QED BY <1>1, <1>2, <1>3, <1>4, <1>5, <1>6, <1>7 DEF Next

\* However long a connection lives, neither buffer grows beyond what its
\* largest request needs, whatever is kept between requests.
THEOREM MemoryBounded == Spec => []BoundedMemory
  <1>1. IInv /\ SizeInv /\ [Next]_vars => IInv' /\ SizeInv'
    BY NextIInv, NextSized
  <1>2. SizeInv => BoundedMemory
    BY DEF SizeInv, Sized, AppendNeeds, ReadNeeds, BoundedMemory
  <1> QED BY <1>1, <1>2, InitIInv, InitSized, PTL DEF Spec
=============================================================================
