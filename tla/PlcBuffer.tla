------------------------------ MODULE PlcBuffer ------------------------------
(***************************************************************************)
(* The buffered connection of src/common/comm_connectivity.c: the output   *)
(* buffer that plcBufferAppend fills and plcBufferFlush drains, the input  *)
(* buffer that plcBufferRead empties and recv() fills, and the resets,     *)
(* moves and reallocations both go through on the way.                     *)
(*                                                                         *)
(* The backend is one thread, so a function runs alone up to its next      *)
(* system call: a send() or a recv() is a step of its own, whose outcome   *)
(* (any short count, an error, EINTR) is the kernel's choice.  The code    *)
(* never looks at the bytes it moves, so a byte is named by its position   *)
(* in the stream of its producer: 0, 1, 2, ...                             *)
(***************************************************************************)
EXTENDS Integers, Sequences

CONSTANTS
    BufferSize,   \* PLC_BUFFER_SIZE
    MinFree,      \* PLC_BUFFER_MIN_FREE
    AppendSizes,  \* the values of nBytes given to plcBufferAppend
    ReadSizes,    \* the values of nBytes given to plcBufferRead
    MaxBytes      \* bound: bytes of one connection, in each direction

ASSUME BufferAssumption ==
    /\ BufferSize \in Nat \ {0}
    /\ MinFree \in Nat
    /\ AppendSizes \subseteq Nat
    /\ ReadSizes \subseteq Nat
    /\ MaxBytes \in Nat

VARIABLES
    pc,        \* what the thread is doing: see Control
    nBytes,    \* the argument of the append or the read in progress
    outBuf,    \* conn->buffer[PLC_OUTPUT_BUFFER]
    inBuf,     \* conn->buffer[PLC_INPUT_BUFFER]
    writable,  \* send() has not failed on this socket
    readable,  \* recv() has reached neither an error nor the end of stream
    offered,   \* bytes the callers gave to plcBufferAppend so far
    wire,      \* bytes send() accepted, in order
    received,  \* bytes recv() returned so far
    got        \* bytes plcBufferRead returned to its callers, in order

sendVars == <<outBuf, writable, offered, wire>>
recvVars == <<inBuf, readable, received, got>>
vars == <<pc, nBytes, outBuf, inBuf, writable, readable, offered, wire,
          received, got>>

\* closed: no connection; idle: open, between two calls; append, flush: in
\* the send loop, entered from plcBufferAppend or plcBufferFlush; recv: in the
\* receive loop; aborted: an EINTR raised an error and the thread left the
\* code by longjmp, with the connection as it was.
Control == {"closed", "idle", "append", "flush", "recv", "aborted"}

-----------------------------------------------------------------------------
(* The buffer: plcBuffer and what is done to it.                           *)

\* What a fresh allocation holds.
Garbage == -1

Allocated(size) == [i \in 0..(size - 1) |-> Garbage]

\* A plcBuffer whose live bytes are those of data from pStart up to pEnd.
Buffer(data, bufSize, pStart, pEnd) ==
    [data |-> data, bufSize |-> bufSize, pStart |-> pStart, pEnd |-> pEnd]

EmptyBuffer == Buffer(Allocated(BufferSize), BufferSize, 0, 0)

Live(b) == b.pEnd - b.pStart

\* memcpy(dst, src + from, n)
Moved(dst, src, from, n) ==
    [i \in DOMAIN dst |-> IF i < n THEN src[from + i] ELSE dst[i]]

\* Mutant: the memcpy to the new place is forgotten.
RepackedNothing(dst, newSize, b) == Buffer(dst, newSize, 0, Live(b))

\* The live bytes of b at the beginning of the memory dst of newSize bytes.
Repacked(dst, newSize, b) ==
    Buffer(Moved(dst, b.data, b.pStart, Live(b)), newSize, 0, Live(b))

\* Mutant: the cursors are reset without looking for live bytes.
RewoundAlways(b) == Buffer(b.data, b.bufSize, 0, 0)

\* plcBufferMaybeReset
Rewound(b) ==
    IF b.pStart = b.pEnd THEN Buffer(b.data, b.bufSize, 0, 0) ELSE b

\* Mutant: pStart is cleared before the memcpy that uses it.
CompactedFromZero(b) ==
    IF b.pStart > b.bufSize \div 2
    THEN Buffer(Moved(b.data, b.data, 0, Live(b)), b.bufSize, 0, Live(b))
    ELSE b

Compacted(b) ==
    IF b.pStart > b.bufSize \div 2
    THEN Repacked(b.data, b.bufSize, b)
    ELSE b

MaybeReset(b) == Compacted(Rewound(b))

\* Mutant: bufSize is updated, the memory is allocated with the old size.
ReallocatedOldSize(b, newSize) == Repacked(Allocated(b.bufSize), newSize, b)

\* plcBufferMaybeResize
Reallocated(b, newSize) == Repacked(Allocated(newSize), newSize, b)

\* Mutant: the size is not rounded up to a multiple of PLC_BUFFER_SIZE.
SizeForExactly(bytes) == bytes

SizeFor(bytes) == (bytes \div BufferSize + 1) * BufferSize

\* Mutant: the growth test forgets the bytes already in the buffer.
MaybeResizeForAppend(b, append) ==
    LET dataSize == Live(b) + append + MinFree IN
    IF append > b.bufSize - MinFree THEN Reallocated(b, SizeFor(dataSize)) ELSE b

MaybeResize(b, append) ==
    LET dataSize == Live(b) + append + MinFree IN
    IF dataSize < b.bufSize \div 5 /\ b.bufSize > BufferSize
    THEN Reallocated(b, SizeFor(dataSize * 2))
    ELSE IF b.pEnd + append > b.bufSize - MinFree
    THEN Reallocated(b, SizeFor(dataSize))
    ELSE b

\* memcpy of n bytes, the first of them named byte, to position at of mem.
Written(mem, at, n, byte) ==
    [i \in DOMAIN mem |->
        IF i \in at..(at + n - 1) THEN byte + (i - at) ELSE mem[i]]

Stored(b, n, byte) ==
    Buffer(Written(b.data, b.pEnd, n, byte), b.bufSize,
           b.pStart, b.pEnd + n)

\* The first n live bytes of b, and b without them.
Front(b, n) == [i \in 1..n |-> b.data[b.pStart + i - 1]]

Without(b, n) == Buffer(b.data, b.bufSize, b.pStart + n, b.pEnd)

-----------------------------------------------------------------------------
(* plcConnInit and plcDisconnect.                                          *)

FreshConnection ==
    /\ outBuf' = EmptyBuffer
    /\ inBuf' = EmptyBuffer
    /\ writable' = TRUE
    /\ readable' = TRUE
    /\ offered' = 0
    /\ wire' = <<>>
    /\ received' = 0
    /\ got' = <<>>

Init ==
    /\ pc = "closed"
    /\ nBytes = 0
    /\ outBuf = EmptyBuffer
    /\ inBuf = EmptyBuffer
    /\ writable = TRUE
    /\ readable = TRUE
    /\ offered = 0
    /\ wire = <<>>
    /\ received = 0
    /\ got = <<>>

\* A later call of the backend opens a connection of its own, whether the
\* last one was closed or left behind by an error.
Connect ==
    /\ pc \in {"closed", "aborted"}
    /\ pc' = "idle"
    /\ nBytes' = 0
    /\ FreshConnection

Disconnect ==
    /\ pc = "idle"
    /\ pc' = "closed"
    /\ UNCHANGED <<nBytes, sendVars, recvVars>>

-----------------------------------------------------------------------------
(* Output: plcBufferAppend, plcBufferFlush, plcBufferMaybeFlush.           *)

HasRoom(b, n) == b.bufSize - b.pEnd >= n

MustFlush(b) == b.bufSize - b.pEnd < MinFree \/ Live(b) > BufferSize

AppendWithRoom(n) ==
    /\ pc = "idle"
    /\ offered + n <= MaxBytes
    /\ HasRoom(outBuf, n)
    /\ outBuf' = Stored(outBuf, n, offered)
    /\ offered' = offered + n
    /\ UNCHANGED <<pc, nBytes, writable, wire, recvVars>>

AppendWithoutFlush(n) ==
    /\ pc = "idle"
    /\ offered + n <= MaxBytes
    /\ ~HasRoom(outBuf, n)
    /\ ~MustFlush(MaybeReset(outBuf))
    /\ outBuf' = Stored(MaybeResize(MaybeReset(outBuf), n), n, offered)
    /\ offered' = offered + n
    /\ UNCHANGED <<pc, nBytes, writable, wire, recvVars>>

AppendThenFlush(n) ==
    /\ pc = "idle"
    /\ offered + n <= MaxBytes
    /\ ~HasRoom(outBuf, n)
    /\ MustFlush(MaybeReset(outBuf))
    /\ outBuf' = MaybeReset(outBuf)
    /\ offered' = offered + n
    /\ nBytes' = n
    /\ pc' = "append"
    /\ UNCHANGED <<writable, wire, recvVars>>

Flush ==
    /\ pc = "idle"
    /\ pc' = "flush"
    /\ UNCHANGED <<nBytes, sendVars, recvVars>>

Sending == pc \in {"append", "flush"}

\* Mutant: a failed send() is repeated, as a failed recv() is.
SendFailsRepeated ==
    /\ Sending
    /\ Live(outBuf) > 0
    /\ writable' = FALSE
    /\ UNCHANGED <<pc, nBytes, outBuf, offered, wire, recvVars>>

\* send() accepts any number of the bytes it is given.
SendSome(k) ==
    /\ Sending
    /\ writable
    /\ k \in 1..Live(outBuf)
    /\ wire' = wire \o Front(outBuf, k)
    /\ outBuf' = Without(outBuf, k)
    /\ UNCHANGED <<pc, nBytes, writable, offered, recvVars>>

\* send() fails: -1 is returned, past the reset, the resize and the memcpy of
\* the append.  Once a stream socket has failed it never takes a byte again.
SendFails ==
    /\ Sending
    /\ Live(outBuf) > 0
    /\ writable' = FALSE
    /\ pc' = "idle"
    /\ UNCHANGED <<nBytes, outBuf, offered, wire, recvVars>>

\* Mutant: a short send() ends the flush.
FlushReturnsEarly ==
    /\ pc = "flush"
    /\ outBuf' = MaybeReset(outBuf)
    /\ pc' = "idle"
    /\ UNCHANGED <<nBytes, writable, offered, wire, recvVars>>

FlushReturns ==
    /\ pc = "flush"
    /\ Live(outBuf) = 0
    /\ outBuf' = MaybeReset(outBuf)
    /\ pc' = "idle"
    /\ UNCHANGED <<nBytes, writable, offered, wire, recvVars>>

AppendReturns ==
    /\ pc = "append"
    /\ Live(outBuf) = 0
    /\ outBuf' = Stored(MaybeResize(MaybeReset(outBuf), nBytes),
                        nBytes, offered - nBytes)
    /\ pc' = "idle"
    /\ UNCHANGED <<nBytes, writable, offered, wire, recvVars>>

-----------------------------------------------------------------------------
(* Input: plcBufferRead and plcBufferReceive.                              *)

ReadBuffered(n) ==
    /\ pc = "idle"
    /\ Live(inBuf) >= n
    /\ Len(got) + n <= MaxBytes
    /\ got' = got \o Front(inBuf, n)
    /\ inBuf' = Without(inBuf, n)
    /\ UNCHANGED <<pc, nBytes, readable, received, sendVars>>

\* Mutant: the buffer is not resized for what is waited for.
ReadMoreInPlace(n) ==
    /\ pc = "idle"
    /\ Live(inBuf) < n
    /\ Len(got) + n <= MaxBytes
    /\ inBuf' = MaybeReset(inBuf)
    /\ nBytes' = n
    /\ pc' = "recv"
    /\ UNCHANGED <<readable, received, got, sendVars>>

ReadMore(n) ==
    /\ pc = "idle"
    /\ Live(inBuf) < n
    /\ Len(got) + n <= MaxBytes
    /\ inBuf' = MaybeResize(MaybeReset(inBuf), n)
    /\ nBytes' = n
    /\ pc' = "recv"
    /\ UNCHANGED <<readable, received, got, sendVars>>

\* recv() returns any number of the bytes there is room for; the loop ends
\* when the bytes the caller waits for are there.  (A recv() that times out
\* is repeated: a step that changes nothing.)
RecvSome(k) ==
    /\ pc = "recv"
    /\ readable
    /\ k \in 1..(inBuf.bufSize - inBuf.pEnd)
    /\ received + k <= MaxBytes
    /\ received' = received + k
    /\ LET b == Stored(inBuf, k, received) IN
       IF Live(b) < nBytes
       THEN /\ inBuf' = b
            /\ UNCHANGED <<pc, got>>
       ELSE /\ inBuf' = Without(b, nBytes)
            /\ got' = got \o Front(b, nBytes)
            /\ pc' = "idle"
    /\ UNCHANGED <<nBytes, readable, sendVars>>

\* End of stream, an error, or a recv() asked for no byte at all.
RecvFails ==
    /\ pc = "recv"
    /\ readable' = FALSE
    /\ pc' = "idle"
    /\ UNCHANGED <<nBytes, inBuf, received, got, sendVars>>

\* EINTR in plcSocketSend or plcSocketRecv: lprintf(ERROR) does not return.
Interrupted ==
    /\ pc = "recv" \/ (Sending /\ Live(outBuf) > 0)
    /\ pc' = "aborted"
    /\ UNCHANGED <<nBytes, sendVars, recvVars>>

-----------------------------------------------------------------------------

BufferAppend(n) ==
    \/ AppendWithRoom(n)
    \/ AppendWithoutFlush(n)
    \/ AppendThenFlush(n)
BufferRead(n) == ReadBuffered(n) \/ ReadMore(n)

Next ==
    \/ Connect
    \/ Disconnect
    \/ \E n \in AppendSizes : BufferAppend(n)
    \/ Flush
    \/ \E k \in 1..MaxBytes : SendSome(k)
    \/ SendFails
    \/ FlushReturns
    \/ AppendReturns
    \/ \E n \in ReadSizes : BufferRead(n)
    \/ \E k \in 1..MaxBytes : RecvSome(k)
    \/ RecvFails
    \/ Interrupted

Spec == Init /\ [][Next]_vars

\* The thread runs on, and the kernel does not block a send() for ever: the
\* peer reads, or its connection breaks.  Nothing obliges the peer to send.
SendReturns == (\E k \in 1..MaxBytes : SendSome(k)) \/ SendFails

Fairness ==
    /\ WF_vars(SendReturns)
    /\ WF_vars(FlushReturns \/ AppendReturns)

FairSpec == Spec /\ Fairness

-----------------------------------------------------------------------------
(* Properties.                                                             *)

BufferType(b) ==
    /\ b = Buffer(b.data, b.bufSize, b.pStart, b.pEnd)
    /\ b.bufSize \in Nat
    /\ b.pStart \in Nat
    /\ b.pEnd \in Nat
    /\ b.data \in [0..(b.bufSize - 1) -> Int]

\* Type invariant: the memory of a buffer always has the size that bufSize
\* claims, and the cursors are numbers, whatever was moved or reallocated.
TypeOK ==
    /\ pc \in Control
    /\ nBytes \in Nat
    /\ BufferType(outBuf)
    /\ BufferType(inBuf)
    /\ writable \in BOOLEAN
    /\ readable \in BOOLEAN
    /\ offered \in Nat
    /\ received \in Nat
    /\ wire \in Seq(Int)
    /\ got \in Seq(Int)

\* No memcpy, send() or recv() leaves the memory of its buffer: the asserts of
\* plcBufferAppend and plcBufferReceive, after every chain of short sends,
\* failed flushes, moves, growths and shrinks.
WithinBounds ==
    \A b \in {outBuf, inBuf} : b.pStart <= b.pEnd /\ b.pEnd <= b.bufSize

\* The n bytes of mem from position from on are first, first + 1, ...
Consecutive(mem, from, n, first) ==
    \A i \in from..(from + n - 1) : mem[i] = first + (i - from)

\* The live bytes of b are first, first + 1, ...
Holds(b, first) == Consecutive(b.data, b.pStart, Live(b), first)

\* Bytes offered that are in the output buffer or beyond: all but those of the
\* append that is still waiting for its flush.
Appended == IF pc = "append" THEN offered - nBytes ELSE offered

\* Until a send fails or is interrupted the output buffer holds exactly the bytes offered and
\* not yet sent, in order: neither the move to the front nor a reallocation
\* between two short sends drops or repeats one.
OutputIntact ==
    writable /\ pc # "aborted" =>
        /\ Appended = Len(wire) + Live(outBuf)
        /\ Holds(outBuf, Len(wire))

\* The input buffer holds exactly the bytes received and not yet read, in
\* order, also after a read that failed with part of its bytes received.
InputIntact ==
    /\ received = Len(got) + Live(inBuf)
    /\ Holds(inBuf, Len(got))

\* The receive loop never calls recv() without room for all it still waits
\* for.  A recv() of no bytes returns 0, which plcBufferReceive would take for
\* the end of the stream of a peer that is alive.
RecvHasRoom ==
    pc = "recv" =>
        /\ Live(inBuf) < nBytes
        /\ nBytes - Live(inBuf) <= inBuf.bufSize - inBuf.pEnd

\* A long connection does not grow its buffers for ever: each stays within
\* what its largest single request can need, and is a multiple of
\* PLC_BUFFER_SIZE, since what is kept between requests is bounded.
BoundedMemory ==
    /\ \/ outBuf.bufSize = BufferSize
       \/ \E n \in AppendSizes :
             outBuf.bufSize <= SizeFor(BufferSize + n + MinFree)
    /\ \/ inBuf.bufSize = BufferSize
       \/ \E n \in ReadSizes : inBuf.bufSize <= SizeFor(2 * n + MinFree)
    /\ outBuf.bufSize % BufferSize = 0
    /\ inBuf.bufSize % BufferSize = 0

\* plcBufferFlush returns 0 only when every byte offered so far was sent, and
\* leaves the cursors at the start of the buffer for the next message.
FlushDrains ==
    [][FlushReturns => /\ Live(outBuf') = 0 /\ outBuf'.pStart = 0
                       /\ writable => Len(wire) = offered]_vars

\* A flush ends, however short each send(): the loop never spins.
FlushEnds == Sending ~> ~Sending

Stream == INSTANCE ByteStream
             WITH offered <- offered, sent <- wire, taken <- got

\* The connection is the reliable stream of ByteStream, also for callers that
\* (as pljvm_channel_send does) go on appending after an append has failed:
\* what was dropped is never followed on the wire by a later byte.
StreamSpec == Stream!Spec
=============================================================================
