--------------------------- MODULE RequestDecoder ---------------------------
(***************************************************************************)
(* PLJVMServerDecoder: the requests of one connection, on their way from   *)
(* the stream into the JVMCallHandler.                                     *)
(*                                                                         *)
(* The stream arrives in pieces that TCP, the buffers of the backend and   *)
(* those of netty cut as they like.  With each piece the event loop calls  *)
(* decode() again and again, until the bytes are used up or a call has     *)
(* moved nothing (ByteToMessageDecoder.callDecode).  What decode() throws  *)
(* reaches exceptionCaught, which closes the connection.  (The bytes that  *)
(* netty still shows to the decoder of a closed connection are left out.)  *)
(***************************************************************************)
EXTENDS RequestReader

CONSTANTS
    Sessions,    \* the sequences of requests a backend may send
    CutAnywhere  \* FALSE: the stream is cut only at SafeCuts

VARIABLES
    sent,      \* the requests of this connection
    stream,    \* its bytes, with where fields start and where it may be cut
    bytes,     \* the bytes that have arrived
    at,        \* readerIndex, from the beginning of the stream
    state,     \* the RequestState
    call,      \* callRequest, the request being read
    decoding,  \* the event loop is in callDecode
    open,      \* the connection is open
    delivered  \* the requests given to JVMCallHandler, in order

vars == <<sent, stream, bytes, at, state, call, decoding, open, delivered>>

States == {"WAITING", "FUNCTION_NAME", "FUNCTION_DEFINTION", "OID",
           "HAS_CHANGED", "RETURN_TYPE", "SET_RETURNING", "NUM_ARGUMENTS",
           "ARGUMENTS"}

\* new CallRequest().  numArgs arguments are expected, args are there.
EmptyCall == [name |-> <<>>, src |-> <<>>, oid |-> 0, hasChanged |-> FALSE,
              retType |-> <<>>, retset |-> FALSE, numArgs |-> 0, args |-> <<>>]

-----------------------------------------------------------------------------
(* Arrival.                                                                *)

Stream(session) == FlattenSeq([i \in DOMAIN session |-> CallBytes(session[i])])

\* What the backend sends are bytes.
ASSUME SessionsAssumption == \A session \in Sessions : Stream(session) \in Bytes

\* Where each field of each request begins, and last where the next request
\* would.
Starts(session) ==
    LET calls == [c \in DOMAIN session |-> CallBytes(session[c])]
        In(c, fields) ==
            [i \in DOMAIN fields |-> LengthOf(calls, c - 1) + LengthOf(fields, i - 1)]
    IN  [c \in 1..(Len(session) + 1) |->
            IF c <= Len(session) THEN In(c, Fields(session[c]))
            ELSE <<LengthOf(calls, Len(session))>>]

\* How many bytes of field i may be there without the rest of it: those of the
\* length of a string, or of the name and type of an argument, but for the last.
MayComeAlone(request, i) ==
    CASE i \in {2, 3} -> 3
      [] i > 8 -> Len(HeaderBytes(request.args[i - 8])) - 1
      [] OTHER -> 0

\* The numbers of bytes that are whole fields with, at most, such a part of the
\* next one: what decode() is prepared for.
SafeCuts(session) ==
    LET start == Starts(session)
        Into(c, i) == {start[c][i] + k : k \in 0..MayComeAlone(session[c], i)}
    IN  {start[Len(session) + 1][1]}
        \cup UNION {UNION {Into(c, i) : i \in DOMAIN start[c]} : c \in DOMAIN session}

\* channelRead(n more bytes)
Arrive(n) ==
    /\ open /\ ~decoding
    /\ Len(bytes) + n <= Len(stream.bytes)
    /\ ~CutAnywhere => Len(bytes) + n \in stream.cuts
    /\ bytes' = SubSeq(stream.bytes, 1, Len(bytes) + n)
    /\ decoding' = TRUE
    /\ UNCHANGED <<sent, stream, at, state, call, open, delivered>>

-----------------------------------------------------------------------------
(* decode(), one action for each case.                                     *)

InCase(s) == open /\ decoding /\ state = s

\* decode() returns with the reader index at i.
ReturnAt(i) ==
    /\ at' = i
    /\ decoding' = (i # at /\ i < Len(bytes))
    /\ UNCHANGED <<sent, stream, bytes, open>>

\* decode() throws.
ThrowAt(i) ==
    /\ at' = i
    /\ decoding' = FALSE
    /\ open' = FALSE
    /\ UNCHANGED <<sent, stream, bytes, state, call, delivered>>

StayIn(i) == ReturnAt(i) /\ UNCHANGED <<state, call, delivered>>

GoTo(next, newCall, i) ==
    /\ ReturnAt(i)
    /\ state' = next
    /\ call' = newCall
    /\ UNCHANGED delivered

\* list.add(callRequest)
Deliver(next, newCall, i) ==
    /\ ReturnAt(i)
    /\ state' = next
    /\ call' = newCall
    /\ delivered' = Append(delivered, newCall)

DecodeWaiting ==
    /\ InCase("WAITING")
    /\ IF bytes[at + 1] = CharC THEN GoTo("FUNCTION_NAME", EmptyCall, at + 1)
       ELSE StayIn(at + 1)

\* Mutant: whether the string was read is not looked at.
DecodeStringOrNot(s, field, next) ==
    /\ InCase(s)
    /\ LET r == ReadString(bytes, at) IN
       GoTo(next, [call EXCEPT ![field] = IF r.is = "done" THEN r.got ELSE <<>>],
            r.at)

\* FUNCTION_NAME and FUNCTION_DEFINTION
DecodeString(s, field, next) ==
    /\ InCase(s)
    /\ LET r == ReadString(bytes, at) IN
       IF r.is = "done" THEN GoTo(next, [call EXCEPT ![field] = r.got], r.at)
       ELSE StayIn(r.at)

\* OID, and the two that compare the int with 1
DecodeInt(s, field, next) ==
    /\ InCase(s)
    /\ LET r == ReadInt(bytes, at, 4) IN
       IF r.is = "throws" THEN ThrowAt(at)
       ELSE GoTo(next, [call EXCEPT ![field] = IF s = "OID" THEN r.got
                                               ELSE r.got = 1], r.at)

\* The type that getInstance could not read is null, and the state goes on.
DecodeReturnType ==
    /\ InCase("RETURN_TYPE")
    /\ LET r == ReadType(bytes, at) IN
       CASE r.is = "throws" -> ThrowAt(r.at)
         [] r.is = "lacking" -> GoTo("SET_RETURNING", call, r.at)
         [] r.is = "done" ->
              GoTo("SET_RETURNING", [call EXCEPT !.retType = <<r.got>>], r.at)

\* Mutant: a request without arguments waits for them too.
DecodeNumArgumentsWaits ==
    /\ InCase("NUM_ARGUMENTS")
    /\ LET r == ReadInt(bytes, at, 4) IN
       IF r.is = "throws" \/ r.got < 0 THEN ThrowAt(r.at)
       ELSE GoTo("ARGUMENTS", [call EXCEPT !.numArgs = r.got], r.at)

DecodeNumArguments ==
    /\ InCase("NUM_ARGUMENTS")
    /\ LET r == ReadInt(bytes, at, 4) IN
       IF r.is = "throws" \/ r.got < 0 THEN ThrowAt(r.at)
       ELSE LET c == [call EXCEPT !.numArgs = r.got] IN
            IF r.got = 0 THEN Deliver("WAITING", c, r.at)
            ELSE GoTo("ARGUMENTS", c, r.at)

\* Mutant: what was read of an argument that is not complete is not put back.
DecodeArgumentWithoutReset ==
    /\ InCase("ARGUMENTS")
    /\ LET r == ReadArgument(bytes, at)
           c == [call EXCEPT !.args = Append(@, r.got)] IN
       CASE r.is = "throws" -> ThrowAt(r.at)
         [] r.is = "lacking" -> StayIn(r.at)
         [] r.is = "done" -> IF Len(c.args) = c.numArgs
                             THEN Deliver("ARGUMENTS", c, r.at)
                             ELSE GoTo("ARGUMENTS", c, r.at)

\* Mutant: the last argument is taken to be there one too early.
DecodeArgumentOneShort ==
    /\ InCase("ARGUMENTS")
    /\ IF Len(call.args) = call.numArgs THEN StayIn(at) ELSE
       LET r == ReadArgument(bytes, at)
           c == [call EXCEPT !.args = Append(@, r.got)] IN
       CASE r.is = "throws" -> ThrowAt(r.at)
         [] r.is = "lacking" -> StayIn(at)
         [] r.is = "done" -> IF Len(c.args) >= c.numArgs - 1
                             THEN Deliver("ARGUMENTS", c, r.at)
                             ELSE GoTo("ARGUMENTS", c, r.at)

\* A null resets the reader index.  After the last argument the state stays
\* as it is, and decode() does nothing any more.
DecodeArgument ==
    /\ InCase("ARGUMENTS")
    /\ IF Len(call.args) = call.numArgs THEN StayIn(at) ELSE
       LET r == ReadArgument(bytes, at)
           c == [call EXCEPT !.args = Append(@, r.got)] IN
       CASE r.is = "throws" -> ThrowAt(r.at)
         [] r.is = "lacking" -> StayIn(at)
         [] r.is = "done" -> IF Len(c.args) = c.numArgs
                             THEN Deliver("ARGUMENTS", c, r.at)
                             ELSE GoTo("ARGUMENTS", c, r.at)

Decode ==
    \/ DecodeWaiting
    \/ DecodeString("FUNCTION_NAME", "name", "FUNCTION_DEFINTION")
    \/ DecodeString("FUNCTION_DEFINTION", "src", "OID")
    \/ DecodeInt("OID", "oid", "HAS_CHANGED")
    \/ DecodeInt("HAS_CHANGED", "hasChanged", "RETURN_TYPE")
    \/ DecodeReturnType
    \/ DecodeInt("SET_RETURNING", "retset", "NUM_ARGUMENTS")
    \/ DecodeNumArguments
    \/ DecodeArgument

-----------------------------------------------------------------------------

Init ==
    /\ sent \in Sessions
    /\ stream = [bytes |-> Stream(sent), starts |-> Starts(sent),
                 cuts |-> SafeCuts(sent)]
    /\ bytes = <<>>
    /\ at = 0
    /\ state = "WAITING"
    /\ call = EmptyCall
    /\ decoding = FALSE
    /\ open = TRUE
    /\ delivered = <<>>

Arrival == \E n \in 1..(Len(stream.bytes) - Len(bytes)) : Arrive(n)

Next == Arrival \/ Decode

Spec == Init /\ [][Next]_vars

\* TCP delivers what the backend has flushed, and the event loop runs on.
FairSpec == Spec /\ WF_vars(Arrival) /\ WF_vars(Decode)

-----------------------------------------------------------------------------
(* The sessions that the decoder is made for.                              *)

\* s is a sequence.
IsSequence(s) == s \in Seq(Range(s))

\* A type, but for its subtypes.
HeadFits(t) ==
    /\ \E i \in DOMAIN DataTypes : t.data = DataTypes[i]
    /\ StringFits(t.name)
    /\ IsSequence(t.sub)
    /\ Len(t.sub) \in Int16s
    /\ ~Composite(t.data) => t.sub = <<>>

\* As deep as types nest.
FlatTypeFits(t) == HeadFits(t) /\ t.sub = <<>>
NestedTypeFits(t) == HeadFits(t) /\ \A i \in DOMAIN t.sub : FlatTypeFits(t.sub[i])
DeepTypeFits(t) == HeadFits(t) /\ \A i \in DOMAIN t.sub : NestedTypeFits(t.sub[i])
TypeFits(t) == HeadFits(t) /\ \A i \in DOMAIN t.sub : DeepTypeFits(t.sub[i])

\* ArrayArgument takes one to three dimensions.
ArrayFits(t, x) ==
    /\ t.sub # <<>>
    /\ x.dims \in Seq(Nat) /\ Len(x.dims) \in 1..3
    /\ \A i \in DOMAIN x.dims : x.dims[i] \in Int32s
    /\ IsSequence(x.items)
    /\ ElementCount(x.dims, Len(x.items)) = Len(x.items)
    /\ \A i \in DOMAIN x.items : Storable(t.sub[1], Len(x.dims), x.items[i])
    /\ x = [dims |-> x.dims, items |-> x.items]

\* A value of the type t, but for its parts: a null array makes ArrayArgument
\* throw, and a null bytea arrives as an empty one.
Fits(t, v) ==
    IF v = <<>> THEN t.data \notin {"array", "bytea"} ELSE
    /\ v = <<v[1]>>
    /\ t.data \in DOMAIN Width => v[1] \in Bytes /\ Len(v[1]) = Width[t.data]
    /\ t.data \in {"text", "bytea"} => v[1] \in Bytes /\ Len(v[1]) \in Int32s
    /\ t.data = "udt" => IsSequence(v[1]) /\ Len(v[1]) = Len(t.sub)
    /\ t.data = "array" => ArrayFits(t, v[1])

FlatValueFits(p) == Fits(p.type, p.value)
NestedValueFits(p) ==
    LET parts == PartsOf(p.type, p.value) IN
    Fits(p.type, p.value) /\ \A i \in DOMAIN parts : FlatValueFits(parts[i])
DeepValueFits(p) ==
    LET parts == PartsOf(p.type, p.value) IN
    Fits(p.type, p.value) /\ \A i \in DOMAIN parts : NestedValueFits(parts[i])
ValueFits(p) ==
    LET parts == PartsOf(p.type, p.value) IN
    Fits(p.type, p.value) /\ \A i \in DOMAIN parts : DeepValueFits(parts[i])

ArgumentFits(a) ==
    StringFits(a.name) /\ TypeFits(a.type) /\ ValueFits(Part(a.type, a.value))

RequestFits(request) ==
    /\ StringFits(request.name) /\ StringFits(request.src)
    /\ request.oid \in Int32s
    /\ request.hasChanged \in Int32s /\ request.retset \in Int32s
    /\ TypeFits(request.retType)
    /\ IsSequence(request.args) /\ Len(request.args) \in Int32s
    /\ \A i \in DOMAIN request.args : ArgumentFits(request.args[i])

\* The decoder reads nothing after a request with arguments.
SessionFits(session) ==
    /\ IsSequence(session)
    /\ \A c \in DOMAIN session :
          /\ RequestFits(session[c])
          /\ c < Len(session) => session[c].args = <<>>

-----------------------------------------------------------------------------
(* Properties.                                                             *)

\* Type invariant: the reader index never passes what has arrived, and a request
\* is given on when it has all its arguments, neither before nor with more.
DecoderTypeOK ==
    /\ sent \in Sessions
    /\ stream.bytes \in Bytes
    /\ IsPrefix(bytes, stream.bytes)
    /\ at \in 0..Len(bytes)
    /\ state \in States
    /\ DOMAIN call = DOMAIN EmptyCall
    /\ call.numArgs \in Nat
    /\ Len(call.args) <= call.numArgs
    /\ decoding \in BOOLEAN
    /\ open \in BOOLEAN
    /\ \A i \in DOMAIN delivered : Len(delivered[i].args) = delivered[i].numArgs

\* The field of the current request that comes next.
NextField ==
    CASE state = "WAITING" -> 1
      [] state = "FUNCTION_NAME" -> 2
      [] state = "FUNCTION_DEFINTION" -> 3
      [] state = "OID" -> 4
      [] state = "HAS_CHANGED" -> 5
      [] state = "RETURN_TYPE" -> 6
      [] state = "SET_RETURNING" -> 7
      [] state = "NUM_ARGUMENTS" -> 8
      [] state = "ARGUMENTS" ->
           IF Len(call.args) = call.numArgs THEN 1 ELSE 9 + Len(call.args)

\* The reader index is where the field begins that the state waits for: none
\* of its bytes was taken before all of them were there, and no state was left
\* before its field was read.
InSync ==
    open => at = stream.starts[Len(delivered) + 1][NextField]

\* Nothing the backend sends makes the decoder throw, and close a connection
\* on which a request is on its way.
StaysOpen == open

\* What was sent, to the eyes of Java: an empty name is no name.
NameAsRead(s) == IF s = <<<<>>>> THEN <<>> ELSE s

\* As deep as types nest.
TypeAsReadOver(t, subs) == [data |-> t.data, name |-> NameAsRead(t.name), sub |-> subs]
FlatTypeAsRead(t) == TypeAsReadOver(t, <<>>)
NestedTypeAsRead(t) == TypeAsReadOver(t, [i \in DOMAIN t.sub |-> FlatTypeAsRead(t.sub[i])])
DeepTypeAsRead(t) == TypeAsReadOver(t, [i \in DOMAIN t.sub |-> NestedTypeAsRead(t.sub[i])])
TypeAsRead(t) == TypeAsReadOver(t, [i \in DOMAIN t.sub |-> DeepTypeAsRead(t.sub[i])])

ArgumentAsRead(a) ==
    [name |-> NameAsRead(a.name), type |-> TypeAsRead(a.type), value |-> a.value]

AsRead(c) ==
    [name |-> NameAsRead(c.name), src |-> NameAsRead(c.src), oid |-> c.oid,
     hasChanged |-> c.hasChanged = 1, retType |-> <<TypeAsRead(c.retType)>>,
     retset |-> c.retset = 1, numArgs |-> Len(c.args),
     args |-> [i \in DOMAIN c.args |-> ArgumentAsRead(c.args[i])]]

\* The Java functions are called as the backend asked, in its order: none
\* twice, none with the arguments of another, none with a part of its own.
CalledAsSent ==
    /\ Len(delivered) <= Len(sent)
    /\ \A i \in DOMAIN delivered : delivered[i] = AsRead(sent[i])

\* Every request that was sent is delivered.
AllDelivered == <>(Len(delivered) = Len(sent))
=============================================================================
