-------------------------- MODULE ResponseChannel --------------------------
(***************************************************************************)
(* One call, from the Java function that runs for it to the backend that   *)
(* waits for it: JVMCallHandler and PLJVMServerEncoder on one side, the    *)
(* receive loop of pljvm_get_result on the other.                          *)
(*                                                                         *)
(* The function logs, and then returns or throws.  Each message is written *)
(* to the connection as a whole, or not at all when the encoder throws:    *)
(* the write then fails in a future nobody looks at.  The bytes arrive one *)
(* after the other; those that arrive together are a run of such steps.    *)
(***************************************************************************)
EXTENDS ResponseWriter, MessageReader

CONSTANTS
    Name,      \* the name of the function, as characters
    Outcomes,  \* how the function may end: see Returns and Raises
    LogLines,  \* what it may log: <<level, text>>
    MaxLogs    \* bound: the lines it logs

VARIABLES
    running,    \* the Java function has not ended
    said,       \* the messages meant for the backend, in order
    wire,       \* the bytes written
    arrived,    \* how many of them have arrived
    at,         \* how many of them the backend has read
    messages,   \* the messages the backend has read
    receiving   \* the backend is in its receive loop

vars == <<running, said, wire, arrived, at, messages, receiving>>
serverVars == <<running, said, wire>>
backendVars == <<arrived, at, messages, receiving>>

Returns(class, v) == [ends |-> "returns", class |-> class, value |-> v]
Raises(text) == [ends |-> "throws", text |-> text]

\* A stack trace, and the text of a ClassNotFoundException.
Trace == <<<<<<116>>>>>>
NotFound == Raises(<<<<<<76>>>>>>)

ErrorLevel == 20

-----------------------------------------------------------------------------
(* What is meant: the string, the array, the result as they are.           *)

TextOf(s) == IF s = <<>> THEN <<>> ELSE <<FlattenSeq(s[1])>>

Items(array, ndims) ==
    [i \in DOMAIN Elements(array, ndims) |-> <<Elements(array, ndims)[i]>>]

Shape(array, ndims) ==
    [k \in 1..ndims |-> LET first == Firsts(array, ndims)[k] IN
                        IF first = <<>> THEN 0 ELSE Len(first[1])]

ValueOf(class, v) ==
    IF v = <<>> THEN <<>>
    ELSE IF class = Class("String", 0) THEN TextOf(v)
    ELSE IF class.ndims > 0 /\ class # Class("byte", 1)
    THEN <<[dims |-> Shape(v[1], class.ndims), items |-> Items(v[1], class.ndims)]>>
    ELSE v

ExceptionMeant(r) == ErrorMessage(TextOf(r.text), TextOf(Trace))

ResultMeant(r) ==
    ResultMessage(ResultType(r.class, r.value), <<<<FlattenSeq(Name)>>>>,
                  <<<<ValueOf(r.class, r.value)>>>>)

-----------------------------------------------------------------------------
(* The server.                                                             *)

\* The values with a type that the backend can be told, what is meant by each
\* and what the encoder makes of it (constants, so that TLC computes them once).
Results == {r \in Outcomes : r.ends = "returns" /\ ResultType(r.class, r.value) # Failed}
Meant == [r \in Results |-> ResultMeant(r)]
Encoded == [r \in Results |-> ResultBytes(Name, r.class, r.value)]

\* encode(), called by writeAndFlush
Write(encoded) == wire' = IF encoded = Failed THEN wire ELSE wire \o encoded[1]

\* A log record of the function: JVMCallHandler.userEventTriggered.
Log(level, text) ==
    /\ running
    /\ Len(said) < MaxLogs
    /\ said' = Append(said, LogMessage(level, TextOf(text)))
    /\ Write(Ok(LogBytes(level, text)))
    /\ UNCHANGED <<running, backendVars>>

\* The function, the search for it or the making of its arguments throws.
Throw(r) ==
    /\ running
    /\ running' = FALSE
    /\ said' = Append(said, ExceptionMeant(r))
    /\ Write(Ok(ExceptionBytes(r.text, Trace)))
    /\ UNCHANGED backendVars

\* The function returns.  The type of its result is looked up in the same try.
Return(r) ==
    /\ running
    /\ r \in Results
    /\ running' = FALSE
    /\ said' = Append(said, Meant[r])
    /\ Write(Encoded[r])
    /\ UNCHANGED backendVars

Finish(r) ==
    IF r.ends = "throws" THEN Throw(r)
    ELSE IF r \in Results THEN Return(r)
    ELSE Throw(NotFound)

-----------------------------------------------------------------------------
(* The backend.                                                            *)

Arrive ==
    /\ arrived < Len(wire)
    /\ arrived' = arrived + 1
    /\ UNCHANGED <<serverVars, at, messages, receiving>>

\* ereport(log->level), which does not return when the level is ERROR.
GoesOn(message) == message.kind = "log" /\ message.level < ErrorLevel

\* What it reads of the bytes that have arrived.
Received == ReadMessage(SubSeq(wire, 1, arrived), at)

\* Mutant: only a result ends the receive loop.
ReceivePastErrors ==
    /\ receiving
    /\ LET r == Received IN
       /\ r.is = "done"
       /\ at' = r.at
       /\ messages' = Append(messages, r.got)
       /\ receiving' = (r.got.kind # "result")
    /\ UNCHANGED <<serverVars, arrived>>

\* The receive loop gets one message, or an error in the middle of it.
Receivable == receiving /\ Received.is \in {"done", "throws"}

Receive ==
    /\ Receivable
    /\ LET r == Received IN
       /\ at' = r.at
       /\ messages' = IF r.is = "done" THEN Append(messages, r.got) ELSE messages
       /\ receiving' = (r.is = "done" /\ GoesOn(r.got))
    /\ UNCHANGED <<serverVars, arrived>>

-----------------------------------------------------------------------------

Init ==
    /\ running = TRUE
    /\ said = <<>>
    /\ wire = <<>>
    /\ arrived = 0
    /\ at = 0
    /\ messages = <<>>
    /\ receiving = TRUE

Next ==
    \/ \E l \in LogLines : Log(l[1], l[2])
    \/ \E r \in Outcomes : Finish(r)
    \/ Arrive
    \/ Receive

Spec == Init /\ [][Next]_vars

\* The Java function ends, TCP delivers, the backend reads on.  The last one is
\* WF_vars(Receive) with Receivable for its ENABLED, which TLC is slow at.
FairSpec ==
    /\ Spec
    /\ WF_vars(\E r \in Outcomes : Finish(r))
    /\ WF_vars(Arrive)
    /\ []<>~Receivable \/ []<><<Receive>>_vars

-----------------------------------------------------------------------------
(* The functions that the encoder is made for.                             *)

\* A text with one byte for each of its characters, as in ASCII.
TextFits(s) ==
    s # <<>> => /\ s = <<s[1]>>
                /\ s[1] \in Seq({<<byte>> : byte \in 0..255})
                /\ Len(s[1]) \in Int32s

\* An array of primitives, as long in each dimension as in the first of its
\* arrays, if it is sent at all.
ArrayFits(elem, array, ndims) ==
    Measurable(array, ndims) /\ ~HasNull(array, ndims) =>
        LET elements == Elements(array, ndims)
            shape == Shape(array, ndims)
        IN  /\ ndims \in Nat /\ ndims \in Int32s
            /\ \A k \in 1..ndims : shape[k] \in Nat /\ shape[k] \in Int32s
            /\ elements \in Seq(Bytes)
            /\ \A i \in DOMAIN elements : Len(elements[i]) = Width[Primitive[elem]]
            /\ ElementCount(shape, Len(elements)) = Len(elements)

\* What the encoder makes of an object is not what the backend expects of a row.
ValueFits(class, v) ==
    v # <<>> =>
        /\ v = <<v[1]>>
        /\ \/ class = Class("String", 0) /\ TextFits(v)
           \/ class = Class("byte", 1) /\ v[1] \in Bytes /\ Len(v[1]) \in Int32s
           \/ /\ class.ndims = 0 /\ class.elem \in DOMAIN Primitive
              /\ v[1] \in Bytes /\ Len(v[1]) = Width[Primitive[class.elem]]
           \/ /\ class.ndims > 0 /\ class.elem \in DOMAIN Primitive
              /\ ArrayFits(class.elem, v[1], class.ndims)

LineFits(l) == l[1] \in Int32s /\ TextFits(l[2])

OutcomeFits(r) ==
    IF r.ends = "throws" THEN TextFits(r.text)
    ELSE ResultType(r.class, r.value) # Failed => ValueFits(r.class, r.value)

-----------------------------------------------------------------------------
(* Properties.                                                             *)

\* Type invariant: cursors in order, and a loop that goes on has seen nothing
\* but log lines below ERROR.
ChannelTypeOK ==
    /\ running \in BOOLEAN
    /\ wire \in Seq(0..255)
    /\ at <= arrived
    /\ arrived <= Len(wire)
    /\ receiving \in BOOLEAN
    /\ receiving => \A i \in DOMAIN messages : GoesOn(messages[i])

\* What the backend reads is what the function logged, returned or threw, in
\* this order: type, shape and every byte of it.
ReceivedAsSent == IsPrefix(messages, said)

\* Every call is answered: the receive loop ends, with messages the function
\* meant, whatever it returned.
Answered == <>[](~receiving /\ messages # <<>> /\ ReceivedAsSent)
=============================================================================
