# A TLA+ model of pljvm

pljvm is a procedural language handler for PostgreSQL. A backend that calls a
function `LANGUAGE pljvm` opens a TCP connection to a Java server, sends the
function's name, types and arguments in a binary format, and serves the
messages the server answers with until one of them is the result. This
directory holds TLA+ modules of that program, the configurations that check
them with TLC, and proofs that TLAPS checks.

Paths are relative to the repository: C code is under `src/src/`, Java code
under `src/plj-java/src/main/java/org/postgresql/plj/`.

## 1. The system

### 1.1 Components

**Buffered connection** (`common/comm_connectivity.c`). A `plcConn` is a socket
with an input and an output buffer; a buffer is a piece of memory with a size
and two cursors. Operations: `plcConnect`, `plcDisconnect`, `plcBufferAppend`,
`plcBufferFlush`, `plcBufferRead`, `plcBufferReceive`; inside, the live bytes
are moved to the front (`MaybeReset`) and the memory grows and shrinks
(`MaybeResize`). Hard: short sends and receives, failures half way, and an
arithmetic of thresholds in which one test asks for a resize and another one
decides it. Correct when it is a reliable byte stream in each direction, never
leaves its memory, does not grow for ever, and a flush that succeeds has sent
everything.

**Message channel** (`common/comm_channel.c`, `common/comm_messages.c`,
`common/messages/`). Stateless: writes and reads the fields of each message
over a connection. Correct when both ends agree on the bytes, and when an error
in one field is not followed by the next one on the wire.

**Function cache** (`function_cache.c`). An array of five pointers to
`plcProcInfo`, most recently used first; lookup moves up, insertion replaces or
evicts, and what goes is freed by hand. Correct when it never keeps a freed
pointer or loses an allocated one, keeps no function twice, and is LRU.

**Function descriptions** (`message_fns.c`). `get_proc_info` looks a function
up, compares the catalog tuples with those it was built from, and builds it
anew when they differ; `pljvm_create_call` fills a request from it. Correct
when a change of the definition is noticed, and the `hasChanged` flag says
whether the peer has seen it.

**Call handler** (`pljvm.c`) and **SQL execution** (`sqlhandler.c`).
`pljvm_call_handler` saves and replaces a global memory context, looks the
function up, connects, sends the request and serves messages: `MT_RESULT`,
`MT_EXCEPTION`, `MT_LOG`, `MT_SQL`. SQL is executed in a subtransaction, and may
call functions of this language: calls nest on one C stack, over one cache and
one global context, and errors pass through by `longjmp`. Correct when a call
works in its own caller's context, subtransactions balance, descriptions live as
long as they are used, connections are closed, and calls end.

**Type conversions** (`plc_typeio.c`). From datums to the values of a request
and back: scalars, arrays (walked by an iterator), row
types. Correct when the two directions are inverse, and columns and values keep
the same index.

**Java request decoder** (`PLJVMServerDecoder.java`, `Type.java`,
`util/Util.java`, `arg/`). One per connection: a request state and the request
read so far. netty calls `decode` with whatever has arrived. Correct when what is
delivered is what was sent, however the stream is cut.

**Java call handler** (`JVMCallHandler.java`). Finds the method by reflection,
invokes it on the event loop thread, writes a `CallResponse` or an
`ExceptionResponse`. **Java response encoder** (`PLJVMServerEncoder.java`): the
bytes of the responses. **Java server and log routing** (`PLJVM.java`,
`PLJVMLogHandler.java`): accepts connections, and for each one resets the JVM's
log manager and installs a handler that sends log records to it.

**Standalone C server** (`common/comm_server.c`), the **tests**
(`sql/`, `testserialization/`, `test/`) and the build are not modelled
(section 4).

### 1.2 How they interact

    query -> call handler -> descriptions -> function cache -> catalog
                 |  ^
                 |  +- SQL execution -> (query -> call handler ...)
                 v
            message channel -> buffered connection ==TCP==> request decoder
                                                            -> call handler (Java)
                            <==TCP== response encoder, log handler <-+

A backend is one process with one thread. Concurrency comes from the peer at the
other end of the socket, from other sessions that change the catalog, from the
kernel that accepts and delivers as many bytes as it likes, and in the Java
server from connections that share event loops and the log manager. Nothing is
persistent on either side.

## 2. Modules

| module | models | checked by |
|---|---|---|
| `ByteStream` | what a connection promises: a reliable stream each way | refined by `PlcBuffer` |
| `PlcBuffer` | the buffered connection | `buffers` |
| `Selection` | the elements of a sequence that are in a set, for `LruCache`, `ArrayIterator` and `PLJVMServer` | `function_cache`, `conversions`, `server*` |
| `LruCache` | what the cache promises | refined by `FunctionCache`, and so by `CallHandler` and `SetReturning` |
| `FunctionCache` | cache, lookup, validity tests, the catalog | `function_cache` |
| `CallHandler` | nested calls, SQL and errors, over `FunctionCache` | `calls`, `call_description` |
| `SetReturning` | the rows of set-returning functions over many calls of the handler, over `FunctionCache` | `set_returning` |
| `ArrayIterator` | an array as PostgreSQL stores it, and the iterator through it | `conversions` |
| `TypeConversion` | descriptions of types, and values in both directions, over `ArrayIterator` | `conversions` |
| `MessageMemory` | the life of a request, a result and an SQL result: who allocates and frees what, over `TypeConversion` | `conversions` |
| `WireFormat` | the bytes of a request, written by the C side | `decoder*` |
| `Readers` | what a reader of a stream that may be cut can do; no code of its own | `decoder*`, `response*` |
| `RequestReader` | the Java readers of strings, types and arguments | `decoder*` |
| `RequestDecoder` | the decoder under netty, over the bytes of `WireFormat` | `decoder*` |
| `ResponseWriter` | the bytes of a response, written by the Java encoder | `response*` |
| `MessageReader` | the `receive_` functions of the C side | `response*` |
| `ResponseChannel` | a call from its Java function to the receive loop | `response*` |
| `PLJVMServer` | connections of several sessions on shared event loops, and the one log manager | `server*` |
| `PlcBufferProofs`, `FunctionCacheProofs`, `HandlerProofs` (`CallHandler` and `SetReturning`), `PLJVMServerProofs`, `MessageMemoryProofs` (with `ArrayIterator` and `TypeConversion`), `RequestDecoderProofs`, `ResponseChannelProofs` | theorems about the modules they are named after | TLAPS |
| `CommonProofs` | lemmas that the others cite: selections, induction and recursion over numbers, bytes and their readers | TLAPS |
| `MC*` | small instances for TLC | |

Definitions named `...Without...`, `...Early` and so on, with a comment that
begins with "Mutant", are not part of the model: each is a plausible bug put in
the place of the definition that follows it, to see that a property notices.

### 2.1 `PlcBuffer`

The thread runs alone from one system call to the next, so an action is a
function up to its next `send()` or `recv()`, and every outcome of the call (any
short count, an error, `EINTR`) is an action: `AppendWithRoom`,
`AppendWithoutFlush` and `AppendThenFlush` are the three ways through
`plcBufferAppend`; `SendSome`, `SendFails`, `FlushReturns` and `AppendReturns`
the send loop and what follows it; `ReadBuffered`, `ReadMore`, `RecvSome` and
`RecvFails` those of `plcBufferRead`. `Interrupted` is the error raised at
`EINTR`, which leaves the connection as it is. The code never looks at the bytes
it moves, so a byte is its position in its stream, and losing, repeating or
reordering any byte shows. `outBuf` and `inBuf` have the fields of `plcBuffer`,
with the memory as a function on its addresses.

### 2.2 `FunctionCache`

`slots` is the C array, `heap` the descriptions by address: an address is
freed and used again. A catalog tuple is its version, which stands for
`(xmin, tid)`; other sessions change it at any time, also back to an earlier
version (rollback). A row type has two: `typeVer` is its `pg_class` tuple, which
`plc_type_valid` compares, and `colVer` its columns, which are read when the
description is built and never compared. `AlterType` changes the first, with or
without the second; `AlterColumns` changes the columns alone. A type `record` is
one whose tuple never changes, as the code does not look at it. `UseCached` and
`BuildInfo` are `get_proc_info` with the lookup that moves the entry up before it
is validated; `GetProcInfoFails` is every `elog(ERROR)` on the way, before the
lookup (there is no such function any more) or after it.

### 2.3 `CallHandler`

`stack` holds a frame for each call in progress: the function, the raw pointer
`pinfo`, the context it works in, the context it saved, whether it is executing
SQL, and whether its SQL has trapped an error of a call. `raising` is an error on
its way up, unwound one frame at a time by `Unwind`, and stopped by `Trapped`
where the SQL of a call has an exception handler. `subxacts` counts open
subtransactions. `lastSent` is what the peers know of each function, as the
description said it (`Described`); `SentNothing` forgets it where a call ends before
its request (`CallRefused`, `RequestFails`), and where the request is lost: the
result of `pljvm_channel_send` is ignored (`pljvm.c:180`), so that such a call goes
on to its receive loop like any other. The peer is the environment: any message at any time. The Java
server of this repository does not send `MT_SQL` yet; the backend serves it all
the same, and that is what is modelled. A new memory context is one that nobody
refers to; which one does not matter, so that one is chosen.

### 2.4 `RequestDecoder`

`WireFormat` is `send_call` and everything it calls; `RequestReader` translates
the Java readers, each of which is done, or lacks bytes and says so, or throws,
and has moved the reader index in any case. `RequestDecoder` has one action for
each case of `decode` and `Arrive` for netty: the event loop calls `decode` while
it makes progress. What it throws closes the connection.

### 2.5 `ResponseChannel`

The way back. `ResponseWriter` is `PLJVMServerEncoder` with the
`Type.getInstance(Class)` that tells the type of a result; `MessageReader` is
`pljvm_channel_receive` with everything it calls, one operator for each
function. In `ResponseChannel` a function logs (`Log`) and ends (`Finish`, which
is `Return` or `Throw`); `Write` is `encode()`, whose exceptions end in a future
that nobody looks at; `Arrive` brings one byte, so that the receive loop
(`Receive`) finds its message cut everywhere. `said` keeps what was meant, apart
from its bytes, and `ReceivedAsSent` compares it with what was read.

### 2.6 `SetReturning`

The executor calls the handler once for each row. `fnExtra` is the
`FuncCallContext` of a node, with the result of the peer in it; `fetching` says
that the executor is in the middle of an evaluation. `FirstCall` sends a request
and `LaterCall` does not, but both look the function up first, as
`pljvm_call_handler` does. After its request a first call waits (`waiting`), and
`GetResult` is the rest of it; in between the SQL of its peer calls other functions,
and the catalog changes. `ReturnRow` is the rest of `pljvm_call_hook`: the
NULL of a refused connection, `SRF_RETURN_DONE` or `SRF_RETURN_NEXT`. `EndEarly`
is the callback of the context (LIMIT, a rescan), `QueryFails` an error of any
call, the one that waits included, and `OtherCall` another function, of the same
query or called by SQL. Of such calls only the lookup is here; `CallHandler` has the
rest, and what becomes of the description that a waiting call points to.

### 2.7 `TypeConversion` and `MessageMemory`

`ArrayIterator` is `plc_backend_array_next` with the memory it walks through: the
bitmap of the nulls, eight to a byte, with its mask, and the data of the elements
that are not null. `TypeConversion` is the rest of `plc_typeio.c` as operators:
`TypeInfo` and `CopyType` (what is sent of a type), `AsValue` (arguments),
`OnWire` and `Received` (what the channel makes of a value), `FromValue`
(results). A number stands for a scalar; `numeric` loses the odd ones, as it goes
through a `float8`. A value with its null flag is `Some(v)` or `Null`. Functions
of the code that call themselves are operators that take the inner call as a
parameter (`SendOf`, say), closed as often as types nest: a row may have columns that are
rows or arrays, and an array elements that are rows, but a row in a row and an
array in a row of an array are sent as texts. At its end the module says, without the
machinery of the code, what types and Datums there are (`IsType`, `IsDatum`), what
the peer should receive (`Meant`), and what should come back (`Rounded`).

`MessageMemory` follows one message at a time: `CreateCall`, `Send`, `FreeSent`,
then, for a function that returns its argument, `Receive` and `ProcessResult`;
or `CreateSqlResult`, `Send`, `FreeSent` for a row of an SQL result. A block is
named by the path to the pointer that owns it. `live` are the blocks allocated,
`wild` those that were read or freed when they were not. Sending frees the
elements of an array while it goes on and may fail at any write, after which
the rest of the message is skipped and freed all the same.

### 2.8 `PLJVMServer`

`client` is the connection each session waits for: a call is a connection of its
own. Each event loop runs one thing at a time to its end (`running`), a Java
function included; a registration or a log line for another loop is a task
(`tasks`). `ResetLog` and `AddLogHandler` are the two halves of `initChannel`,
between which another loop can do the same, since the log manager and its root
logger (`handlers`) belong to the JVM. A connection whose session has left stays
among the handlers; what is written to it is lost.

## 3. Runs

Bounds are constants or definitions of the `MC` modules, and one of the models:
types nest three deep, with the readers and writers of types and values that call
themselves written out that often (section 2.7). The backend never sends a deeper type.
Nothing else is bounded.

| run | asks | bounds |
|---|---|---|
| `buffers` | can any order of appends, flushes, reads, short and failing sends and receives lose, repeat or reorder a byte, leave the memory, grow without end, spin, or ask `recv()` for nothing? | buffer of 4 bytes, 1 kept free, requests of 1, 2, 11; 16 bytes in one direction of each connection |
| `function_cache` | does hand-made freeing, moving and replacing keep pointers sound, and make an LRU cache, whatever changes in the catalog? | 4 functions, 3 slots, 1 row type, 2 versions |
| `calls` | are context, change flag and subtransactions right, and do calls end, whichever error is raised or trapped, and whichever call is refused or its request lost? | 2 functions, 1 slot, depth 2 |
| `set_returning` | does each evaluation give the rows of its own result once, whatever is called while it waits, and end? | 2 nodes, 1 slot, 2 rows, 2 evaluations of each node |
| `conversions` | do values arrive as they were passed and come back as they were, and is each block freed once? | the values listed in `MCMessageMemory` |
| `decoder` | is what is delivered what was sent, when the stream is cut at places the decoder is prepared for? | 15 sessions of one to three requests with every kind of argument |
| `responses` | is what the backend reads what the function logged, returned or threw, and does every call get its answer? | 17 ends of a function, two log lines |
| `server` | is every call answered, in order, with handlers that do not pile up? | 2 sessions, 2 event loops, 3 connections, 1 line of each function |
| `decoder_cuts` | as `decoder`, when the stream is cut anywhere? No. | the same |
| `response_lost` | as `responses`, for other results, too? No. | an array without elements, a text that is not ASCII |
| `server_logs` | are log lines read by the session that called? No. | as `server` |
| `call_description` | is a description kept while it is used? No. | 3 functions, 2 slots, depth 2 |

Why these are enough. *Buffers*: the code compares sizes with
`bufSize / 2`, `bufSize / 5`, `PLC_BUFFER_SIZE` and `PLC_BUFFER_MIN_FREE`; with 4
and 1 for the last two a request of 11 grows the buffer to 16, the next small
ones shrink it, and every comparison goes both ways with live bytes left over
from short sends. The two directions share nothing but the control, so each
connection uses one of them (`OneDirection`); the next may use the other.
*Cache*: with one function more than slots every function is evicted at some
time, and moved up from each position. *Calls*: a cache of one lets the SQL of a
call evict what the call uses; depth 2 has a caller, its SQL and a nested call,
each of which can end in every way. *Sets*: with a cache of one each call of a
node evicts the description of the other, two rows tell the next row from the
last, and a second evaluation shows what the first one leaves. *Conversions*:
every kind of type as scalar, element and column; arrays of nine elements, one
more than a byte of the bitmap, with nulls on both sides of its end; rows with a
dropped column between two others; a send that fails at each write. *Decoder*:
every reader is cut at every byte of its input, and names contain bytes that
make small and large lengths when they are read as one. *Responses*: each class
the encoder knows is returned, with null and non-null values, arrays of up to
three dimensions whose sizes differ, and bytes that are equal to the marks of the
format; every message is cut at each of its bytes. *Server*: three connections
on two loops put two of them on the same loop, and let one come while the two
others are served; more lines only lengthen the queues.
The theorems of section 5 hold for all sizes.

Symmetry is used in `function_cache` only, which checks no liveness; its
properties quantify over the symmetric sets and name none of their members.
Deadlock is checked, except where the system comes to rest: a server whose
connections are all served, a decoder that has read everything, a call that was
answered, a message that was freed.

### 3.1 What the properties say

- `StreamSpec`: `PlcBuffer` implements `ByteStream`; in particular what a failed
  append dropped is never followed on the wire by a later byte, although
  `send_call` goes on appending. `OutputIntact`, `InputIntact`: where each byte
  is in between. `WithinBounds`: the asserts of the code. `RecvHasRoom`,
  `BoundedMemory`, `FlushDrains`, `FlushEnds`: see their comments.
- `SlotsOwnHeap`: no use after free, no leak, no double free, no function in two
  slots. `LruSpec`: `FunctionCache` implements `LruCache`. That a lookup gives what
  the code takes for current is the guard of one step, and no property; that this
  is not always current is in section 3.3.
- `ContextOfTop`: a call works in its own caller's context, except a call whose
  own SQL has trapped an error, until it ends. `SubxactsBalanced`, `CallsEnd`.
  `ChangeFlagged`: the peer is told when the description it is sent has changed,
  except after a call in between that sent nothing. Refuted: `DescriptionKept`.
- `EveryRowOnce`: the rows of one request, each once, over evaluations that take
  turns, wait, are cut short and begin again. `EvaluationEnds`.
- `NoWildAccess`, `NothingLeaks`: three modules share the freeing of an array.
  `ReceivedAsPassed`, `ReturnedAsPassed`: against `Meant` and `Rounded`, which say
  what should arrive without iterators, bitmaps and descriptions.
- `InSync`: the reader index is at the beginning of the field the state waits
  for. `StaysOpen`, `CalledAsSent`, `AllDelivered`.
- `ReceivedAsSent`: two serializers written apart, in Java and in C, agree on
  every byte. `Answered`: a call ends, whatever its function returned.
- `OneHandlerPerLoop`: although two `initChannel` can interleave, no event loop
  gets two handlers. `OwnInOrder`, `OwnComplete`: lines and answers of a function
  reach its own connection in order, and only a later connection can take its
  lines away. `AllAnswered`. Refuted: `LogsToCaller`.

### 3.2 Fairness

- Buffers: the thread runs on, and a `send()` returns in the end (the peer reads,
  or its connection breaks). Nothing obliges the peer to send, so nothing is
  said about a read that ends.
- `CallsEnd` assumes that at each depth the peer, asked again and again, returns
  in the end and its SQL statements end (strong fairness: the call may be
  interrupted by SQL over and over). The code itself has no time limit:
  `plcSocketRecv` repeats `recv()` after each timeout of 500 ms. (A call whose
  request was lost has a broken connection, and its receive loop ends with an error.)
  So the property is about the nesting and the errors, which must not lose a call, and not about
  the peer.
- `EvaluationEnds` assumes that the executor goes on with an evaluation it has
  begun (strong: the handler's call may have to wait for other calls), and that a
  request is answered, by a result or by the end of the query.
- `AllDelivered` assumes that TCP delivers and that the event loop runs.
- `Answered` assumes that the function ends, that TCP delivers and that the
  backend reads on. This last is weak fairness of `Receive`, spelled out with
  `Receivable` in the place of its ENABLED, which TLC evaluates slowly.
- `AllAnswered` assumes that event loops run what they have, that each Java
  function ends, that sessions read, and that a request is served in the end
  although tasks keep coming (strong: netty divides the time of a loop between
  its connections and its tasks).

### 3.3 What the runs refute

- **A request cut in the wrong place closes its connection** (`decoder_cuts`).
  `PLJVMServerDecoder.java:85` says "reset it and wait for more data." That
  works while the name or the type of an argument is lacking. When its value is, the
  `getInstance` of its class returns null and `Argument.java:76` dereferences it.
  Ints outside of arguments are read without looking whether they are there,
  `Util.readString` forgets a length whose string is still to come, and
  `RETURN_TYPE` goes on without its type. Small requests on a local connection
  arrive in one piece, which is why tests pass.
- **A description can be freed under the call that uses it** (`call_description`).
- **A log line is read by the session that connected last** (`server_logs`).
  `pljvm.md:56` does not want data to leak from one PostgreSQL process to
  another; `PLJVM.java:43-45` resets the JVM's log manager and sends every record
  of any thread to the newest connection. The session that called loses its
  lines, and a line at SEVERE ends the call of the session that reads it.
- **An array without elements is never sent** (`response_lost`). `getDimensions`
  asks for its first element; the exception fails the promise of a write that
  nobody looks at, and the backend waits without a time limit. A text that is not
  ASCII loses its end in the same run, because `sendString` announces characters
  and writes bytes.

The passing runs `decoder` and `responses` exclude exactly what these need
(`CutAnywhere`, `Unusual`), so that the properties are checked everywhere else.
Three other places are left out of passing runs, because the code does not keep
the property there:

- *SQL results with an array column.* `create_sql_result` frees the descriptions
  (`sqlhandler.c:60`) and `handle_sql_message` the rows (96) before the result is
  sent; the iterator of an array still points to both. `NoWildAccess` fails as
  soon as `ColumnTypes` has an array with elements; in the run it has none.
- *Results of a row type with a dropped column.* `plc_datum_from_udt` takes the
  index of a value for that of a column (`plc_typeio.c:602`), and hands
  uninitialised values and nulls of the dropped columns to `heap_form_tuple`.
  `ResultTypes` has no such type, by assumption; `ArgTypes` has.
- *A call whose SQL trapped an error.* `pl_container_caller_context` is put back
  only at `pljvm.c:94`, so that it stays the context of the failed call.
  `ContextOfTop` leaves such a call out until it ends; the contexts of its own
  caller are right again afterwards, which is checked.

Noticed on the way, and not the subject of a run:

- `hasChanged` is used up by a lookup whose call sends nothing, and by the second
  row of a set (`message_fns.c:166`): the next request does not say that the
  function changed. The Java server does not look at the flag.
- An interrupted call, and every other call that ends in an error, leaves its
  connection open (`pljvm.c:218` is not reached), although nobody can close it
  any more.
- A Java function that never returns blocks all connections of its event loop,
  and the sessions behind them have no time limit. A session can read lines of
  its own earlier call, which an error ended while the function went on.
- A change of a row type that leaves its `pg_class` tuple as it was is not noticed:
  a column renamed or dropped in `pg_attribute` alone, another type of a column of a
  free-standing type. A record is not looked at, for "it would change only if the
  function changes itself" (`message_fns.c:211-212`); its columns are those of the
  column definition list of the query that calls first (`plc_typeio.c:174-187`), and
  the next query may have another one. The cached description goes on being used.
- For an array without elements `plc_datum_as_array` allocates a block of no bytes
  for its dimensions (`plc_typeio.c:371`), which `plc_backend_array_free` does not
  free (390). It goes with its memory context; `MessageMemory` does not count it.
- A refused connection leaves `fn_extra` with a null result in it: later
  evaluations of the node in this query give NULL without asking.
- A scalar function whose result has no row takes the exit of a set-returning
  function without a `FuncCallContext` (`pljvm.c:145`); the Java server always
  sends one row. When the `pg_class` tuple of a row type changes between two rows of
  a set, the later rows are converted with the newer description.
- A send that fails inside of an array in a row leaves the iterator allocated
  until its memory context ends. `free_proc_info` forgets the result type, the
  name and the source; a failing `plcConnect` leaks its socket.
- A null or empty array argument throws in `ArrayArgument`; a null `bytea`
  arrives as an empty one; after a request with arguments the decoder never
  goes back to `WAITING`, so a connection carries one such request (the backend
  sends one per connection); `plcBufferReceive` never returns the -2 its comment
  announces; a function that returns a `String[]`, a `byte[][]` or an array of
  objects gets a `ClassNotFoundException`, which does reach the backend; rows of
  different lengths bring the reader of an array out of step, and a null row
  makes the encoder throw like an empty array; an object result is sent as a row
  type without the columns the backend expects.

## 4. Not modelled

- *The standalone C server.* `plcListener` and its loop are called by no program
  of the repository, and the ping they wait for is sent by no backend.
- *`testserialization`, `sql/`, the Java test functions, the build*: read as
  documentation.
- *PostgreSQL's own functions*: scalar conversions to and from text, record types
  and their anonymous descriptors, the executor beyond what `SetReturning` uses.
- *Memory contexts as allocators*, and out of memory.
- *Logging texts, argument names, the source text of functions*: carried along,
  looked at by nobody here.
- *The bytes netty shows to a decoder after its connection closed, and lengths
  that no peer of this repository sends.*

`plcConnect` is an outcome (connected or not), as is name resolution.

## 5. Proofs

All theorems hold for every value of the constants, from the named assumptions
of the modules. Some state one more hypothesis, because the code does not keep
the property without it (section 3.3): `NoArrays` for the memory of messages, `Prepared` for the
decoder, `Fitting` for responses, and `Sendable` for one theorem about them. They are
explained with their theorems. The checked instances satisfy them: `ColumnTypes` of
`MCMessageMemory` has no array, and `MCSessionsAssumption` and `MCUsualFits`
assert the other two, so that TLC evaluates them in the runs `decoder` and `responses`.

**`PlcBufferProofs`** (from `BufferAssumption`): `TypeCorrect`, `BoundsKept`,
`OutputKept`, `InputKept`, `RoomForRecv`, `FlushIsComplete`, `MemoryBounded` and
`Refinement` (`PlcBuffer` implements `ByteStream`), for every buffer size, every
reserve, all sets of request sizes and any number of bytes.

None of the properties is inductive. That a receive stays within its buffer
needs that there is room for what the loop still waits for; that needs the bytes
between the cursors to be counted; and that an append which resumes after its
flush writes the right bytes needs the number of bytes still outside of the
buffer. `IInv` puts these together: for each buffer the cursors in order within
a memory of the claimed size, for each direction the bytes in the buffer and on
the wire with their positions, and for the receive loop its room. After an
interrupt nothing is claimed of the contents, and a connection whose send failed
keeps that its wire is a prefix of what was offered. The lemmas follow the code:
what `Repacked`, `Rewound`, `MaybeReset`, `MaybeResize`, `Stored`, `Front` and
`Without` keep of a sound buffer, then one lemma per action, then `Invariance`.
`Refinement` uses the invariant to show that each step continues a stream or
leaves it. `MemoryBounded` needs `SizeInv` besides: a size is a multiple
of the first one, and within what the largest request makes of an otherwise nearly
empty buffer; `SizeForNext` is the arithmetic of the quotient.

**`FunctionCacheProofs`** (from `CacheAssumption` and `FreeIsNoInfo`):
`CacheTypeCorrect`, `SlotsOwn` and `LruRefined`, for any number of
slots, functions and addresses. `SlotsOwnHeap` is inductive together with the
types: since no function is in two slots, the addresses in the slots differ, and
the one that is freed is in no other slot. `MoveUp` shows that
`function_cache_up` permutes the slots; `PutMoves` treats replacing and evicting
alike, as a map from the new slots to the old ones. `LruRefined` maps the slots
to the list of the functions in them: a lookup that moves up, a replacement and an eviction
are each one step of `LruCache`.

**`HandlerProofs`, about `CallHandler`** (these, and `CallAssumption`): `CallTypeCorrect`,
`SubxactsBalance`, `OwnContext` and `ChangeIsFlagged`, for any depth. `Sound` is
what a stack keeps: every call but the last is executing SQL; each call saved
the context its caller works in, unless that caller has trapped an error; the
number of subtransactions follows from the last frame; and an error on its way up
has a call to leave. `PushSound`, `PopSound`, `TopSound` and `RaiseSound` are the
four things an action does to a stack. `AsSent` relates each description in the
heap to what was last sent of its function, also when it is outdated.
`CallsRefineCache` and `CallsRefineLru`: whatever calls do, the cache they share is
that of `FunctionCache`, and therefore an LRU cache.

**`HandlerProofs`, about `SetReturning`** (these, and `SetAssumption`): `SetTypeCorrect`,
`RowsOnce`, `SetsRefineCache` and `SetsRefineLru`, for any number of nodes, rows
and evaluations. A node is fetching, done, or without a result: left by a refused
connection, or waiting (`NodeOK`). `RowKeeps` shows what `ReturnRow` makes of each.

**`PLJVMServerProofs`** (from `ServerAssumption`): `ServerTypeCorrect`,
`HandlersCorrect`, `OrderCorrect` and `CompletenessCorrect`, for any number of
sessions, event loops, connections and lines, and any share of connections to
loops. `IInv` adds to the properties what their steps rest on: what a loop runs
belongs to a connection of its own that was accepted (`RunningOK`); between the
two halves of `initChannel` no other connection of the loop has a handler
(`InitOK`), which `OneHandlerPerLoop` needs and which survives the resets of
other loops; the function a loop runs was called and has not ended (`CallOK`); a
task waits at the loop of its connection, never carries what a function logged to
its own connection, and registers a connection once (`TasksOK`); while a
connection has its handler, it was written each line of its function (`CountOK`);
and until the function ends what is unread of it are its lines so far
(`UnreadOK`).

**`CommonProofs`**: what appending to a sequence, or to the set, does to a
selection; the selection of a sequence without repetitions. Induction over numbers
is stated with a set of numbers in the place of a predicate (`Induct`), and
recursive functions exist and unfold (`Recursion`), both from the well-foundedness of
`<`. What readers of a stream do, one after the other (`EachReads`), and with more
bytes than before (`Settles`); where the parts of concatenated bytes begin
(`FlattenBytesAt`); that the bytes of an integer give it back, with its sign
(`Int32Signed`).

**`MessageMemoryProofs`, about `TypeConversion`** (no assumption): `IteratorGivesAll`, for every
length of an array and every placement of nulls: by induction on the number of
calls, the mask is that of the next element, and the data pointer has passed as many
elements as were not null before it. `SentAll` and `ReturnedAll`: for every
type and every Datum of it, what is sent of it is `Meant`, and what is made of
what was received is `Rounded`; each is proved for the innermost closing of the
operators that call themselves, and from there outwards, with the columns that
are not dropped in the middle.

**`MessageMemoryProofs`** (from `MemoryAssumption`): `MemoryTypeCorrect`,
`ReceivedCorrect` and `ReturnedCorrect`, for any sets of types and of their
Datums. `ConversionInv` follows the value through the steps: converted, on the
wire, received; these theorems compare its ends.
`NoWildAccessCorrect` and `NothingLeaksCorrect`: who frees what, for every type, every
value of it, and every append at which sending it fails. `MemoryInv` says which
blocks are allocated after each step: the row and the description, unless it is a
result of SQL; the type while there is a message; all of the value before it is
sent, what is not an iterator after that, and what was received. The lemmas go from
the inside out, as the code does: the blocks of the parts of a value lie under
different paths (`UnderApart`), so a loop over the parts frees the blocks of each
(`FreeEach`, `FreeTree`), for types, rows and arrays alike; what sending a part does
(`Sends`) when its blocks are there (`Ready`) is proved of a scalar, a column, a row
and an array of rows, up to `MessageSent`; `MessageComes` shows that what is
received has the form `free_result` relies on, and `MessageFreed` that it is freed,
each block once. After a failed append more may be left than should be, never less,
and nothing is received.

Both need `NoArrays`: no column of an SQL result is an array, or has a column that is
one. With such a column the code reads freed memory (section 3.3), so that
`NoWildAccess` is false of it. Arguments and results of calls have no such limit.

**`RequestDecoderProofs`**: what `decode` delivers is what `send_call` wrote, for
every session, however its stream is cut at places that the decoder is prepared for.

`DecoderTypeCorrect` needs only `SessionsAssumption` (a stream consists of bytes): whatever
the bytes are and wherever they are cut, a reader ends between the place it began at
and the end of what has arrived, and `decode` gives a request on when it has as many arguments
as were announced. `DecoderInSync`, `DecoderStaysOpen` and `DecoderDelivers` need
`Prepared`: the stream is not cut where section 3.3 says that it must not be, and
its requests fit what the Java side can read (`SessionFits`: strings and counts whose
lengths fit their fields, arrays of one to three dimensions, and so on).

`InSync` is not inductive: it says where the reader index is, but not that the
request read so far is that of the session, nor that what has arrived ends where the
next reader can bear it. The invariant is `DecoderInv`, `Awake` (`decode` runs only while
there are bytes left) and `Steady`: what was delivered is what was sent; what has arrived
ends at a place that is safe; and the decoder is either between two requests or at
the beginning of a field of one, with all fields before it read. The argument has three
parts. *Round trip*: each reader makes of what its writer wrote the thing that
was written, as Java sees it, and takes all its bytes, from numbers over strings, types
and values to the fields of a request. *Beginnings*: a reader that is given less than
that either ends as it would with all of it (`Settles`), or lacks bytes; where
the latter is no harm is what `SafeCuts` says. *The way through a session*: one
lemma for each case of `decode`.

**`ResponseChannelProofs`**: what `pljvm_get_result` reads is what the Java function
logged, returned or threw. `ChannelTypeCorrect` and `ReadAsSent` hold for every
function with `Fitting`: its texts have one byte for each character (`TextFits`),
an array it returns is as long in each dimension as in its first member
(`ArrayFits`), and a value that is not null is of a class the encoder is made for
(`ValueFits`): what it makes of any other object is not what the backend expects
of a row. Arrays that the encoder throws at are not excluded, nor are null values.

`Gets` is what such a reader does: one that is to read the bytes `p` has
read all of them when they have arrived, and lacks bytes before. It is proved of each
`receive_` function in turn, from bytes and strings to types, arrays,
values and messages; `Understood` says it of a whole message. `LogUnderstood`,
`ExceptionUnderstood` and `ResultUnderstood` are the lemmas about the encoder: what it
writes, if it does not throw, is understood as what was meant.
`ReceivedAsSent` is not inductive, as it does not mention the bytes on the
way. `ChannelInv` does: the wire consists of one understood part for each message
said, and the backend has read as many parts as it has messages (`Carries`). Only the last
part may be lacking, when the encoder threw; then the function has ended, and
nothing follows that could be taken for it.

`NothingIsAwaited` is the safety half of `Answered`: if besides the encoder throws at
no result (`Sendable`), then as soon as the function has ended and its bytes
have arrived, a backend that is still in its receive loop has a whole message to
read. It never waits for bytes that nobody will send, which matters as it has no time
limit. Without `Sendable` this is false, which is what `response_lost` shows. What the
function says last ends the receive loop (`Concluded`). No run checks `NothingAwaited`
by itself: `Answered`, which is checked, fails where a backend waits like that.

Only model-checked: liveness (`FlushEnds`, `CallsEnd`, `AllDelivered`,
`Answered`, `AllAnswered`, `EvaluationEnds`), which is out of the prover's reach.
Every other property of a passing run is stated by a theorem. The refuted properties
stay with TLC by nature.

## 6. Plan

Done: the buffers, the cache, calls and their errors, sets, the request and its
decoder, the response and its reader, conversions and memory, the server; proofs
of every invariant, action property and refinement that a passing run checks. Left:

1. `Session`: a call with its connection, composing `CallHandler` and `PlcBuffer`
   at the level of messages, with the peer's close in the middle of one.
2. The composition of `MessageMemory` with the bytes of `WireFormat`: today the first
   abstracts the channel to `OnWire` and `Received`.

The runs are kept to about a dozen, so that all of it can be checked in one go:
a new passing run takes the place of a refuted promise that is described here.
