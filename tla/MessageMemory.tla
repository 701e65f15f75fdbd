--------------------------- MODULE MessageMemory ---------------------------
(***************************************************************************)
(* The memory of the messages of one backend: what is allocated for the    *)
(* value in a request, in the result of a call, and in the result of SQL   *)
(* executed for the peer; who frees it; and who still reads it.            *)
(* message_fns.c and sqlhandler.c build messages with the conversions of   *)
(* TypeConversion, comm_channel.c sends and receives them, and frees what  *)
(* it sends of an array, element by element; comm_messages.c frees the     *)
(* rest.                                                                   *)
(*                                                                         *)
(* One value travels in each message.  The peer returns the argument of a  *)
(* call as its result.  Names, and the arrays that hold the arguments or   *)
(* the rows of a message, are left out.                                    *)
(***************************************************************************)
EXTENDS TypeConversion

CONSTANTS
    ArgTypes,     \* types of arguments
    ResultTypes,  \* those of them that are the type of the result too
    ColumnTypes,  \* types of the columns of SQL results
    ValuesOf,     \* ValuesOf[t]: the Datums of type t
    MaxSends      \* bound: the appends that succeed before one fails

VARIABLES
    pc,        \* what was done last
    type,      \* the type of the value, and
    value,     \* the value, Null or a Datum of type
    sql,       \* it is sent as a result of SQL, not as an argument
    obj,       \* the C structure of the message in memory
    mem,       \* the memory: see below
    wire,      \* what the peer received, Garbage before
    returned   \* the Datum made from the result, Garbage before

vars == <<pc, type, value, sql, obj, mem, wire, returned>>

\* plc_datum_from_udt does not work with dropped columns.
ASSUME MemoryAssumption ==
    /\ ResultTypes \subseteq ArgTypes
    /\ \A t \in ResultTypes : NoneDropped(t)
    /\ \A t \in ArgTypes \cup ColumnTypes :
          IsType(t) /\ \A v \in ValuesOf[t] : IsDatum(t, Some(v))
    /\ MaxSends \in Nat

Info == TypeInfo(type)
MessageType == CopyType(Info)

-----------------------------------------------------------------------------
(* Memory.  A block is named by its use, and by the path from the top to   *)
(* the value that it belongs to.                                           *)

Uses == {"tuple", "info", "type", "value", "meta", "position", "dims", "data",
         "nulls", "rawdata"}

Block(use, p) == <<use, p>>
At(p, i) == Append(p, i)
Tuple == Block("tuple", <<>>)

\* live: the blocks that are allocated.  wild: those that were freed or read
\* while they were not.  left: how many appends to the connection will succeed.
Unlimited == MaxSends + 1
Memory == [live : SUBSET (Uses \X Seq(Nat)), wild : SUBSET (Uses \X Seq(Nat)),
           left : 0..Unlimited, failed : BOOLEAN]

NewMemory(blocks) == [live |-> blocks, wild |-> {}, left |-> 0, failed |-> FALSE]

Alloc(m, blocks) == [m EXCEPT !.live = @ \cup blocks]

Read(m, blocks) == [m EXCEPT !.wild = @ \cup (blocks \ m.live)]

Free(m, blocks) == [Read(m, blocks) EXCEPT !.live = @ \ blocks]

\* The memory after n steps, the i-th of which makes step[i][m] of m.
InTurn(step, m, n) ==
    LET after[i \in 0..n] == IF i = 0 THEN m ELSE step[i][after[i - 1]]
    IN after[n]

\* The dims of an array.  For one without elements the code allocates a block of
\* no bytes, which no cleanup frees (it asks for ndims > 0) and which goes with
\* the memory context: it holds nothing and is not counted.
Dims(a, p) == IF a.dims = <<>> THEN {} ELSE {Block("dims", p)}

\* The subTypes of a plcTypeInfo or plcType, at every level.
TypeBlocksOf(Nested(_, _, _), use, t, p) ==
    IF t.sub = <<>> THEN {}
    ELSE {Block(use, p)} \cup UNION {Nested(use, t.sub[i], At(p, i)) : i \in DOMAIN t.sub}

TypeBlocks0(use, t, p) == {}
TypeBlocks1(use, t, p) == TypeBlocksOf(TypeBlocks0, use, t, p)
TypeBlocks2(use, t, p) == TypeBlocksOf(TypeBlocks1, use, t, p)
TypeBlocks(use, t, p) == TypeBlocksOf(TypeBlocks2, use, t, p)

\* free_type and free_type_info
FreeTypeOf(Nested(_, _, _, _), m, use, t, p) ==
    IF t.sub = <<>> THEN m
    ELSE Free(InTurn([i \in DOMAIN t.sub |->
                      [n \in Memory |-> Nested(n, use, t.sub[i], At(p, i))]],
                   m, Len(t.sub)),
              {Block(use, p)})

FreeType0(m, use, t, p) == m
FreeType1(m, use, t, p) == FreeTypeOf(FreeType0, m, use, t, p)
FreeType2(m, use, t, p) == FreeTypeOf(FreeType1, m, use, t, p)
FreeType(m, use, t, p) == FreeTypeOf(FreeType2, m, use, t, p)

\* What the outfunc of a type that is not a row allocates.
FieldBlocks(t, o, p) ==
    IF o.isnull THEN {}
    ELSE {Block("value", p)} \cup
         IF t.type = "ARRAY"
         THEN {Block("meta", p), Block("position", p)} \cup Dims(o.value, p)
         ELSE {}

\* What the outfunc of a type allocates; for the elements of an array, when
\* they are sent.
OutBlocks(t, o, p) ==
    FieldBlocks(t, o, p) \cup
    IF ~o.isnull /\ t.type = "UDT"
    THEN {Block("data", p)} \cup
         UNION {FieldBlocks(t.sub[j], o.value[j], At(p, j)) : j \in DOMAIN t.sub}
    ELSE {}

\* What receive_raw_object allocates, elements included.
InBlocksOf(Nested(_, _, _), t, o, p) ==
    IF o.isnull THEN {}
    ELSE {Block("value", p)} \cup
         CASE t.type = "ARRAY" ->
                 LET a == o.value IN
                 {Block("meta", p)} \cup Dims(a, p) \cup
                 (IF a.nulls = <<>> THEN {} ELSE {Block("nulls", p), Block("data", p)}) \cup
                 UNION {Nested(t.sub[1], Some(a.data[i].pointer), At(p, i)) :
                          i \in {k \in DOMAIN a.data :
                                   ~a.nulls[k] /\ t.sub[1].type \in Pointed}}
           [] t.type = "UDT" ->
                 {Block("data", p)} \cup
                 UNION {Nested(t.sub[j], o.value[j], At(p, j)) : j \in DOMAIN t.sub}
           [] OTHER -> {}

InBlocks0(t, o, p) == IF o.isnull THEN {} ELSE {Block("value", p)}
InBlocks1(t, o, p) == InBlocksOf(InBlocks0, t, o, p)
InBlocks2(t, o, p) == InBlocksOf(InBlocks1, t, o, p)
InBlocks(t, o, p) == InBlocksOf(InBlocks2, t, o, p)

-----------------------------------------------------------------------------
(* comm_messages.c                                                         *)

\* plc_free_array
FreeArrayOf(FreeRow(_, _, _, _, _), m, t, arr, isSender, p) ==
    LET elem == t.sub[1]
        FreeElement(n, i) ==
            IF arr.nulls[i] \/ elem.type \notin Pointed THEN n
            ELSE Free(IF elem.type = "UDT"
                      THEN FreeRow(n, elem, arr.data[i].pointer, isSender, At(p, i))
                      ELSE n,
                      {Block("value", At(p, i))})
    IN Free(InTurn([i \in DOMAIN arr.data |-> [n \in Memory |-> FreeElement(n, i)]],
                 m, Len(arr.data)),
            (IF arr.data = <<>> THEN {} ELSE {Block("data", p), Block("nulls", p)})
               \cup Dims(arr, p) \cup {Block("meta", p), Block("value", p)})

\* No row is in an array in a row.
NoRow(m, t, udt, isSender, p) == m

\* plc_free_udt: all but the plcUDT itself.
FreeUdt(m, t, udt, isSender, p) ==
    LET FreeColumn(n, j) ==
            IF udt[j].isnull THEN n
            ELSE IF ~isSender /\ t.sub[j].type = "ARRAY"
            THEN FreeArrayOf(NoRow, n, t.sub[j], udt[j].value, isSender, At(p, j))
            ELSE Free(n, {Block("value", At(p, j))})
    IN Free(InTurn([j \in DOMAIN t.sub |-> [n \in Memory |-> FreeColumn(n, j)]], m, Len(t.sub)),
            {Block("data", p)})

FreeArray(m, t, arr, isSender, p) == FreeArrayOf(FreeUdt, m, t, arr, isSender, p)

\* Mutant: the columns of a row are left to whoever built it.
FreeObjectShallow(m, t, o, isSender, p) ==
    IF o.isnull THEN m
    ELSE IF ~isSender /\ t.type = "ARRAY" THEN FreeArray(m, t, o.value, isSender, p)
    ELSE Free(m, {Block("value", p)})

\* Mutant: an array has its meta freed whoever sent it.
FreeObjectAgain(m, t, o, isSender, p) ==
    IF o.isnull THEN m
    ELSE IF t.type = "ARRAY"
    THEN Free(m, Dims(o.value, p) \cup {Block("meta", p), Block("value", p)})
    ELSE Free(IF t.type = "UDT" THEN FreeUdt(m, t, o.value, isSender, p) ELSE m,
              {Block("value", p)})

\* What free_callreq and free_result do with a value.
FreeObject(m, t, o, isSender, p) ==
    IF o.isnull THEN m
    ELSE IF ~isSender /\ t.type = "ARRAY" THEN FreeArray(m, t, o.value, isSender, p)
    ELSE Free(IF t.type = "UDT" THEN FreeUdt(m, t, o.value, isSender, p) ELSE m,
              {Block("value", p)})

FreeMessage(m, isSender) ==
    FreeType(FreeObject(m, MessageType, obj, isSender, <<>>),
             "type", MessageType, <<>>)

-----------------------------------------------------------------------------
(* comm_channel.c                                                          *)

\* n calls of plcBufferAppend.  Once one has failed the next ones fail, too.
Put(m, n) ==
    IF m.left = Unlimited THEN m
    ELSE IF n <= m.left THEN [m EXCEPT !.left = @ - n]
    ELSE [m EXCEPT !.left = 0, !.failed = TRUE]

\* The subTypes that the iterator at path p refers to: the elements of an array
\* share a description.
DescriptionOf(p) ==
    Block("info", IF MessageType.type = "ARRAY" /\ p # <<>> THEN [p EXCEPT ![1] = 1] ELSE p)

\* plc_backend_array_free
Cleanup(m, iter, p) ==
    Free(m, Dims(iter, p) \cup {Block("meta", p), Block("position", p)})

\* send_raw_array_iter: each element is converted, sent and freed.
SendArray(Nested(_, _, _, _), m, elem, iter, p) ==
    LET elems == Elements(iter)
        Convert(n, i) ==
            Alloc(Read(n, {Block("position", p), DescriptionOf(p), Tuple}),
                  {Block("rawdata", At(p, i))} \cup OutBlocks(elem, elems[i], At(p, i)))
        FreeElement(n, i) ==
            IF elems[i].isnull THEN n
            ELSE Free(IF elem.type = "UDT"
                      THEN FreeUdt(n, elem, elems[i].value, TRUE, At(p, i)) ELSE n,
                      {Block("value", At(p, i))})
        SendElement(n, i) ==
            IF n.failed THEN n
            ELSE Free(FreeElement(Nested(Convert(n, i), elem, elems[i], At(p, i)), i),
                      {Block("rawdata", At(p, i))})
    IN Cleanup(InTurn([i \in DOMAIN elems |-> [n \in Memory |-> SendElement(n, i)]],
                    Put(m, 1 + Len(iter.dims)), Len(elems)),
               iter, p)

\* send_udt: the first column is tried even when nothing can be sent any more.
SendUdt(Nested(_, _, _, _), m, t, udt, p) ==
    InTurn([j \in DOMAIN t.sub |->
             [n \in Memory |-> IF n.failed /\ j > 1 THEN n
                               ELSE Nested(n, t.sub[j], udt[j], At(p, j))]],
         Read(m, {Block("data", p)}), Len(t.sub))

\* send_raw_object
SendOf(Nested(_, _, _, _), m, t, o, p) ==
    IF o.isnull THEN Put(m, 1)
    ELSE LET n == Read(Put(m, 1), {Block("value", p)}) IN
         CASE t.type = "ARRAY" -> SendArray(Nested, n, t.sub[1], o.value, p)
           [] t.type = "UDT" -> SendUdt(Nested, n, t, o.value, p)
           [] OTHER -> Put(n, 1)

Send0(m, t, o, p) ==
    IF o.isnull THEN Put(m, 1) ELSE Put(Read(Put(m, 1), {Block("value", p)}), 1)
Send1(m, t, o, p) == SendOf(Send0, m, t, o, p)
Send2(m, t, o, p) == SendOf(Send1, m, t, o, p)
SendObject(m, t, o, p) == SendOf(Send2, m, t, o, p)

-----------------------------------------------------------------------------
(* Steps.                                                                  *)

Init ==
    /\ sql \in BOOLEAN
    /\ type \in IF sql THEN ColumnTypes ELSE ArgTypes
    /\ value \in {Some(v) : v \in ValuesOf[type]} \cup {Null}
    /\ pc = "start"
    /\ obj = Null
    /\ mem = NewMemory({Tuple})
    /\ wire = Garbage
    /\ returned = Garbage

Converted == UnlessNull(LAMBDA v : AsValue(Info, v), value)

\* The blocks of a message before it is sent, and of the description of its type.
Built ==
    TypeBlocks("info", MessageType, <<>>) \cup
    TypeBlocks("type", MessageType, <<>>) \cup
    OutBlocks(MessageType, Converted, <<>>)

\* pljvm_create_call.  The description is in the cache, and stays there.
CreateCall ==
    /\ pc = "start" /\ ~sql
    /\ pc' = "built"
    /\ obj' = Converted
    /\ mem' = Alloc(mem, Built)
    /\ UNCHANGED <<type, value, sql, wire, returned>>

\* create_sql_result, which frees its description; then handle_sql_message
\* frees the rows.
CreateSqlResult ==
    /\ pc = "start" /\ sql
    /\ pc' = "built"
    /\ obj' = Converted
    /\ mem' = Free(FreeType(Alloc(mem, Built), "info", MessageType, <<>>), {Tuple})
    /\ UNCHANGED <<type, value, sql, wire, returned>>

\* pljvm_channel_send: all of the value, or the first k appends.
Send ==
    /\ pc = "built"
    /\ pc' = "sent"
    /\ \E k \in 0..MaxSends \cup {Unlimited} :
          LET m == SendObject([mem EXCEPT !.left = k], MessageType, obj, <<>>) IN
          /\ k # Unlimited => m.failed
          /\ mem' = [m EXCEPT !.left = 0]
          /\ wire' = IF m.failed THEN Garbage ELSE OnWire(MessageType, obj)
    /\ UNCHANGED <<type, value, sql, obj, returned>>

\* free_callreq, or free_result in pljvm_process_sql, whether or not all was sent.
FreeSent ==
    /\ pc = "sent"
    /\ pc' = "freed"
    /\ obj' = Null
    /\ mem' = FreeMessage(mem, TRUE)
    /\ UNCHANGED <<type, value, sql, wire, returned>>

\* receive_result, when the peer has received the request.
Receive ==
    /\ pc = "freed" /\ ~sql /\ wire # Garbage /\ type \in ResultTypes
    /\ pc' = "received"
    /\ obj' = Received(MessageType, wire)
    /\ mem' = Alloc(mem, TypeBlocks("type", MessageType, <<>>)
                           \cup InBlocks(MessageType, obj', <<>>))
    /\ UNCHANGED <<type, value, sql, wire, returned>>

\* pljvm_process_result, then free_result: the last steps of a scalar call, or
\* of the last row of a set.
ProcessResult ==
    /\ pc = "received"
    /\ pc' = "processed"
    /\ returned' = UnlessNull(LAMBDA x : FromValue(Info, x), obj)
    /\ mem' = FreeMessage(mem, FALSE)
    /\ obj' = Null
    /\ UNCHANGED <<type, value, sql, wire>>

Next ==
    \/ CreateCall
    \/ CreateSqlResult
    \/ Send
    \/ FreeSent
    \/ Receive
    \/ ProcessResult

Spec == Init /\ [][Next]_vars

-----------------------------------------------------------------------------
(* Properties.                                                             *)

\* The columns of a row are scalars, and arrays of scalars.
RowOK(t) ==
    \A i \in DOMAIN t.sub :
        t.sub[i].sub # <<>> => t.sub[i].type = "ARRAY" /\ t.sub[i].sub[1].sub = <<>>

\* Type invariant: in particular no description has a row within a row, or an
\* array within an array, which plc_free_udt would not free.
MemoryTypeOK ==
    /\ pc \in {"start", "built", "sent", "freed", "received", "processed"}
    /\ type \in ArgTypes \cup ColumnTypes
    /\ value \in {Some(v) : v \in ValuesOf[type]} \cup {Null}
    /\ MessageType.type = "UDT" => RowOK(MessageType)
    /\ MessageType.type = "ARRAY" =>
          LET elem == MessageType.sub[1] IN
          elem.sub # <<>> => elem.type = "UDT" /\ RowOK(elem)

\* Whatever is in a message, and wherever sending it fails, no block is freed
\* that is not allocated, and none is read: although three modules share the
\* freeing of an array, and of what is in it.
NoWildAccess == mem.wild = {}

\* What a message was made of is freed with it: all that is left is what
\* belongs to others, the description in the cache and the row.  (When it was
\* not sent in full, an array in a row may leave its iterator behind, until
\* the memory context ends.)
NothingLeaks ==
    /\ pc \in {"freed", "processed"}
    /\ ~mem.failed
    => mem.live = IF sql THEN {} ELSE {Tuple} \cup TypeBlocks("info", MessageType, <<>>)

\* The peer receives the value that was passed, whichever elements are null and
\* wherever the bytes of the bitmap end.
ReceivedAsPassed == wire # Garbage => wire = Meant(type, value)

\* A function that returns its argument returns it as it was.
ReturnedAsPassed == pc = "processed" => returned = Rounded(type, value)
=============================================================================
