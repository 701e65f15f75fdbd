---------------------------- MODULE PLJVMServer ----------------------------
(***************************************************************************)
(* The Java server with several connections: initChannel of PLJVM.java,    *)
(* PLJVMLogHandler.java and JVMCallHandler.java under netty, and the       *)
(* sessions of pljvm.c that open a connection for each call.               *)
(*                                                                         *)
(* Each connection belongs to one event loop, a thread that runs one       *)
(* handler at a time to its end, a Java function included.  All of them    *)
(* share the log manager of the JVM: its root logger passes a record to    *)
(* every handler installed, and each connection installs one that writes   *)
(* the record to that connection.                                          *)
(*                                                                         *)
(* A request is decoded as RequestDecoder says and its answer read as      *)
(* ResponseChannel says; here both are whole messages.                     *)
(***************************************************************************)
EXTENDS Naturals, Sequences, Selection

CONSTANTS
    Sessions,  \* the backends
    Loops,     \* the threads of workerGroup
    MaxConns,  \* bound: connections are numbered as they are accepted
    Home,      \* Home[c]: the event loop netty gives to connection c
    MaxLines   \* bound: log lines of one function

Conns == 1..MaxConns

ASSUME ServerAssumption ==
    /\ MaxConns \in Nat
    /\ MaxLines \in Nat
    /\ Home \in [Conns -> Loops]

VARIABLES
    client,    \* the connection of the call each session waits for, or None
    accepted,  \* the number of connections accepted so far
    served,    \* the connections whose initChannel has run
    handlers,  \* the handlers of the root logger, by their connection
    running,   \* what each event loop runs
    tasks,     \* the tasks queued for each event loop
    lines,     \* the lines logged by the function of each connection so far
    ended,     \* the connections whose function has ended
    unread,    \* what its session has still to read from each connection
    own        \* how many messages of its own function were written to each

vars == <<client, accepted, served, handlers, running, tasks, lines,
          ended, unread, own>>

None == 0
Idle == [job |-> "idle", conn |-> None]
Job(job, c) == [job |-> job, conn |-> c]

\* A task: a new connection to register, or a log record for a connection.
NoRecord == [kind |-> "none", from |-> None, line |-> 0]
Register(c) == [conn |-> c, record |-> NoRecord]
Post(c, record) == [conn |-> c, record |-> record]

LogLevels == {"INFO", "ERROR"}
Outcomes == {"result", "exception"}

\* A message knows which function it came from, and the how-manieth it was.
Message(kind, c, n) == [kind |-> kind, from |-> c, line |-> n]

-----------------------------------------------------------------------------
(* The sessions.                                                           *)

\* plcConnect and the request that follows it: netty's acceptor hands the
\* connection to its event loop.
Connect(s) ==
    /\ client[s] = None
    /\ accepted < MaxConns
    /\ LET c == accepted + 1 IN
       /\ accepted' = c
       /\ client' = [client EXCEPT ![s] = c]
       /\ tasks' = [tasks EXCEPT ![Home[c]] = Append(@, Register(c))]
    /\ UNCHANGED <<served, handlers, running, lines, ended, unread, own>>

\* The session no longer waits for c.  It closes the connection after a result
\* and leaves it open after an error; its handler stays in either case, and what
\* is written to it from now on is read by nobody.
Leave(s, c) ==
    /\ client' = [client EXCEPT ![s] = None]
    /\ unread' = [unread EXCEPT ![c] = <<>>]

\* One turn of the receive loop of pljvm_get_result: only a log line below ERROR
\* lets it go on.
Receive(s) ==
    /\ client[s] # None
    /\ LET c == client[s] IN
       /\ unread[c] # <<>>
       /\ IF Head(unread[c]).kind = "INFO"
          THEN unread' = [unread EXCEPT ![c] = Tail(@)] /\ UNCHANGED client
          ELSE Leave(s, c)
    /\ UNCHANGED <<accepted, served, handlers, running, tasks, lines, ended, own>>

\* recv() is interrupted: the call ends in an error.
Cancel(s) ==
    /\ client[s] # None
    /\ Leave(s, client[s])
    /\ UNCHANGED <<accepted, served, handlers, running, tasks, lines, ended, own>>

-----------------------------------------------------------------------------
(* The event loops.                                                        *)

Reading(c) == \E s \in Sessions : client[s] = c

\* writeAndFlush.
Write(c, message) ==
    /\ unread' = IF Reading(c) THEN [unread EXCEPT ![c] = Append(@, message)] ELSE unread
    /\ own' = IF message.from = c THEN [own EXCEPT ![c] = @ + 1] ELSE own

\* The next task of an event loop that runs nothing.
NextTask(l) == Head(tasks[l])
TakesTask(l) ==
    /\ running[l] = Idle
    /\ tasks[l] # <<>>
    /\ tasks' = [tasks EXCEPT ![l] = Tail(@)]

\* Mutant: initChannel does not reset the log manager.
ResetLogNot(l) ==
    /\ TakesTask(l)
    /\ NextTask(l).record = NoRecord
    /\ running' = [running EXCEPT ![l] = Job("init", NextTask(l).conn)]
    /\ UNCHANGED <<client, accepted, served, handlers, lines, ended,
                   unread, own>>

\* initChannel begins: LogManager.reset() removes the handlers of every
\* connection ...
ResetLog(l) ==
    /\ TakesTask(l)
    /\ NextTask(l).record = NoRecord
    /\ handlers' = <<>>
    /\ running' = [running EXCEPT ![l] = Job("init", NextTask(l).conn)]
    /\ UNCHANGED <<client, accepted, served, lines, ended, unread, own>>

\* Mutant: the handler is added to a second logger, whose records the root
\* logger gets as well.
AddLogHandlerTwice(l) ==
    /\ running[l].job = "init"
    /\ handlers' = handlers \o <<running[l].conn, running[l].conn>>
    /\ served' = served \cup {running[l].conn}
    /\ running' = [running EXCEPT ![l] = Idle]
    /\ UNCHANGED <<client, accepted, tasks, lines, ended, unread, own>>

\* ... and one is added for this connection, whose pipeline is then complete.
\* The initChannel of another event loop may come in between.
AddLogHandler(l) ==
    /\ running[l].job = "init"
    /\ handlers' = Append(handlers, running[l].conn)
    /\ served' = served \cup {running[l].conn}
    /\ running' = [running EXCEPT ![l] = Idle]
    /\ UNCHANGED <<client, accepted, tasks, lines, ended, unread, own>>

\* userEventTriggered, for a record that was logged on another event loop.
DeliverLog(l) ==
    /\ TakesTask(l)
    /\ NextTask(l).record # NoRecord
    /\ Write(NextTask(l).conn, NextTask(l).record)
    /\ UNCHANGED <<client, accepted, served, handlers, running, lines, ended>>

\* Mutant: the request stays in the decoder and is handed on once more.
StartCallAgain(c) ==
    /\ c \in served
    /\ running[Home[c]] = Idle
    /\ running' = [running EXCEPT ![Home[c]] = Job("call", c)]
    /\ UNCHANGED <<client, accepted, served, handlers, tasks, lines, ended, unread, own>>

\* channelRead: the request of c is there, and its event loop runs the function.
StartCall(c) ==
    /\ c \in served
    /\ c \notin ended
    /\ running[Home[c]] = Idle
    /\ running' = [running EXCEPT ![Home[c]] = Job("call", c)]
    /\ UNCHANGED <<client, accepted, served, handlers, tasks, lines,
                   ended, unread, own>>

\* Mutant: a record is always handed to the event loop, never handled at once.
PublishedNow(l, d) == FALSE

\* fireUserEventTriggered for the connection d on event loop l: at once when it
\* is the loop of d, as a task of the loop of d otherwise.
PublishedHere(l, d) == Home[d] = l

\* The function running on l logs: Logger.log calls publish for each handler.
Log(l, level) ==
    LET c == running[l].conn
        record == Message(level, c, lines[c] + 1)
        Here(d) == Selected(handlers, {h \in {d} : PublishedHere(l, h)})
        There(k) == Selected(handlers,
                       {h \in Conns : Home[h] = k /\ ~PublishedHere(l, h)})
    IN /\ running[l].job = "call"
       /\ lines[c] < MaxLines
       /\ lines' = [lines EXCEPT ![c] = @ + 1]
       /\ unread' = [d \in Conns |-> IF Reading(d)
                       THEN unread[d] \o [i \in 1..Len(Here(d)) |-> record]
                       ELSE unread[d]]
       /\ own' = [own EXCEPT ![c] = @ + Len(Here(c))]
       /\ tasks' = [k \in Loops |-> tasks[k] \o
                       [i \in 1..Len(There(k)) |-> Post(There(k)[i], record)]]
       /\ UNCHANGED <<client, accepted, served, handlers, running, ended>>

\* Mutant: what the function throws is not caught.
EndCallQuietly(l, outcome) ==
    LET c == running[l].conn IN
    /\ running[l].job = "call"
    /\ ended' = ended \cup {c}
    /\ running' = [running EXCEPT ![l] = Idle]
    /\ IF outcome = "exception" THEN UNCHANGED <<unread, own>>
       ELSE Write(c, Message(outcome, c, lines[c] + 1))
    /\ UNCHANGED <<client, accepted, served, handlers, tasks, lines>>

\* The function returns or throws, and its answer is written.
EndCall(l, outcome) ==
    LET c == running[l].conn IN
    /\ running[l].job = "call"
    /\ ended' = ended \cup {c}
    /\ running' = [running EXCEPT ![l] = Idle]
    /\ Write(c, Message(outcome, c, lines[c] + 1))
    /\ UNCHANGED <<client, accepted, served, handlers, tasks, lines>>

-----------------------------------------------------------------------------

Init ==
    /\ client = [s \in Sessions |-> None]
    /\ accepted = 0
    /\ served = {}
    /\ handlers = <<>>
    /\ running = [l \in Loops |-> Idle]
    /\ tasks = [l \in Loops |-> <<>>]
    /\ lines = [c \in Conns |-> 0]
    /\ ended = {}
    /\ unread = [c \in Conns |-> <<>>]
    /\ own = [c \in Conns |-> 0]

LoopStep(l) ==
    \/ ResetLog(l)
    \/ AddLogHandler(l)
    \/ DeliverLog(l)
    \/ \E outcome \in Outcomes : EndCall(l, outcome)

Next ==
    \/ \E s \in Sessions : Connect(s) \/ Receive(s) \/ Cancel(s)
    \/ \E l \in Loops : LoopStep(l)
    \/ \E l \in Loops, level \in LogLevels : Log(l, level)
    \/ \E c \in Conns : StartCall(c)

Spec == Init /\ [][Next]_vars

\* The event loops run, each Java function ends, and the sessions read.  netty
\* serves tasks and connections in turn, so that neither starves the other.
Fairness ==
    /\ \A l \in Loops : WF_vars(LoopStep(l))
    /\ \A c \in Conns : SF_vars(StartCall(c))
    /\ \A s \in Sessions : WF_vars(Receive(s))

FairSpec == Spec /\ Fairness

-----------------------------------------------------------------------------
(* Properties.                                                             *)

Messages == [kind : LogLevels \cup Outcomes, from : Conns, line : 1..(MaxLines + 1)]

\* Type invariant.
ServerTypeOK ==
    /\ client \in [Sessions -> Conns \cup {None}]
    /\ accepted \in 0..MaxConns
    /\ served \subseteq 1..accepted /\ ended \subseteq served
    /\ handlers \in Seq(served)
    /\ running \in [Loops -> [job : {"idle", "init", "call"}, conn : 0..accepted]]
    /\ tasks \in [Loops -> Seq([conn : 1..accepted, record : Messages \cup {NoRecord}])]
    /\ lines \in [Conns -> 0..MaxLines]
    /\ unread \in [Conns -> Seq(Messages)]
    /\ own \in [Conns -> 0..(MaxLines + 1)]

\* However initChannel runs on the event loops at the same time, the root
\* logger never has two handlers of connections of one event loop: a line is
\* written at most once for each loop, and the handlers do not pile up.
OneHandlerPerLoop ==
    \A i, j \in 1..Len(handlers) :
        Home[handlers[i]] = Home[handlers[j]] => i = j

\* The lines a function logs and its answer are written to its connection in
\* their order, and the answer last.
OwnInOrder ==
    \A c \in Conns : \A i, j \in 1..Len(unread[c]) :
        LET first == unread[c][i]
            second == unread[c][j]
        IN i < j /\ first.from = c /\ second.from = c
           => first.line < second.line /\ first.kind \in LogLevels

\* A function whose connection still has its handler when it ends has lost no
\* line and none came twice: only a connection accepted after its own can have
\* taken its handler away.
OwnComplete ==
    \A i \in 1..Len(handlers) :
        LET c == handlers[i] IN
        c \in ended => own[c] = lines[c] + 1

\* What a session reads was logged by the function it has called.
LogsToCaller ==
    [][\A s \in Sessions : Receive(s) =>
          Head(unread[client[s]]).from = client[s]]_vars

\* Every call is answered, whatever the functions on the same event loop do and
\* however many lines of other functions are queued, as long as they end.
AllAnswered == \A s \in Sessions : client[s] # None ~> client[s] = None
=============================================================================
