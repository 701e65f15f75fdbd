------------------------ MODULE PLJVMServerProofs ------------------------
(***************************************************************************)
(* Proofs about PLJVMServer, for any number of sessions, event loops,      *)
(* connections and log lines, and any share of connections to the loops.   *)
(*                                                                         *)
(* The inductive invariant adds to the properties what their steps rest    *)
(* on.  One handler per event loop: while initChannel runs between its     *)
(* two halves, nothing else of its event loop can add a handler.  Order    *)
(* and completeness: a connection is told of its own function's lines at   *)
(* once and by its one handler, never by a task, until a new connection    *)
(* takes the handler away for good.                                        *)
(***************************************************************************)
EXTENDS PLJVMServer, CommonProofs

USE ServerAssumption

-----------------------------------------------------------------------------
(* The inductive invariant.                                                *)

\* What an event loop runs, it runs for a connection of its own.
RunningOK ==
    \A l \in Loops : running[l] # Idle =>
        /\ running[l].job \in {"init", "call"}
        /\ running[l].conn \in 1..accepted
        /\ Home[running[l].conn] = l

\* Between its two halves initChannel has a new connection, and no other
\* connection of its event loop has a handler.
InitOK ==
    \A l \in Loops : running[l].job = "init" =>
        /\ running[l].conn \notin served
        /\ \A i \in 1..Len(handlers) : Home[handlers[i]] # l

\* A function runs once.
CallOK ==
    \A l \in Loops : running[l].job = "call" =>
        running[l].conn \in served /\ running[l].conn \notin ended

\* A task waits at the event loop of its connection.  No function is told of its
\* own lines by a task, and a connection is registered once.
TaskOK(l, t, initialized, run) ==
    /\ Home[t.conn] = l
    /\ t.record # NoRecord => t.record.from # t.conn
    /\ t.record = NoRecord => t.conn \notin initialized /\ run # Job("init", t.conn)

TasksOK ==
    \A l \in Loops :
        /\ \A i \in 1..Len(tasks[l]) : TaskOK(l, tasks[l][i], served, running[l])
        /\ \A i, j \in 1..Len(tasks[l]) :
              tasks[l][i] = tasks[l][j] /\ tasks[l][i].record = NoRecord => i = j

\* What each connection has been written of its own function.
CountOK ==
    \A c \in Conns :
        /\ c \notin served => lines[c] = 0 /\ own[c] = 0
        /\ own[c] <= lines[c] + (IF c \in ended THEN 1 ELSE 0)
        /\ c \notin ended /\ (\E i \in 1..Len(handlers) : handlers[i] = c)
              => own[c] = lines[c]

\* Until a function ends, all that has been written of it are the lines so far.
UnreadOK ==
    \A c \in Conns : \A i \in 1..Len(unread[c]) :
        c \notin ended /\ unread[c][i].from = c =>
            unread[c][i].line <= lines[c] /\ unread[c][i].kind \in LogLevels

IInv ==
    /\ ServerTypeOK
    /\ RunningOK /\ InitOK /\ CallOK
    /\ TasksOK
    /\ OneHandlerPerLoop
    /\ CountOK /\ OwnComplete
    /\ UnreadOK /\ OwnInOrder

-----------------------------------------------------------------------------
(* Facts about the types.                                                  *)

Task(n) == [conn : 1..n, record : Messages \cup {NoRecord}]

\* A record that was logged is not the absence of one.
LEMMA NoRecordIsNoMessage == NoRecord \notin Messages
  <1>1. \A m \in Messages : m.line # 0
    BY DEF Messages
  <1>2. NoRecord.line = 0
    BY DEF NoRecord
  <1> QED BY <1>1, <1>2

\* The sets the variables are in, one by one.
LEMMA Types ==
    ASSUME IInv
    PROVE  /\ client \in [Sessions -> Conns \cup {None}]
           /\ accepted \in Nat /\ accepted <= MaxConns
           /\ served \subseteq 1..accepted /\ ended \subseteq served
           /\ handlers \in Seq(served)
           /\ running \in [Loops -> [job : {"idle", "init", "call"}, conn : 0..accepted]]
           /\ tasks \in [Loops -> Seq(Task(accepted))]
           /\ lines \in [Conns -> 0..MaxLines]
           /\ unread \in [Conns -> Seq(Messages)]
           /\ own \in [Conns -> 0..(MaxLines + 1)]
  <1>1. accepted \in Nat /\ accepted <= MaxConns
    BY DEF IInv, ServerTypeOK
  <1>2. tasks \in [Loops -> Seq(Task(accepted))]
    BY DEF IInv, ServerTypeOK, Task
  <1> QED BY <1>1, <1>2 DEF IInv, ServerTypeOK

\* What was accepted is a connection.
LEMMA Accepted ==
    ASSUME IInv, NEW c \in 1..accepted
    PROVE  c \in Conns /\ c # None /\ Home[c] \in Loops
  BY Types DEF Conns, None

-----------------------------------------------------------------------------
(* Initial states.                                                         *)

LEMMA Start == Init => IInv
  <1> SUFFICES ASSUME Init PROVE IInv
    OBVIOUS
  <1>1. ServerTypeOK
    BY DEF Init, ServerTypeOK, Idle, None, Conns
  <1>2. handlers = <<>> /\ \A l \in Loops : running[l] = Idle /\ tasks[l] = <<>>
    BY DEF Init
  <1>3. RunningOK /\ InitOK /\ CallOK
    BY <1>2 DEF RunningOK, InitOK, CallOK, Idle
  <1>4. TasksOK /\ OneHandlerPerLoop /\ OwnComplete
    BY <1>2 DEF TasksOK, OneHandlerPerLoop, OwnComplete
  <1>5. CountOK
    BY <1>2 DEF CountOK, Init
  <1>6. UnreadOK /\ OwnInOrder
    BY DEF UnreadOK, OwnInOrder, Init
  <1> QED BY <1>1, <1>3, <1>4, <1>5, <1>6 DEF IInv

-----------------------------------------------------------------------------
(* The sessions.                                                           *)

\* A new connection has nothing but its registration.
LEMMA ConnectKeeps ==
    ASSUME IInv, NEW s \in Sessions, Connect(s)
    PROVE  IInv'
  <1> DEFINE c == accepted + 1
             h == Home[c]
  <1>1. /\ c \in Conns /\ h \in Loops /\ c <= MaxConns
        /\ accepted' = c /\ accepted \in Nat
        /\ client' = [client EXCEPT ![s] = c]
        /\ tasks' = [tasks EXCEPT ![h] = Append(@, Register(c))]
        /\ UNCHANGED <<served, handlers, running, lines, ended, unread, own>>
    <2>1. /\ accepted < MaxConns /\ accepted' = c
          /\ client' = [client EXCEPT ![s] = c]
          /\ tasks' = [tasks EXCEPT ![h] = Append(@, Register(c))]
          /\ UNCHANGED <<served, handlers, running, lines, ended, unread, own>>
      BY DEF Connect
    <2>2. accepted \in Nat /\ accepted <= MaxConns
      BY Types
    <2>3. c \in Conns /\ c <= MaxConns
      BY <2>1, <2>2 DEF Conns
    <2>4. h \in Loops
      BY <2>3
    <2> QED BY <2>1, <2>2, <2>3, <2>4
  <1>2. c \notin served /\ 1..accepted \subseteq 1..c /\ 0..accepted \subseteq 0..c
    BY <1>1, Types
  <1>3. Register(c) \in Task(c) /\ Register(c).conn = c /\ Register(c).record = NoRecord
    BY <1>1 DEF Register, Task
  <1>4. Task(accepted) \subseteq Task(c)
    BY <1>2 DEF Task
  <1>5. /\ tasks[h] \in Seq(Task(accepted)) /\ tasks[h] \in Seq(Task(c))
        /\ \A l \in Loops \ {h} : tasks'[l] = tasks[l]
        /\ tasks'[h] = Append(tasks[h], Register(c))
    BY <1>1, <1>4, Types
  <1> HIDE DEF c, h
  <1>6. ServerTypeOK'
    <2>1. tasks' \in [Loops -> Seq(Task(c))]
      BY <1>1, <1>3, <1>4, <1>5, Types
    <2>2. running' \in [Loops -> [job : {"idle", "init", "call"}, conn : 0..c]]
      BY <1>1, <1>2, Types
    <2>3. served' \subseteq 1..c /\ handlers' \in Seq(served') /\ ended' \subseteq served'
      BY <1>1, <1>2, Types
    <2>4. client' \in [Sessions -> Conns \cup {None}]
      BY <1>1, Types
    <2>5. c \in 0..MaxConns
      BY <1>1 DEF c
    <2> QED BY <1>1, <2>1, <2>2, <2>3, <2>4, <2>5, Types DEF ServerTypeOK, Task
  <1>7. RunningOK' /\ InitOK' /\ CallOK'
    BY <1>1, <1>2 DEF IInv, RunningOK, InitOK, CallOK
  <1>8. TasksOK'
    <2>1. served' = served /\ running' = running
      BY <1>1
    <2>2. TaskOK(h, Register(c), served, running[h])
      <3>1. running[h] # Job("init", c)
        <4>1. Job("init", c).conn = c /\ Job("init", c).job = "init"
          BY DEF Job
        <4>2. running[h].job = "init" => running[h].conn \in 1..accepted
          BY <1>1 DEF IInv, RunningOK, Idle
        <4> QED BY <1>1, <4>1, <4>2 DEF c
      <3> QED BY <1>1, <1>2, <1>3, <3>1 DEF TaskOK, h
    <2>3. \A i \in 1..Len(tasks[h]) : tasks[h][i] # Register(c)
      <3>1. \A i \in 1..Len(tasks[h]) : tasks[h][i] \in Task(accepted)
        BY <1>5
      <3>2. \A t \in Task(accepted) : t.conn # c
        BY <1>1 DEF Task, c
      <3> QED BY <1>3, <3>1, <3>2
    <2>4. /\ Len(tasks'[h]) = Len(tasks[h]) + 1
          /\ tasks'[h][Len(tasks[h]) + 1] = Register(c)
          /\ \A i \in 1..Len(tasks[h]) : tasks'[h][i] = tasks[h][i]
          /\ Len(tasks[h]) \in Nat
      BY <1>3, <1>5
    <2> DEFINE n == Len(tasks[h])
    <2>5. \A i \in 1..(n + 1) : i \in 1..n \/ i = n + 1
      BY <2>4
    <2>6. ASSUME NEW l \in Loops, NEW i \in 1..Len(tasks'[l])
          PROVE  TaskOK(l, tasks'[l][i], served', running'[l])
      <3>1. CASE l # h
        BY <1>5, <2>1, <3>1 DEF IInv, TasksOK
      <3>2. CASE l = h /\ i \in 1..n
        BY <2>1, <2>4, <3>2 DEF IInv, TasksOK
      <3>3. CASE l = h /\ i = n + 1
        BY <2>1, <2>2, <2>4, <3>3
      <3> QED BY <2>4, <2>5, <3>1, <3>2, <3>3
    <2>7. ASSUME NEW l \in Loops, NEW i \in 1..Len(tasks'[l]), NEW j \in 1..Len(tasks'[l]),
                 tasks'[l][i] = tasks'[l][j], tasks'[l][i].record = NoRecord
          PROVE  i = j
      <3>1. CASE l # h
        BY <1>5, <2>7, <3>1 DEF IInv, TasksOK
      <3>2. CASE l = h /\ i \in 1..n /\ j \in 1..n
        BY <2>4, <2>7, <3>2 DEF IInv, TasksOK
      <3>3. CASE l = h /\ (i = n + 1 \/ j = n + 1)
        BY <2>3, <2>4, <2>5, <2>7, <3>3
      <3> QED BY <2>4, <2>5, <3>1, <3>2, <3>3
    <2> QED BY <2>6, <2>7 DEF TasksOK
  <1>9. OneHandlerPerLoop' /\ OwnComplete' /\ CountOK' /\ UnreadOK' /\ OwnInOrder'
    BY <1>1 DEF IInv, OneHandlerPerLoop, OwnComplete, CountOK, UnreadOK, OwnInOrder
  <1> QED BY <1>6, <1>7, <1>8, <1>9 DEF IInv

\* Leaving a connection, or reading its next line, takes messages away only.
LEMMA ReceiveKeeps ==
    ASSUME IInv, NEW s \in Sessions, Receive(s) \/ Cancel(s)
    PROVE  IInv'
  <1> DEFINE c == client[s]
  <1>1. /\ c \in Conns
        /\ UNCHANGED <<accepted, served, handlers, running, tasks, lines, ended, own>>
    BY Types DEF Receive, Cancel
  <1>2. PICK q : /\ unread' = [unread EXCEPT ![c] = q]
                 /\ q = <<>> \/ (unread[c] # <<>> /\ q = Tail(unread[c]))
    BY DEF Receive, Cancel, Leave
  <1>3. client' \in [Sessions -> Conns \cup {None}]
    <2>1. client' = client \/ client' = [client EXCEPT ![s] = None]
      BY DEF Receive, Cancel, Leave
    <2> QED BY <2>1, Types
  <1>4. unread \in [Conns -> Seq(Messages)]
    BY Types
  <1> HIDE DEF c
  <1>5. q \in Seq(Messages) /\ \E k \in 0..1 : \A i \in 1..Len(q) :
                                  i + k \in 1..Len(unread[c]) /\ q[i] = unread[c][i + k]
    <2>1. CASE q = <<>>
      BY <2>1
    <2>2. CASE unread[c] # <<>> /\ q = Tail(unread[c])
      <3>1. unread[c] \in Seq(Messages)
        BY <1>1, <1>4
      <3>2. /\ q \in Seq(Messages) /\ Len(q) = Len(unread[c]) - 1
            /\ \A i \in 1..Len(q) : q[i] = unread[c][i + 1]
        BY <2>2, <3>1
      <3>3. \A i \in 1..Len(q) : i + 1 \in 1..Len(unread[c]) /\ q[i] = unread[c][i + 1]
        BY <3>1, <3>2
      <3> QED BY <3>2, <3>3
    <2> QED BY <1>2, <2>1, <2>2
  <1>6. unread' \in [Conns -> Seq(Messages)]
    BY <1>1, <1>2, <1>4, <1>5
  <1>7. PICK k \in 0..1 : \A i \in 1..Len(q) :
              i + k \in 1..Len(unread[c]) /\ q[i] = unread[c][i + k]
    BY <1>5
  <1>8. \A d \in Conns : unread'[d] = IF d = c THEN q ELSE unread[d]
    BY <1>1, <1>2, <1>4
  <1>9. ServerTypeOK'
    <2>1. accepted \in 0..MaxConns
      BY DEF IInv, ServerTypeOK
    <2> QED BY <1>1, <1>3, <1>6, <2>1, Types DEF ServerTypeOK, Task
  <1>10. RunningOK' /\ InitOK' /\ CallOK' /\ TasksOK' /\ OneHandlerPerLoop'
    BY <1>1 DEF IInv, RunningOK, InitOK, CallOK, TasksOK, OneHandlerPerLoop
  <1>11. CountOK' /\ OwnComplete'
    BY <1>1 DEF IInv, CountOK, OwnComplete
  <1>12. UnreadOK'
    <2>1. ASSUME NEW d \in Conns, NEW i \in 1..Len(unread'[d]),
                 d \notin ended, unread'[d][i].from = d
          PROVE  unread'[d][i].line <= lines[d] /\ unread'[d][i].kind \in LogLevels
      <3>1. CASE d = c
        <4>1. i + k \in 1..Len(unread[d]) /\ unread'[d][i] = unread[d][i + k]
          BY <1>7, <1>8, <2>1, <3>1
        <4> QED BY <2>1, <4>1 DEF IInv, UnreadOK
      <3>2. CASE d # c
        BY <1>8, <2>1, <3>2 DEF IInv, UnreadOK
      <3> QED BY <3>1, <3>2
    <2> QED BY <1>1, <2>1 DEF UnreadOK
  <1>13. OwnInOrder'
    <2>1. ASSUME NEW d \in Conns, NEW i \in 1..Len(unread'[d]), NEW j \in 1..Len(unread'[d]),
                 i < j, unread'[d][i].from = d, unread'[d][j].from = d
          PROVE  /\ unread'[d][i].line < unread'[d][j].line
                 /\ unread'[d][i].kind \in LogLevels
      <3>1. CASE d = c
        <4>1. i + k \in 1..Len(unread[d]) /\ unread'[d][i] = unread[d][i + k]
          BY <1>7, <1>8, <2>1, <3>1
        <4>2. j + k \in 1..Len(unread[d]) /\ unread'[d][j] = unread[d][j + k]
          BY <1>7, <1>8, <2>1, <3>1
        <4>3. i + k < j + k
          BY <2>1
        <4> QED BY <2>1, <4>1, <4>2, <4>3 DEF IInv, OwnInOrder
      <3>2. CASE d # c
        BY <1>8, <2>1, <3>2 DEF IInv, OwnInOrder
      <3> QED BY <3>1, <3>2
    <2> QED BY <2>1 DEF OwnInOrder
  <1> QED BY <1>9, <1>10, <1>11, <1>12, <1>13 DEF IInv

-----------------------------------------------------------------------------
(* The event loops.                                                        *)

\* Two tasks with the same fields are the same.
LEMMA SameTask ==
    ASSUME NEW n, NEW t \in Task(n), NEW u \in Task(n),
           t.conn = u.conn, t.record = u.record
    PROVE  t = u
  BY DEF Task

LEMMA JobFields ==
    ASSUME NEW job, NEW c
    PROVE  /\ Job(job, c).job = job /\ Job(job, c).conn = c
           /\ Idle.job = "idle" /\ Idle.conn = None
           /\ job # "idle" => Job(job, c) # Idle
  <1>1. Job(job, c).job = job /\ Job(job, c).conn = c
    BY DEF Job
  <1>2. Idle.job = "idle" /\ Idle.conn = None
    BY DEF Idle
  <1> QED BY <1>1, <1>2

\* An event loop that runs something other than nothing.
LEMMA Busy ==
    ASSUME IInv, NEW l \in Loops, running[l].job # "idle"
    PROVE  /\ running[l] = Job(running[l].job, running[l].conn)
           /\ running[l].job \in {"init", "call"}
           /\ running[l].conn \in 1..accepted /\ running[l].conn \in Conns
           /\ Home[running[l].conn] = l
  <1>1. running[l] # Idle
    BY JobFields
  <1>2. running[l] \in [job : {"idle", "init", "call"}, conn : 0..accepted]
    BY Types
  <1> QED BY <1>1, <1>2, Accepted DEF IInv, RunningOK, Job

\* What is left when an event loop takes its next task.
LEMMA Take ==
    ASSUME IInv, NEW l \in Loops, TakesTask(l)
    PROVE  /\ NextTask(l) \in Task(accepted)
           /\ TaskOK(l, NextTask(l), served, running[l])
           /\ tasks' \in [Loops -> Seq(Task(accepted))]
           /\ \A k \in Loops : \A i \in 1..Len(tasks'[k]) :
                 TaskOK(k, tasks'[k][i], served, running[k])
           /\ \A k \in Loops : \A i, j \in 1..Len(tasks'[k]) :
                 tasks'[k][i] = tasks'[k][j] /\ tasks'[k][i].record = NoRecord => i = j
           /\ NextTask(l).record = NoRecord
                 => \A i \in 1..Len(tasks'[l]) : tasks'[l][i] # NextTask(l)
  <1>1. /\ tasks \in [Loops -> Seq(Task(accepted))]
        /\ tasks[l] \in Seq(Task(accepted)) /\ tasks[l] # <<>>
        /\ tasks' = [tasks EXCEPT ![l] = Tail(@)]
    BY Types DEF TakesTask
  <1>2. /\ Len(tasks[l]) \in Nat \ {0} /\ 1 \in 1..Len(tasks[l])
        /\ NextTask(l) = tasks[l][1] /\ NextTask(l) \in Task(accepted)
        /\ Tail(tasks[l]) \in Seq(Task(accepted))
        /\ Len(Tail(tasks[l])) = Len(tasks[l]) - 1
        /\ \A i \in 1..(Len(tasks[l]) - 1) : Tail(tasks[l])[i] = tasks[l][i + 1]
    BY <1>1 DEF NextTask
  <1>3. tasks'[l] = Tail(tasks[l]) /\ \A k \in Loops \ {l} : tasks'[k] = tasks[k]
    BY <1>1
  <1>4. \A i \in 1..Len(tasks'[l]) :
            i + 1 \in 1..Len(tasks[l]) /\ i + 1 # 1 /\ tasks'[l][i] = tasks[l][i + 1]
    BY <1>2, <1>3
  <1>5. tasks' \in [Loops -> Seq(Task(accepted))]
    BY <1>1, <1>2
  <1>6. ASSUME NEW k \in Loops, NEW i \in 1..Len(tasks'[k])
        PROVE  TaskOK(k, tasks'[k][i], served, running[k])
    <2>0. \A j \in 1..Len(tasks[k]) : TaskOK(k, tasks[k][j], served, running[k])
      BY DEF IInv, TasksOK
    <2>1. CASE k = l
      <3>1. i + 1 \in 1..Len(tasks[k]) /\ tasks'[k][i] = tasks[k][i + 1]
        BY <1>4, <2>1
      <3> QED BY <2>0, <3>1
    <2>2. CASE k # l
      <3>1. tasks'[k] = tasks[k]
        BY <1>3, <2>2
      <3> QED BY <2>0, <3>1
    <2> QED BY <2>1, <2>2
  <1>7. ASSUME NEW k \in Loops, NEW i \in 1..Len(tasks'[k]), NEW j \in 1..Len(tasks'[k]),
               tasks'[k][i] = tasks'[k][j], tasks'[k][i].record = NoRecord
        PROVE  i = j
    <2>1. CASE k = l
      <3>1. i + 1 = j + 1
        BY <1>4, <1>7, <2>1 DEF IInv, TasksOK
      <3> QED BY <1>2, <1>3, <2>1, <3>1
    <2>2. CASE k # l
      BY <1>3, <1>7, <2>2 DEF IInv, TasksOK
    <2> QED BY <2>1, <2>2
  <1>8. ASSUME NextTask(l).record = NoRecord, NEW i \in 1..Len(tasks'[l])
        PROVE  tasks'[l][i] # NextTask(l)
    <2>1. \A m, n \in 1..Len(tasks[l]) :
             tasks[l][m] = tasks[l][n] /\ tasks[l][m].record = NoRecord => m = n
      BY DEF IInv, TasksOK
    <2>2. i + 1 \in 1..Len(tasks[l]) /\ i + 1 # 1 /\ tasks'[l][i] = tasks[l][i + 1]
      BY <1>4, <1>8
    <2> QED BY <1>2, <1>8, <2>1, <2>2
  <1>9. TaskOK(l, NextTask(l), served, running[l])
    BY <1>2 DEF IInv, TasksOK
  <1> QED BY <1>2, <1>5, <1>6, <1>7, <1>8, <1>9

\* Between the two halves of initChannel no handler is left.
LEMMA ResetKeeps ==
    ASSUME IInv, NEW l \in Loops, ResetLog(l)
    PROVE  IInv'
  <1> DEFINE t == NextTask(l)
             c == t.conn
  <1>1. /\ TakesTask(l) /\ t.record = NoRecord /\ handlers' = <<>>
        /\ running[l] = Idle
        /\ running' = [running EXCEPT ![l] = Job("init", c)]
        /\ UNCHANGED <<client, accepted, served, lines, ended, unread, own>>
    BY DEF ResetLog, TakesTask
  <1>2. /\ t \in Task(accepted) /\ c \in 1..accepted
        /\ TaskOK(l, t, served, running[l])
        /\ tasks' \in [Loops -> Seq(Task(accepted))]
    BY <1>1, Take DEF Task
  <1>3. Home[c] = l /\ c \notin served
    BY <1>1, <1>2 DEF TaskOK
  <1>4. running'[l] = Job("init", c) /\ \A k \in Loops \ {l} : running'[k] = running[k]
    BY <1>1, Types
  <1> HIDE DEF c, t
  <1>5. ServerTypeOK'
    <2>1. accepted \in 0..MaxConns
      BY DEF IInv, ServerTypeOK
    <2>2. running' \in [Loops -> [job : {"idle", "init", "call"}, conn : 0..accepted]]
      <3>1. Job("init", c) \in [job : {"idle", "init", "call"}, conn : 0..accepted]
        BY <1>2, <2>1 DEF Job
      <3> QED BY <1>1, <3>1, Types
    <2>3. handlers' \in Seq(served)
      BY <1>1
    <2> QED BY <1>1, <1>2, <2>1, <2>2, <2>3, Types DEF ServerTypeOK, Task
  <1>6. RunningOK' /\ InitOK' /\ CallOK'
    <2>1. Job("init", c).job = "init" /\ Job("init", c).conn = c
      BY JobFields
    <2>2. Len(handlers') = 0
      BY <1>1
    <2>3. RunningOK'
      BY <1>1, <1>2, <1>3, <1>4, <2>1 DEF IInv, RunningOK
    <2>4. InitOK'
      BY <1>1, <1>3, <1>4, <2>1, <2>2 DEF IInv, InitOK
    <2>5. CallOK'
      BY <1>1, <1>4, <2>1 DEF IInv, CallOK
    <2> QED BY <2>3, <2>4, <2>5
  <1>7. TasksOK'
    <2>1. ASSUME NEW k \in Loops, NEW i \in 1..Len(tasks'[k])
          PROVE  TaskOK(k, tasks'[k][i], served', running'[k])
      <3> DEFINE u == tasks'[k][i]
      <3>1. TaskOK(k, u, served, running[k])
        BY <1>1, Take
      <3>2. CASE k = l
        <4>1. u.record = NoRecord => u # t
          BY <1>1, <3>2, Take DEF t
        <4>2. u \in Task(accepted)
          BY <1>2
        <4> HIDE DEF u
        <4>3. u.record = NoRecord => u.conn # c
          BY <1>1, <1>2, <4>1, <4>2, SameTask DEF c
        <4>4. u.record = NoRecord => Job("init", c) # Job("init", u.conn)
          BY <4>3, JobFields
        <4>5. TaskOK(k, u, served, Job("init", c))
          BY <3>1, <4>4 DEF TaskOK
        <4>6. served' = served /\ running'[k] = Job("init", c)
          BY <1>1, <1>4, <3>2
        <4> QED BY <4>5, <4>6 DEF u
      <3>3. CASE k # l
        BY <1>1, <1>4, <3>1, <3>3
      <3> QED BY <3>2, <3>3
    <2>2. \A k \in Loops : \A i, j \in 1..Len(tasks'[k]) :
             tasks'[k][i] = tasks'[k][j] /\ tasks'[k][i].record = NoRecord => i = j
      BY <1>1, Take
    <2> QED BY <2>1, <2>2 DEF TasksOK
  <1>8. OneHandlerPerLoop' /\ OwnComplete' /\ CountOK'
    <2>1. Len(handlers') = 0
      BY <1>1
    <2>2. OneHandlerPerLoop' /\ OwnComplete'
      BY <2>1 DEF OneHandlerPerLoop, OwnComplete
    <2>3. CountOK'
      BY <1>1, <2>1 DEF IInv, CountOK
    <2> QED BY <2>2, <2>3
  <1>9. UnreadOK' /\ OwnInOrder'
    BY <1>1 DEF IInv, UnreadOK, OwnInOrder
  <1> QED BY <1>5, <1>6, <1>7, <1>8, <1>9 DEF IInv

\* The one handler of a connection comes when no other of its event loop has
\* one, whatever the other event loops do at the same time.
LEMMA AddKeeps ==
    ASSUME IInv, NEW l \in Loops, AddLogHandler(l)
    PROVE  IInv'
  <1> DEFINE c == running[l].conn
  <1>1. /\ running[l].job = "init"
        /\ handlers' = Append(handlers, c)
        /\ served' = served \cup {c}
        /\ running' = [running EXCEPT ![l] = Idle]
        /\ UNCHANGED <<client, accepted, tasks, lines, ended, unread, own>>
    BY DEF AddLogHandler
  <1>2. /\ running[l] = Job("init", c) /\ c \in 1..accepted /\ c \in Conns
        /\ Home[c] = l /\ c \notin served
        /\ \A i \in 1..Len(handlers) : Home[handlers[i]] # l
    BY <1>1, Busy DEF IInv, InitOK
  <1>3. running'[l] = Idle /\ \A k \in Loops \ {l} : running'[k] = running[k]
    BY <1>1, Types
  <1> HIDE DEF c
  <1>4. /\ handlers \in Seq(served) /\ handlers \in Seq(served')
        /\ Len(handlers) \in Nat /\ Len(handlers') = Len(handlers) + 1
        /\ handlers'[Len(handlers) + 1] = c
        /\ \A i \in 1..Len(handlers) : handlers'[i] = handlers[i] /\ handlers[i] \in served
        /\ handlers' \in Seq(served')
    BY <1>1, Types
  <1> DEFINE n == Len(handlers)
  <1>5. \A i \in 1..Len(handlers') : i \in 1..n \/ i = n + 1
    BY <1>4
  <1>6. ServerTypeOK'
    <2>1. accepted \in 0..MaxConns
      BY DEF IInv, ServerTypeOK
    <2>2. running' \in [Loops -> [job : {"idle", "init", "call"}, conn : 0..accepted]]
      <3>1. Idle \in [job : {"idle", "init", "call"}, conn : 0..accepted]
        BY <2>1 DEF Idle, None
      <3> QED BY <1>1, <3>1, Types
    <2>3. served' \subseteq 1..accepted /\ ended \subseteq served'
      BY <1>1, <1>2, Types
    <2> QED BY <1>1, <1>4, <2>1, <2>2, <2>3, Types DEF ServerTypeOK, Task
  <1>7. RunningOK'
    BY <1>1, <1>3 DEF IInv, RunningOK
  <1>8. InitOK'
    <2> SUFFICES ASSUME NEW k \in Loops, running'[k].job = "init"
                 PROVE  /\ running'[k].conn \notin served'
                        /\ \A i \in 1..Len(handlers') : Home[handlers'[i]] # k
      BY DEF InitOK
    <2>1. k # l /\ running'[k] = running[k]
      BY <1>3, JobFields
    <2>2. /\ running[k].conn \notin served /\ Home[running[k].conn] = k
          /\ \A i \in 1..Len(handlers) : Home[handlers[i]] # k
      BY <2>1, Busy DEF IInv, InitOK
    <2> QED BY <1>1, <1>2, <1>4, <1>5, <2>1, <2>2
  <1>9. CallOK'
    <2>1. \A k \in Loops : running'[k].job = "call" => k # l
      BY <1>3, JobFields
    <2> QED BY <1>1, <1>3, <2>1 DEF IInv, CallOK
  <1>10. TasksOK'
    <2>1. ASSUME NEW k \in Loops, NEW i \in 1..Len(tasks[k])
          PROVE  TaskOK(k, tasks[k][i], served', running'[k])
      <3> DEFINE t == tasks[k][i]
      <3>1. TaskOK(k, t, served, running[k])
        BY DEF IInv, TasksOK
      <3> HIDE DEF t
      <3>2. t.record = NoRecord => t.conn # c
        BY <1>2, <3>1 DEF TaskOK
      <3>3. Idle # Job("init", t.conn)
        BY JobFields
      <3>4. running'[k] = Idle \/ running'[k] = running[k]
        BY <1>3
      <3>5. TaskOK(k, t, served', running'[k])
        BY <1>1, <3>1, <3>2, <3>3, <3>4 DEF TaskOK
      <3> QED BY <3>5 DEF t
    <2> QED BY <1>1, <2>1 DEF IInv, TasksOK
  <1>11. OneHandlerPerLoop'
    <2>1. ASSUME NEW i \in 1..Len(handlers'), NEW j \in 1..Len(handlers'),
                 Home[handlers'[i]] = Home[handlers'[j]]
          PROVE  i = j
      <3>1. CASE i \in 1..n /\ j \in 1..n
        BY <1>4, <2>1, <3>1 DEF IInv, OneHandlerPerLoop
      <3>2. CASE i = n + 1 \/ j = n + 1
        BY <1>2, <1>4, <1>5, <2>1, <3>2
      <3> QED BY <1>5, <3>1, <3>2
    <2> QED BY <2>1 DEF OneHandlerPerLoop
  <1>12. c \notin ended
    BY <1>2, Types
  <1>13. OwnComplete'
    <2>1. ASSUME NEW i \in 1..Len(handlers'), handlers'[i] \in ended
          PROVE  own[handlers'[i]] = lines[handlers'[i]] + 1
      BY <1>4, <1>5, <1>12, <2>1 DEF IInv, OwnComplete
    <2> QED BY <1>1, <2>1 DEF OwnComplete
  <1>14. CountOK'
    <2>1. ASSUME NEW d \in Conns, d \notin ended, NEW i \in 1..Len(handlers'), handlers'[i] = d
          PROVE  own[d] = lines[d]
      <3>1. CASE i \in 1..n
        BY <1>4, <2>1, <3>1 DEF IInv, CountOK
      <3>2. CASE i = n + 1
        BY <1>2, <1>4, <2>1, <3>2 DEF IInv, CountOK
      <3> QED BY <1>5, <3>1, <3>2
    <2>2. \A d \in Conns : d \notin served' => d \notin served
      BY <1>1
    <2> QED BY <1>1, <2>1, <2>2 DEF IInv, CountOK
  <1>15. UnreadOK' /\ OwnInOrder'
    BY <1>1 DEF IInv, UnreadOK, OwnInOrder
  <1> QED BY <1>6, <1>7, <1>8, <1>9, <1>10, <1>11, <1>13, <1>14, <1>15 DEF IInv

\* A function begins.
LEMMA StartCallKeeps ==
    ASSUME IInv, NEW c \in Conns, StartCall(c)
    PROVE  IInv'
  <1> DEFINE l == Home[c]
  <1>1. /\ c \in served /\ c \notin ended /\ c \in 1..accepted /\ l \in Loops
        /\ running[l] = Idle
        /\ running' = [running EXCEPT ![l] = Job("call", c)]
        /\ UNCHANGED <<client, accepted, served, handlers, tasks, lines, ended, unread, own>>
    BY Types DEF StartCall
  <1>2. running'[l] = Job("call", c) /\ \A k \in Loops \ {l} : running'[k] = running[k]
    BY <1>1, Types
  <1>3. Job("call", c).job = "call" /\ Job("call", c).conn = c
    BY JobFields
  <1>4. Home[c] = l
    OBVIOUS
  <1> HIDE DEF l
  <1>5. ServerTypeOK'
    <2>1. accepted \in 0..MaxConns
      BY DEF IInv, ServerTypeOK
    <2>2. running' \in [Loops -> [job : {"idle", "init", "call"}, conn : 0..accepted]]
      <3>1. Job("call", c) \in [job : {"idle", "init", "call"}, conn : 0..accepted]
        BY <1>1, <2>1 DEF Job
      <3> QED BY <1>1, <3>1, Types
    <2> QED BY <1>1, <2>1, <2>2, Types DEF ServerTypeOK, Task
  <1>6. RunningOK'
    BY <1>1, <1>2, <1>3, <1>4 DEF IInv, RunningOK
  <1>7. InitOK'
    BY <1>1, <1>2, <1>3 DEF IInv, InitOK
  <1>8. CallOK'
    BY <1>1, <1>2, <1>3 DEF IInv, CallOK
  <1>9. TasksOK'
    <2>1. ASSUME NEW k \in Loops, NEW i \in 1..Len(tasks[k])
          PROVE  TaskOK(k, tasks[k][i], served, running'[k])
      <3>1. TaskOK(k, tasks[k][i], served, running[k])
        BY DEF IInv, TasksOK
      <3>2. Job("call", c) # Job("init", tasks[k][i].conn)
        BY JobFields
      <3>3. running'[k] = Job("call", c) \/ running'[k] = running[k]
        BY <1>2
      <3> QED BY <3>1, <3>2, <3>3 DEF TaskOK
    <2> QED BY <1>1, <2>1 DEF IInv, TasksOK
  <1>10. OneHandlerPerLoop' /\ OwnComplete' /\ CountOK' /\ UnreadOK' /\ OwnInOrder'
    BY <1>1 DEF IInv, OneHandlerPerLoop, OwnComplete, CountOK, UnreadOK, OwnInOrder
  <1> QED BY <1>5, <1>6, <1>7, <1>8, <1>9, <1>10 DEF IInv

-----------------------------------------------------------------------------
(* What is written to the connections.                                     *)

\* The messages of the function of c in q, in the two halves of the invariant.
SoFar(c, q, n) ==
    \A i \in 1..Len(q) : q[i].from = c => q[i].line <= n /\ q[i].kind \in LogLevels
InOrder(c, q) ==
    \A i, j \in 1..Len(q) :
        i < j /\ q[i].from = c /\ q[j].from = c
           => q[i].line < q[j].line /\ q[i].kind \in LogLevels

LEMMA InOrderIs ==
    /\ UnreadOK <=> \A c \in Conns : c \notin ended => SoFar(c, unread[c], lines[c])
    /\ OwnInOrder <=> \A c \in Conns : InOrder(c, unread[c])
  <1>1. UnreadOK <=> \A c \in Conns : c \notin ended => SoFar(c, unread[c], lines[c])
    BY DEF UnreadOK, SoFar
  <1>2. OwnInOrder <=> \A c \in Conns : InOrder(c, unread[c])
    BY DEF OwnInOrder, InOrder
  <1> QED BY <1>1, <1>2

\* Messages of other functions change nothing of that.
LEMMA ForeignKeeps ==
    ASSUME NEW c, NEW q \in Seq(Messages), NEW p \in Seq(Messages),
           \A i \in 1..Len(p) : p[i].from # c
    PROVE  /\ q \o p \in Seq(Messages)
           /\ \A n : SoFar(c, q, n) => SoFar(c, q \o p, n)
           /\ InOrder(c, q) => InOrder(c, q \o p)
  <1>1. q \o p \in Seq(Messages) /\ Len(q) \in Nat /\ Len(p) \in Nat
        /\ Len(q \o p) = Len(q) + Len(p)
    OBVIOUS
  <1>2. \A i \in 1..Len(q) : (q \o p)[i] = q[i]
    OBVIOUS
  <1>3. \A i \in 1..Len(q \o p) : i \notin 1..Len(q) => (q \o p)[i].from # c
    <2> SUFFICES ASSUME NEW i \in 1..Len(q \o p), i \notin 1..Len(q)
                 PROVE  (q \o p)[i].from # c
      OBVIOUS
    <2>1. i - Len(q) \in 1..Len(p) /\ (q \o p)[i] = p[i - Len(q)]
      BY <1>1
    <2> QED BY <2>1
  <1> DEFINE r == q \o p
  <1>4. /\ \A i \in 1..Len(q) : r[i] = q[i]
        /\ \A i \in 1..Len(r) : i \notin 1..Len(q) => r[i].from # c
    BY <1>2, <1>3
  <1> HIDE DEF r
  <1>5. \A n : SoFar(c, q, n) => SoFar(c, r, n)
    BY <1>4 DEF SoFar
  <1>6. InOrder(c, q) => InOrder(c, r)
    BY <1>4 DEF InOrder
  <1> QED BY <1>1, <1>5, <1>6 DEF r

\* The next message of the function of c comes after those so far.
LEMMA OwnKeeps ==
    ASSUME NEW c, NEW q \in Seq(Messages), NEW m \in Messages, NEW n \in Nat,
           m.from = c, m.line = n + 1, SoFar(c, q, n), InOrder(c, q)
    PROVE  /\ Append(q, m) \in Seq(Messages)
           /\ InOrder(c, Append(q, m))
           /\ m.kind \in LogLevels => SoFar(c, Append(q, m), n + 1)
  <1> DEFINE r == Append(q, m)
  <1>1. /\ r \in Seq(Messages) /\ Len(q) \in Nat
        /\ \A i \in 1..Len(r) : i \in 1..Len(q) \/ i = Len(q) + 1
        /\ \A i \in 1..Len(q) : r[i] = q[i]
        /\ r[Len(q) + 1] = m
    OBVIOUS
  <1> HIDE DEF r
  <1>2. \A i \in 1..Len(q) : q[i] \in Messages
    OBVIOUS
  <1>3. \A k \in Messages : k.line \in Nat
    BY ServerAssumption DEF Messages
  <1>4. InOrder(c, r)
    <2> SUFFICES ASSUME NEW i \in 1..Len(r), NEW j \in 1..Len(r),
                        i < j, r[i].from = c, r[j].from = c
                 PROVE  r[i].line < r[j].line /\ r[i].kind \in LogLevels
      BY DEF InOrder
    <2>1. CASE j \in 1..Len(q)
      <3>1. i \in 1..Len(q)
        BY <1>1, <2>1
      <3> QED BY <1>1, <2>1, <3>1 DEF InOrder
    <2>2. CASE j = Len(q) + 1
      <3>1. i \in 1..Len(q) /\ r[i] = q[i] /\ r[j] = m
        BY <1>1, <2>2
      <3>2. q[i].line <= n /\ q[i].kind \in LogLevels
        BY <3>1 DEF SoFar
      <3>3. q[i].line \in Nat
        BY <1>2, <1>3, <3>1
      <3> QED BY <3>1, <3>2, <3>3
    <2> QED BY <1>1, <2>1, <2>2
  <1>5. ASSUME m.kind \in LogLevels PROVE SoFar(c, r, n + 1)
    <2> SUFFICES ASSUME NEW i \in 1..Len(r), r[i].from = c
                 PROVE  r[i].line <= n + 1 /\ r[i].kind \in LogLevels
      BY DEF SoFar
    <2>1. CASE i \in 1..Len(q)
      <3>1. r[i] = q[i] /\ q[i].line <= n /\ q[i].kind \in LogLevels
        BY <1>1, <2>1 DEF SoFar
      <3>2. q[i].line \in Nat
        BY <1>2, <1>3, <2>1
      <3> QED BY <3>1, <3>2
    <2>2. CASE i = Len(q) + 1
      BY <1>1, <1>5, <2>2
    <2> QED BY <1>1, <2>1, <2>2
  <1> QED BY <1>1, <1>4, <1>5 DEF r

\* A record of another event loop is not of the function of the connection.
LEMMA DeliverKeeps ==
    ASSUME IInv, NEW l \in Loops, DeliverLog(l)
    PROVE  IInv'
  <1> DEFINE t == NextTask(l)
             c == t.conn
             m == t.record
  <1>1. /\ TakesTask(l) /\ m # NoRecord
        /\ Write(c, m)
        /\ UNCHANGED <<client, accepted, served, handlers, running, lines, ended>>
    BY DEF DeliverLog
  <1>2. /\ t \in Task(accepted) /\ c \in 1..accepted /\ m \in Messages
        /\ TaskOK(l, t, served, running[l])
        /\ tasks' \in [Loops -> Seq(Task(accepted))]
    BY <1>1, Take DEF Task
  <1>3. c \in Conns /\ m.from # c
    BY <1>1, <1>2, Accepted DEF TaskOK
  <1> HIDE DEF c, m, t
  <1>4. own' = own /\ (unread' = unread \/ unread' = [unread EXCEPT ![c] = Append(@, m)])
    BY <1>1, <1>3 DEF Write
  <1>5. unread \in [Conns -> Seq(Messages)]
    BY Types
  <1>6. unread[c] \o <<m>> = Append(unread[c], m) /\ unread[c] \in Seq(Messages)
        /\ <<m>> \in Seq(Messages) /\ \A i \in 1..Len(<<m>>) : <<m>>[i].from # c
    BY <1>2, <1>3, <1>5
  <1>7. /\ Append(unread[c], m) \in Seq(Messages)
        /\ \A n : SoFar(c, unread[c], n) => SoFar(c, Append(unread[c], m), n)
        /\ InOrder(c, unread[c]) => InOrder(c, Append(unread[c], m))
    <2> DEFINE q == unread[c]
               p == <<m>>
    <2>1. /\ q \in Seq(Messages) /\ p \in Seq(Messages) /\ \A i \in 1..Len(p) : p[i].from # c
          /\ q \o p = Append(q, m)
      BY <1>6
    <2> HIDE DEF q, p
    <2>2. /\ q \o p \in Seq(Messages)
          /\ \A n : SoFar(c, q, n) => SoFar(c, q \o p, n)
          /\ InOrder(c, q) => InOrder(c, q \o p)
      BY <2>1, ForeignKeeps
    <2> QED BY <2>1, <2>2 DEF q
  <1>8. unread' \in [Conns -> Seq(Messages)]
    BY <1>3, <1>4, <1>5, <1>7
  <1>9. \A d \in Conns : unread'[d] = unread[d] \/ (d = c /\ unread'[d] = Append(unread[d], m))
    BY <1>4, <1>5
  <1>10. ServerTypeOK'
    <2>1. accepted \in 0..MaxConns
      BY DEF IInv, ServerTypeOK
    <2> QED BY <1>1, <1>2, <1>4, <1>8, <2>1, Types DEF ServerTypeOK, Task
  <1>11. RunningOK' /\ InitOK' /\ CallOK' /\ OneHandlerPerLoop'
    BY <1>1 DEF IInv, RunningOK, InitOK, CallOK, OneHandlerPerLoop
  <1>12. TasksOK'
    BY <1>1, Take DEF TasksOK
  <1>13. CountOK' /\ OwnComplete'
    BY <1>1, <1>4 DEF IInv, CountOK, OwnComplete
  <1>14. /\ \A d \in Conns : d \notin ended => SoFar(d, unread[d], lines[d])
         /\ \A d \in Conns : InOrder(d, unread[d])
    BY InOrderIs DEF IInv
  <1>15. \A d \in Conns : d \notin ended => SoFar(d, unread'[d], lines[d])
    BY <1>7, <1>9, <1>14
  <1>16. \A d \in Conns : InOrder(d, unread'[d])
    BY <1>7, <1>9, <1>14
  <1>17. UnreadOK' /\ OwnInOrder'
    <2>1. UnreadOK'
      BY <1>1, <1>15 DEF UnreadOK, SoFar
    <2>2. OwnInOrder'
      BY <1>16 DEF OwnInOrder, InOrder
    <2> QED BY <2>1, <2>2
  <1> QED BY <1>10, <1>11, <1>12, <1>13, <1>17 DEF IInv

\* The answer comes after all the lines.
LEMMA EndCallKeeps ==
    ASSUME IInv, NEW l \in Loops, NEW outcome \in Outcomes, EndCall(l, outcome)
    PROVE  IInv'
  <1> DEFINE c == running[l].conn
             m == Message(outcome, c, lines[c] + 1)
  <1>1. /\ running[l].job = "call"
        /\ ended' = ended \cup {c}
        /\ running' = [running EXCEPT ![l] = Idle]
        /\ Write(c, m)
        /\ UNCHANGED <<client, accepted, served, handlers, tasks, lines>>
    BY DEF EndCall
  <1>2. /\ c \in 1..accepted /\ c \in Conns /\ Home[c] = l
        /\ c \in served /\ c \notin ended
    BY <1>1, Busy DEF IInv, CallOK
  <1>3. running'[l] = Idle /\ \A k \in Loops \ {l} : running'[k] = running[k]
    BY <1>1, Types
  <1>4. lines[c] \in 0..MaxLines /\ own[c] \in Nat
    BY <1>2, Types
  <1>5. m \in Messages /\ m.from = c /\ m.line = lines[c] + 1
    BY <1>2, <1>4 DEF Messages, Message
  <1> HIDE DEF c, m
  <1>6. /\ own' = [own EXCEPT ![c] = @ + 1]
        /\ unread' = unread \/ unread' = [unread EXCEPT ![c] = Append(@, m)]
    BY <1>1, <1>5 DEF Write
  <1>7. unread \in [Conns -> Seq(Messages)] /\ own \in [Conns -> 0..(MaxLines + 1)]
        /\ unread[c] \in Seq(Messages)
    BY <1>2, Types
  <1>8. /\ own'[c] = own[c] + 1
        /\ \A d \in Conns : d # c => own'[d] = own[d]
    BY <1>2, <1>6, <1>7
  <1>9. own[c] <= lines[c] /\ own[c] + 1 \in 0..(MaxLines + 1)
    <2>1. own[c] <= lines[c] + (IF c \in ended THEN 1 ELSE 0)
      BY <1>2 DEF IInv, CountOK
    <2>2. own[c] <= lines[c]
      BY <1>2, <1>4, <2>1
    <2> QED BY <1>4, <2>2
  <1>10. /\ \A d \in Conns : d \notin ended => SoFar(d, unread[d], lines[d])
         /\ \A d \in Conns : InOrder(d, unread[d])
    BY InOrderIs DEF IInv
  <1>11. /\ Append(unread[c], m) \in Seq(Messages)
         /\ InOrder(c, Append(unread[c], m))
    BY <1>2, <1>4, <1>5, <1>7, <1>10, OwnKeeps
  <1>12. unread' \in [Conns -> Seq(Messages)]
    BY <1>2, <1>6, <1>7, <1>11
  <1>13. \A d \in Conns : unread'[d] = unread[d] \/ (d = c /\ unread'[d] = Append(unread[d], m))
    BY <1>6, <1>7
  <1>14. ServerTypeOK'
    <2>1. accepted \in 0..MaxConns
      BY DEF IInv, ServerTypeOK
    <2>2. running' \in [Loops -> [job : {"idle", "init", "call"}, conn : 0..accepted]]
      <3>1. Idle \in [job : {"idle", "init", "call"}, conn : 0..accepted]
        BY <2>1 DEF Idle, None
      <3> QED BY <1>1, <3>1, Types
    <2>3. own' \in [Conns -> 0..(MaxLines + 1)]
      BY <1>4, <1>6, <1>7, <1>9
    <2>4. ended' \subseteq served
      BY <1>1, <1>2, Types
    <2> QED BY <1>1, <1>12, <2>1, <2>2, <2>3, <2>4, Types DEF ServerTypeOK, Task
  <1>15. RunningOK'
    BY <1>1, <1>3 DEF IInv, RunningOK
  <1>16. InitOK'
    <2>1. \A k \in Loops : running'[k].job = "init" => k # l
      BY <1>3, JobFields
    <2> QED BY <1>1, <1>3, <2>1 DEF IInv, InitOK
  <1>17. CallOK'
    <2> SUFFICES ASSUME NEW k \in Loops, running'[k].job = "call"
                 PROVE  running'[k].conn \in served' /\ running'[k].conn \notin ended'
      BY DEF CallOK
    <2>1. k # l /\ running'[k] = running[k]
      BY <1>3, JobFields
    <2>2. /\ Home[running[k].conn] = k
          /\ running[k].conn \in served /\ running[k].conn \notin ended
      BY <2>1, Busy DEF IInv, CallOK
    <2> QED BY <1>1, <1>2, <2>1, <2>2
  <1>18. TasksOK'
    <2>1. ASSUME NEW k \in Loops, NEW i \in 1..Len(tasks[k])
          PROVE  TaskOK(k, tasks[k][i], served, running'[k])
      <3>1. TaskOK(k, tasks[k][i], served, running[k])
        BY DEF IInv, TasksOK
      <3>2. Idle # Job("init", tasks[k][i].conn)
        BY JobFields
      <3>3. running'[k] = Idle \/ running'[k] = running[k]
        BY <1>3
      <3> QED BY <3>1, <3>2, <3>3 DEF TaskOK
    <2> QED BY <1>1, <2>1 DEF IInv, TasksOK
  <1>19. OneHandlerPerLoop'
    BY <1>1 DEF IInv, OneHandlerPerLoop
  <1>20. OwnComplete'
    <2> SUFFICES ASSUME NEW i \in 1..Len(handlers), handlers[i] \in ended'
                 PROVE  own'[handlers[i]] = lines[handlers[i]] + 1
      BY <1>1 DEF OwnComplete
    <2>1. CASE handlers[i] = c
      <3>1. own[c] = lines[c]
        BY <1>2, <2>1 DEF IInv, CountOK
      <3> QED BY <1>8, <2>1, <3>1
    <2>2. CASE handlers[i] # c
      <3>1. handlers[i] \in ended /\ handlers[i] \in Conns
        BY <1>1, <2>2, Types, Accepted
      <3> QED BY <1>8, <2>2, <3>1 DEF IInv, OwnComplete
    <2> QED BY <2>1, <2>2
  <1>21. CountOK'
    <2> SUFFICES ASSUME NEW d \in Conns
                 PROVE  /\ d \notin served => lines[d] = 0 /\ own'[d] = 0
                        /\ own'[d] <= lines[d] + (IF d \in ended' THEN 1 ELSE 0)
                        /\ d \notin ended' /\ (\E i \in 1..Len(handlers) : handlers[i] = d)
                              => own'[d] = lines[d]
      BY <1>1 DEF CountOK
    <2>1. CASE d = c
      BY <1>1, <1>2, <1>4, <1>8, <1>9, <2>1
    <2>2. CASE d # c
      <3>1. own'[d] = own[d] /\ (d \in ended' <=> d \in ended)
        BY <1>1, <1>8, <2>2
      <3> QED BY <3>1 DEF IInv, CountOK
    <2> QED BY <2>1, <2>2
  <1>22. UnreadOK'
    <2>1. \A d \in Conns : d \notin ended' => d # c /\ SoFar(d, unread'[d], lines[d])
      BY <1>1, <1>10, <1>13
    <2> QED BY <1>1, <2>1 DEF UnreadOK, SoFar
  <1>23. OwnInOrder'
    <2>1. \A d \in Conns : InOrder(d, unread'[d])
      BY <1>10, <1>11, <1>13
    <2> QED BY <2>1 DEF OwnInOrder, InOrder
  <1> QED BY <1>14, <1>15, <1>16, <1>17, <1>18, <1>19, <1>20, <1>21, <1>22, <1>23 DEF IInv

\* A connection has at most one handler, and is told by it at most once.
LEMMA ToldOnce ==
    ASSUME IInv, NEW c \in Conns, NEW T, \A h \in T : h = c
    PROVE  /\ Selected(handlers, T) \in Seq(served)
           /\ Len(Selected(handlers, T)) \in 0..1
           /\ c \in T /\ (\E i \in 1..Len(handlers) : handlers[i] = c)
                 => Len(Selected(handlers, T)) = 1
  <1>1. handlers \in Seq(served)
    BY Types
  <1>2. CASE \E i \in 1..Len(handlers) : handlers[i] \in T
    <2>1. PICK i \in 1..Len(handlers) : handlers[i] \in T
      BY <1>2
    <2>2. \A j \in 1..Len(handlers) : handlers[j] \in T => j = i
      BY <2>1 DEF IInv, OneHandlerPerLoop
    <2>3. Selected(handlers, T) = <<handlers[i]>>
      BY <1>1, <2>1, <2>2, SelectedOnce
    <2>4. handlers[i] \in served
      BY <1>1, <2>1
    <2> QED BY <2>3, <2>4
  <1>3. CASE ~ \E i \in 1..Len(handlers) : handlers[i] \in T
    <2>1. Selected(handlers, T) = <<>>
      BY <1>1, <1>3, SelectedNone
    <2> QED BY <1>3, <2>1
  <1> QED BY <1>2, <1>3

\* As many copies of x as s is long.
LEMMA Copies ==
    ASSUME NEW A, NEW B, NEW s \in Seq(A), NEW x \in B
    PROVE  /\ [i \in 1..Len(s) |-> x] \in Seq(B)
           /\ Len([i \in 1..Len(s) |-> x]) = Len(s)
           /\ \A i \in 1..Len(s) : [j \in 1..Len(s) |-> x][i] = x
  OBVIOUS

\* A line goes to the handlers there are: the function's own gets it once, at
\* once, those of the same event loop at once, and the others by a task.
LEMMA LogKeeps ==
    ASSUME IInv, NEW l \in Loops, NEW level \in LogLevels, Log(l, level)
    PROVE  IInv'
  <1> DEFINE c == running[l].conn
             record == Message(level, c, lines[c] + 1)
             Here(d) == Selected(handlers, {h \in {d} : PublishedHere(l, h)})
             There(k) == Selected(handlers,
                            {h \in Conns : Home[h] = k /\ ~PublishedHere(l, h)})
             Records(d) == [i \in 1..Len(Here(d)) |-> record]
             Posts(k) == [i \in 1..Len(There(k)) |-> Post(There(k)[i], record)]
  <1>1. /\ running[l].job = "call"
        /\ lines[c] < MaxLines
        /\ lines' = [lines EXCEPT ![c] = @ + 1]
        /\ unread' = [d \in Conns |-> IF Reading(d) THEN unread[d] \o Records(d)
                                      ELSE unread[d]]
        /\ own' = [own EXCEPT ![c] = @ + Len(Here(c))]
        /\ tasks' = [k \in Loops |-> tasks[k] \o Posts(k)]
        /\ UNCHANGED <<client, accepted, served, handlers, running, ended>>
    BY DEF Log
  <1>2. /\ c \in 1..accepted /\ c \in Conns /\ Home[c] = l
        /\ c \in served /\ c \notin ended
    BY <1>1, Busy DEF IInv, CallOK
  <1>3. /\ unread \in [Conns -> Seq(Messages)] /\ own \in [Conns -> 0..(MaxLines + 1)]
        /\ lines \in [Conns -> 0..MaxLines]
        /\ tasks \in [Loops -> Seq(Task(accepted))]
        /\ handlers \in Seq(served) /\ served \subseteq 1..accepted
    BY Types
  <1>4. lines[c] \in 0..MaxLines /\ lines[c] + 1 \in 1..MaxLines /\ own[c] \in Nat
        /\ lines[c] + 1 \in 1..(MaxLines + 1)
    <2> HIDE DEF c
    <2>1. lines[c] \in 0..MaxLines /\ own[c] \in 0..(MaxLines + 1) /\ lines[c] < MaxLines
      BY <1>1, <1>2, <1>3
    <2> QED BY <2>1
  <1>5. /\ record \in Messages /\ record.from = c /\ record.line = lines[c] + 1
        /\ record.kind \in LogLevels
    BY <1>2, <1>4 DEF Messages, Message
  <1>6. record # NoRecord
    BY <1>5, NoRecordIsNoMessage
  <1> HIDE DEF record
  <1>7. ASSUME NEW d \in Conns
        PROVE  /\ Here(d) \in Seq(served) /\ Len(Here(d)) \in 0..1
               /\ Records(d) \in Seq(Messages) /\ Len(Records(d)) = Len(Here(d))
               /\ \A i \in 1..Len(Records(d)) : Records(d)[i] = record
    <2> DEFINE T == {h \in {d} : PublishedHere(l, h)}
    <2>1. \A h \in T : h = d
      OBVIOUS
    <2> HIDE DEF T
    <2>2. Selected(handlers, T) \in Seq(served) /\ Len(Selected(handlers, T)) \in 0..1
      BY <2>1, ToldOnce
    <2>3. Here(d) \in Seq(served) /\ Len(Here(d)) \in 0..1
      BY <2>2 DEF T
    <2> HIDE DEF Here
    <2> QED BY <1>5, <2>3, Copies
  <1>8. (\E i \in 1..Len(handlers) : handlers[i] = c) => Len(Here(c)) = 1
    <2> DEFINE T == {h \in {c} : PublishedHere(l, h)}
    <2>1. (\A h \in T : h = c) /\ c \in T
      BY <1>2 DEF PublishedHere
    <2> HIDE DEF T, c
    <2>2. (\E i \in 1..Len(handlers) : handlers[i] = c) => Len(Selected(handlers, T)) = 1
      BY <1>2, <2>1, ToldOnce
    <2> QED BY <2>2 DEF T
  <1>9. ASSUME NEW k \in Loops
        PROVE  /\ Posts(k) \in Seq(Task(accepted))
               /\ \A i \in 1..Len(Posts(k)) :
                     /\ Posts(k)[i].record = record
                     /\ Home[Posts(k)[i].conn] = k /\ Posts(k)[i].conn # c
    <2> DEFINE T == {h \in Conns : Home[h] = k /\ ~PublishedHere(l, h)}
    <2>1. \A h \in T : Home[h] = k /\ h # c
      BY <1>2 DEF PublishedHere
    <2> HIDE DEF T, c
    <2>2. Selected(handlers, T) \in Seq(served \cap T)
      BY <1>3, SelectedType
    <2>3. There(k) \in Seq(served \cap T)
      BY <2>2 DEF T
    <2> HIDE DEF There
    <2>4. \A i \in 1..Len(There(k)) : There(k)[i] \in served /\ There(k)[i] \in T
      BY <2>3
    <2>5. \A e \in 1..accepted : /\ Post(e, record) \in Task(accepted)
                                 /\ Post(e, record).conn = e
                                 /\ Post(e, record).record = record
      BY <1>5 DEF Post, Task
    <2>6. Len(There(k)) \in Nat
      BY <2>3
    <2>7. \A i \in 1..Len(There(k)) : Post(There(k)[i], record) \in Task(accepted)
      BY <1>3, <2>4, <2>5
    <2>8. Posts(k) \in Seq(Task(accepted)) /\ Len(Posts(k)) = Len(There(k))
      BY <2>6, <2>7
    <2>9. \A i \in 1..Len(There(k)) : Posts(k)[i] = Post(There(k)[i], record)
      OBVIOUS
    <2>10. \A i \in 1..Len(There(k)) :
               Posts(k)[i].record = record /\ Posts(k)[i].conn = There(k)[i]
      BY <1>3, <2>4, <2>5, <2>9
    <2>11. \A i \in 1..Len(There(k)) : Home[There(k)[i]] = k /\ There(k)[i] # c
      BY <2>1, <2>4
    <2> HIDE DEF Posts
    <2> QED BY <2>8, <2>10, <2>11
  <1> HIDE DEF c, Here, Records, Posts
  <1>10. /\ own'[c] = own[c] + Len(Here(c)) /\ lines'[c] = lines[c] + 1
         /\ \A d \in Conns : d # c => own'[d] = own[d] /\ lines'[d] = lines[d]
         /\ Len(Here(c)) \in 0..1
    BY <1>1, <1>2, <1>3, <1>7
  <1>11. own[c] <= lines[c]
    <2>1. own[c] <= lines[c] + (IF c \in ended THEN 1 ELSE 0)
      BY <1>2 DEF IInv, CountOK
    <2> QED BY <1>2, <1>4, <2>1
  <1> DEFINE told == Len(Here(c))
  <1>12. /\ own[c] + told \in 0..(MaxLines + 1)
         /\ own[c] + told <= lines[c] + 1
    <2>1. told \in 0..1
      BY <1>10
    <2> HIDE DEF told
    <2> QED BY <1>4, <1>11, <2>1
  <1>13. /\ \A d \in Conns : d \notin ended => SoFar(d, unread[d], lines[d])
         /\ \A d \in Conns : InOrder(d, unread[d])
    BY InOrderIs DEF IInv
  <1> DEFINE Good(d, q) == /\ q \in Seq(Messages)
                           /\ d \notin ended => SoFar(d, q, lines'[d])
                           /\ InOrder(d, q)
  <1>14. \A d \in Conns \ {c} : Good(d, unread[d] \o Records(d)) /\ Good(d, unread[d])
    <2> SUFFICES ASSUME NEW d \in Conns \ {c}
                 PROVE  Good(d, unread[d] \o Records(d)) /\ Good(d, unread[d])
      OBVIOUS
    <2> DEFINE q == unread[d]
               p == Records(d)
    <2>1. q \in Seq(Messages) /\ p \in Seq(Messages) /\ \A i \in 1..Len(p) : p[i].from # d
      BY <1>3, <1>5, <1>7
    <2>2. (d \notin ended => SoFar(d, q, lines'[d])) /\ InOrder(d, q)
      BY <1>10, <1>13
    <2> HIDE DEF q, p
    <2>3. /\ q \o p \in Seq(Messages)
          /\ \A n : SoFar(d, q, n) => SoFar(d, q \o p, n)
          /\ InOrder(d, q) => InOrder(d, q \o p)
      BY <2>1, ForeignKeeps
    <2>4. Good(d, q \o p) /\ Good(d, q)
      BY <2>1, <2>2, <2>3
    <2> QED BY <2>4 DEF q, p
  <1>15. Good(c, unread[c] \o Records(c)) /\ Good(c, unread[c])
    <2> DEFINE q == unread[c]
               p == Records(c)
    <2>1. /\ q \in Seq(Messages) /\ p \in Seq(Messages) /\ Len(p) \in 0..1
          /\ \A i \in 1..Len(p) : p[i] = record
      BY <1>2, <1>3, <1>7
    <2>2. SoFar(c, q, lines[c]) /\ InOrder(c, q)
      BY <1>2, <1>13
    <2> HIDE DEF q, p
    <2>3. /\ Append(q, record) \in Seq(Messages)
          /\ InOrder(c, Append(q, record))
          /\ SoFar(c, Append(q, record), lines[c] + 1)
      BY <1>4, <1>5, <2>1, <2>2, OwnKeeps
    <2>4. SoFar(c, q, lines[c] + 1)
      <3>1. \A m \in Messages : m.line \in Nat
        BY DEF Messages
      <3>2. \A i \in 1..Len(q) : q[i] \in Messages
        BY <2>1
      <3> QED BY <1>4, <2>2, <3>1, <3>2 DEF SoFar
    <2>5. q \o p = q \/ q \o p = Append(q, record)
      <3>1. CASE Len(p) = 0
        BY <2>1, <3>1
      <3>2. CASE Len(p) = 1
        <4>1. p = <<record>>
          BY <2>1, <3>2
        <4> QED BY <2>1, <4>1
      <3> QED BY <2>1, <3>1, <3>2
    <2>6. Good(c, q)
      BY <1>10, <2>1, <2>2, <2>4
    <2>7. Good(c, Append(q, record))
      BY <1>10, <2>3
    <2>8. Good(c, q \o p)
      BY <2>5, <2>6, <2>7
    <2> QED BY <2>6, <2>8 DEF q, p
  <1>16. \A d \in Conns : Good(d, unread'[d])
    <2>1. \A d \in Conns : Good(d, unread[d] \o Records(d)) /\ Good(d, unread[d])
      BY <1>14, <1>15
    <2>2. \A d \in Conns : unread'[d] = unread[d] \o Records(d) \/ unread'[d] = unread[d]
      BY <1>1
    <2> HIDE DEF Good
    <2> QED BY <2>1, <2>2
  <1>17. ServerTypeOK'
    <2>1. accepted \in 0..MaxConns
      BY DEF IInv, ServerTypeOK
    <2>2. unread' \in [Conns -> Seq(Messages)]
      BY <1>1, <1>16
    <2>3. own' \in [Conns -> 0..(MaxLines + 1)] /\ lines' \in [Conns -> 0..MaxLines]
      <3>1. own[c] + Len(Here(c)) \in 0..(MaxLines + 1)
        BY <1>12
      <3>2. lines[c] + 1 \in 0..MaxLines
        BY <1>4
      <3> QED BY <1>1, <1>3, <3>1, <3>2
    <2>4. tasks' \in [Loops -> Seq(Task(accepted))]
      BY <1>1, <1>3, <1>9
    <2> QED BY <1>1, <2>1, <2>2, <2>3, <2>4, Types DEF ServerTypeOK, Task
  <1>18. RunningOK' /\ InitOK' /\ CallOK' /\ OneHandlerPerLoop'
    BY <1>1 DEF IInv, RunningOK, InitOK, CallOK, OneHandlerPerLoop
  <1>19. ASSUME NEW k \in Loops
         PROVE  /\ Len(tasks[k]) \in Nat
                /\ \A i \in 1..Len(tasks[k]) : tasks'[k][i] = tasks[k][i]
                /\ \A i \in 1..Len(tasks'[k]) :
                      \/ i \in 1..Len(tasks[k])
                      \/ /\ tasks'[k][i].record = record
                         /\ Home[tasks'[k][i].conn] = k /\ tasks'[k][i].conn # c
    <2> DEFINE q == tasks[k]
               p == Posts(k)
    <2>1. q \in Seq(Task(accepted)) /\ p \in Seq(Task(accepted)) /\ tasks'[k] = q \o p
      BY <1>1, <1>3, <1>9
    <2>2. \A i \in 1..Len(p) : p[i].record = record /\ Home[p[i].conn] = k /\ p[i].conn # c
      BY <1>9
    <2> HIDE DEF q, p
    <2>3. /\ Len(q) \in Nat /\ Len(p) \in Nat /\ Len(q \o p) = Len(q) + Len(p)
          /\ \A i \in 1..Len(q) : (q \o p)[i] = q[i]
      BY <2>1
    <2>4. \A i \in 1..Len(q \o p) : i \notin 1..Len(q) =>
             i - Len(q) \in 1..Len(p) /\ (q \o p)[i] = p[i - Len(q)]
      BY <2>1
    <2>5. \A i \in 1..Len(q \o p) : i \notin 1..Len(q) =>
             /\ (q \o p)[i].record = record
             /\ Home[(q \o p)[i].conn] = k /\ (q \o p)[i].conn # c
      BY <2>2, <2>4
    <2> QED BY <2>1, <2>3, <2>5 DEF q
  <1>20. TasksOK'
    <2>1. ASSUME NEW k \in Loops, NEW i \in 1..Len(tasks'[k])
          PROVE  TaskOK(k, tasks'[k][i], served, running[k])
      <3>1. CASE i \in 1..Len(tasks[k])
        BY <1>19, <3>1 DEF IInv, TasksOK
      <3>2. CASE i \notin 1..Len(tasks[k])
        BY <1>5, <1>6, <1>19, <3>2 DEF TaskOK
      <3> QED BY <3>1, <3>2
    <2>2. ASSUME NEW k \in Loops, NEW i \in 1..Len(tasks'[k]), NEW j \in 1..Len(tasks'[k]),
                 tasks'[k][i] = tasks'[k][j], tasks'[k][i].record = NoRecord
          PROVE  i = j
      <3>1. i \in 1..Len(tasks[k]) /\ j \in 1..Len(tasks[k])
        BY <1>6, <1>19, <2>2
      <3> QED BY <1>19, <2>2, <3>1 DEF IInv, TasksOK
    <2> QED BY <1>1, <2>1, <2>2 DEF TasksOK
  <1>21. OwnComplete'
    <2>1. \A i \in 1..Len(handlers) : handlers[i] \in ended =>
             handlers[i] \in Conns /\ handlers[i] # c
      BY <1>2, Types, Accepted
    <2> QED BY <1>1, <1>10, <2>1 DEF IInv, OwnComplete
  <1>22. CountOK'
    <2> SUFFICES ASSUME NEW d \in Conns
                 PROVE  /\ d \notin served => lines'[d] = 0 /\ own'[d] = 0
                        /\ own'[d] <= lines'[d] + (IF d \in ended THEN 1 ELSE 0)
                        /\ d \notin ended /\ (\E i \in 1..Len(handlers) : handlers[i] = d)
                              => own'[d] = lines'[d]
      BY <1>1 DEF CountOK
    <2>1. CASE d = c
      <3>1. own'[c] <= lines'[c]
        BY <1>10, <1>12
      <3>2. (\E i \in 1..Len(handlers) : handlers[i] = c) => own[c] = lines[c]
        BY <1>2 DEF IInv, CountOK
      <3>3. lines'[c] + 0 = lines'[c]
        BY <1>4, <1>10
      <3> QED BY <1>2, <1>8, <1>10, <2>1, <3>1, <3>2, <3>3
    <2>2. CASE d # c
      BY <1>10, <2>2 DEF IInv, CountOK
    <2> QED BY <2>1, <2>2
  <1>23. UnreadOK'
    <2>1. \A d \in Conns : d \notin ended => SoFar(d, unread'[d], lines'[d])
      BY <1>16
    <2> QED BY <1>1, <2>1 DEF UnreadOK, SoFar
  <1>24. OwnInOrder'
    <2>1. \A d \in Conns : InOrder(d, unread'[d])
      BY <1>16
    <2> QED BY <2>1 DEF OwnInOrder, InOrder
  <1> QED BY <1>17, <1>18, <1>20, <1>21, <1>22, <1>23, <1>24 DEF IInv

-----------------------------------------------------------------------------
(* The theorems.                                                           *)

\* Every step keeps the inductive invariant.
LEMMA StepKeeps == IInv /\ [Next]_vars => IInv'
  <1> SUFFICES ASSUME IInv, [Next]_vars PROVE IInv'
    OBVIOUS
  <1>1. ASSUME NEW s \in Sessions, Connect(s) PROVE IInv'
    BY <1>1, ConnectKeeps
  <1>2. ASSUME NEW s \in Sessions, Receive(s) \/ Cancel(s) PROVE IInv'
    BY <1>2, ReceiveKeeps
  <1>3. ASSUME NEW l \in Loops, LoopStep(l) PROVE IInv'
    <2>1. CASE ResetLog(l)
      BY <2>1, ResetKeeps
    <2>2. CASE AddLogHandler(l)
      BY <2>2, AddKeeps
    <2>3. CASE DeliverLog(l)
      BY <2>3, DeliverKeeps
    <2>4. ASSUME NEW outcome \in Outcomes, EndCall(l, outcome) PROVE IInv'
      BY <2>4, EndCallKeeps
    <2> QED BY <1>3, <2>1, <2>2, <2>3, <2>4 DEF LoopStep
  <1>4. ASSUME NEW l \in Loops, NEW level \in LogLevels, Log(l, level) PROVE IInv'
    BY <1>4, LogKeeps
  <1>5. ASSUME NEW c \in Conns, StartCall(c) PROVE IInv'
    BY <1>5, StartCallKeeps
  <1>6. CASE UNCHANGED vars
    <2>1. UNCHANGED <<client, accepted, served, handlers, running, tasks, lines,
                      ended, unread, own>>
      BY <1>6 DEF vars
    <2>2. ServerTypeOK'
      BY <2>1 DEF IInv, ServerTypeOK
    <2>3. RunningOK' /\ InitOK' /\ CallOK' /\ TasksOK'
      BY <2>1 DEF IInv, RunningOK, InitOK, CallOK, TasksOK
    <2>4. OneHandlerPerLoop' /\ CountOK' /\ OwnComplete'
      BY <2>1 DEF IInv, OneHandlerPerLoop, CountOK, OwnComplete
    <2>5. UnreadOK' /\ OwnInOrder'
      BY <2>1 DEF IInv, UnreadOK, OwnInOrder
    <2> QED BY <2>2, <2>3, <2>4, <2>5 DEF IInv
  <1> QED BY <1>1, <1>2, <1>3, <1>4, <1>5, <1>6 DEF Next

LEMMA Invariance == Spec => []IInv
  BY Start, StepKeeps, PTL DEF Spec

\* The variables of the server keep their types.
THEOREM ServerTypeCorrect == Spec => []ServerTypeOK
  <1>1. IInv => ServerTypeOK
    BY DEF IInv
  <1> QED BY <1>1, Invariance, PTL

\* However the initChannels of several event loops interleave, no two handlers
\* of connections of one event loop are installed at a time.
THEOREM HandlersCorrect == Spec => []OneHandlerPerLoop
  <1>1. IInv => OneHandlerPerLoop
    BY DEF IInv
  <1> QED BY <1>1, Invariance, PTL

\* What a function logs and its answer reach its connection in order, whatever
\* records of other event loops are delivered in between.
THEOREM OrderCorrect == Spec => []OwnInOrder
  <1>1. IInv => OwnInOrder
    BY DEF IInv
  <1> QED BY <1>1, Invariance, PTL

\* A function whose handler is still there when it has ended lost no line, and
\* none was written twice.
THEOREM CompletenessCorrect == Spec => []OwnComplete
  <1>1. IInv => OwnComplete
    BY DEF IInv
  <1> QED BY <1>1, Invariance, PTL
=============================================================================
