------------------------- MODULE ScriptRuntimeProofs -------------------------
(***************************************************************************)
(* The safety of ScriptRuntime, for any number of calls, streams and       *)
(* tokens and whatever a script uses.  IInv adds to the properties what    *)
(* the counter counts, what the closers have in hand and which of their    *)
(* two runners has been there.                                             *)
(*                                                                         *)
(* After them, ScriptStorage: the storage that the calls of these scripts  *)
(* share, for any number of calls, any paths and any operations.           *)
(***************************************************************************)
EXTENDS ScriptRuntime, ScriptStorage, TLAPS, FiniteSetTheorems, SequenceTheorems

\* tasks counts the calls between the two lines of startTask and finishTask.
CountedPC == {"recheck", "lock", "opening", "using"}
Counted == {t \in Tasks : task[t].pc \in CountedPC}

TasksCounted == tasks = Cardinality(Counted)

\* An open file is that of a stream which nobody has closed, ...
StreamLife ==
    \A s \in Streams :
        stream[s].held => /\ stream[s].made /\ stream[s].opened
                          /\ stream[s].reader /\ ~stream[s].closed

\* ... and a stream that is being opened is locked until it is.
TaskLife ==
    \A t \in IOs :
        LET s == task[t].on IN
        /\ task[t].pc # "new" /\ s \in Streams => stream[s].made
        /\ task[t].pc = "opening" => /\ s \in Streams /\ stream[s].mu = t
                                     /\ ~stream[s].opened /\ ~stream[s].closed
        /\ task[t].pc = "using" /\ s \in Streams => stream[s].opened

\* A stream that is not closed is in the closers, and if they are being run, it is
\* among those that are left.
StreamsListed ==
    \A s \in Streams :
        /\ stream[s].made /\ ~stream[s].closed => s \in ToSet(outer.list)
        /\ outer.by # None /\ s \in ToSet(outer.list)
               => s \in ToSet(outer.left) \/ stream[s].closed

Past == handler \in {"tasks", "drained", "timedOut", "gone"}

\* Past the closers no file is open, and calls only go on with streams that are closed.
StreamsClosed ==
    Past => /\ \A s \in Streams : ~stream[s].held
            /\ \A t \in IOs : Running(t) /\ task[t].on \in Streams => stream[task[t].on].closed

\* Who runs the closers, and what has happened before.
Runs ==
    /\ outer.by = "watcher" <=> watcher = "close"
    /\ outer.by = "filter" <=> handler = "close"
    /\ inner.by # None => outer.by # None /\ outer.left # <<>> /\ Last(outer.left) = Socket
    /\ watcher # "wait" => closing /\ CtxDone
    /\ handler # "wait" => closing /\ result # "none"
    /\ result # "none" => canceled \/ serve \in {"unused", "over"}

\* A connection is to be registered or is in the socket's closers.
ConnListed ==
    /\ serve \in {"idle", "unused", "spawned"} => conn = "none"
    /\ conn = "open" => serve = "add" \/ inner.list # <<>>
    /\ inner.by # None /\ conn = "open" => serve = "add" \/ inner.left # <<>>

\* The socket's closers are run by the filter unless the watcher has run them.
SocketListed ==
    /\ ~canceled /\ handler \in {"wait", "lock", "close"} => Socket \in ToSet(outer.list)
    /\ Past => Socket \notin ToSet(outer.list)

ConnClosed ==
    ~canceled =>
        /\ outer.by = "filter" /\ Socket \notin ToSet(outer.left) => conn # "open"
        /\ Past => conn # "open"

\* TypeOK but for the counter, of which TasksCounted speaks.
TaskTypes == task \in [Tasks -> [pc : TaskPC, on : Streams \cup {Socket, None}]]

StreamTypes == stream \in [Streams -> StreamRecords]

CloserTypes ==
    /\ outer \in ClosersRecords(Streams \cup {Socket})
    /\ inner \in ClosersRecords({"socket", "conn"})

PlaceTypes ==
    /\ plan \in Plans
    /\ conn \in {"none", "open", "closed"}
    /\ done \in BOOLEAN /\ canceled \in BOOLEAN /\ closing \in BOOLEAN
    /\ serve \in {"idle", "unused", "spawned", "add", "ping", "read", "wait", "over"}
    /\ watcher \in {"wait", "lock", "close", "timer", "over"}
    /\ result \in {"none", "ok", "err"}
    /\ handler \in {"wait", "lock", "close", "tasks", "drained", "timedOut", "gone"}

Types == TaskTypes /\ StreamTypes /\ CloserTypes /\ PlaceTypes

IInv ==
    /\ Types /\ TasksCounted /\ DrainedMeansOver
    /\ StreamLife /\ TaskLife /\ StreamsListed /\ StreamsClosed
    /\ Runs /\ ConnListed /\ SocketListed /\ ConnClosed
-----------------------------------------------------------------------------
(* Sequences and sets *)

\* Append and Front, and the sets of what the sequences hold.
LEMMA AppendSet ==
    ASSUME NEW S, NEW s \in Seq(S), NEW x \in S
    PROVE  Append(s, x) \in Seq(S) /\ ToSet(Append(s, x)) = ToSet(s) \cup {x}
<1>1. Len(s) \in Nat /\ DOMAIN s = 1 .. Len(s)
    OBVIOUS
<1>2. /\ Append(s, x) \in Seq(S) /\ DOMAIN Append(s, x) = 1 .. (Len(s) + 1)
      /\ \A i \in 1 .. Len(s) : Append(s, x)[i] = s[i]
      /\ Append(s, x)[Len(s) + 1] = x
    OBVIOUS
<1>3. 1 .. (Len(s) + 1) = 1 .. Len(s) \cup {Len(s) + 1}
    BY <1>1
<1> QED
    BY <1>1, <1>2, <1>3 DEF ToSet

\* The last element is what Front leaves out.
LEMMA FrontSet ==
    ASSUME NEW S, NEW s \in Seq(S), s # <<>>
    PROVE  /\ Front(s) \in Seq(S) /\ Last(s) \in S
           /\ ToSet(s) = ToSet(Front(s)) \cup {Last(s)}
<1>1. Len(s) \in Nat \ {0} /\ DOMAIN s = 1 .. Len(s)
    OBVIOUS
<1>2. Front(s) \in Seq(S) /\ Last(s) \in S
    BY <1>1 DEF Front, Last
<1>3. DOMAIN Front(s) = 1 .. (Len(s) - 1) /\ \A i \in 1 .. (Len(s) - 1) : Front(s)[i] = s[i]
    BY <1>1 DEF Front
<1>4. 1 .. Len(s) = 1 .. (Len(s) - 1) \cup {Len(s)}
    BY <1>1
<1>5. ToSet(s) = {s[i] : i \in 1 .. (Len(s) - 1)} \cup {s[Len(s)]}
    BY <1>1, <1>4 DEF ToSet
<1>6. ToSet(Front(s)) = {s[i] : i \in 1 .. (Len(s) - 1)}
    BY <1>3 DEF ToSet
<1> QED
    BY <1>2, <1>5, <1>6 DEF Last

\* Nothing is in an empty sequence.
LEMMA EmptySet == ToSet(<<>>) = {}
    BY DEF ToSet

\* The tasks can be counted.
LEMMA TasksFinite == IsFiniteSet(Tasks)
<1>1. IsFiniteSet(1 .. NCalls)
    BY RuntimeAssumption, FS_Interval
<1>2. IsFiniteSet({})
    BY FS_EmptySet
<1>3. IsFiniteSet({} \cup {Ping})
    BY <1>2, FS_AddElement
<1>4. IsFiniteSet(({} \cup {Ping}) \cup {Read})
    BY <1>3, FS_AddElement
<1>5. ({} \cup {Ping}) \cup {Read} = {Ping, Read}
    OBVIOUS
<1> QED
    BY <1>1, <1>4, <1>5, FS_Union DEF Tasks, IOs

\* The calls and the two tasks of the socket.
LEMMA InTasks == IOs \subseteq Tasks /\ Ping \in Tasks /\ Read \in Tasks
    BY DEF Tasks
-----------------------------------------------------------------------------
\* A task's own steps are about its stream, itself and the count of tasks.
LEMMA TaskLeaves ==
    ASSUME NEW t \in Tasks, Task(t)
    PROVE  UNCHANGED <<plan, socketVars, closerVars, endVars>>
<1>1. CASE AddTask(t) \/ RecheckTask(t)
    BY <1>1 DEF AddTask, RecheckTask
<1>2. CASE EnterStream(t)
    BY <1>2 DEF EnterStream
<1>3. CASE Opened(t) \/ OpenFails(t)
    BY <1>3 DEF Opened, OpenFails
<1>4. CASE UseEnds(t)
    BY <1>4 DEF UseEnds
<1>5. CASE EnterSend(t) \/ SendEnds(t)
    BY <1>5 DEF EnterSend, SendEnds
<1> QED
    BY <1>1, <1>2, <1>3, <1>4, <1>5 DEF Task

\* The actions that change streams.
LEMMA StreamFrame ==
    ASSUME [Next]_vars
    PROVE  \/ UNCHANGED stream
           \/ \E t \in IOs : EnterStream(t) \/ Opened(t) \/ OpenFails(t) \/ UseEnds(t)
           \/ \E s \in Streams : OpenStream(s) \/ ScriptCloses(s)
           \/ RunOuter
<1>1. CASE UNCHANGED vars
    BY <1>1 DEF vars, fileVars
<1>2. CASE \E t \in Tasks : Task(t)
    BY <1>2, InTasks DEF Task, AddTask, RecheckTask, EnterSend, SendEnds
<1>3. CASE Script
    BY <1>3
    DEF Script, Call, Send, StartTask, UpgradeWebSocket, ReturnUpgrade, ReturnOther,
        ScriptClosesSocket, fileVars
<1>4. CASE Serve \/ PingEnds \/ ReadEnds \/ Cancel \/ RunClosers
    BY <1>4
    DEF Serve, Upgrade, AddConn, StartSocketTask, StartTask, SocketTaskStarted, ServeEnds,
        PingEnds, ReadEnds, Cancel, RunClosers, RunInner, fileVars
<1>5. CASE Watcher \/ Filter
    BY <1>5
    DEF Watcher, Filter, WatcherWakes, WatcherLocks, WatcherUnlocks, WatcherFinishes,
        FilterWakes, FilterLocks, FilterUnlocks, TasksDrained, TasksTimeOut, LoopStops, fileVars
<1> QED
    BY <1>1, <1>2, <1>3, <1>4, <1>5 DEF Next

\* A stream's record once its file is open.
WithFile(st) ==
    [st EXCEPT !.opened = TRUE, !.reader = TRUE, !.held = TRUE, !.busy = TRUE, !.mu = None]

\* Its call has made the stream, and nobody has closed it.
LEMMA OpenedStream ==
    ASSUME IInv, NEW t \in IOs, Opened(t)
    PROVE  LET s == task[t].on IN
           /\ s \in Streams /\ stream[s] \in StreamRecords
           /\ stream[s].made /\ ~stream[s].closed
           /\ stream' = [stream EXCEPT ![s] = WithFile(stream[s])]
<1> DEFINE s == task[t].on
<1>1. s \in Streams /\ stream[s].made /\ ~stream[s].closed
    BY DEF IInv, TaskLife, Opened
<1>2. stream \in [Streams -> StreamRecords] /\ stream[s] \in StreamRecords
    BY <1>1 DEF IInv, Types, StreamTypes
<1>3. stream' = [stream EXCEPT ![s].opened = TRUE, ![s].reader = TRUE, ![s].held = TRUE,
                               ![s].busy = TRUE, ![s].mu = None]
    BY DEF Opened, HolderWhileUsing
<1>4. stream' = [stream EXCEPT ![s] = WithFile(stream[s])]
    BY <1>1, <1>2, <1>3 DEF WithFile
<1> QED
    BY <1>1, <1>2, <1>4

\* What is the case of it then.
LEMMA WithFileFields ==
    ASSUME NEW st \in StreamRecords
    PROVE  /\ WithFile(st) \in StreamRecords
           /\ WithFile(st).made = st.made /\ WithFile(st).closed = st.closed
           /\ WithFile(st).opened /\ WithFile(st).reader
    BY DEF WithFile, StreamRecords

\* A file that is being opened belongs to the call that opens it.
LEMMA OpenedEffect ==
    ASSUME IInv, NEW t \in IOs, Opened(t)
    PROVE  LET s == task[t].on IN
           /\ s \in Streams /\ stream[s].made /\ ~stream[s].closed
           /\ stream'[s].made /\ stream'[s].opened /\ stream'[s].reader /\ ~stream'[s].closed
           /\ \A x \in Streams \ {s} : stream'[x] = stream[x]
<1>1. stream \in [Streams -> StreamRecords]
    BY DEF IInv, Types, StreamTypes
<1> QED
    BY <1>1, OpenedStream, WithFileFields

\* Each keeps the type of the streams.
LEMMA StreamStep ==
    ASSUME IInv, [Next]_vars
    PROVE  StreamTypes'
<1>1. StreamTypes /\ \A s \in Streams : stream[s] \in StreamRecords
    BY DEF IInv, Types, StreamTypes
<1>2. ASSUME NEW s \in Streams, NEW st \in StreamRecords, stream' = [stream EXCEPT ![s] = st]
      PROVE  StreamTypes'
    BY <1>1, <1>2 DEF StreamTypes
<1>3. ASSUME NEW s \in Streams, OpenStream(s) PROVE StreamTypes'
  <2>1. [stream[s] EXCEPT !.made = TRUE] \in StreamRecords
    BY <1>1 DEF StreamRecords
  <2>2. stream' = [stream EXCEPT ![s] = [stream[s] EXCEPT !.made = TRUE]]
    BY <1>3 DEF OpenStream
  <2> QED
    BY <1>2, <2>1, <2>2
<1>4. ASSUME NEW t \in IOs, EnterStream(t) PROVE StreamTypes'
  <2> DEFINE s == task[t].on
  <2>1. CASE UNCHANGED stream
    BY <1>1, <2>1 DEF StreamTypes
  <2>2. CASE ~UNCHANGED stream
    <3>1. PICK mu \in IOs \cup {None} :
              s \in Streams /\ stream' = [stream EXCEPT ![s].mu = mu, ![s].busy = stream[s].opened]
      BY <1>4, <2>2 DEF EnterStream, HolderWhileUsing, HolderWhileOpening
    <3>2. [stream[s] EXCEPT !.mu = mu, !.busy = stream[s].opened] \in StreamRecords
      BY <1>1, <3>1 DEF StreamRecords
    <3>3. stream' = [stream EXCEPT ![s] = [stream[s] EXCEPT !.mu = mu, !.busy = stream[s].opened]]
      BY <1>1, <3>1 DEF StreamTypes
    <3> QED
      BY <1>2, <3>1, <3>2, <3>3
  <2> QED
    BY <2>1, <2>2
<1>5. ASSUME NEW t \in IOs, Opened(t) PROVE StreamTypes'
    BY <1>2, <1>5, OpenedStream, WithFileFields
<1>6. ASSUME NEW t \in IOs, OpenFails(t) PROVE StreamTypes'
  <2>1. PICK s \in Streams : s = task[t].on
    BY <1>6 DEF IInv, TaskLife, OpenFails
  <2>4. stream[s].closed \in BOOLEAN
    BY <1>1, <2>1 DEF StreamRecords
  <2>2. PICK closed \in BOOLEAN : stream' = [stream EXCEPT ![s].closed = closed, ![s].mu = None]
    BY <1>6, <2>1, <2>4 DEF OpenFails
  <2>3. [stream[s] EXCEPT !.closed = closed, !.mu = None] \in StreamRecords
    BY <1>1 DEF StreamRecords
  <2>5. stream' = [stream EXCEPT ![s] = [stream[s] EXCEPT !.closed = closed, !.mu = None]]
    BY <1>1, <2>2 DEF StreamTypes, StreamRecords
  <2> QED
    BY <1>2, <2>3, <2>5
<1>7. ASSUME NEW s \in Streams, NEW st \in StreamRecords PROVE CloseFile(st) \in StreamRecords
    BY <1>7 DEF CloseFile, StreamRecords
<1>8. ASSUME NEW t \in IOs, UseEnds(t) PROVE StreamTypes'
  <2>1. PICK s \in Streams : s = task[t].on
    BY <1>8 DEF UseEnds
  <2>2. [stream[s] EXCEPT !.busy = FALSE, !.mu = None] \in StreamRecords
    BY <1>1 DEF StreamRecords
  <2>3. ASSUME NEW st \in StreamRecords
        PROVE  /\ [st EXCEPT !.eof = TRUE] \in StreamRecords
               /\ [st EXCEPT !.closed = TRUE] \in StreamRecords
    BY DEF StreamRecords
  <2> QED
    BY <1>2, <1>7, <1>8, <2>1, <2>2, <2>3 DEF UseEnds
<1>9. ASSUME NEW s \in Streams, CloseStream(s) PROVE StreamTypes'
  <2>1. [stream[s] EXCEPT !.closed = TRUE] \in StreamRecords
    BY <1>1 DEF StreamRecords
  <2> QED
    BY <1>1, <1>2, <1>7, <1>9, <2>1 DEF CloseStream, StreamTypes
<1>10. ASSUME RunOuter PROVE StreamTypes'
  <2>1. outer.left # <<>> /\ Last(outer.left) \in Streams \cup {Socket}
    BY <1>10, FrontSet DEF RunOuter, IInv, Types, CloserTypes, ClosersRecords
  <2> QED
    BY <1>1, <1>9, <1>10, <2>1 DEF RunOuter, StreamTypes
<1> QED
    BY <1>1, <1>3, <1>4, <1>5, <1>6, <1>8, <1>9, <1>10, StreamFrame DEF ScriptCloses, StreamTypes

\* The actions that change the closers.
LEMMA CloserFrame ==
    ASSUME [Next]_vars
    PROVE  \/ UNCHANGED <<outer, inner>>
           \/ \E s \in Streams : OpenStream(s)
           \/ UpgradeWebSocket \/ AddConn \/ RunClosers
           \/ WatcherLocks \/ WatcherUnlocks \/ FilterLocks \/ FilterUnlocks
<1>1. CASE UNCHANGED vars
    BY <1>1 DEF vars, closerVars
<1>2. CASE \E t \in Tasks : Task(t)
    BY <1>2, TaskLeaves DEF closerVars
<1>3. CASE Script
    BY <1>3
    DEF Script, ScriptCloses, Call, Send, StartTask, ReturnUpgrade, ReturnOther,
        ScriptClosesSocket, closerVars
<1>4. CASE Serve \/ PingEnds \/ ReadEnds \/ Cancel
    BY <1>4
    DEF Serve, Upgrade, StartSocketTask, StartTask, SocketTaskStarted, ServeEnds, PingEnds,
        ReadEnds, Cancel, closerVars
<1>5. CASE Watcher \/ Filter
    BY <1>5
    DEF Watcher, Filter, WatcherWakes, WatcherFinishes, FilterWakes, TasksDrained, TasksTimeOut,
        LoopStops, closerVars
<1> QED
    BY <1>1, <1>2, <1>3, <1>4, <1>5 DEF Next

\* Each keeps the type of the closers.
LEMMA CloserStep ==
    ASSUME IInv, [Next]_vars
    PROVE  CloserTypes'
<1>1. /\ outer.list \in Seq(Streams \cup {Socket}) /\ outer.left \in Seq(Streams \cup {Socket})
      /\ inner.list \in Seq({"socket", "conn"}) /\ inner.left \in Seq({"socket", "conn"})
      /\ outer.by \in Runners \cup {None} /\ inner.by \in Runners \cup {None}
      /\ CloserTypes
    BY DEF IInv, Types, CloserTypes, ClosersRecords
<1>2. ASSUME NEW S PROVE NoClosers \in ClosersRecords(S)
    BY DEF NoClosers, ClosersRecords
<1>3. ASSUME NEW s \in Streams, OpenStream(s) PROVE CloserTypes'
    BY <1>1, <1>3, AppendSet DEF CloserTypes, ClosersRecords, OpenStream
<1>4. ASSUME UpgradeWebSocket PROVE CloserTypes'
  <2>1. <<"socket">> \in Seq({"socket", "conn"})
    OBVIOUS
  <2> QED
    BY <1>1, <1>4, <2>1 DEF CloserTypes, ClosersRecords, UpgradeWebSocket
<1>5. ASSUME AddConn PROVE CloserTypes'
    BY <1>1, <1>5, AppendSet DEF CloserTypes, ClosersRecords, AddConn
<1>6. ASSUME NEW S, NEW c \in ClosersRecords(S), c.left # <<>>
      PROVE  [c EXCEPT !.left = Front(@)] \in ClosersRecords(S)
    BY <1>6, FrontSet DEF ClosersRecords
<1>7. ASSUME NEW S, NEW c \in ClosersRecords(S), NEW by \in Runners \cup {None}
      PROVE  Lock(c, by) \in ClosersRecords(S)
    BY <1>7 DEF ClosersRecords, Lock
<1>8. ASSUME RunInner PROVE CloserTypes'
    BY <1>1, <1>2, <1>6, <1>8 DEF CloserTypes, RunInner, IInv, Runs
<1>9. ASSUME RunOuter PROVE CloserTypes'
    BY <1>1, <1>6, <1>7, <1>9 DEF CloserTypes, RunOuter
<1>10. ASSUME WatcherLocks \/ FilterLocks PROVE CloserTypes'
    BY <1>1, <1>7, <1>10 DEF CloserTypes, WatcherLocks, FilterLocks, Runners
<1>11. ASSUME WatcherUnlocks \/ FilterUnlocks PROVE CloserTypes'
    BY <1>1, <1>2, <1>11 DEF CloserTypes, WatcherUnlocks, FilterUnlocks
<1>12. CASE UNCHANGED <<outer, inner>>
    BY <1>1, <1>12 DEF CloserTypes
<1> QED
    BY <1>3, <1>4, <1>5, <1>8, <1>9, <1>10, <1>11, <1>12, CloserFrame DEF RunClosers

\* The actions that change tasks.
LEMMA TaskFrame ==
    ASSUME [Next]_vars
    PROVE  \/ UNCHANGED <<task, tasks>>
           \/ \E t \in Tasks : Task(t)
           \/ \E t \in IOs : Call(t) \/ Send(t)
           \/ StartSocketTask \/ PingEnds \/ ReadEnds
<1>1. CASE UNCHANGED vars
    BY <1>1 DEF vars, fileVars
<1>2. CASE Script
    BY <1>2
    DEF Script, OpenStream, ScriptCloses, UpgradeWebSocket, ReturnUpgrade, ReturnOther,
        ScriptClosesSocket, fileVars
<1>3. CASE Serve \/ RunClosers \/ Cancel
    BY <1>3
    DEF Serve, Upgrade, AddConn, SocketTaskStarted, ServeEnds, RunClosers, RunInner, RunOuter,
        Cancel, fileVars
<1>4. CASE Watcher \/ Filter
    BY <1>4
    DEF Watcher, Filter, WatcherWakes, WatcherLocks, WatcherUnlocks, WatcherFinishes,
        FilterWakes, FilterLocks, FilterUnlocks, TasksDrained, TasksTimeOut, LoopStops, fileVars
<1> QED
    BY <1>1, <1>2, <1>3, <1>4 DEF Next

\* Each keeps the type of the tasks.
LEMMA TaskStep ==
    ASSUME IInv, [Next]_vars
    PROVE  TaskTypes'
<1>1. TaskTypes /\ plan \subseteq Streams \cup {Socket}
    BY RuntimeAssumption DEF IInv, Types, PlaceTypes
<1>2. ASSUME NEW t \in Tasks, Task(t) PROVE TaskTypes'
  <2>1. ASSUME NEW pc \in TaskPC, task' = [task EXCEPT ![t].pc = pc] PROVE TaskTypes'
    BY <1>1, <2>1 DEF TaskTypes
  <2>2. \A pc \in {"recheck", "lock", "opening", "using", "over"} : pc \in TaskPC
    BY DEF TaskPC
  <2>3. CASE AddTask(t) \/ RecheckTask(t)
    BY <2>1, <2>2, <2>3 DEF AddTask, RecheckTask
  <2>4. CASE EnterStream(t)
    BY <2>1, <2>2, <2>4 DEF EnterStream, FinishTask
  <2>5. CASE Opened(t) \/ OpenFails(t) \/ UseEnds(t)
    BY <2>1, <2>2, <2>5 DEF Opened, OpenFails, UseEnds, FinishTask
  <2>6. CASE EnterSend(t) \/ SendEnds(t)
    BY <2>1, <2>2, <2>6 DEF EnterSend, SendEnds, FinishTask
  <2> QED
    BY <1>2, <2>3, <2>4, <2>5, <2>6 DEF Task
<1>3. CASE \E t \in IOs : Call(t) \/ Send(t)
    BY <1>1, <1>3 DEF TaskTypes, TaskPC, Call, Send, StartTask
<1>4. CASE StartSocketTask \/ PingEnds \/ ReadEnds
    BY <1>1, <1>4 DEF TaskTypes, TaskPC, StartSocketTask, StartTask, PingEnds, ReadEnds, FinishTask
<1>5. CASE UNCHANGED <<task, tasks>>
    BY <1>1, <1>5 DEF TaskTypes
<1> QED
    BY <1>2, <1>3, <1>4, <1>5, TaskFrame

\* What is left of the types.
LEMMA PlaceStep ==
    ASSUME IInv, [Next]_vars
    PROVE  PlaceTypes'
<1>1. PlaceTypes
    BY DEF IInv, Types
<1>2. CASE UNCHANGED vars
    BY <1>1, <1>2 DEF PlaceTypes, vars, fileVars, socketVars, endVars
<1>3. ASSUME UNCHANGED <<plan, socketVars, endVars>> PROVE PlaceTypes'
    BY <1>1, <1>3 DEF PlaceTypes, socketVars, endVars
<1>4. CASE \E t \in Tasks : Task(t)
    BY <1>3, <1>4, TaskLeaves
<1>8. CASE Script
  <2>1. CASE \E s \in Streams : OpenStream(s) \/ ScriptCloses(s)
    BY <1>3, <2>1 DEF OpenStream, ScriptCloses
  <2>2. CASE \E t \in IOs : Call(t) \/ Send(t)
    BY <1>3, <2>2 DEF Call, Send, StartTask
  <2>3. CASE UpgradeWebSocket
    BY <1>3, <2>3 DEF UpgradeWebSocket
  <2>4. CASE ReturnUpgrade
    BY <1>1, <2>4 DEF PlaceTypes, ReturnUpgrade, endVars
  <2>5. CASE ReturnOther
    BY <1>1, <2>5 DEF PlaceTypes, ReturnOther, Once
  <2>6. CASE ScriptClosesSocket
    BY <1>1, <2>6 DEF PlaceTypes, ScriptClosesSocket, Closed, endVars
  <2> QED
    BY <1>8, <2>1, <2>2, <2>3, <2>4, <2>5, <2>6 DEF Script
<1>5. CASE Serve
  <2>1. CASE Upgrade \/ ServeEnds
    BY <1>1, <2>1 DEF PlaceTypes, Upgrade, ServeEnds, Once
  <2>2. CASE AddConn \/ SocketTaskStarted
    BY <1>1, <2>2 DEF PlaceTypes, AddConn, SocketTaskStarted, endVars
  <2>3. CASE StartSocketTask
    BY <1>3, <2>3 DEF StartSocketTask, StartTask
  <2> QED
    BY <1>5, <2>1, <2>2, <2>3 DEF Serve
<1>9. CASE PingEnds
  <2>1. conn' \in {"none", "open", "closed"} /\ done' \in BOOLEAN /\ canceled' \in BOOLEAN
    BY <1>1, <1>9 DEF PlaceTypes, PingEnds, Closed
  <2>2. UNCHANGED <<plan, serve, closing, watcher, result, handler>>
    BY <1>9 DEF PingEnds
  <2> QED
    BY <1>1, <2>1, <2>2 DEF PlaceTypes
<1>10. CASE ReadEnds \/ Cancel
    BY <1>1, <1>10 DEF PlaceTypes, ReadEnds, Cancel, socketVars, endVars
<1>6. CASE RunClosers
    BY <1>1, <1>6
    DEF PlaceTypes, RunClosers, RunInner, RunOuter, Closed, DoneOnceClosed, fileVars,
        socketVars, endVars
<1>7. CASE Watcher \/ Filter
    BY <1>1, <1>7
    DEF PlaceTypes, Watcher, Filter, WatcherWakes, WatcherLocks, WatcherUnlocks,
        WatcherFinishes, FilterWakes, FilterLocks, FilterUnlocks, TasksDrained, TasksTimeOut,
        LoopStops, Once, fileVars, socketVars
<1> QED
    BY <1>2, <1>4, <1>5, <1>6, <1>7, <1>8, <1>9, <1>10 DEF Next

\* What a step does with a task, if anything.
Moves(t) ==
    /\ \A u \in Tasks \ {t} : task'[u] = task[u]
    /\ task[t].pc # "new" => task'[t].on = task[t].on
    /\ \/ /\ task[t].pc = "new" /\ task'[t].pc \in {"add", "over"} /\ tasks' = tasks
          /\ task'[t].on \in Streams => stream[task'[t].on].made
       \/ task[t].pc = "add" /\ task'[t].pc = "recheck" /\ tasks' = tasks + 1
       \/ task[t].pc = "recheck" /\ task'[t].pc = "lock" /\ tasks' = tasks /\ ~closing
       \/ /\ task[t].pc = "lock" /\ task'[t].pc \in {"opening", "using"} /\ tasks' = tasks
          /\ EnterStream(t) \/ EnterSend(t)
       \/ task[t].pc = "opening" /\ task'[t].pc = "using" /\ tasks' = tasks /\ Opened(t)
       \/ task[t].pc \in CountedPC /\ task'[t].pc = "over" /\ tasks' = tasks - 1

\* There is no other way for a task to go on, and one goes on at a time.
LEMMA TaskMoves ==
    ASSUME IInv, [Next]_vars
    PROVE  UNCHANGED <<task, tasks>> \/ \E t \in Tasks : Moves(t)
<1>1. TaskTypes /\ Socket \notin Streams
    BY RuntimeAssumption DEF IInv, Types
<1>2. ASSUME NEW t \in Tasks, Task(t) PROVE Moves(t)
  <2>1. CASE AddTask(t)
    BY <1>1, <2>1 DEF Moves, TaskTypes, AddTask
  <2>2. CASE RecheckTask(t)
    BY <1>1, <2>2 DEF Moves, TaskTypes, RecheckTask, SeesClosing, CountedPC
  <2>3. CASE EnterStream(t)
    <3>1. \/ task' = [task EXCEPT ![t].pc = "over"] /\ tasks' = tasks - 1
          \/ /\ task' = [task EXCEPT ![t].pc = IF stream[task[t].on].opened THEN "using" ELSE "opening"]
             /\ tasks' = tasks
      BY <2>3 DEF EnterStream, FinishTask
    <3>2. task[t].pc = "lock"
      BY <2>3 DEF EnterStream
    <3> QED
      BY <1>1, <2>3, <3>1, <3>2 DEF Moves, TaskTypes, CountedPC
  <2>4. CASE Opened(t)
    <3>1. task[t].pc = "opening" /\ task' = [task EXCEPT ![t].pc = "using"] /\ tasks' = tasks
      BY <2>4 DEF Opened
    <3> QED
      BY <1>1, <2>4, <3>1 DEF Moves, TaskTypes
  <2>5. CASE OpenFails(t) \/ UseEnds(t) \/ SendEnds(t)
    BY <1>1, <2>5 DEF Moves, TaskTypes, OpenFails, UseEnds, SendEnds, FinishTask, CountedPC
  <2>6. CASE EnterSend(t)
    <3>1. \/ task' = [task EXCEPT ![t].pc = "over"] /\ tasks' = tasks - 1
          \/ task' = [task EXCEPT ![t].pc = "using"] /\ tasks' = tasks
      BY <2>6 DEF EnterSend, FinishTask
    <3>2. task[t].pc = "lock"
      BY <2>6 DEF EnterSend
    <3> QED
      BY <1>1, <2>6, <3>1, <3>2 DEF Moves, TaskTypes, CountedPC
  <2> QED
    BY <1>2, <2>1, <2>2, <2>3, <2>4, <2>5, <2>6 DEF Task
<1>3. ASSUME NEW t \in Tasks, NEW on, StartTask(t, on), on \in Streams => stream[on].made
      PROVE  Moves(t)
    BY <1>1, <1>3 DEF Moves, TaskTypes, StartTask
<1>4. CASE \E t \in IOs : Call(t) \/ Send(t)
    BY <1>1, <1>3, <1>4, InTasks DEF Call, Send
<1>5. CASE StartSocketTask
    BY <1>1, <1>3, <1>5, InTasks DEF StartSocketTask
<1>6. CASE PingEnds \/ ReadEnds
    BY <1>1, <1>6, InTasks DEF Moves, TaskTypes, PingEnds, ReadEnds, FinishTask, CountedPC
<1> QED
    BY <1>2, <1>4, <1>5, <1>6, TaskFrame

\* The counter follows: a task is counted before it can run and uncounted once.
LEMMA CountStep ==
    ASSUME IInv, [Next]_vars
    PROVE  TasksCounted'
<1>1. tasks = Cardinality(Counted) /\ IsFiniteSet(Counted) /\ Cardinality(Counted) \in Nat
    BY TasksFinite, FS_Subset, FS_CardinalityType DEF IInv, TasksCounted, Counted
<1>2. CASE UNCHANGED <<task, tasks>>
    BY <1>1, <1>2 DEF TasksCounted, Counted
<1>3. ASSUME NEW t \in Tasks, Moves(t) PROVE TasksCounted'
  <2>1. CASE t \in Counted /\ t \notin Counted'
    <3>1. Counted' = Counted \ {t} /\ tasks' = tasks - 1
      BY <1>3, <2>1 DEF Moves, Counted, CountedPC
    <3> QED
      BY <1>1, <2>1, <3>1, FS_RemoveElement DEF TasksCounted
  <2>2. CASE t \notin Counted /\ t \in Counted'
    <3>1. Counted' = Counted \cup {t} /\ tasks' = tasks + 1
      BY <1>3, <2>2 DEF Moves, Counted, CountedPC
    <3> QED
      BY <1>1, <2>2, <3>1, FS_AddElement DEF TasksCounted
  <2>3. CASE t \in Counted <=> t \in Counted'
    <3>1. Counted' = Counted /\ tasks' = tasks
      BY <1>3, <2>3 DEF Moves, Counted, CountedPC
    <3> QED
      BY <1>1, <3>1 DEF TasksCounted
  <2> QED
    BY <2>1, <2>2, <2>3
<1> QED
    BY <1>2, <1>3, TaskMoves

\* Only the filter moves the filter, and then little else changes.
LEMMA HandlerFrame ==
    ASSUME [Next]_vars
    PROVE  \/ handler' = handler
           \/ /\ Filter
              /\ UNCHANGED <<plan, fileVars, socketVars, inner, canceled, watcher, result>>
<1>1. CASE UNCHANGED vars
    BY <1>1 DEF vars, endVars
<1>2. CASE \E t \in Tasks : Task(t)
    BY <1>2, TaskLeaves DEF endVars
<1>3. CASE Script
    BY <1>3
    DEF Script, OpenStream, ScriptCloses, Call, Send, StartTask, UpgradeWebSocket,
        ReturnUpgrade, ReturnOther, ScriptClosesSocket, endVars
<1>4. CASE Serve \/ PingEnds \/ ReadEnds \/ Cancel \/ RunClosers
    BY <1>4
    DEF Serve, Upgrade, AddConn, StartSocketTask, StartTask, SocketTaskStarted, ServeEnds,
        PingEnds, ReadEnds, Cancel, RunClosers, RunInner, RunOuter, endVars
<1>5. CASE Watcher
    BY <1>5 DEF Watcher, WatcherWakes, WatcherLocks, WatcherUnlocks, WatcherFinishes
<1>6. CASE Filter
    BY <1>6
    DEF Filter, FilterWakes, FilterLocks, FilterUnlocks, TasksDrained, TasksTimeOut, LoopStops,
        closerVars
<1> QED
    BY <1>1, <1>2, <1>3, <1>4, <1>5, <1>6 DEF Next

\* With the counter at zero and closing set, no task gets past its second look.
LEMMA DrainedStep ==
    ASSUME IInv, [Next]_vars
    PROVE  DrainedMeansOver'
<1> SUFFICES ASSUME handler' = "drained", NEW t \in Tasks PROVE ~Running(t)'
    BY DEF DrainedMeansOver
<1>1. CASE handler = "drained"
  <2>1. ~Running(t) /\ closing
    BY <1>1 DEF IInv, DrainedMeansOver, Runs
  <2> QED
    BY <2>1, TaskMoves DEF Running, Moves, CountedPC
<1>2. CASE handler # "drained"
  <2>1. tasks = 0 /\ task' = task
    BY <1>2, HandlerFrame
    DEF Filter, FilterWakes, FilterLocks, FilterUnlocks, TasksDrained, TasksTimeOut, LoopStops,
        fileVars
  <2>2. Counted = {}
    BY <2>1, TasksFinite, FS_Subset, FS_EmptySet DEF IInv, TasksCounted, Counted
  <2> QED
    BY <2>1, <2>2 DEF Counted, CountedPC, Running
<1> QED
    BY <1>1, <1>2

\* What a step makes of a stream: it is not unmade, and not used again once closed.
Keeps(st, new) ==
    /\ st.made => new.made
    /\ st.opened => new.opened
    /\ st.closed => new.closed
    /\ new.held => st.held /\ new.made /\ new.opened /\ new.reader /\ ~new.closed

Life(st) == st.held => st.made /\ st.opened /\ st.reader /\ ~st.closed

\* Every step but the opening of the file keeps a stream in this sense.
LEMMA StreamMoves ==
    ASSUME IInv, [Next]_vars, NEW s \in Streams
    PROVE  \/ Keeps(stream[s], stream'[s]) /\ (stream'[s].made => stream[s].made \/ OpenStream(s))
           \/ \E t \in IOs : Opened(t) /\ task[t].on = s
<1>1. /\ stream \in [Streams -> StreamRecords]
      /\ \A x \in Streams : stream[x] \in StreamRecords /\ Life(stream[x])
    BY DEF IInv, Types, StreamTypes, StreamLife, Life
<1>2. CASE stream'[s] = stream[s]
    BY <1>1, <1>2 DEF Keeps, Life
<1>3. ASSUME NEW x \in Streams, OpenStream(x), x = s PROVE Keeps(stream[s], stream'[s])
    BY <1>1, <1>3 DEF OpenStream, Keeps, Life, StreamRecords
<1>4. ASSUME NEW t \in IOs, EnterStream(t), task[t].on = s
      PROVE  Keeps(stream[s], stream'[s]) /\ stream'[s].made = stream[s].made
  <2>1. CASE stream' = stream
    BY <1>1, <2>1 DEF Keeps, Life
  <2>2. CASE stream' # stream
    <3>1. PICK mu \in IOs \cup {None} :
              stream' = [stream EXCEPT ![s].mu = mu, ![s].busy = stream[s].opened]
      BY <1>4, <2>2 DEF EnterStream, HolderWhileUsing, HolderWhileOpening
    <3>2. stream'[s] = [stream[s] EXCEPT !.mu = mu, !.busy = stream[s].opened]
      BY <1>1, <3>1
    <3> QED
      BY <1>1, <3>2 DEF Keeps, Life, StreamRecords
  <2> QED
    BY <2>1, <2>2
<1>5. ASSUME NEW t \in IOs, OpenFails(t), task[t].on = s
      PROVE  Keeps(stream[s], stream'[s]) /\ stream'[s].made = stream[s].made
  <2>3. stream[s].closed \in BOOLEAN
    BY <1>1 DEF StreamRecords
  <2>1. PICK closed \in BOOLEAN : /\ stream[s].closed => closed
                                  /\ stream' = [stream EXCEPT ![s].closed = closed, ![s].mu = None]
    BY <1>5, <2>3 DEF OpenFails
  <2>2. ~stream[s].held
    BY <1>1, <1>5 DEF IInv, TaskLife, OpenFails, Life
  <2> QED
    BY <1>1, <2>1, <2>2 DEF Keeps, StreamRecords
<1>7. ASSUME NEW t \in IOs, UseEnds(t), task[t].on = s
      PROVE  Keeps(stream[s], stream'[s]) /\ stream'[s].made = stream[s].made
  <2> DEFINE st == [stream[s] EXCEPT !.busy = FALSE, !.mu = None]
  <2>1. /\ st \in StreamRecords /\ Life(st) /\ st.made = stream[s].made
        /\ st.opened = stream[s].opened /\ st.closed = stream[s].closed /\ st.held = stream[s].held
    BY <1>1 DEF StreamRecords, Life
  <2>2. CASE stream'[s] = st /\ stream[s].held
    BY <2>1, <2>2 DEF Keeps, Life
  <2>3. CASE stream'[s] = CloseFile([st EXCEPT !.eof = TRUE])
    BY <2>1, <2>3 DEF Keeps, Life, CloseFile, StreamRecords
  <2>4. CASE stream'[s] = CloseFile([st EXCEPT !.closed = TRUE])
    BY <2>1, <2>4 DEF Keeps, Life, CloseFile, StreamRecords
  <2> QED
    BY <1>1, <1>7, <2>2, <2>3, <2>4 DEF UseEnds
<1>8. ASSUME NEW x \in Streams, CloseStream(x), x = s
      PROVE  Keeps(stream[s], stream'[s]) /\ stream'[s].made = stream[s].made
    BY <1>1, <1>8 DEF CloseStream, CloseFile, Keeps, Life, StreamRecords
<1>9. ASSUME RunOuter
      PROVE  UNCHANGED stream \/ \E x \in Streams : CloseStream(x)
  <2>1. outer.left # <<>> /\ Last(outer.left) \in Streams \cup {Socket}
    BY <1>9, FrontSet DEF RunOuter, IInv, Types, CloserTypes, ClosersRecords
  <2> QED
    BY <1>9, <2>1 DEF RunOuter
<1>10. \/ UNCHANGED stream
       \/ \E t \in IOs : EnterStream(t) \/ Opened(t) \/ OpenFails(t) \/ UseEnds(t)
       \/ \E x \in Streams : OpenStream(x) \/ CloseStream(x)
    BY <1>9, StreamFrame DEF ScriptCloses
<1>11. ASSUME NEW t \in IOs, task[t].on # s,
              EnterStream(t) \/ Opened(t) \/ OpenFails(t) \/ UseEnds(t)
       PROVE  stream'[s] = stream[s]
    BY <1>1, <1>11 DEF EnterStream, Opened, OpenFails, UseEnds
<1>12. ASSUME NEW x \in Streams, OpenStream(x) \/ CloseStream(x), x # s
       PROVE  stream'[s] = stream[s]
    BY <1>1, <1>12 DEF OpenStream, CloseStream
<1> QED
    BY <1>2, <1>3, <1>4, <1>5, <1>7, <1>8, <1>10, <1>11, <1>12

\* An open file stays that of a stream nobody has closed.
LEMMA StreamLifeStep ==
    ASSUME IInv, [Next]_vars
    PROVE  StreamLife'
    BY StreamMoves, OpenedEffect DEF StreamLife, Keeps

\* The lock keeps everybody else from a stream that is being opened.
LEMMA OpeningIsLocked ==
    ASSUME IInv, [Next]_vars, NEW t \in IOs, task[t].pc = "opening", task'[t].pc = "opening"
    PROVE  stream'[task[t].on] = stream[task[t].on]
<1> DEFINE s == task[t].on
<1>1. /\ TaskTypes /\ stream \in [Streams -> StreamRecords] /\ t \in Tasks /\ None \notin IOs
      /\ s \in Streams /\ stream[s].mu = t /\ stream[s].made
    BY RuntimeAssumption DEF IInv, Types, StreamTypes, TaskLife, Tasks
<1>2. ASSUME NEW u \in IOs, EnterStream(u) PROVE stream'[s] = stream[s]
    BY <1>1, <1>2 DEF EnterStream
<1>3. ASSUME NEW u \in IOs, Opened(u) \/ OpenFails(u) PROVE stream'[s] = stream[s]
  <2>1. task' = [task EXCEPT ![u].pc = "using"] \/ task' = [task EXCEPT ![u].pc = "over"]
    BY <1>3 DEF Opened, OpenFails, FinishTask
  <2>3. u # t
    BY <1>1, <2>1 DEF TaskTypes
  <2>2. task[u].on \in Streams /\ stream[task[u].on].mu = u
    BY <1>3 DEF IInv, TaskLife, Opened, OpenFails
  <2>4. task[u].on # s
    BY <1>1, <2>2, <2>3
  <2>5. ASSUME NEW x \in Streams, task[u].on # x PROVE stream'[x] = stream[x]
    BY <1>1, <1>3, <2>5 DEF Opened, OpenFails
  <2> QED
    BY <1>1, <2>4, <2>5
<1>4. ASSUME NEW u \in IOs, UseEnds(u) PROVE stream'[s] = stream[s]
    BY <1>1, <1>4 DEF UseEnds
<1>5. ASSUME NEW x \in Streams, OpenStream(x) \/ CloseStream(x) PROVE stream'[s] = stream[s]
    BY <1>1, <1>5 DEF OpenStream, CloseStream
<1>6. RunOuter => UNCHANGED stream \/ \E x \in Streams : CloseStream(x)
  <2> SUFFICES ASSUME RunOuter PROVE UNCHANGED stream \/ \E x \in Streams : CloseStream(x)
    OBVIOUS
  <2>1. outer.left # <<>> /\ Last(outer.left) \in Streams \cup {Socket}
    BY FrontSet DEF RunOuter, IInv, Types, CloserTypes, ClosersRecords
  <2> QED
    BY <2>1 DEF RunOuter
<1> QED
    BY <1>2, <1>3, <1>4, <1>5, <1>6, StreamFrame DEF ScriptCloses

\* A call that has its turn opens the file or uses it.
LEMMA EnterEffect ==
    ASSUME IInv, NEW t \in IOs, EnterStream(t)
    PROVE  LET s == task[t].on IN
           /\ task'[t].pc = "opening" => /\ s \in Streams /\ stream'[s].mu = t
                                         /\ ~stream'[s].opened /\ ~stream'[s].closed
           /\ task'[t].pc = "using" => s \in Streams /\ stream'[s].opened
<1>1. /\ TaskTypes /\ stream \in [Streams -> StreamRecords] /\ t \in Tasks
    BY InTasks DEF IInv, Types, StreamTypes
<1>2. CASE FinishTask(t)
    BY <1>1, <1>2 DEF FinishTask, TaskTypes
<1>3. CASE ~FinishTask(t)
    BY <1>1, <1>3 DEF EnterStream, TaskTypes, StreamRecords, HolderWhileOpening, HolderWhileUsing
<1> QED
    BY <1>2, <1>3

\* The calls and the streams that they are at.
LEMMA TaskLifeStep ==
    ASSUME IInv, [Next]_vars
    PROVE  TaskLife'
<1>1. TaskTypes /\ StreamTypes /\ TaskLife
    BY DEF IInv, Types
<1> SUFFICES ASSUME NEW t \in IOs
             PROVE  LET s == task'[t].on IN
                    /\ task'[t].pc # "new" /\ s \in Streams => stream'[s].made
                    /\ task'[t].pc = "opening" => /\ s \in Streams /\ stream'[s].mu = t
                                                  /\ ~stream'[s].opened /\ ~stream'[s].closed
                    /\ task'[t].pc = "using" /\ s \in Streams => stream'[s].opened
    BY DEF TaskLife
<1> DEFINE s == task[t].on
<1>2. t \in Tasks
    BY InTasks
<1>3. CASE task[t].pc = "new"
    BY <1>2, <1>3, TaskMoves, StreamMoves, OpenedEffect DEF Moves, CountedPC, Keeps
<1>4. CASE task[t].pc # "new"
  <2>1. task'[t].on = s /\ task'[t].pc # "new"
    BY <1>2, <1>4, TaskMoves DEF Moves, CountedPC
  <2>2. s \in Streams => stream[s].made /\ stream'[s].made
    BY <1>1, <1>4, StreamMoves, OpenedEffect DEF TaskLife, Keeps
  <2>3. CASE task'[t].pc = "opening"
    <3>1. CASE task[t].pc = "opening"
      BY <1>1, <2>1, <2>2, <2>3, <3>1, OpeningIsLocked DEF TaskLife
    <3>2. CASE task[t].pc # "opening"
      <4>1. EnterStream(t) \/ EnterSend(t)
        BY <1>2, <2>3, <3>2, TaskMoves DEF Moves
      <4>2. EnterSend(t) => task'[t].pc # "opening"
        BY <1>1, <1>2 DEF EnterSend, FinishTask, TaskTypes
      <4> QED
        BY <2>1, <2>2, <2>3, <4>1, <4>2, EnterEffect
    <3> QED
      BY <3>1, <3>2
  <2>4. CASE task'[t].pc = "using"
    <3>1. CASE task[t].pc = "using"
      BY <1>1, <2>1, <2>2, <2>4, <3>1, StreamMoves, OpenedEffect DEF TaskLife, Keeps
    <3>2. CASE task[t].pc # "using"
      <4>1. EnterStream(t) \/ EnterSend(t) \/ Opened(t)
        BY <1>2, <2>4, <3>2, TaskMoves DEF Moves
      <4>2. EnterSend(t) => s \notin Streams
        BY RuntimeAssumption DEF EnterSend
      <4> QED
        BY <2>1, <2>2, <2>4, <4>1, <4>2, EnterEffect, OpenedEffect
    <3> QED
      BY <3>1, <3>2
  <2> QED
    BY <2>1, <2>2, <2>3, <2>4
<1> QED
    BY <1>3, <1>4

\* The lists of a closers' record.
LEMMA OuterTypes ==
    ASSUME IInv
    PROVE  /\ outer = [list |-> outer.list, by |-> outer.by, left |-> outer.left]
           /\ outer.list \in Seq(Streams \cup {Socket}) /\ outer.left \in Seq(Streams \cup {Socket})
           /\ inner = [list |-> inner.list, by |-> inner.by, left |-> inner.left]
           /\ inner.list \in Seq({"socket", "conn"}) /\ inner.left \in Seq({"socket", "conn"})
           /\ None \notin Runners /\ Socket \notin Streams
    BY RuntimeAssumption DEF IInv, Types, CloserTypes, ClosersRecords

\* A step that runs the closers takes the last of what is left, which is closed then.
LEMMA RunStep ==
    ASSUME IInv, RunClosers
    PROVE  /\ outer'.list = outer.list /\ outer'.by = outer.by /\ outer.by # None
           /\ \/ outer'.left = outer.left
              \/ \E x \in Streams \cup {Socket} :
                    /\ ToSet(outer.left) = ToSet(outer'.left) \cup {x}
                    /\ x \in Streams => stream'[x].closed
                    /\ x \notin Streams => inner.by # None /\ inner.left = <<>>
<1>1. stream \in [Streams -> StreamRecords]
    BY DEF IInv, Types, StreamTypes
<1>2. CASE RunInner
  <2>1. outer.by # None /\ outer.left # <<>> /\ Last(outer.left) = Socket
    BY <1>2 DEF RunInner, IInv, Runs
  <2>2. ToSet(outer.left) = ToSet(Front(outer.left)) \cup {Socket}
    BY <2>1, OuterTypes, FrontSet
  <2>3. CASE inner.left = <<>>
    <3>1. outer' = [outer EXCEPT !.left = Front(@)] /\ inner.by # None
      BY <1>2, <2>3 DEF RunInner
    <3> QED
      BY <2>1, <2>2, <2>3, <3>1, OuterTypes
  <2>4. CASE inner.left # <<>>
    BY <1>2, <2>1, <2>4 DEF RunInner
  <2> QED
    BY <2>3, <2>4
<1>3. CASE RunOuter
  <2>1. outer.by # None /\ outer.left # <<>> /\ Last(outer.left) \in Streams \cup {Socket}
        /\ ToSet(outer.left) = ToSet(Front(outer.left)) \cup {Last(outer.left)}
    BY <1>3, OuterTypes, FrontSet DEF RunOuter
  <2>2. CASE Last(outer.left) = Socket
    BY <1>3, <2>1, <2>2 DEF RunOuter
  <2>3. CASE Last(outer.left) # Socket
    <3>1. Last(outer.left) \in Streams /\ CloseStream(Last(outer.left))
          /\ outer' = [outer EXCEPT !.left = Front(@)]
      BY <1>3, <2>1, <2>3 DEF RunOuter
    <3>2. stream'[Last(outer.left)].closed
      BY <1>1, <3>1 DEF CloseStream, CloseFile, StreamRecords
    <3> QED
      BY <2>1, <3>1, <3>2, OuterTypes
  <2> QED
    BY <2>2, <2>3
<1> QED
    BY <1>2, <1>3 DEF RunClosers

\* What a step does with the closers of the request.
LEMMA OuterMoves ==
    ASSUME IInv, [Next]_vars
    PROVE  \/ outer' = outer
           \/ \E s \in Streams : OpenStream(s)
           \/ RunClosers
           \/ /\ outer.by = None /\ outer'.by # None
              /\ outer'.list = outer.list /\ outer'.left = outer.list
              /\ UNCHANGED fileVars
              /\ WatcherLocks \/ FilterLocks
           \/ /\ outer.by # None /\ outer.left = <<>> /\ outer' = NoClosers
              /\ UNCHANGED fileVars
              /\ WatcherUnlocks \/ FilterUnlocks
<1>1. CASE UpgradeWebSocket \/ AddConn
    BY <1>1 DEF UpgradeWebSocket, AddConn
<1>2. CASE WatcherLocks
    BY <1>2, OuterTypes DEF WatcherLocks, Lock, Runners
<1>3. CASE FilterLocks
    BY <1>3, OuterTypes DEF FilterLocks, Lock, Runners
<1>4. CASE WatcherUnlocks
    BY <1>4, OuterTypes DEF WatcherUnlocks, Runners
<1>5. CASE FilterUnlocks
    BY <1>5, OuterTypes DEF FilterUnlocks, Runners
<1> QED
    BY <1>1, <1>2, <1>3, <1>4, <1>5, CloserFrame

\* The closers know all streams that have to be closed.
LEMMA StreamsListedStep ==
    ASSUME IInv, [Next]_vars
    PROVE  StreamsListed'
<1> SUFFICES ASSUME NEW s \in Streams
             PROVE  /\ stream'[s].made /\ ~stream'[s].closed => s \in ToSet(outer'.list)
                    /\ outer'.by # None /\ s \in ToSet(outer'.list)
                           => s \in ToSet(outer'.left) \/ stream'[s].closed
    BY DEF StreamsListed
<1>1. /\ stream[s].closed => stream'[s].closed
      /\ stream'[s].made => stream[s].made \/ OpenStream(s)
    BY StreamMoves, OpenedEffect DEF Keeps
<1>2. /\ stream[s].made /\ ~stream[s].closed => s \in ToSet(outer.list)
      /\ outer.by # None /\ s \in ToSet(outer.list) => s \in ToSet(outer.left) \/ stream[s].closed
    BY DEF IInv, StreamsListed
<1>3. ASSUME NEW x \in Streams, OpenStream(x)
      PROVE  /\ ToSet(outer'.list) = ToSet(outer.list) \cup {x}
             /\ outer'.by = None /\ outer.by = None
  <2>1. outer' = [outer EXCEPT !.list = Append(@, x)] /\ outer.by = None
    BY <1>3 DEF OpenStream
  <2>2. ToSet(Append(outer.list, x)) = ToSet(outer.list) \cup {x}
    BY OuterTypes, AppendSet
  <2> QED
    BY <2>1, <2>2, OuterTypes
<1>4. CASE outer' = outer
    BY <1>1, <1>2, <1>3, <1>4
<1>5. CASE \E x \in Streams : OpenStream(x)
    BY <1>1, <1>2, <1>3, <1>5
<1>6. CASE RunClosers
    BY <1>1, <1>2, <1>3, <1>6, RunStep, OuterTypes
<1>7. CASE UNCHANGED fileVars /\ outer'.list = outer.list /\ outer'.left = outer.list
    BY <1>2, <1>7 DEF fileVars
<1>8. CASE outer.by # None /\ outer.left = <<>> /\ outer' = NoClosers /\ UNCHANGED fileVars
    BY <1>2, <1>8, EmptySet DEF NoClosers, fileVars
<1> QED
    BY <1>4, <1>5, <1>6, <1>7, <1>8, OuterMoves

\* The filter is past the closers when it unlocks them.
LEMMA PastStep ==
    ASSUME IInv, [Next]_vars
    PROVE  /\ Past => Past'
           /\ Past' => Past \/ FilterUnlocks
    BY HandlerFrame
    DEF Past, Filter, FilterWakes, FilterLocks, FilterUnlocks, TasksDrained, TasksTimeOut,
        LoopStops

\* When the filter unlocks them, all are closed, and no new call gets a file open.
LEMMA StreamsClosedStep ==
    ASSUME IInv, [Next]_vars
    PROVE  StreamsClosed'
<1> SUFFICES ASSUME Past'
             PROVE  /\ \A s \in Streams : ~stream'[s].held
                    /\ \A t \in IOs : Running(t)' /\ task'[t].on \in Streams
                                          => stream'[task'[t].on].closed
    BY DEF StreamsClosed
<1>1. CASE Past
  <2>1. closing /\ StreamsClosed
    BY <1>1 DEF IInv, Runs, Past
  <2>2. ASSUME NEW t \in IOs PROVE ~Opened(t)
    BY <1>1, <2>1, OpenedEffect DEF StreamsClosed, Running, Opened
  <2>3. \A s \in Streams : Keeps(stream[s], stream'[s])
    BY <2>2, StreamMoves
  <2>4. ASSUME NEW t \in IOs, Running(t)' PROVE Running(t) /\ task'[t].on = task[t].on
    BY <2>1, <2>4, TaskMoves, InTasks DEF Running, Moves, CountedPC
  <2> QED
    BY <1>1, <2>1, <2>3, <2>4 DEF StreamsClosed, Keeps
<1>2. CASE ~Past
  <2>1. FilterUnlocks /\ outer.by # None /\ outer.left = <<>> /\ task' = task /\ stream' = stream
    BY <1>2, PastStep, OuterTypes DEF FilterUnlocks, fileVars, Runners
  <2>2. \A s \in Streams : stream[s].made => stream[s].closed
    BY <2>1, EmptySet DEF IInv, StreamsListed
  <2> QED
    BY <2>1, <2>2 DEF IInv, StreamLife, TaskLife, Running
<1> QED
    BY <1>1, <1>2

\* The goroutines that run the closers.
LEMMA RunsStep ==
    ASSUME IInv, [Next]_vars
    PROVE  Runs'
<1>1. Runs /\ PlaceTypes /\ None \notin Runners
    BY RuntimeAssumption DEF IInv, Types
<1>2. ASSUME UNCHANGED <<serve, closerVars, endVars>> PROVE Runs'
    BY <1>1, <1>2 DEF Runs, CtxDone, closerVars, endVars
<1>3. CASE UNCHANGED vars
    BY <1>2, <1>3 DEF vars, socketVars
<1>4. CASE \E t \in Tasks : Task(t)
    BY <1>2, <1>4, TaskLeaves DEF socketVars
<1>5. CASE Script
  <2>1. CASE \E s \in Streams : ScriptCloses(s)
    BY <1>2, <2>1 DEF ScriptCloses, socketVars
  <2>2. CASE (\E t \in IOs : Call(t) \/ Send(t)) \/ ScriptClosesSocket
    BY <1>2, <2>2 DEF Call, Send, StartTask, ScriptClosesSocket, socketVars
  <2>3. CASE \E s \in Streams : OpenStream(s)
    BY <1>1, <2>3, OuterTypes DEF Runs, OpenStream, CtxDone, socketVars, endVars
  <2>4. CASE UpgradeWebSocket
    BY <1>1, <2>4, OuterTypes DEF Runs, UpgradeWebSocket, CtxDone, socketVars, endVars
  <2>5. CASE ReturnUpgrade
    BY <1>1, <2>5 DEF Runs, ReturnUpgrade, CtxDone, closerVars, endVars
  <2>6. CASE ReturnOther
    BY <1>1, <2>6 DEF Runs, ReturnOther, Once, CtxDone, closerVars
  <2> QED
    BY <1>5, <2>1, <2>2, <2>3, <2>4, <2>5, <2>6 DEF Script
<1>6. CASE Serve
  <2>1. CASE Upgrade
    BY <1>1, <2>1 DEF Runs, Upgrade, Once, CtxDone, closerVars
  <2>2. CASE AddConn
    BY <1>1, <2>2, OuterTypes DEF Runs, AddConn, CtxDone, endVars
  <2>3. CASE StartSocketTask
    BY <1>2, <2>3 DEF StartSocketTask, StartTask, socketVars
  <2>4. CASE SocketTaskStarted
    BY <1>1, <2>4 DEF Runs, SocketTaskStarted, CtxDone, closerVars, endVars
  <2>5. CASE ServeEnds
    BY <1>1, <2>5 DEF Runs, ServeEnds, Once, CtxDone, closerVars
  <2> QED
    BY <1>6, <2>1, <2>2, <2>3, <2>4, <2>5 DEF Serve
<1>7. CASE PingEnds \/ ReadEnds \/ Cancel
    BY <1>1, <1>7 DEF Runs, PingEnds, ReadEnds, Cancel, CtxDone, socketVars, closerVars, endVars
<1>8. CASE RunInner
    BY <1>1, <1>8, OuterTypes DEF Runs, RunInner, NoClosers, CtxDone, endVars
<1>9. CASE RunOuter
    BY <1>1, <1>9, OuterTypes DEF Runs, RunOuter, Lock, CtxDone, socketVars, endVars
<1>10. CASE Watcher
  <2>1. CASE WatcherWakes
    BY <1>1, <2>1 DEF Runs, WatcherWakes, CtxDone, socketVars, closerVars
  <2>2. CASE WatcherLocks
    BY <1>1, <2>2, OuterTypes DEF Runs, WatcherLocks, Lock, Runners, CtxDone, socketVars
  <2>3. CASE WatcherUnlocks
    BY <1>1, <2>3, OuterTypes DEF Runs, WatcherUnlocks, NoClosers, Runners, CtxDone, socketVars
  <2>4. CASE WatcherFinishes
    BY <1>1, <2>4 DEF Runs, WatcherFinishes, Once, CtxDone, socketVars, closerVars
  <2> QED
    BY <1>10, <2>1, <2>2, <2>3, <2>4 DEF Watcher
<1>11. CASE Filter
  <2>1. CASE FilterWakes \/ TasksDrained \/ TasksTimeOut \/ LoopStops
    BY <1>1, <2>1
    DEF Runs, FilterWakes, TasksDrained, TasksTimeOut, LoopStops, CtxDone, socketVars,
        closerVars
  <2>2. CASE FilterLocks
    BY <1>1, <2>2, OuterTypes DEF Runs, FilterLocks, Lock, Runners, CtxDone, socketVars
  <2>3. CASE FilterUnlocks
    BY <1>1, <2>3, OuterTypes DEF Runs, FilterUnlocks, NoClosers, Runners, CtxDone, socketVars
  <2> QED
    BY <1>11, <2>1, <2>2, <2>3 DEF Filter
<1> QED
    BY <1>3, <1>4, <1>5, <1>6, <1>7, <1>8, <1>9, <1>10, <1>11 DEF Next, RunClosers

\* The connection and the socket's closers.
LEMMA ConnListedStep ==
    ASSUME IInv, [Next]_vars
    PROVE  ConnListed'
<1>1. ConnListed /\ PlaceTypes /\ None \notin Runners
    BY RuntimeAssumption DEF IInv, Types
<1>2. ASSUME UNCHANGED <<serve, conn, inner>> \/ (UNCHANGED <<serve, inner>> /\ conn' = Closed(conn))
      PROVE  ConnListed'
    BY <1>1, <1>2 DEF ConnListed, Closed, PlaceTypes
<1>3. CASE UNCHANGED vars
    BY <1>2, <1>3 DEF vars, socketVars, closerVars
<1>4. CASE \E t \in Tasks : Task(t)
    BY <1>2, <1>4, TaskLeaves DEF socketVars, closerVars
<1>5. CASE Script
  <2>1. CASE \E s \in Streams : ScriptCloses(s) \/ OpenStream(s)
    BY <1>2, <2>1 DEF ScriptCloses, OpenStream, socketVars, closerVars
  <2>2. CASE (\E t \in IOs : Call(t) \/ Send(t)) \/ ScriptClosesSocket
    BY <1>2, <2>2 DEF Call, Send, StartTask, ScriptClosesSocket, socketVars, closerVars
  <2>3. CASE UpgradeWebSocket
    BY <1>1, <2>3, OuterTypes DEF ConnListed, UpgradeWebSocket, socketVars
  <2>4. CASE ReturnUpgrade \/ ReturnOther
    BY <1>1, <2>4 DEF ConnListed, ReturnUpgrade, ReturnOther, closerVars
  <2> QED
    BY <1>5, <2>1, <2>2, <2>3, <2>4 DEF Script
<1>6. CASE Serve
  <2>1. CASE Upgrade \/ SocketTaskStarted \/ ServeEnds
    BY <1>1, <2>1 DEF ConnListed, Upgrade, SocketTaskStarted, ServeEnds, closerVars
  <2>2. CASE AddConn
    <3>1. inner'.list # <<>> /\ inner'.by = None
      <4>1. Append(inner.list, "conn") # <<>>
        BY OuterTypes, AppendSet, EmptySet
      <4> QED
        BY <2>2, <4>1, OuterTypes DEF AddConn
    <3> QED
      BY <1>1, <2>2, <3>1 DEF ConnListed, AddConn
  <2>3. CASE StartSocketTask
    BY <1>2, <2>3 DEF StartSocketTask, StartTask, socketVars, closerVars
  <2> QED
    BY <1>6, <2>1, <2>2, <2>3 DEF Serve
<1>7. CASE PingEnds \/ ReadEnds \/ Cancel
    BY <1>2, <1>7 DEF PingEnds, ReadEnds, Cancel, socketVars, closerVars
<1>8. CASE RunInner
  <2>1. CASE inner.left = <<>>
    BY <1>1, <1>8, <2>1 DEF ConnListed, RunInner, NoClosers
  <2>2. CASE inner.left # <<>>
    BY <1>1, <1>8, <2>2, OuterTypes DEF ConnListed, RunInner, Closed, PlaceTypes
  <2> QED
    BY <2>1, <2>2
<1>9. CASE RunOuter
    BY <1>1, <1>9, OuterTypes DEF ConnListed, RunOuter, Lock, socketVars
<1>10. CASE Watcher \/ Filter
    BY <1>2, <1>10
    DEF Watcher, Filter, WatcherWakes, WatcherLocks, WatcherUnlocks, WatcherFinishes,
        FilterWakes, FilterLocks, FilterUnlocks, TasksDrained, TasksTimeOut, LoopStops,
        socketVars, closerVars
<1> QED
    BY <1>3, <1>4, <1>5, <1>6, <1>7, <1>8, <1>9, <1>10 DEF Next, RunClosers

\* The context does not come back, and only an upgrade opens the connection.
LEMMA ConnMoves ==
    ASSUME IInv, [Next]_vars
    PROVE  /\ canceled => canceled'
           /\ conn' = "open" => conn = "open" \/ serve = "spawned"
<1>1. conn \in {"none", "open", "closed"}
    BY DEF IInv, Types, PlaceTypes
<1>2. CASE UNCHANGED vars
    BY <1>2 DEF vars, socketVars, endVars
<1>3. CASE \E t \in Tasks : Task(t)
    BY <1>3, TaskLeaves DEF socketVars, endVars
<1>4. CASE Script
    BY <1>1, <1>4
    DEF Script, OpenStream, ScriptCloses, Call, Send, StartTask, UpgradeWebSocket,
        ReturnUpgrade, ReturnOther, ScriptClosesSocket, Closed, socketVars, endVars
<1>5. CASE Serve \/ Cancel
    BY <1>1, <1>5
    DEF Serve, Upgrade, AddConn, StartSocketTask, StartTask, SocketTaskStarted, ServeEnds,
        Cancel, socketVars, endVars
<1>6. CASE PingEnds \/ ReadEnds \/ RunClosers
    BY <1>1, <1>6
    DEF PingEnds, ReadEnds, RunClosers, RunInner, RunOuter, Closed, socketVars, endVars
<1>7. CASE Watcher \/ Filter
    BY <1>7
    DEF Watcher, Filter, WatcherWakes, WatcherLocks, WatcherUnlocks, WatcherFinishes,
        FilterWakes, FilterLocks, FilterUnlocks, TasksDrained, TasksTimeOut, LoopStops,
        socketVars
<1> QED
    BY <1>2, <1>3, <1>4, <1>5, <1>6, <1>7 DEF Next

\* The closers of the request and the socket's closers.
LEMMA SocketListedStep ==
    ASSUME IInv, [Next]_vars
    PROVE  SocketListed'
<1>1. ASSUME NEW x \in Streams, OpenStream(x)
      PROVE  ToSet(outer'.list) = ToSet(outer.list) \cup {x} /\ x # Socket
  <2>1. outer' = [outer EXCEPT !.list = Append(@, x)]
    BY <1>1 DEF OpenStream
  <2>2. ToSet(Append(outer.list, x)) = ToSet(outer.list) \cup {x}
    BY OuterTypes, AppendSet
  <2> QED
    BY <2>1, <2>2, OuterTypes
<1>2. ASSUME ~canceled', handler' \in {"wait", "lock", "close"}
      PROVE  Socket \in ToSet(outer'.list)
  <2>1. ~canceled /\ ~Past /\ ~Past' /\ handler \in {"wait", "lock", "close"}
    BY <1>2, ConnMoves, PastStep DEF Past, IInv, Types, PlaceTypes
  <2>2. Socket \in ToSet(outer.list)
    BY <2>1 DEF IInv, SocketListed
  <2>3. ~WatcherUnlocks /\ ~FilterUnlocks
    BY <2>1 DEF WatcherUnlocks, FilterUnlocks, Past, IInv, Runs, CtxDone
  <2> QED
    BY <1>1, <2>2, <2>3, OuterMoves, RunStep
<1>3. ASSUME Past' PROVE Socket \notin ToSet(outer'.list)
  <2>1. CASE Past
    <3>1. Socket \notin ToSet(outer.list)
      BY <2>1 DEF IInv, SocketListed
    <3> QED
      BY <1>1, <3>1, OuterMoves, RunStep, EmptySet DEF NoClosers
  <2>2. CASE ~Past
    BY <1>3, <2>2, PastStep, EmptySet DEF FilterUnlocks, NoClosers
  <2> QED
    BY <2>1, <2>2
<1> QED
    BY <1>2, <1>3 DEF SocketListed, Past

\* Unless the context has ended, the filter finds the connection in the closers.
LEMMA ConnClosedStep ==
    ASSUME IInv, [Next]_vars
    PROVE  ConnClosed'
<1> SUFFICES ASSUME ~canceled'
             PROVE  /\ outer'.by = "filter" /\ Socket \notin ToSet(outer'.left) => conn' # "open"
                    /\ Past' => conn' # "open"
    BY DEF ConnClosed
<1>1. ~canceled
    BY ConnMoves
<1>2. handler # "wait" => serve \in {"unused", "over"} /\ (conn' = "open" => conn = "open")
    BY <1>1, ConnMoves DEF IInv, Runs
<1>3. outer.by = "filter" <=> handler = "close"
    BY DEF IInv, Runs
<1>4. ASSUME outer'.by = "filter", Socket \notin ToSet(outer'.left) PROVE conn' # "open"
  <2>1. CASE outer.by = "filter" /\ Socket \notin ToSet(outer.left)
    BY <1>1, <1>2, <1>3, <2>1 DEF IInv, ConnClosed
  <2>2. CASE outer.by = "filter" /\ Socket \in ToSet(outer.left)
    <3>1. RunClosers
      BY <1>4, <2>2, OuterMoves, OuterTypes DEF OpenStream, Runners, NoClosers
    <3>2. inner.by # None /\ inner.left = <<>>
      BY <1>4, <2>2, <3>1, RunStep, OuterTypes
    <3> QED
      BY <1>2, <1>3, <2>2, <3>2 DEF IInv, ConnListed
  <2>3. CASE outer.by # "filter"
    <3>1. FilterLocks /\ outer'.left = outer.list
      <4>1. ~WatcherLocks
        BY <1>4, OuterTypes DEF WatcherLocks, Lock
      <4>2. \A s \in Streams : OpenStream(s) => outer'.by = outer.by
        BY OuterTypes DEF OpenStream
      <4>3. outer' # NoClosers
        BY <1>4, OuterTypes DEF NoClosers, Runners
      <4> QED
        BY <1>4, <2>3, <4>1, <4>2, <4>3, OuterMoves, RunStep
    <3>2. Socket \in ToSet(outer.list)
      BY <1>1, <3>1 DEF FilterLocks, IInv, SocketListed
    <3> QED
      BY <1>4, <3>1, <3>2
  <2> QED
    BY <2>1, <2>2, <2>3
<1>5. ASSUME Past' PROVE conn' # "open"
  <2>1. CASE Past
    BY <1>1, <1>2, <2>1 DEF IInv, ConnClosed, Past
  <2>2. CASE ~Past
    <3>1. FilterUnlocks
      BY <1>5, <2>2, PastStep
    <3>2. conn # "open"
      BY <1>1, <3>1, EmptySet DEF FilterUnlocks, IInv, ConnClosed
    <3> QED
      BY <3>1, <3>2 DEF FilterUnlocks, socketVars
  <2> QED
    BY <2>1, <2>2
<1> QED
    BY <1>4, <1>5
-----------------------------------------------------------------------------
(* The invariant and the theorems *)

\* Nothing is open or runs at first.
LEMMA InitIInv == Init => IInv
<1> SUFFICES ASSUME Init PROVE IInv
    OBVIOUS
<1>1. <<Socket>> \in Seq(Streams \cup {Socket}) /\ Socket \in ToSet(<<Socket>>)
  <2>1. <<Socket>> \in Seq(Streams \cup {Socket}) /\ 1 \in DOMAIN <<Socket>> /\ <<Socket>>[1] = Socket
    OBVIOUS
  <2> QED
    BY <2>1 DEF ToSet
<1>2. /\ outer = [list |-> <<Socket>>, by |-> None, left |-> <<>>]
      /\ inner = [list |-> <<>>, by |-> None, left |-> <<>>]
    BY DEF Init, initRuntime, NoClosers
<1>3. Types
  <2>1. TaskTypes
    BY DEF Init, TaskTypes, TaskPC
  <2>2. StreamTypes
    BY DEF Init, StreamTypes, StreamRecords, NewStream
  <2>3. CloserTypes
    BY <1>1, <1>2 DEF CloserTypes, ClosersRecords
  <2>4. PlaceTypes
    BY DEF Init, PlaceTypes
  <2> QED
    BY <2>1, <2>2, <2>3, <2>4 DEF Types
<1>4. TasksCounted
  <2>1. Counted = {}
    BY DEF Init, Counted, CountedPC
  <2> QED
    BY <2>1, FS_EmptySet DEF Init, TasksCounted
<1>5. StreamLife /\ TaskLife /\ StreamsListed /\ StreamsClosed /\ DrainedMeansOver
  <2>1. \A s \in Streams : ~stream[s].held /\ ~stream[s].made
    BY DEF Init, NewStream
  <2>2. \A t \in Tasks : task[t].pc = "new"
    BY DEF Init
  <2>3. handler = "wait" /\ outer.by = None
    BY <1>2 DEF Init
  <2> QED
    BY <2>1, <2>2, <2>3, InTasks
    DEF StreamLife, TaskLife, StreamsListed, StreamsClosed, DrainedMeansOver, Past
<1>6. Runs /\ ConnListed /\ SocketListed /\ ConnClosed
    BY <1>1, <1>2, RuntimeAssumption
    DEF Init, Runs, ConnListed, SocketListed, ConnClosed, Past, Runners
<1> QED
    BY <1>3, <1>4, <1>5, <1>6 DEF IInv

\* The inductive invariant.
LEMMA Invariance == Spec => []IInv
<1>1. IInv /\ [Next]_vars => IInv'
    BY TaskStep, StreamStep, CloserStep, PlaceStep, CountStep, DrainedStep, StreamLifeStep,
       TaskLifeStep,
       StreamsListedStep, StreamsClosedStep, RunsStep, ConnListedStep, SocketListedStep, ConnClosedStep
    DEF IInv, Types
<1> QED
    BY <1>1, InitIInv, PTL DEF Spec

\* The state is what the code can hold (the types of the runtime and its streams).
THEOREM TypeCorrect == Spec => []TypeOK
<1>1. IInv => TypeOK
    BY TasksFinite, FS_Subset, FS_CardinalityType
    DEF IInv, Types, TaskTypes, StreamTypes, CloserTypes, PlaceTypes, TasksCounted, Counted, TypeOK
<1> QED
    BY <1>1, Invariance, PTL

\* Past its closers the filter leaves no file open, and no connection but one that was
\* made while the context ended (filter.go:129-130, websocket.go:182-195).
THEOREM NothingIsLeftOpen == Spec => []NothingOutlivesClosers
<1>1. IInv => NothingOutlivesClosers
    BY DEF IInv, NothingOutlivesClosers, StreamsClosed, ConnListed, ConnClosed, SocketListed,
       Past, Escaped
<1> QED
    BY <1>1, Invariance, PTL

\* Once the filter has found no task left, none runs or starts (runtime_state.go:24-27).
THEOREM DrainedIsOver == Spec => []DrainedMeansOver
<1>1. IInv => DrainedMeansOver
    BY DEF IInv
<1> QED
    BY <1>1, Invariance, PTL
-----------------------------------------------------------------------------
(* ScriptStorage *)
-----------------------------------------------------------------------------
(* Paths and their prefixes *)

\* A prefix, name by name.
LEMMA PrefixDef ==
    ASSUME NEW S, NEW p \in Seq(S), NEW q \in Seq(S)
    PROVE  IsPrefix(p, q) <=> Len(p) <= Len(q) /\ \A i \in 1 .. Len(p) : p[i] = q[i]
<1>1. Len(p) \in Nat /\ Len(q) \in Nat
    BY LenProperties
<1>2. SubSeq(p, 1, Len(p)) = p
    BY SubSeqFull
<1> SUFFICES ASSUME Len(p) <= Len(q)
             PROVE  p = SubSeq(q, 1, Len(p)) <=> \A i \in 1 .. Len(p) : p[i] = q[i]
    BY <1>2 DEF IsPrefix
<1>3. \A i \in 1 .. Len(p) : q[i] \in S
    BY <1>1, ElementOfSeq
<1>4. /\ SubSeq(q, 1, Len(p)) \in Seq(S) /\ Len(SubSeq(q, 1, Len(p))) = Len(p)
      /\ \A i \in 1 .. Len(p) : SubSeq(q, 1, Len(p))[i] = q[i]
  <2>1. /\ SubSeq(q, 1, Len(p)) \in Seq(S)
        /\ Len(SubSeq(q, 1, Len(p))) = IF 1 <= Len(p) THEN Len(p) - 1 + 1 ELSE 0
        /\ \A i \in 1 .. Len(p) - 1 + 1 : SubSeq(q, 1, Len(p))[i] = q[1 + i - 1]
    BY <1>1, <1>3, SubSeqProperties
  <2> QED
    BY <1>1, <2>1
<1> QED
    BY <1>4, SeqEqual

\* Prefixes are ordered, and those of one path are comparable.
LEMMA PrefixOrder ==
    ASSUME NEW S, NEW p \in Seq(S), NEW q \in Seq(S), NEW x \in Seq(S)
    PROVE  /\ IsPrefix(p, p)
           /\ IsPrefix(p, q) /\ IsPrefix(q, x) => IsPrefix(p, x)
           /\ IsPrefix(p, q) /\ IsPrefix(q, p) => p = q
           /\ IsPrefix(p, q) /\ Len(p) = Len(q) => p = q
           /\ IsPrefix(p, x) /\ IsPrefix(q, x) => IsPrefix(p, q) \/ IsPrefix(q, p)
<1>1. Len(p) \in Nat /\ Len(q) \in Nat /\ Len(x) \in Nat
    BY LenProperties
<1>2. IsPrefix(p, q) /\ Len(p) = Len(q) => p = q
    BY PrefixDef, SeqEqual
<1> QED
    BY <1>1, <1>2, PrefixDef

\* Every path has the empty one as its prefix.
LEMMA PrefixEmpty ==
    ASSUME NEW S, NEW p \in Seq(S)
    PROVE  /\ IsPrefix(<<>>, p)
           /\ IsPrefix(p, <<>>) => p = <<>>
<1>1. <<>> \in Seq(S) /\ Len(<<>>) = 0 /\ Len(p) \in Nat
    BY EmptySeq, LenProperties
<1>2. IsPrefix(<<>>, p)
  <2>1. PICK e \in Seq(S) : e = <<>> /\ Len(e) = 0
    BY <1>1
  <2>2. Len(e) <= Len(p) /\ \A i \in 1 .. Len(e) : FALSE
    BY <1>1, <2>1
  <2>3. IsPrefix(e, p)
    BY <2>2, PrefixDef
  <2> QED
    BY <2>1, <2>3
<1> QED
    BY <1>1, <1>2, PrefixOrder

\* The first n names of a path.
LEMMA FirstNames ==
    ASSUME NEW S, NEW p \in Seq(S), NEW n \in 0 .. Len(p)
    PROVE  /\ SubSeq(p, 1, n) \in Seq(S) /\ Len(SubSeq(p, 1, n)) = n
           /\ \A i \in 1 .. n : SubSeq(p, 1, n)[i] = p[i]
           /\ IsPrefix(SubSeq(p, 1, n), p)
<1>1. Len(p) \in Nat /\ n \in Int
    BY LenProperties
<1>2. \A i \in 1 .. n : p[i] \in S
    BY <1>1, ElementOfSeq
<1>3. /\ SubSeq(p, 1, n) \in Seq(S) /\ Len(SubSeq(p, 1, n)) = IF 1 <= n THEN n - 1 + 1 ELSE 0
      /\ \A i \in 1 .. n - 1 + 1 : SubSeq(p, 1, n)[i] = p[1 + i - 1]
    BY <1>1, <1>2, SubSeqProperties
<1>4. /\ SubSeq(p, 1, n) \in Seq(S) /\ Len(SubSeq(p, 1, n)) = n
      /\ \A i \in 1 .. n : SubSeq(p, 1, n)[i] = p[i]
    BY <1>1, <1>3
<1>5. IsPrefix(SubSeq(p, 1, n), p)
  <2>1. PICK s \in Seq(S) : s = SubSeq(p, 1, n)
    BY <1>4
  <2>2. Len(s) <= Len(p) /\ \A i \in 1 .. Len(s) : s[i] = p[i]
    BY <1>1, <1>4, <2>1
  <2>3. IsPrefix(s, p)
    BY <2>2, PrefixDef
  <2> QED
    BY <2>1, <2>3
<1> QED
    BY <1>4, <1>5

\* A path without its last name is the longest of its strict prefixes.
LEMMA FrontFacts ==
    ASSUME NEW S, NEW p \in Seq(S), p # <<>>
    PROVE  /\ Front(p) \in Seq(S) /\ Len(Front(p)) = Len(p) - 1 /\ Len(p) \in Nat \ {0}
           /\ IsStrictPrefix(Front(p), p)
           /\ Append(Front(p), Last(p)) = p
           /\ \A q \in Seq(S) : IsStrictPrefix(q, p) => IsPrefix(q, Front(p))
<1>1. Len(p) \in Nat \ {0}
    BY EmptySeq
<1>2. /\ Front(p) \in Seq(S) /\ Len(Front(p)) = Len(p) - 1 /\ IsPrefix(Front(p), p)
      /\ \A i \in 1 .. Len(p) - 1 : Front(p)[i] = p[i]
  <2>1. Len(p) - 1 \in 0 .. Len(p)
    BY <1>1
  <2> QED
    BY <2>1, FirstNames DEF Front
<1>3. Append(Front(p), Last(p)) = p
  <2>1. p[Len(p)] \in S
    BY <1>1, ElementOfSeq
  <2>2. /\ Append(Front(p), p[Len(p)]) \in Seq(S)
        /\ Len(Append(Front(p), p[Len(p)])) = Len(p)
        /\ \A i \in 1 .. Len(p) - 1 : Append(Front(p), p[Len(p)])[i] = p[i]
        /\ Append(Front(p), p[Len(p)])[Len(p)] = p[Len(p)]
    BY <1>1, <1>2, <2>1, AppendProperties
  <2>3. \A i \in 1 .. Len(p) : Append(Front(p), p[Len(p)])[i] = p[i]
    BY <1>1, <2>2
  <2> QED
    BY <2>2, <2>3, SeqEqual DEF Last
<1>4. IsStrictPrefix(Front(p), p)
    BY <1>1, <1>2 DEF IsStrictPrefix
<1>5. ASSUME NEW q \in Seq(S), IsStrictPrefix(q, p) PROVE IsPrefix(q, Front(p))
  <2>1. Len(q) \in Nat
    BY LenProperties
  <2>2. IsPrefix(q, p) /\ Len(q) # Len(p)
    BY <1>5, PrefixOrder DEF IsStrictPrefix
  <2> QED
    BY <1>1, <1>2, <2>1, <2>2, PrefixDef
<1> QED
    BY <1>1, <1>2, <1>3, <1>4, <1>5

\* Every path of the storage is in another one or in the root.
LEMMA PathFacts ==
    /\ Paths \subseteq Seq(Names) /\ <<>> \notin Paths /\ <<>> \in Seq(Names)
    /\ \A p \in Paths : /\ Front(p) \in Paths \cup {<<>>} /\ IsStrictPrefix(Front(p), p)
                        /\ Front(p) \in Seq(Names) /\ Append(Front(p), Last(p)) = p
    /\ \A p \in Paths, q \in Seq(Names) : IsStrictPrefix(q, p) => IsPrefix(q, Front(p))
<1> USE StorageAssumption
<1>1. Paths \subseteq Seq(Names) /\ <<>> \notin Paths /\ <<>> \in Seq(Names)
    BY EmptySeq DEF StorageAssumption
<1>2. ASSUME NEW p \in Paths
      PROVE  /\ Front(p) \in Paths \cup {<<>>} /\ IsStrictPrefix(Front(p), p)
             /\ Front(p) \in Seq(Names) /\ Append(Front(p), Last(p)) = p
             /\ \A q \in Seq(Names) : IsStrictPrefix(q, p) => IsPrefix(q, Front(p))
  <2>1. /\ Front(p) \in Seq(Names) /\ Len(Front(p)) = Len(p) - 1 /\ Len(p) \in Nat \ {0}
        /\ IsStrictPrefix(Front(p), p) /\ Append(Front(p), Last(p)) = p
        /\ \A q \in Seq(Names) : IsStrictPrefix(q, p) => IsPrefix(q, Front(p))
    BY <1>1, FrontFacts
  <2>2. CASE Len(p) = 1
    <3>1. Len(Front(p)) = 0
      BY <2>1, <2>2
    <3> QED
      BY <2>1, <3>1, EmptySeq
  <2>3. CASE Len(p) # 1
    <3>1. Len(p) - 1 \in 1 .. Len(p)
      BY <2>1, <2>3
    <3>2. SubSeq(p, 1, Len(p) - 1) \in Paths
      BY <3>1 DEF StorageAssumption
    <3> QED
      BY <2>1, <3>2 DEF Front
  <2> QED
    BY <2>2, <2>3
<1> QED
    BY <1>1, <1>2

\* The entry of a directory through which the way to x goes.
LEMMA ChildOnTheWay ==
    ASSUME NEW p \in Paths \cup {<<>>}, NEW x \in Paths, IsStrictPrefix(p, x)
    PROVE  \E q \in Paths : Front(q) = p /\ IsPrefix(q, x)
<1> USE StorageAssumption
<1>1. p \in Seq(Names) /\ x \in Seq(Names)
    BY PathFacts
<1>2. Len(p) \in Nat /\ Len(x) \in Nat
    BY <1>1, LenProperties
<1>3. Len(p) < Len(x) /\ IsPrefix(p, x)
    BY <1>1, <1>2, PrefixOrder, PrefixDef DEF IsStrictPrefix
<1> DEFINE n == Len(p) + 1
           q == SubSeq(x, 1, n)
<1>4. n \in 1 .. Len(x) /\ n \in 0 .. Len(x) /\ n - 1 \in 0 .. Len(x) /\ n - 1 = Len(p)
    BY <1>2, <1>3
<1>5. q \in Paths
    BY <1>4 DEF StorageAssumption
<1>6. q \in Seq(Names) /\ Len(q) = n /\ IsPrefix(q, x)
    BY <1>1, <1>4, FirstNames
<1> HIDE DEF q, n
<1>7. Front(q) \in Seq(Names) /\ Len(Front(q)) = n - 1 /\ IsPrefix(Front(q), q)
    BY <1>5, <1>6, PathFacts, FrontFacts DEF IsStrictPrefix
<1>8. PICK f \in Seq(Names) : f = Front(q)
    BY <1>7
<1>9. IsPrefix(f, x)
    BY <1>1, <1>6, <1>7, <1>8, PrefixOrder
<1>10. IsPrefix(f, p) \/ IsPrefix(p, f)
    BY <1>1, <1>3, <1>9, PrefixOrder
<1> QED
    BY <1>1, <1>4, <1>5, <1>6, <1>7, <1>8, <1>10, PrefixOrder

\* The order of prefixes among the paths and the root.
LEMMA BelowFacts ==
    ASSUME NEW p \in Paths \cup {<<>>}, NEW q \in Paths \cup {<<>>},
           NEW x \in Paths \cup {<<>>}
    PROVE  /\ IsPrefix(p, p) /\ (IsPrefix(p, q) /\ IsPrefix(q, x) => IsPrefix(p, x))
           /\ IsPrefix(p, q) /\ IsPrefix(q, p) => p = q
           /\ IsPrefix(p, x) /\ IsPrefix(q, x) => IsPrefix(p, q) \/ IsPrefix(q, p)
           /\ IsPrefix(<<>>, p) /\ (IsPrefix(p, <<>>) => p = <<>>)
<1> USE StorageAssumption
<1>1. p \in Seq(Names) /\ q \in Seq(Names) /\ x \in Seq(Names)
    BY PathFacts
<1> QED
    BY <1>1, PrefixOrder, PrefixEmpty
-----------------------------------------------------------------------------
(* The calls of the store keep the tree rooted *)

\* An entry is made in a directory only.
LEMMA RoomIsDir ==
    ASSUME NEW t, NEW p, Room(t, p) = "ok"
    PROVE  Entry(t, Front(p)) = Dir
    BY DEF Room, ReadDir, IsFile, Stat

\* An entry at p, which is no directory yet, in a directory.
LEMMA AddedRooted ==
    ASSUME NEW t, Rooted(t), NEW p \in Paths, t[p] # Dir,
           Entry(t, Front(p)) = Dir, NEW x
    PROVE  Rooted(Put(t, {p}, x).new)
<1> USE StorageAssumption
<1> DEFINE new == [q \in Paths |-> IF q \in {p} THEN x ELSE t[q]]
<1> SUFFICES ASSUME NEW y \in Paths, NEW q \in Paths, new[y] # NoEntry, IsStrictPrefix(q, y)
             PROVE  new[q] = Dir
    BY DEF Rooted, Put
<1>1. CASE y = p
  <2>1. q # p /\ IsPrefix(q, Front(p))
    BY <1>1, PathFacts DEF IsStrictPrefix
  <2>2. CASE q = Front(p)
    BY <2>1, <2>2, PathFacts DEF Entry
  <2>3. CASE q # Front(p)
    <3>1. Front(p) \in Paths
      BY <2>1, PathFacts, BelowFacts
    <3> QED
      BY <2>1, <2>3, <3>1, PathFacts DEF Rooted, IsStrictPrefix, Entry, StorageAssumption
  <2> QED
    BY <2>2, <2>3
<1>2. CASE y # p
  <2>1. t[q] = Dir
    BY <1>2 DEF Rooted
  <2> QED
    BY <2>1
<1> QED
    BY <1>1, <1>2

\* What is removed leaves nothing below it.
LEMMA RemovedRooted ==
    ASSUME NEW t, Rooted(t), NEW S,
           \A q \in S, y \in Paths : IsStrictPrefix(q, y) => y \in S \/ t[y] = NoEntry
    PROVE  Rooted(Put(t, S, NoEntry).new)
    BY DEF Rooted, Put

\* MkdirAll makes every directory above the last one, or fails at a file.
LEMMA MkdirAllRooted ==
    ASSUME NEW t, Rooted(t), NEW p \in Paths \cup {<<>>}
    PROVE  Rooted(MkdirAll(t, p).tree)
<1> USE StorageAssumption
<1> DEFINE S == {q \in Paths : IsPrefix(q, p)}
           new == [q \in Paths |-> IF q \in S THEN Dir ELSE t[q]]
<1>1. ASSUME \A q \in S : ~IsFile(t[q]), NEW y \in Paths, NEW q \in Paths,
             new[y] # NoEntry, IsStrictPrefix(q, y)
      PROVE  new[q] = Dir
  <2>1. CASE y \in S
    BY <1>1, <2>1, BelowFacts DEF IsStrictPrefix
  <2>2. CASE y \notin S
    BY <1>1, <2>2 DEF Rooted
  <2> QED
    BY <2>1, <2>2
<1>2. (\A q \in S : ~IsFile(t[q])) => Rooted(new)
    BY <1>1 DEF Rooted
<1> QED
    BY <1>2 DEF MkdirAll, Result, Put

\* Mkdir makes a directory where there is nothing, in a directory.
LEMMA MkdirRooted ==
    ASSUME NEW t, Rooted(t), NEW p \in Paths \cup {<<>>}
    PROVE  Rooted(Mkdir(t, p).tree)
<1> USE StorageAssumption
<1>1. CASE Mkdir(t, p).err = "ok"
  <2>1. Entry(t, p) = NoEntry /\ Room(t, p) = "ok" /\ Mkdir(t, p).tree = Put(t, {p}, Dir).new
    BY <1>1 DEF Mkdir, Result
  <2>2. p \in Paths /\ t[p] # Dir
    BY <2>1 DEF Entry, StorageAssumption
  <2> QED
    BY <2>1, <2>2, AddedRooted, RoomIsDir
<1>2. CASE Mkdir(t, p).err # "ok"
    BY <1>2 DEF Mkdir, Result, Put
<1> QED
    BY <1>1, <1>2

\* Remove takes away what has no children.
LEMMA RemoveEntryRooted ==
    ASSUME NEW t, Rooted(t), NEW p \in Paths \cup {<<>>}
    PROVE  Rooted(RemoveEntry(t, p).tree)
<1> USE StorageAssumption
<1>1. CASE RemoveEntry(t, p).err = "ok"
  <2>1. Children(t, p) = {} /\ RemoveEntry(t, p).tree = Put(t, {p}, NoEntry).new
    BY <1>1 DEF RemoveEntry, Result
  <2>2. ASSUME NEW y \in Paths, IsStrictPrefix(p, y) PROVE t[y] = NoEntry
    <3>1. PICK q \in Paths : Front(q) = p /\ IsPrefix(q, y)
      BY <2>2, ChildOnTheWay
    <3>2. t[q] = NoEntry
      BY <2>1, <3>1 DEF Children
    <3> QED
      BY <3>1, <3>2 DEF Rooted, IsStrictPrefix, StorageAssumption
  <2> QED
    BY <2>1, <2>2, RemovedRooted
<1>2. CASE RemoveEntry(t, p).err # "ok"
    BY <1>2 DEF RemoveEntry, Result, Put
<1> QED
    BY <1>1, <1>2

\* RemoveAll takes away everything below, too.
LEMMA RemoveAllRooted ==
    ASSUME NEW t, Rooted(t), NEW p \in Paths \cup {<<>>}
    PROVE  Rooted(RemoveAll(t, p).tree)
<1> USE StorageAssumption
<1>1. \A q \in Below(p), y \in Paths : IsStrictPrefix(q, y) => y \in Below(p)
    BY BelowFacts DEF Below, IsStrictPrefix
<1> QED
    BY <1>1, RemovedRooted DEF RemoveAll, Result

\* OpenFile makes a file where there is nothing, in a directory.
LEMMA OpenFileRooted ==
    ASSUME NEW t, Rooted(t), NEW p \in Paths, NEW create, NEW x
    PROVE  Rooted(OpenFile(t, p, create, x).tree)
<1> USE StorageAssumption
<1>1. CASE t[p] = NoEntry /\ OpenFile(t, p, create, x).err = "ok"
  <2>1. Room(t, p) = "ok" /\ OpenFile(t, p, create, x).tree = Put(t, {p}, x).new
    BY <1>1, PathFacts DEF OpenFile, Result, IsFile, Stat, Entry, StorageAssumption
  <2> QED
    BY <1>1, <2>1, AddedRooted, RoomIsDir DEF StorageAssumption
<1>2. CASE t[p] # NoEntry \/ OpenFile(t, p, create, x).err # "ok"
  <2>1. \/ OpenFile(t, p, create, x).tree = t
        \/ OpenFile(t, p, create, x).tree = Put(t, {}, x).new
    BY <1>2 DEF OpenFile, Result, IsFile, Put
  <2> QED
    BY <2>1 DEF Put, Rooted
<1> QED
    BY <1>1, <1>2

\* The path that Rename moves to x, which is below q, from below p.
MovedFrom(p, q, x) == p \o SubSeq(x, Len(q) + 1, Len(x))

\* The names of the path that Rename moves to x.
LEMMA MovedNames ==
    ASSUME NEW S, NEW p \in Seq(S), NEW q \in Seq(S), NEW x \in Seq(S), IsPrefix(q, x)
    PROVE  /\ MovedFrom(p, q, x) \in Seq(S)
           /\ Len(MovedFrom(p, q, x)) = Len(p) + Len(x) - Len(q)
           /\ \A i \in 1 .. Len(p) + Len(x) - Len(q) :
                  MovedFrom(p, q, x)[i] = IF i <= Len(p) THEN p[i] ELSE x[i - Len(p) + Len(q)]
<1> DEFINE s == SubSeq(x, Len(q) + 1, Len(x))
<1>1. Len(p) \in Nat /\ Len(q) \in Nat /\ Len(x) \in Nat /\ Len(q) <= Len(x)
    BY LenProperties DEF IsPrefix
<1>2. Len(q) + 1 \in Int /\ Len(x) \in Int /\ \A i \in Len(q) + 1 .. Len(x) : x[i] \in S
    BY <1>1, ElementOfSeq
<1>3. /\ s \in Seq(S) /\ Len(s) = IF Len(q) + 1 <= Len(x) THEN Len(x) - (Len(q) + 1) + 1 ELSE 0
      /\ \A i \in 1 .. Len(x) - (Len(q) + 1) + 1 : s[i] = x[Len(q) + 1 + i - 1]
    BY <1>2, SubSeqProperties
<1>4. /\ s \in Seq(S) /\ Len(s) = Len(x) - Len(q)
      /\ \A i \in 1 .. Len(x) - Len(q) : s[i] = x[Len(q) + i]
    BY <1>1, <1>3
<1> HIDE DEF s
<1>5. /\ p \o s \in Seq(S) /\ Len(p \o s) = Len(p) + Len(s)
      /\ \A i \in 1 .. Len(p) + Len(s) : (p \o s)[i] = IF i <= Len(p) THEN p[i] ELSE s[i - Len(p)]
    BY <1>4, ConcatProperties
<1>6. MovedFrom(p, q, x) = p \o s
    BY DEF MovedFrom, s
<1>7. ASSUME NEW i \in 1 .. Len(p) + Len(x) - Len(q)
      PROVE  (p \o s)[i] = IF i <= Len(p) THEN p[i] ELSE x[i - Len(p) + Len(q)]
  <2>1. i \in 1 .. Len(p) + Len(s)
    BY <1>1, <1>4
  <2>2. CASE i <= Len(p)
    BY <1>5, <2>1, <2>2
  <2>3. CASE ~(i <= Len(p))
    <3>1. i - Len(p) \in 1 .. Len(x) - Len(q) /\ Len(q) + (i - Len(p)) = i - Len(p) + Len(q)
      BY <1>1, <2>3
    <3> QED
      BY <1>4, <1>5, <2>1, <2>3, <3>1
  <2> QED
    BY <2>2, <2>3
<1> QED
    BY <1>1, <1>4, <1>5, <1>6, <1>7

\* What is above or below one another is so in its new place, in the same order.
LEMMA MovedOrder ==
    ASSUME NEW S, NEW p \in Seq(S), NEW q \in Seq(S), NEW x \in Seq(S), NEW y \in Seq(S),
           IsPrefix(q, y), IsPrefix(y, x)
    PROVE  /\ IsPrefix(p, MovedFrom(p, q, x))
           /\ IsPrefix(MovedFrom(p, q, y), MovedFrom(p, q, x))
           /\ y # x => MovedFrom(p, q, y) # MovedFrom(p, q, x)
           /\ MovedFrom(q, q, x) = x
           /\ MovedFrom(p, q, x) = MovedFrom(p, q, y) => x = y
<1>1. /\ Len(p) \in Nat /\ Len(q) \in Nat /\ Len(x) \in Nat /\ Len(y) \in Nat
      /\ Len(q) <= Len(y) /\ Len(y) <= Len(x) /\ IsPrefix(q, x)
    BY LenProperties, PrefixOrder DEF IsPrefix
<1>2. PICK a \in Seq(S) :
         /\ a = MovedFrom(p, q, x) /\ Len(a) = Len(p) + Len(x) - Len(q)
         /\ \A i \in 1 .. Len(p) + Len(x) - Len(q) :
                a[i] = IF i <= Len(p) THEN p[i] ELSE x[i - Len(p) + Len(q)]
    BY <1>1, MovedNames
<1>3. PICK b \in Seq(S) :
         /\ b = MovedFrom(p, q, y) /\ Len(b) = Len(p) + Len(y) - Len(q)
         /\ \A i \in 1 .. Len(p) + Len(y) - Len(q) :
                b[i] = IF i <= Len(p) THEN p[i] ELSE y[i - Len(p) + Len(q)]
    BY <1>1, MovedNames
<1>Q. PICK r \in Seq(S) : r = q
    OBVIOUS
<1>4. PICK c \in Seq(S) :
         /\ c = MovedFrom(r, q, x) /\ Len(c) = Len(r) + Len(x) - Len(q)
         /\ \A i \in 1 .. Len(r) + Len(x) - Len(q) :
                c[i] = IF i <= Len(r) THEN r[i] ELSE x[i - Len(r) + Len(q)]
    BY <1>1, MovedNames
<1>5. /\ Len(a) = Len(p) + Len(x) - Len(q)
      /\ \A i \in 1 .. Len(a) : a[i] = IF i <= Len(p) THEN p[i] ELSE x[i - Len(p) + Len(q)]
    BY <1>2
<1>6. /\ Len(b) = Len(p) + Len(y) - Len(q)
      /\ \A i \in 1 .. Len(b) : b[i] = IF i <= Len(p) THEN p[i] ELSE y[i - Len(p) + Len(q)]
    BY <1>3
<1>7. Len(c) = Len(x) /\ \A i \in 1 .. Len(x) : c[i] = IF i <= Len(q) THEN q[i] ELSE x[i]
  <2>1. Len(c) = Len(x)
    BY <1>1, <1>4, <1>Q
  <2>2. ASSUME NEW i \in 1 .. Len(x) PROVE c[i] = IF i <= Len(q) THEN q[i] ELSE x[i]
    <3>1. i - Len(q) + Len(q) = i /\ i \in 1 .. Len(r) + Len(x) - Len(q)
      BY <1>1, <1>Q
    <3> QED
      BY <1>4, <1>Q, <3>1
  <2> QED
    BY <2>1, <2>2
<1>8. /\ \A i \in 1 .. Len(y) : y[i] = x[i]
      /\ \A i \in 1 .. Len(q) : q[i] = x[i]
    BY <1>1, PrefixDef
<1>9. IsPrefix(p, a)
  <2>1. Len(p) <= Len(a)
    BY <1>1, <1>5
  <2>2. ASSUME NEW i \in 1 .. Len(p) PROVE p[i] = a[i]
    <3>1. i \in 1 .. Len(a) /\ i <= Len(p)
      BY <1>1, <1>5
    <3> QED
      BY <1>5, <3>1
  <2> QED
    BY <2>1, <2>2, PrefixDef
<1>10. IsPrefix(b, a)
  <2>1. ASSUME NEW i \in 1 .. Len(b) PROVE b[i] = a[i]
    <3>1. i \in 1 .. Len(a)
      BY <1>1, <1>5, <1>6
    <3>2. CASE ~(i <= Len(p))
      <4>1. i - Len(p) + Len(q) \in 1 .. Len(y)
        BY <1>1, <1>6, <3>2
      <4> QED
        BY <1>5, <1>6, <1>8, <3>1, <3>2, <4>1
    <3> QED
      BY <1>5, <1>6, <3>1, <3>2
  <2>2. Len(b) <= Len(a)
    BY <1>1, <1>5, <1>6
  <2> QED
    BY <2>1, <2>2, PrefixDef
<1>11. a = b => x = y
    BY <1>1, <1>5, <1>6, PrefixOrder
<1>12. c = x
    BY <1>1, <1>7, <1>8, SeqEqual
<1> QED
    BY <1>2, <1>3, <1>4, <1>Q, <1>9, <1>10, <1>11, <1>12

\* Rename moves whole directories, into a directory.
LEMMA RenameRooted ==
    ASSUME NEW t, Rooted(t), NEW p \in Paths, NEW q \in Paths
    PROVE  Rooted(Rename(t, p, q).tree)
<1> USE StorageAssumption
<1> DEFINE From(x) == MovedFrom(p, q, x)
           new == [x \in Paths |->
                      IF x \in Below(q) THEN (IF From(x) \in Paths THEN t[From(x)] ELSE NoEntry)
                      ELSE IF x \in Below(p) THEN NoEntry ELSE t[x]]
<1>1. p \in Seq(Names) /\ q \in Seq(Names) /\ Paths \subseteq Seq(Names)
    BY PathFacts
<1>2. CASE Rename(t, p, q).err # "ok"
    BY <1>2 DEF Rename, Result
<1>3. CASE Rename(t, p, q).err = "ok"
  <2>1. /\ Rename(t, p, q).tree = new
        /\ Stat(t, p) = "ok" /\ ~IsStrictPrefix(p, q) /\ Room(t, q) = "ok"
        /\ p = q \/ t[q] = NoEntry
    BY <1>3 DEF Rename, Result, MovedFrom
  <2>2. t[p] # NoEntry /\ Entry(t, Front(q)) = Dir
    BY <2>1, RoomIsDir, PathFacts DEF Stat, Entry
  <2>3. ASSUME NEW x \in Paths, NEW y \in Paths, new[x] # NoEntry, IsStrictPrefix(y, x)
        PROVE  new[y] = Dir
    <3>1. IsPrefix(y, x) /\ y # x /\ x \in Seq(Names) /\ y \in Seq(Names)
      BY <1>1, <2>3 DEF IsStrictPrefix
    <3>2. CASE p = q
      <4>1. ASSUME NEW z \in Paths PROVE new[z] = t[z]
        <5>1. z \in Below(q) => From(z) = z
          BY <1>1, <3>2, MovedOrder, PrefixOrder DEF Below
        <5> QED
          BY <3>2, <5>1
      <4> QED
        BY <2>3, <4>1 DEF Rooted
    <3>3. CASE p # q
      <4>1. ~IsPrefix(p, q) /\ ~IsPrefix(q, p)
        BY <2>1, <2>2, <3>3, BelowFacts DEF IsStrictPrefix, Rooted, StorageAssumption
      <4>2. CASE x \in Below(q) /\ y \in Below(q)
        <5>1. From(x) \in Paths /\ t[From(x)] # NoEntry
          BY <2>3, <4>2
        <5>2. IsStrictPrefix(From(y), From(x)) /\ From(y) \in Seq(Names) /\ IsPrefix(p, From(y))
          BY <1>1, <3>1, <4>2, MovedOrder, MovedNames, PrefixOrder DEF Below, IsStrictPrefix
        <5>3. From(y) \in Paths
          <6>1. PICK a \in Seq(Names), b \in Paths : a = From(y) /\ b = From(x)
            BY <5>1, <5>2
          <6>2. /\ IsPrefix(a, b) /\ Len(a) \in Nat /\ Len(b) \in Nat /\ b \in Seq(Names)
                /\ Len(p) \in Nat \ {0} /\ IsPrefix(p, a)
            BY <1>1, <5>2, <6>1, LenProperties, EmptySeq, PathFacts DEF IsStrictPrefix
          <6>3. Len(a) \in 1 .. Len(b) /\ SubSeq(a, 1, Len(a)) = SubSeq(b, 1, Len(a))
            BY <6>2 DEF IsPrefix
          <6>4. SubSeq(b, 1, Len(a)) \in Paths
            BY <6>3 DEF StorageAssumption
          <6> QED
            BY <6>1, <6>3, <6>4, SubSeqFull
        <5> QED
          BY <4>2, <5>1, <5>2, <5>3 DEF Rooted
      <4>3. CASE x \in Below(q) /\ y \notin Below(q)
        <5>1. IsStrictPrefix(y, q)
          BY <3>1, <4>3, BelowFacts DEF Below, IsStrictPrefix
        <5>2. t[y] = Dir
          <6>1. IsPrefix(y, Front(q))
            BY <3>1, <5>1, PathFacts
          <6>2. Front(q) # <<>>
            <7>1. ~IsPrefix(y, <<>>)
              BY PathFacts, BelowFacts
            <7> QED
              BY <6>1, <7>1
          <6>3. Front(q) \in Paths /\ t[Front(q)] = Dir
            BY <2>2, <6>2, PathFacts DEF Entry
          <6> QED
            BY <6>1, <6>3 DEF Rooted, IsStrictPrefix, StorageAssumption
        <5>3. y \notin Below(p)
          BY <4>1, <5>1, BelowFacts DEF Below, IsStrictPrefix
        <5> QED
          BY <4>3, <5>2, <5>3
      <4>4. CASE x \notin Below(q)
        <5>1. x \notin Below(p) /\ t[x] # NoEntry
          BY <2>3, <4>4
        <5>2. t[y] = Dir
          BY <2>3, <5>1 DEF Rooted
        <5>3. y \notin Below(q) /\ y \notin Below(p)
          BY <3>1, <4>4, <5>1, BelowFacts DEF Below
        <5> QED
          BY <5>2, <5>3
      <4> QED
        BY <4>2, <4>3, <4>4
    <3> QED
      BY <3>2, <3>3
  <2>4. Rooted(new)
    BY <2>3 DEF Rooted
  <2> QED
    BY <2>1, <2>4
<1> QED
    BY <1>2, <1>3
-----------------------------------------------------------------------------
(* What is true of a call on its way *)

Fields == {"op", "pc", "err", "in", "out", "buf", "list", "todo", "before", "disturbed",
           "ever", "always"}

Shape == DOMAIN call = Clients /\ \A c \in Clients : DOMAIN call[c] = Fields

Locations == Paths \cup {<<>>}

\* Where the operation of a call may be and what it may name.
Legal(k) ==
    k.pc # "over" =>
        /\ k.op.kind \in Kinds /\ k.op.path \in Locations
        /\ ~AllowsRoot(k.op.kind) => k.op.path \in Paths
        /\ k.op.kind \in {"copy", "rename"} => k.op.dest \in Paths
        /\ k.pc = "walk" => k.op.kind = "readdir" /\ k.op.recursive
        /\ k.pc = "call" /\ k.op.kind = "readdir" => ~k.op.recursive
        /\ k.pc = "call" => k.op.kind \in {"stat", "readdir", "mkdir", "rm", "rename"}
        /\ k.pc = "stat" => k.op.kind = "unlink" \/ (k.op.kind = "readdir" /\ k.op.recursive)
        /\ k.pc = "remove" => k.op.kind = "unlink"
        /\ k.pc = "mkdir" => k.op.kind = "write"
        /\ k.pc = "open" => k.op.kind \in {"read", "copy"}
        /\ k.pc \in {"create", "write"} => k.op.kind \in {"write", "copy"}
        /\ k.pc = "read" => k.op.kind \in {"read", "copy"}
        /\ k.pc # "walk" => k.list = {}
        /\ k.pc \in {"call", "walk", "stat", "remove", "mkdir", "open", "create", "write", "read"}

\* What a call under way has seen of the tree.
HasSeen(k, t) == k.pc # "over" => Entries(t) \subseteq k.ever /\ k.always \subseteq Entries(t)

\* A listing has found nothing but what was there, and it has found, or is still to
\* find on the way below a directory, all that was there the whole time.
Walks(k) ==
    k.pc = "walk" =>
        /\ k.todo \subseteq Locations /\ \A dir \in k.todo : IsPrefix(k.op.path, dir)
        /\ k.list \subseteq Under(k.ever, k.op)
        /\ \A e \in Under(k.always, k.op) :
               e \in k.list \/ \E dir \in k.todo : IsStrictPrefix(dir, e[1])

Fair(k) ==
    k.op # NoCall /\ k.pc = "over" /\ k.err = "ok" /\ k.op.kind = "readdir"
        => /\ Under(k.always, k.op) \subseteq k.list
           /\ k.list \subseteq Under(k.ever, k.op)

ListInv ==
    /\ Shape /\ Rooted(tree)
    /\ \A c \in Clients :
           Legal(call[c]) /\ HasSeen(call[c], tree) /\ Walks(call[c]) /\ Fair(call[c])

\* A listing that looks on changes nothing but what it could see.
LEMMA SeesFacts ==
    ASSUME NEW k, DOMAIN k = Fields, NEW t
    PROVE  /\ DOMAIN Sees(k, t) = Fields
           /\ Sees(k, t).ever = k.ever \cup Entries(t)
           /\ Sees(k, t).always = k.always \cap Entries(t)
           /\ \A f \in Fields \ {"ever", "always"} : Sees(k, t)[f] = k[f]
    BY DEF Sees, Fields

\* Others change the tree while a call is under way.
LEMMA OthersSee ==
    ASSUME NEW k, DOMAIN k = Fields, NEW t, Legal(k), Walks(k), k.pc # "over"
    PROVE  LET s == Sees(k, t)
           IN DOMAIN s = Fields /\ Legal(s) /\ HasSeen(s, t) /\ Walks(s) /\ Fair(s)
<1> DEFINE s == Sees(k, t)
<1>1. /\ DOMAIN s = Fields
      /\ s.ever = k.ever \cup Entries(t) /\ s.always = k.always \cap Entries(t)
      /\ s.op = k.op /\ s.pc = k.pc /\ s.list = k.list /\ s.todo = k.todo
    BY SeesFacts DEF Fields
<1> HIDE DEF s
<1>2. Under(k.ever, k.op) \subseteq Under(s.ever, k.op)
      /\ Under(s.always, k.op) \subseteq Under(k.always, k.op)
    BY <1>1 DEF Under
<1>3. Legal(s) /\ HasSeen(s, t) /\ Fair(s)
    BY <1>1 DEF Legal, HasSeen, Fair
<1>4. Walks(s)
    BY <1>1, <1>2 DEF Walks
<1> QED
    BY <1>1, <1>3, <1>4 DEF s

\* A step is judged by the tree that it leaves and by what it makes of its own call.
LEMMA GoesStep ==
    ASSUME ListInv, NEW c \in Clients, Active(c), NEW k, DOMAIN k = Fields, NEW t, Rooted(t),
           Goes(c, k, t), Legal(k), Walks(Sees(k, t)), Fair(Sees(k, t))
    PROVE  ListInv'
<1>1. Shape' /\ Rooted(tree)' /\ tree' = t
      /\ call'[c] = Sees(k, t)
      /\ \A x \in Clients \ {c} : call'[x] = IF Active(x) THEN Sees(call[x], t) ELSE call[x]
    BY SeesFacts DEF Goes, ListInv, Shape
<1>2. ASSUME NEW x \in Clients
      PROVE  Legal(call'[x]) /\ HasSeen(call'[x], t) /\ Walks(call'[x]) /\ Fair(call'[x])
  <2>1. CASE x = c
    <3>1. /\ Sees(k, t).ever = k.ever \cup Entries(t)
          /\ Sees(k, t).always = k.always \cap Entries(t)
          /\ Sees(k, t).op = k.op /\ Sees(k, t).pc = k.pc /\ Sees(k, t).list = k.list
      BY SeesFacts DEF Fields
    <3> QED
      BY <1>1, <2>1, <3>1 DEF Legal, HasSeen
  <2>2. CASE x # c /\ Active(x)
    BY <1>1, <2>2, OthersSee DEF ListInv, Shape, Active
  <2>3. CASE x # c /\ ~Active(x)
    BY <1>1, <2>3 DEF ListInv, Active, HasSeen
  <2> QED
    BY <2>1, <2>2, <2>3
<1> QED
    BY <1>1, <1>2 DEF ListInv

\* A step of an operation other than a listing, or one that ends with an error.
LEMMA OtherStep ==
    ASSUME ListInv, NEW c \in Clients, Active(c), NEW k, DOMAIN k = Fields, NEW t, Rooted(t),
           Goes(c, k, t), Legal(k), k.pc # "walk",
           k.op.kind # "readdir" \/ k.pc # "over" \/ k.err # "ok"
    PROVE  ListInv'
<1>1. /\ Sees(k, t).op = k.op /\ Sees(k, t).pc = k.pc /\ Sees(k, t).err = k.err
    BY SeesFacts DEF Fields
<1>2. Walks(Sees(k, t)) /\ Fair(Sees(k, t))
    BY <1>1 DEF Walks, Fair
<1> QED
    BY <1>2, GoesStep

\* An operation ends with an error, or one that lists nothing ends or goes on.
LEMMA EndsStep ==
    ASSUME ListInv, NEW c \in Clients, Active(c), NEW err, NEW t, Rooted(t), Ends(c, err, t),
           call[c].op.kind # "readdir" \/ err # "ok"
    PROVE  ListInv'
<1> DEFINE k == [call[c] EXCEPT !.pc = "over", !.err = err]
<1>1. DOMAIN k = Fields /\ k.pc = "over" /\ k.err = err /\ k.op = call[c].op
    BY DEF ListInv, Shape, Fields
<1>2. Goes(c, k, t)
    BY DEF Ends
<1> HIDE DEF k
<1>3. Legal(k)
    BY <1>1 DEF Legal
<1> QED
    BY <1>1, <1>2, <1>3, OtherStep

\* An operation that lists nothing goes on.
LEMMA GoesToStep ==
    ASSUME ListInv, NEW c \in Clients, Active(c), NEW pc, NEW t, Rooted(t), GoesTo(c, pc, t),
           pc \notin {"over", "walk"}, Legal([call[c] EXCEPT !.pc = pc])
    PROVE  ListInv'
<1> DEFINE k == [call[c] EXCEPT !.pc = pc]
<1>1. DOMAIN k = Fields /\ k.pc = pc
    BY DEF ListInv, Shape, Fields
<1>2. Goes(c, k, t) /\ Legal(k)
    BY DEF GoesTo
<1> HIDE DEF k
<1> QED
    BY <1>1, <1>2, OtherStep

\* storageUnlink and aferoWalk look at the entry first (storage.go:713-722, :797-803).
LEMMA StatFirstKeeps ==
    ASSUME ListInv, NEW c \in Clients, StatFirst(c)
    PROVE  ListInv'
<1> USE StorageAssumption
<1> DEFINE op == call[c].op
           err == Stat(tree, op.path)
           isDir == Entry(tree, op.path) = Dir
<1>1. /\ Active(c) /\ Rooted(tree) /\ call[c].pc = "stat" /\ Legal(call[c])
      /\ op.kind = "unlink" \/ (op.kind = "readdir" /\ op.recursive)
      /\ op.kind \in Kinds /\ op.path \in Locations
      /\ DOMAIN call[c] = Fields
    BY DEF StatFirst, ListInv, Active, Legal, Shape
<1>2. CASE err # "ok"
    BY <1>1, <1>2, EndsStep DEF StatFirst
<1>3. CASE err = "ok" /\ op.kind = "unlink"
  <2>1. op.kind # "readdir"
    BY <1>3
  <2>2. Legal([call[c] EXCEPT !.pc = "remove"])
    BY <1>1, <1>3 DEF Legal, Fields
  <2>3. Ends(c, "invalid", tree) \/ GoesTo(c, "remove", tree)
    BY <1>3 DEF StatFirst
  <2> QED
    BY <1>1, <2>1, <2>2, <2>3, EndsStep, GoesToStep
<1>4. CASE err = "ok" /\ op.kind # "unlink" /\ isDir
  <2> DEFINE k == [call[c] EXCEPT !.pc = "walk", !.todo = {op.path}]
  <2>1. Goes(c, k, tree)
    BY <1>4 DEF StatFirst
  <2>2. /\ DOMAIN k = Fields /\ k.op = op /\ k.pc = "walk" /\ k.todo = {op.path}
        /\ k.list = call[c].list
    BY <1>1 DEF Fields
  <2> HIDE DEF k
  <2>3. Legal(k)
    BY <1>1, <1>4, <2>2 DEF Legal
  <2> DEFINE s == Sees(k, tree)
  <2>4. /\ s.op = op /\ s.pc = "walk" /\ s.todo = {op.path} /\ s.list = call[c].list
        /\ s.always \subseteq Entries(tree)
    BY <2>2, SeesFacts DEF Fields
  <2> HIDE DEF s
  <2>5. Fair(s)
    BY <2>4 DEF Fair
  <2>6. call[c].list = {}
    BY <1>1 DEF Legal
  <2>7. IsPrefix(op.path, op.path)
    BY <1>1, BelowFacts DEF Locations
  <2>8. Walks(s)
    BY <1>1, <1>4, <2>4, <2>6, <2>7 DEF Walks, Under
  <2> QED
    BY <1>1, <2>1, <2>2, <2>3, <2>5, <2>8, GoesStep DEF s
<1>5. CASE err = "ok" /\ op.kind # "unlink" /\ ~isDir
  <2> DEFINE k == [call[c] EXCEPT !.pc = "over", !.err = "ok"]
  <2>1. Goes(c, k, tree)
    BY <1>5 DEF StatFirst, Ends
  <2>2. DOMAIN k = Fields /\ k.op = op /\ k.pc = "over" /\ k.list = {}
    BY <1>1 DEF Fields, Legal
  <2> HIDE DEF k
  <2> DEFINE s == Sees(k, tree)
  <2>3. s.op = op /\ s.pc = "over" /\ s.list = {} /\ s.always \subseteq Entries(tree)
    BY <2>2, SeesFacts DEF Fields
  <2> HIDE DEF s
  <2>4. op.path \in Paths /\ tree[op.path] # Dir
    BY <1>1, <1>5 DEF Locations, Entry
  <2>5. ASSUME NEW e \in Under(s.always, op) PROVE FALSE
    <3>1. IsStrictPrefix(op.path, e[1]) /\ e \in Entries(tree)
      BY <1>1, <1>5, <2>3 DEF Under
    <3>2. e[1] \in Paths /\ tree[e[1]] # NoEntry
      BY <3>1 DEF Entries
    <3> QED
      BY <1>1, <2>4, <3>1, <3>2 DEF Rooted
  <2>6. Under({}, op) = {}
    BY DEF Under
  <2>7. Walks(s) /\ Fair(s)
    BY <2>3, <2>5 DEF Walks, Fair
  <2>8. Legal(k)
    BY <2>2 DEF Legal
  <2> QED
    BY <1>1, <2>1, <2>2, <2>7, <2>8, GoesStep DEF s
<1> QED
  BY <1>2, <1>3, <1>4, <1>5

\* What a listing finds in a directory.
LEMMA FoundFacts ==
    ASSUME NEW dir \in Locations, Rooted(tree), ReadDir(tree, dir) = "ok",
           NEW op, op.recursive, IsPrefix(op.path, dir), op.path \in Locations
    PROVE  LET found == {<<ChildPath(dir, Last(q)), tree[q] = Dir>> : q \in Children(tree, dir)}
           IN /\ found = {<<q, tree[q] = Dir>> : q \in Children(tree, dir)}
              /\ found \subseteq Under(Entries(tree), op)
              /\ {e[1] : e \in {x \in found : x[2]}} \subseteq Locations
              /\ \A e \in {x \in found : x[2]} : IsPrefix(op.path, e[1])
              /\ \A e \in Entries(tree) :
                     IsStrictPrefix(dir, e[1])
                         => \/ e \in found
                            \/ \E x \in found : x[2] /\ IsStrictPrefix(x[1], e[1])
<1> USE StorageAssumption
<1> DEFINE found == {<<ChildPath(dir, Last(q)), tree[q] = Dir>> : q \in Children(tree, dir)}
           names == {<<q, tree[q] = Dir>> : q \in Children(tree, dir)}
<1>1. \A q \in Children(tree, dir) :
          /\ q \in Paths /\ Front(q) = dir /\ tree[q] # NoEntry /\ ChildPath(dir, Last(q)) = q
          /\ IsStrictPrefix(dir, q)
    BY PathFacts DEF Children, ChildPath
<1>2. found = names
    BY <1>1
<1>3. \A q \in Children(tree, dir) : IsStrictPrefix(op.path, q)
    BY <1>1, BelowFacts DEF IsStrictPrefix, Locations
<1>4. ASSUME NEW e \in names PROVE e \in Under(Entries(tree), op)
  <2>1. PICK q \in Children(tree, dir) : e = <<q, tree[q] = Dir>>
    BY <1>4
  <2> QED
    BY <1>1, <1>3, <2>1 DEF Under, Entries
<1>5. ASSUME NEW e \in names PROVE e[1] \in Locations /\ IsPrefix(op.path, e[1])
  <2>1. PICK q \in Children(tree, dir) : e = <<q, tree[q] = Dir>>
    BY <1>5
  <2> QED
    BY <1>1, <1>3, <2>1 DEF Locations, IsStrictPrefix
<1>6. ASSUME NEW e \in Entries(tree), IsStrictPrefix(dir, e[1])
      PROVE  e \in names \/ \E x \in names : x[2] /\ IsStrictPrefix(x[1], e[1])
  <2>1. PICK y \in Paths : e = <<y, tree[y] = Dir>> /\ tree[y] # NoEntry
    BY DEF Entries
  <2>2. PICK q \in Paths : Front(q) = dir /\ IsPrefix(q, y)
    BY <1>6, <2>1, ChildOnTheWay DEF Locations
  <2>3. CASE q = y
    BY <2>1, <2>2, <2>3 DEF Children
  <2>4. CASE q # y
    <3>1. tree[q] = Dir /\ IsStrictPrefix(q, y)
      BY <2>1, <2>2, <2>4 DEF Rooted, IsStrictPrefix
    <3>2. q \in Children(tree, dir)
      BY <2>2, <3>1 DEF Children, StorageAssumption
    <3>3. <<q, tree[q] = Dir>> \in names
      BY <3>2
    <3> QED
      BY <2>1, <3>1, <3>3
  <2> QED
    BY <2>3, <2>4
<1> HIDE DEF names
<1>7. found \subseteq Under(Entries(tree), op)
    BY <1>2, <1>4
<1>8. /\ {e[1] : e \in {x \in found : x[2]}} \subseteq Locations
      /\ \A e \in {x \in found : x[2]} : IsPrefix(op.path, e[1])
    BY <1>2, <1>5
<1> QED
    BY <1>2, <1>6, <1>7, <1>8 DEF names

\* aferoWalkInner takes a directory off its list and puts those that it finds on it
\* (storage.go:807-831): what was there the whole time is found or still below one.
LEMMA WalkStepKeeps ==
    ASSUME ListInv, NEW c \in Clients, WalkStep(c)
    PROVE  ListInv'
<1> USE StorageAssumption
<1> DEFINE op == call[c].op
<1>1. /\ Active(c) /\ Rooted(tree) /\ call[c].pc = "walk" /\ Legal(call[c])
      /\ op.kind = "readdir" /\ op.recursive /\ op.path \in Locations
      /\ DOMAIN call[c] = Fields /\ Walks(call[c]) /\ HasSeen(call[c], tree)
    BY DEF WalkStep, ListInv, Active, Legal, Shape
<1>2. PICK dir \in call[c].todo :
        LET err == ReadDir(tree, dir)
            found == {<<ChildPath(dir, Last(q)), tree[q] = Dir>> : q \in Children(tree, dir)}
            todo == (call[c].todo \ {dir}) \cup {e[1] : e \in {x \in found : x[2]}}
        IN IF err # "ok" THEN Ends(c, err, tree)
           ELSE Goes(c, [call[c] EXCEPT !.list = @ \cup found, !.todo = todo,
                                        !.pc = IF todo = {} THEN "over" ELSE "walk"], tree)
    BY DEF WalkStep
<1>3. CASE ReadDir(tree, dir) # "ok"
    BY <1>1, <1>2, <1>3, EndsStep
<1>4. CASE ReadDir(tree, dir) = "ok"
  <2> DEFINE found == {<<ChildPath(dir, Last(q)), tree[q] = Dir>> : q \in Children(tree, dir)}
             more == {e[1] : e \in {x \in found : x[2]}}
             todo == (call[c].todo \ {dir}) \cup more
             k == [call[c] EXCEPT !.list = @ \cup found, !.todo = todo,
                                  !.pc = IF todo = {} THEN "over" ELSE "walk"]
             s == Sees(k, tree)
  <2>1. dir \in Locations /\ IsPrefix(op.path, dir)
    BY <1>1, <1>2 DEF Walks
  <2>2. /\ found \subseteq Under(Entries(tree), op)
        /\ more \subseteq Locations
        /\ \A e \in {x \in found : x[2]} : IsPrefix(op.path, e[1])
        /\ \A e \in Entries(tree) :
               IsStrictPrefix(dir, e[1])
                   => e \in found \/ \E x \in found : x[2] /\ IsStrictPrefix(x[1], e[1])
    BY <1>1, <1>4, <2>1, FoundFacts
  <2>3. Goes(c, k, tree)
    BY <1>2, <1>4
  <2>4. \A x \in found : x[2] => x[1] \in more
    OBVIOUS
  <2>5. \A p \in more : IsPrefix(op.path, p)
    BY <2>2
  <2> HIDE DEF found, more
  <2>6. /\ DOMAIN k = Fields /\ k.op = op /\ k.list = call[c].list \cup found /\ k.todo = todo
        /\ k.pc = IF todo = {} THEN "over" ELSE "walk"
        /\ k.ever = call[c].ever /\ k.always = call[c].always
    BY <1>1 DEF Fields
  <2> HIDE DEF todo, k
  <2>7. Legal(k)
    BY <1>1, <2>6 DEF Legal
  <2>8. /\ s.op = op /\ s.list = call[c].list \cup found /\ s.todo = todo
        /\ s.pc = IF todo = {} THEN "over" ELSE "walk"
        /\ s.ever = call[c].ever \cup Entries(tree)
        /\ s.always = call[c].always \cap Entries(tree)
    BY <2>6, SeesFacts DEF Fields
  <2> HIDE DEF s
  <2>9. todo \subseteq Locations /\ \A p \in todo : IsPrefix(op.path, p)
    BY <1>1, <2>2, <2>5 DEF todo, Walks
  <2>10. s.list \subseteq Under(s.ever, op)
    BY <1>1, <2>2, <2>8 DEF Walks, Under
  <2>11. ASSUME NEW e \in Under(s.always, op)
         PROVE  e \in s.list \/ \E p \in todo : IsStrictPrefix(p, e[1])
    <3>1. e \in Under(call[c].always, op) /\ e \in Entries(tree)
      BY <2>8 DEF Under
    <3>2. e \in call[c].list \/ \E p \in call[c].todo : IsStrictPrefix(p, e[1])
      BY <1>1, <3>1 DEF Walks
    <3>3. CASE IsStrictPrefix(dir, e[1])
      BY <2>2, <2>4, <2>8, <3>1, <3>3 DEF todo
    <3>4. CASE ~IsStrictPrefix(dir, e[1])
      BY <2>8, <3>2, <3>4 DEF todo
    <3> QED
      BY <3>3, <3>4
  <2>12. Walks(s) /\ Fair(s)
    BY <2>8, <2>9, <2>10, <2>11 DEF Walks, Fair
  <2> QED
    BY <1>1, <2>3, <2>6, <2>7, <2>12, GoesStep DEF s
<1> QED
    BY <1>3, <1>4

\* A single call of the store keeps the tree rooted.
LEMMA SingleCallKeeps ==
    ASSUME ListInv, NEW c \in Clients, SingleCall(c)
    PROVE  ListInv'
<1> USE StorageAssumption
<1> DEFINE op == call[c].op
           same == Put(tree, {}, NoEntry)
           res == CASE op.kind = "stat" -> Result(Stat(tree, op.path), same)
                    [] op.kind = "readdir" -> Result(ReadDir(tree, op.path), same)
                    [] op.kind = "mkdir" -> IF op.recursive THEN MkdirAll(tree, op.path)
                                            ELSE Mkdir(tree, op.path)
                    [] op.kind = "rm" -> IF op.recursive THEN RemoveAll(tree, op.path)
                                         ELSE RemoveEntry(tree, op.path)
                    [] op.kind = "rename" -> Rename(tree, op.path, op.dest)
           listed == IF op.kind = "readdir"
                     THEN {<<q, tree[q] = Dir>> : q \in Children(tree, op.path)} ELSE {}
           forgiven == op.kind = "rm" /\ op.force /\ res.err = "notExist"
           err == IF forgiven THEN "ok" ELSE res.err
           k == [call[c] EXCEPT !.pc = "over", !.list = listed, !.err = err]
           s == Sees(k, res.tree)
<1>1. /\ Active(c) /\ Rooted(tree) /\ call[c].pc = "call" /\ Legal(call[c])
      /\ op.kind \in {"stat", "readdir", "mkdir", "rm", "rename"} /\ op.path \in Locations
      /\ op.kind = "rename" => op.path \in Paths /\ op.dest \in Paths
      /\ op.kind = "readdir" => ~op.recursive
      /\ DOMAIN call[c] = Fields /\ HasSeen(call[c], tree)
    BY DEF SingleCall, ListInv, Active, Legal, Shape, AllowsRoot
<1>2. Goes(c, k, res.tree)
    BY DEF SingleCall
<1>3. op.kind = "readdir" =>
          /\ res.err = ReadDir(tree, op.path)
          /\ res.tree = [q \in Paths |-> tree[q]] \/ res.tree = tree
    BY DEF Result, Put
<1>4. Rooted(res.tree)
  <2>1. CASE op.kind \in {"stat", "readdir"}
    <3>1. res.tree = tree \/ res.tree = [q \in Paths |-> tree[q]]
      BY <2>1 DEF Result, Put
    <3> HIDE DEF res
    <3>2. \A q \in Paths : res.tree[q] = tree[q]
      BY <3>1
    <3> QED
      BY <1>1, <3>2 DEF Rooted
  <2>2. CASE op.kind = "mkdir"
    <3>1. res.tree = MkdirAll(tree, op.path).tree \/ res.tree = Mkdir(tree, op.path).tree
      BY <2>2
    <3> QED
      BY <1>1, <3>1, MkdirAllRooted, MkdirRooted DEF Locations
  <2>3. CASE op.kind = "rm"
    <3>1. res.tree = RemoveAll(tree, op.path).tree \/ res.tree = RemoveEntry(tree, op.path).tree
      BY <2>3
    <3> QED
      BY <1>1, <3>1, RemoveAllRooted, RemoveEntryRooted DEF Locations
  <2>4. CASE op.kind = "rename"
    <3>1. res.tree = Rename(tree, op.path, op.dest).tree
      BY <2>4
    <3> QED
      BY <1>1, <2>4, <3>1, RenameRooted
  <2> QED
    BY <1>1, <2>1, <2>2, <2>3, <2>4
<1>5. op.kind = "readdir" => err = ReadDir(tree, op.path) /\ Entries(res.tree) = Entries(tree)
  <2> SUFFICES ASSUME op.kind = "readdir" PROVE err = res.err /\ Entries(res.tree) = Entries(tree)
    BY <1>3
  <2>1. \A q \in Paths : res.tree[q] = tree[q]
    BY <1>3
  <2> QED
    BY <2>1 DEF Entries
<1> HIDE DEF res, err
<1>6. DOMAIN k = Fields /\ k.op = op /\ k.pc = "over" /\ k.err = err /\ k.list = listed
      /\ k.ever = call[c].ever /\ k.always = call[c].always
    BY <1>1 DEF Fields
<1> HIDE DEF k, listed
<1>7. Legal(k)
    BY <1>6 DEF Legal
<1>8. CASE op.kind # "readdir" \/ err # "ok"
    BY <1>1, <1>2, <1>4, <1>6, <1>7, <1>8, OtherStep
<1>9. CASE op.kind = "readdir" /\ err = "ok"
  <2>1. /\ s.op = op /\ s.pc = "over" /\ s.list = listed
        /\ s.ever = call[c].ever \cup Entries(tree)
        /\ s.always = call[c].always \cap Entries(tree)
    BY <1>5, <1>6, <1>9, SeesFacts DEF Fields
  <2> HIDE DEF s
  <2>2. listed = {e \in Entries(tree) : Front(e[1]) = op.path}
    BY <1>9 DEF listed, Entries, Children
  <2>3. Under(s.always, op) \subseteq s.list /\ s.list \subseteq Under(s.ever, op)
    BY <1>1, <1>9, <2>1, <2>2 DEF Under
  <2>4. Walks(s) /\ Fair(s)
    BY <2>1, <2>3 DEF Walks, Fair
  <2> QED
    BY <1>1, <1>2, <1>4, <1>6, <1>7, <2>4, GoesStep DEF s
<1> QED
    BY <1>8, <1>9

\* An operation on files goes on.
LEMMA LegalGoesOn ==
    ASSUME NEW k, Legal(k), k.pc \notin {"over", "walk"}, NEW n, n.op = k.op, n.list = k.list,
           n.pc \in {"over", "create", "read", "write"},
           n.pc \in {"create", "write"} => k.op.kind \in {"write", "copy"},
           n.pc = "read" => k.op.kind \in {"read", "copy"}
    PROVE  Legal(n)
    BY DEF Legal

\* The steps of the other operations, and a failing store.
LEMMA FileStepsKeep ==
    ASSUME ListInv, NEW c \in Clients,
           RemoveStep(c) \/ MkdirStep(c) \/ OpenStep(c) \/ CreateStep(c) \/ ReadStep(c)
             \/ WriteStep(c) \/ StoreFails(c)
    PROVE  ListInv'
<1> USE StorageAssumption
<1> DEFINE op == call[c].op
<1>1. /\ Active(c) /\ Rooted(tree) /\ Legal(call[c]) /\ op.path \in Locations
      /\ op.kind \in {"read", "unlink", "copy", "write"} => op.path \in Paths
      /\ op.kind \in {"copy", "rename"} => op.dest \in Paths
      /\ DOMAIN call[c] = Fields
    BY DEF RemoveStep, MkdirStep, OpenStep, CreateStep, ReadStep, WriteStep, StoreFails, ListInv,
           Active, Legal, Shape, AllowsRoot
<1>2. CASE RemoveStep(c)
  <2>1. op.kind = "unlink" /\ Rooted(RemoveEntry(tree, op.path).tree)
    BY <1>1, <1>2, RemoveEntryRooted DEF RemoveStep, Legal, Locations
  <2> QED
    BY <1>1, <1>2, <2>1, EndsStep DEF RemoveStep
<1>3. CASE MkdirStep(c)
  <2> DEFINE res == MkdirAll(tree, Front(op.path))
  <2>1. op.kind = "write" /\ op.path \in Paths /\ call[c].pc = "mkdir"
    BY <1>1, <1>3 DEF MkdirStep, Legal
  <2>2. Front(op.path) \in Paths \cup {<<>>}
    BY <2>1, PathFacts
  <2>3. Rooted(res.tree)
    BY <1>1, <2>2, MkdirAllRooted
  <2>4. Legal([call[c] EXCEPT !.pc = "create"])
    BY <1>1, <2>1 DEF Legal, Fields
  <2>5. Ends(c, res.err, tree) \/ GoesTo(c, "create", res.tree)
    BY <1>3 DEF MkdirStep
  <2> QED
    BY <1>1, <2>1, <2>3, <2>4, <2>5, EndsStep, GoesToStep
<1>4. CASE OpenStep(c)
  <2>1. op.kind \in {"read", "copy"} /\ call[c].pc = "open"
    BY <1>1, <1>4 DEF OpenStep, Legal
  <2> DEFINE k == [call[c] EXCEPT !.in = tree[op.path],
                                  !.pc = IF op.kind = "copy" THEN "create" ELSE "read"]
  <2>2. DOMAIN k = Fields /\ k.op = op /\ k.pc \in {"create", "read"} /\ k.list = call[c].list
        /\ (k.pc = "create" => op.kind = "copy")
    BY <1>1 DEF Fields
  <2>3. Ends(c, Stat(tree, op.path), tree) \/ Goes(c, k, tree)
    BY <1>4 DEF OpenStep
  <2> HIDE DEF k
  <2>4. Legal(k)
    BY <1>1, <2>1, <2>2, LegalGoesOn
  <2>5. op.kind # "readdir"
    BY <2>1
  <2>6. CASE Ends(c, Stat(tree, op.path), tree)
    BY <1>1, <2>5, <2>6, EndsStep
  <2>7. CASE Goes(c, k, tree)
    BY <1>1, <2>2, <2>4, <2>5, <2>7, OtherStep
  <2> QED
    BY <2>3, <2>6, <2>7
<1>5. CASE CreateStep(c)
  <2> DEFINE target == IF op.kind = "copy" THEN op.dest ELSE op.path
             fresh == CHOOSE i \in Inodes : i \notin InUse
             res == OpenFile(tree, target, op.kind = "copy" \/ op.create, fresh)
             k == [call[c] EXCEPT !.out = res.tree[target],
                                  !.pc = IF op.kind = "copy" THEN "read" ELSE "write",
                                  !.buf = IF op.kind = "copy" THEN <<>> ELSE op.body]
  <2>1. op.kind \in {"write", "copy"} /\ call[c].pc = "create"
    BY <1>1, <1>5 DEF CreateStep, Legal
  <2>2. target \in Paths
    BY <1>1, <2>1
  <2> HIDE DEF target, fresh
  <2>3. Rooted(res.tree)
    BY <1>1, <2>2, OpenFileRooted
  <2>4. Ends(c, res.err, res.tree) \/ Goes(c, k, res.tree)
    BY <1>5 DEF CreateStep, target, fresh
  <2> HIDE DEF res
  <2>5. DOMAIN k = Fields /\ k.op = op /\ k.pc \in {"read", "write"} /\ k.list = call[c].list
        /\ (k.pc = "read" => op.kind = "copy")
    BY <1>1 DEF Fields
  <2> HIDE DEF k
  <2>6. Legal(k)
    BY <1>1, <2>1, <2>5, LegalGoesOn
  <2>7. op.kind # "readdir"
    BY <2>1
  <2>8. CASE Ends(c, res.err, res.tree)
    BY <1>1, <2>3, <2>7, <2>8, EndsStep
  <2>9. CASE Goes(c, k, res.tree)
    BY <1>1, <2>3, <2>5, <2>6, <2>7, <2>9, OtherStep
  <2> QED
    BY <2>4, <2>8, <2>9
<1>6. CASE ReadStep(c)
  <2> DEFINE k == [call[c] EXCEPT !.buf = data[call[c].in], !.in = NoFile,
                                  !.pc = IF op.kind = "copy" THEN "write" ELSE "over"]
  <2>1. op.kind \in {"read", "copy"} /\ call[c].pc = "read"
    BY <1>1, <1>6 DEF ReadStep, Legal
  <2>2. Ends(c, "isDir", tree) \/ Goes(c, k, tree)
    BY <1>6 DEF ReadStep
  <2>3. DOMAIN k = Fields /\ k.op = op /\ k.pc \in {"write", "over"} /\ k.list = call[c].list
        /\ (k.pc = "write" => op.kind = "copy")
    BY <1>1 DEF Fields
  <2> HIDE DEF k
  <2>4. Legal(k)
    BY <1>1, <2>1, <2>3, LegalGoesOn
  <2>5. op.kind # "readdir"
    BY <2>1
  <2>6. CASE Ends(c, "isDir", tree)
    BY <1>1, <2>5, <2>6, EndsStep
  <2>7. CASE Goes(c, k, tree)
    BY <1>1, <2>3, <2>4, <2>5, <2>7, OtherStep
  <2> QED
    BY <2>2, <2>6, <2>7
<1>7. CASE WriteStep(c)
  <2> DEFINE k == [call[c] EXCEPT !.pc = "over", !.out = NoFile, !.buf = <<>>]
  <2>1. op.kind \in {"write", "copy"} /\ Goes(c, k, tree)
    BY <1>1, <1>7 DEF WriteStep, Legal
  <2>2. DOMAIN k = Fields /\ k.op = op /\ k.pc = "over"
    BY <1>1 DEF Fields
  <2> HIDE DEF k
  <2>3. Legal(k)
    BY <2>2 DEF Legal
  <2> QED
    BY <1>1, <2>1, <2>2, <2>3, OtherStep
<1>8. CASE StoreFails(c)
  <2> DEFINE k == [call[c] EXCEPT !.pc = "over", !.err = "io", !.in = NoFile, !.out = NoFile]
  <2>1. Goes(c, k, tree)
    BY <1>8 DEF StoreFails
  <2>2. DOMAIN k = Fields /\ k.pc = "over" /\ k.err = "io"
    BY <1>1 DEF Fields
  <2> HIDE DEF k
  <2>3. Legal(k)
    BY <2>2 DEF Legal
  <2> QED
    BY <1>1, <2>1, <2>2, <2>3, OtherStep
<1> QED
    BY <1>2, <1>3, <1>4, <1>5, <1>6, <1>7, <1>8

\* A call begins with what is there as what it could see.
LEMMA BeginKeeps ==
    ASSUME ListInv, NEW c \in Clients, Begin(c)
    PROVE  ListInv'
<1> USE StorageAssumption, CallAssumption
<1>1. PICK k \in Calls :
           LET op == [k EXCEPT !.path = storagePath(@, AllowsRoot(k.kind)),
                               !.dest = storagePath(@, k.kind # "copy" /\ k.kind # "rename")]
               valid == Invalid \notin {op.path, op.dest}
               others == {x \in Clients \ {c} : valid /\ Active(x)}
               disturbed == \E x \in others : Disturbs(call[x].op, call[x].disturbed, op)
               disturbs(x) == x \in others /\ Disturbs(op, disturbed, call[x].op)
           IN call' = [x \in Clients |->
                  IF x # c THEN [call[x] EXCEPT !.disturbed = @ \/ disturbs(x)]
                  ELSE IF ~valid THEN [Idle EXCEPT !.err = "invalid"]
                  ELSE IF op.kind = "mkdir" /\ op.path = <<>> THEN Idle
                  ELSE [Idle EXCEPT !.op = op, !.pc = FirstStep(op), !.before = View,
                                    !.disturbed = disturbed,
                                    !.ever = Entries(tree), !.always = Entries(tree)]]
    BY DEF Begin
<1> DEFINE op == [k EXCEPT !.path = storagePath(@, AllowsRoot(k.kind)),
                           !.dest = storagePath(@, k.kind # "copy" /\ k.kind # "rename")]
           valid == Invalid \notin {op.path, op.dest}
           others == {x \in Clients \ {c} : valid /\ Active(x)}
           disturbed == \E x \in others : Disturbs(call[x].op, call[x].disturbed, op)
           disturbs(x) == x \in others /\ Disturbs(op, disturbed, call[x].op)
           new == [Idle EXCEPT !.op = op, !.pc = FirstStep(op), !.before = View,
                               !.disturbed = disturbed,
                               !.ever = Entries(tree), !.always = Entries(tree)]
<1>2. /\ DOMAIN call' = Clients
      /\ \A x \in Clients \ {c} : call'[x] = [call[x] EXCEPT !.disturbed = @ \/ disturbs(x)]
      /\ \/ call'[c] = [Idle EXCEPT !.err = "invalid"] \/ call'[c] = Idle
         \/ valid /\ call'[c] = new
    BY <1>1
<1>3. /\ {"kind", "path", "dest"} \subseteq DOMAIN k /\ k.kind \in Kinds
      /\ storagePath(k.path, AllowsRoot(k.kind)) \in
             Paths \cup {Invalid} \cup (IF AllowsRoot(k.kind) THEN {<<>>} ELSE {})
      /\ k.kind \in {"copy", "rename"} => storagePath(k.dest, FALSE) \in Paths \cup {Invalid}
    BY DEF CallAssumption
<1>4. /\ op.kind = k.kind /\ op.path = storagePath(k.path, AllowsRoot(k.kind))
      /\ op.dest = storagePath(k.dest, k.kind # "copy" /\ k.kind # "rename")
    BY <1>3
<1>5. valid => /\ op.kind \in Kinds /\ op.path \in Locations
               /\ ~AllowsRoot(op.kind) => op.path \in Paths
               /\ op.kind \in {"copy", "rename"} => op.dest \in Paths
    BY <1>3, <1>4 DEF Locations
<1> HIDE DEF op
<1>6. ASSUME valid PROVE Legal(new)
  <2>1. DOMAIN new = Fields /\ new.op = op /\ new.pc = FirstStep(op) /\ new.list = {}
    BY DEF Idle, Fields
  <2> HIDE DEF new
  <2>2. Legal(new)
    BY <1>5, <1>6, <2>1 DEF Legal, FirstStep, Kinds
  <2> QED
    BY <2>2 DEF new
<1>7. /\ DOMAIN new = Fields /\ new.pc = FirstStep(op) /\ FirstStep(op) \notin {"walk", "over"}
      /\ new.ever = Entries(tree) /\ new.always = Entries(tree)
    BY DEF Idle, Fields, FirstStep
<1> HIDE DEF new, valid
<1>8. /\ DOMAIN call'[c] = Fields /\ Legal(call'[c]) /\ HasSeen(call'[c], tree)
      /\ Walks(call'[c]) /\ Fair(call'[c])
  <2>1. CASE call'[c] \in {[Idle EXCEPT !.err = "invalid"], Idle}
    BY <2>1 DEF Idle, Fields, Legal, HasSeen, Walks, Fair
  <2>2. CASE valid /\ call'[c] = new
    BY <1>6, <1>7, <2>2 DEF HasSeen, Walks, Fair
  <2> QED
    BY <1>2, <2>1, <2>2
<1>9. ASSUME NEW x \in Clients \ {c}
      PROVE  /\ DOMAIN call'[x] = Fields /\ Legal(call'[x]) /\ HasSeen(call'[x], tree)
             /\ Walks(call'[x]) /\ Fair(call'[x])
  <2>1. DOMAIN call'[x] = Fields /\ \A f \in Fields \ {"disturbed"} : call'[x][f] = call[x][f]
    <3>1. DOMAIN call[x] = Fields
      BY DEF ListInv, Shape
    <3>2. call'[x] = [call[x] EXCEPT !.disturbed = @ \/ disturbs(x)]
      BY <1>2
    <3> HIDE DEF disturbs
    <3> QED
      BY <3>1, <3>2
  <2>2. /\ call'[x].op = call[x].op /\ call'[x].pc = call[x].pc /\ call'[x].err = call[x].err
        /\ call'[x].list = call[x].list /\ call'[x].todo = call[x].todo
        /\ call'[x].ever = call[x].ever /\ call'[x].always = call[x].always
    BY <2>1 DEF Fields
  <2> QED
    BY <2>1, <2>2 DEF ListInv, Legal, HasSeen, Walks, Fair
<1> QED
    BY <1>2, <1>8, <1>9 DEF ListInv, Shape, Begin

\* At first nothing is called.
LEMMA InitListInv ==
    ASSUME StorageInit
    PROVE  ListInv
<1> USE StorageAssumption
<1>1. Rooted(tree)
    BY DEF StorageInit, StorageAssumption
<1>2. \A c \in Clients : call[c] = Idle
    BY DEF StorageInit
<1>3. DOMAIN call = Clients
    BY DEF StorageInit
<1> QED
    BY <1>1, <1>2, <1>3 DEF ListInv, Shape, Fields, Idle, Legal, HasSeen, Walks, Fair

\* ListInv, the invariant of the listings, holds at all times, for every tree of paths, any
\* number of goroutines and whatever they call: every entry is in a directory, as the
\* store has it, each call is at a place that its operation has, and a recursive listing has
\* found, or has still to find below a directory on its list, all that was there the
\* whole time (storage.go:807-831).
THEOREM ListInvariance == StorageSpec => []ListInv
<1> USE StorageAssumption, CallAssumption
<1>1. StorageInit => ListInv
    BY InitListInv
<1>2. ListInv /\ [StorageNext]_storageVars => ListInv'
  <2> SUFFICES ASSUME ListInv, [StorageNext]_storageVars PROVE ListInv'
    OBVIOUS
  <2>1. CASE UNCHANGED storageVars
    BY <2>1 DEF storageVars, ListInv, Shape
  <2>2. ASSUME NEW c \in Clients, Begin(c) PROVE ListInv'
    BY <2>2, BeginKeeps
  <2>3. ASSUME NEW c \in Clients, SingleCall(c) PROVE ListInv'
    BY <2>3, SingleCallKeeps
  <2>4. ASSUME NEW c \in Clients, StatFirst(c) PROVE ListInv'
    BY <2>4, StatFirstKeeps
  <2>5. ASSUME NEW c \in Clients, WalkStep(c) PROVE ListInv'
    BY <2>5, WalkStepKeeps
  <2>6. ASSUME NEW c \in Clients,
               RemoveStep(c) \/ MkdirStep(c) \/ OpenStep(c) \/ CreateStep(c) \/ ReadStep(c)
                 \/ WriteStep(c) \/ StoreFails(c)
        PROVE  ListInv'
    BY <2>6, FileStepsKeep
  <2> QED
    BY <2>1, <2>2, <2>3, <2>4, <2>5, <2>6 DEF StorageNext
<1> QED
    BY <1>1, <1>2, PTL DEF StorageSpec

\* ListingIsFair: a listing names what was there the whole time, and nothing that never
\* was, however many others write, rename and remove in the meantime
\* (storage.go:656-696, :807-831).
THEOREM FairListing == StorageSpec => []ListingIsFair
<1> USE StorageAssumption, CallAssumption
<1>1. ListInv => ListingIsFair
    BY DEF ListInv, Fair, ListingIsFair
<1> QED
    BY <1>1, ListInvariance, PTL
-----------------------------------------------------------------------------
(* What is true of an operation of several steps on its way *)

Contents == Seq(Blocks)
TreeTypes == [Paths -> Inodes \cup {Dir, NoEntry}]
ViewTypes == [Paths -> Contents \cup {Dir, NoEntry}]

\* A file has one name.
Single(t) == \A p, q \in Paths : t[p] = t[q] /\ t[p] \in Inodes => p = q

ViewOf(t, d) == [p \in Paths |-> IF t[p] \in Inodes THEN d[t[p]] ELSE t[p]]

Target(op) == IF op.kind = "copy" THEN op.dest ELSE op.path

\* The open files and what was read, at the stations of an operation.
Handles(k) ==
    /\ k.out \in Inodes \cup {NoFile}
    /\ k.pc # "over" =>
        /\ k.err = "ok" /\ k.before \in ViewTypes
        /\ k.pc = "mkdir" => k.op.mkdir
        /\ k.op.kind = "write" => k.op.body \in Contents
        /\ k.out # NoFile <=> k.pc = "write" \/ (k.pc = "read" /\ k.op.kind = "copy")
        /\ k.pc = "read" \/ (k.pc = "create" /\ k.op.kind = "copy") => k.in \in Inodes \cup {Dir}
        /\ k.pc = "write" => k.buf \in Contents

\* The file that an undisturbed operation has open for writing has its name still.
Linked(k, t) == k.pc # "over" /\ ~k.disturbed /\ k.out # NoFile => t[Target(k.op)] = k.out

\* The operation x changes nothing that the undisturbed k is about.
Spares(x, k, t) ==
    x.pc # "over" /\ k.pc # "over" /\ ~k.disturbed
        => /\ Touched(x.op) \cap About(k.op) = {}
           /\ \A q \in About(k.op) : t[q] \in Inodes => t[q] # x.out

Apart == \A c, x \in Clients : c # x => Spares(call[x], call[c], tree)

\* The parents of the target once they are made.
Dirs(op, b) == IF op.mkdir THEN MkdirAll(b, Front(op.path)) ELSE [err |-> "ok", tree |-> b]

\* What an operation has made so far of what it found.
SoFar(k) ==
    LET b == k.before
        dirs == Dirs(k.op, b).tree
    IN IF k.op.kind = "write" /\ k.pc = "create" THEN dirs
       ELSE IF k.op.kind = "write" /\ k.pc = "write"
       THEN [q \in Paths |-> IF q = k.op.path /\ (k.op.truncate \/ dirs[q] = NoEntry) THEN <<>>
                             ELSE dirs[q]]
       ELSE IF k.op.kind = "copy" /\ k.out # NoFile
       THEN [q \in Paths |-> IF q = k.op.dest THEN <<>> ELSE b[q]]
       ELSE b

\* Its results up to here.
Gone(k, t) ==
    LET op == k.op
        b == k.before
    IN /\ k.pc = "remove" => b[op.path] # Dir
       /\ op.kind = "write" /\ k.pc \in {"create", "write"} => Dirs(op, b).err = "ok"
       /\ op.kind = "write" /\ k.pc = "write"
              => k.buf = op.body /\ OpenFile(Dirs(op, b).tree, op.path, op.create, <<>>).err = "ok"
       /\ op.kind = "copy" /\ k.pc \in {"create", "read", "write"} => IsFile(b[op.path])
       /\ op.kind = "copy" /\ k.pc \in {"read", "write"} => OpenFile(b, op.dest, TRUE, <<>>).err = "ok"
       /\ op.kind = "copy" /\ k.pc = "write" => k.buf = b[op.path]
       /\ k.pc = "read" \/ (op.kind = "copy" /\ k.pc = "create") => k.in = t[op.path]

Undisturbed(k) ==
    /\ k.pc # "over" /\ ~k.disturbed /\ k.op.kind \in {"read", "unlink", "copy", "write"}
    /\ k.op.kind = "copy" => k.op.path # k.op.dest /\ k.before[k.op.path] # Dir

OnTheWay(k, t, v) ==
    Undisturbed(k) => Gone(k, t) /\ \A q \in About(k.op) : v[q] = SoFar(k)[q]

AtomicInv ==
    /\ ListInv
    /\ tree \in TreeTypes /\ data \in [Inodes -> Contents] /\ Single(tree)
    /\ Apart
    /\ \A c \in Clients :
           Handles(call[c]) /\ Linked(call[c], tree) /\ OnTheWay(call[c], tree, View)

\* The tree n is t but for the entries in S: its files are those of t, in their place or
\* from another one in S, and files that were not in use.
Redone(S, t, n, used) ==
    /\ n \in TreeTypes /\ Single(n)
    /\ \A q \in Paths \ S : n[q] = t[q]
    /\ \A q \in Paths : n[q] \in Inodes =>
           n[q] \notin used \/ \E s \in Paths : t[s] = n[q] /\ (s = q \/ s \in S)

\* What a step of x changes: entries that its operation may change, and the contents of
\* the files there, or of the one that it has open.
Within(x) ==
    LET S == Touched(call[x].op) IN
    /\ Redone(S, tree, tree', InUse)
    /\ data' \in [Inodes -> Contents]
    /\ \A i \in Inodes : data'[i] # data[i] => i = call[x].out \/ \E q \in S : tree'[q] = i
    /\ call'[x].op = call[x].op /\ call'[x].disturbed = call[x].disturbed
    /\ call'[x].out \in {NoFile, call[x].out} \/ \E q \in S : tree'[q] = call'[x].out
    /\ \A c \in Clients \ {x} :
           call'[c] = IF Active(c) THEN Sees(call[c], tree') ELSE call[c]
-----------------------------------------------------------------------------
(* What one operation leaves of another *)

\* What an operation may change is among what it is about, its target too.
LEMMA TouchedAbout ==
    ASSUME NEW op
    PROVE  /\ Touched(op) \subseteq About(op) /\ About(op) \subseteq Paths
           /\ op.path \in Paths => op.path \in About(op) /\ Above(op.path) \subseteq About(op)
                                   /\ Below(op.path) \subseteq About(op)
           /\ op.dest \in Paths => op.dest \in About(op) /\ Above(op.dest) \subseteq About(op)
                                   /\ Below(op.dest) \subseteq About(op)
           /\ op.kind \in {"copy", "write"} /\ Target(op) \in Paths =>
                  Target(op) \in Touched(op) /\ Target(op) \in About(op)
<1> USE StorageAssumption
<1>1. \A p : Below(p) \subseteq Paths /\ Above(p) \subseteq Paths
    BY DEF Below, Above
<1>2. \A p \in Paths : p \in Below(p)
    BY BelowFacts DEF Below
<1>3. About(op) = Below(op.path) \cup Above(op.path) \cup Below(op.dest) \cup Above(op.dest)
    BY DEF About
<1>4. Touched(op) \subseteq Below(op.path) \cup Above(op.path) \cup Below(op.dest)
    BY DEF Touched
<1>5. op.kind = "copy" => Touched(op) = Below(op.dest)
    BY DEF Touched, Changes, MakesParents
<1>6. op.kind = "write" => Below(op.path) \subseteq Touched(op)
    BY DEF Touched, Changes
<1> QED
    BY <1>1, <1>2, <1>3, <1>4, <1>5, <1>6 DEF Target

\* What is said of an operation on its way depends on none of what its listing saw.
LEMMA SameHolds ==
    ASSUME NEW k, NEW n,
           n.op = k.op, n.pc = k.pc, n.err = k.err, n.in = k.in, n.out = k.out, n.buf = k.buf,
           n.before = k.before, n.disturbed = k.disturbed
    PROVE  /\ Handles(n) <=> Handles(k)
           /\ \A t : Linked(n, t) <=> Linked(k, t)
           /\ \A t, v : OnTheWay(n, t, v) <=> OnTheWay(k, t, v)
<1>1. Handles(n) <=> Handles(k)
    BY DEF Handles
<1>2. \A t : Linked(n, t) <=> Linked(k, t)
    BY DEF Linked
<1>3. SoFar(n) = SoFar(k) /\ \A t : Gone(n, t) <=> Gone(k, t)
    BY DEF SoFar, Gone
<1>4. Undisturbed(n) <=> Undisturbed(k)
    BY DEF Undisturbed
<1> QED
    BY <1>1, <1>2, <1>3, <1>4 DEF OnTheWay

\* A step of x keeps every two operations apart.
LEMMA ApartKept ==
    ASSUME AtomicInv, NEW x \in Clients, Active(x), Within(x)
    PROVE  Apart'
<1> USE StorageAssumption
<1> DEFINE S == Touched(call[x].op)
<1>1. /\ tree \in TreeTypes /\ Single(tree) /\ Apart
      /\ Redone(S, tree, tree', InUse)
      /\ call'[x].op = call[x].op /\ call'[x].disturbed = call[x].disturbed
      /\ call'[x].out \in {NoFile, call[x].out} \/ \E q \in S : tree'[q] = call'[x].out
      /\ S \subseteq About(call[x].op) /\ S \subseteq Paths
      /\ NoFile \notin Inodes
    BY TouchedAbout DEF AtomicInv, Within, StorageAssumption
<1>2. ASSUME NEW y \in Clients \ {x}
      PROVE  /\ call'[y].op = call[y].op /\ call'[y].out = call[y].out
             /\ call'[y].pc = call[y].pc /\ call'[y].disturbed = call[y].disturbed
  <2>1. call'[y] = call[y] \/ call'[y] = Sees(call[y], tree')
    BY DEF Within
  <2>2. DOMAIN call[y] = Fields
    BY DEF AtomicInv, ListInv, Shape
  <2>3. \A f \in Fields \ {"ever", "always"} : Sees(call[y], tree')[f] = call[y][f]
    BY <2>2, SeesFacts
  <2> QED
    BY <2>1, <2>3 DEF Fields
<1> HIDE DEF S
<1>3. SUFFICES ASSUME NEW c \in Clients, NEW y \in Clients, c # y,
                      call'[y].pc # "over", call'[c].pc # "over", ~call'[c].disturbed
               PROVE  /\ Touched(call'[y].op) \cap About(call'[c].op) = {}
                      /\ \A q \in About(call'[c].op) : tree'[q] \in Inodes => tree'[q] # call'[y].out
    BY DEF Apart, Spares
<1>4. call[y].pc # "over" /\ call[c].pc # "over" /\ ~call[c].disturbed
    BY <1>1, <1>2, <1>3 DEF Active
<1>5. /\ Touched(call[y].op) \cap About(call[c].op) = {}
      /\ \A q \in About(call[c].op) : tree[q] \in Inodes => tree[q] # call[y].out
      /\ call'[y].op = call[y].op /\ call'[c].op = call[c].op
    BY <1>1, <1>2, <1>3, <1>4 DEF Apart, Spares
<1>6. ASSUME NEW q \in About(call[c].op), tree'[q] \in Inodes, tree'[q] = call'[y].out
      PROVE  FALSE
  <2>1. q \in Paths
    BY TouchedAbout
  <2>2. CASE c = x
    <3>1. call'[y].out = call[y].out /\ call[y].out \in InUse
      BY <1>2, <1>3, <2>2 DEF InUse
    <3>2. PICK s \in Paths : tree[s] = tree'[q] /\ (s = q \/ s \in S)
      BY <1>1, <1>6, <2>1, <3>1 DEF Redone
    <3>3. s \in About(call[c].op)
      BY <1>1, <2>2, <3>2
    <3> QED
      BY <1>5, <1>6, <3>1, <3>2, <3>3
  <2>3. CASE y = x
    <3>1. q \notin S /\ tree'[q] = tree[q]
      BY <1>1, <1>5, <2>1, <2>3 DEF Redone, S
    <3>2. PICK s \in S : tree'[s] = call'[x].out
      BY <1>1, <1>5, <1>6, <2>3, <3>1
    <3> QED
      BY <1>1, <1>6, <2>1, <2>3, <3>1, <3>2 DEF Redone, Single
  <2>4. CASE c # x /\ y # x
    <3>1. S \cap About(call[c].op) = {}
      BY <1>1, <1>4, <2>4 DEF Apart, Spares, Active, S
    <3>2. tree'[q] = tree[q]
      BY <1>1, <2>1, <3>1 DEF Redone
    <3> QED
      BY <1>2, <1>5, <1>6, <2>4, <3>2
  <2> QED
    BY <2>2, <2>3, <2>4
<1> QED
    BY <1>5, <1>6

\* A step of x keeps what is said of the others.
LEMMA OthersOnTheWay ==
    ASSUME AtomicInv, NEW x \in Clients, Active(x), Within(x),
           NEW c \in Clients \ {x}
    PROVE  /\ Handles(call'[c]) /\ Linked(call'[c], tree')
           /\ OnTheWay(call'[c], tree', ViewOf(tree', data'))
           /\ call'[c].pc = call[c].pc
<1> USE StorageAssumption
<1> DEFINE k == call[c]
<1>1. /\ Handles(k) /\ Linked(k, tree) /\ OnTheWay(k, tree, ViewOf(tree, data)) /\ Legal(k)
      /\ Spares(call[x], k, tree)
    BY DEF AtomicInv, ListInv, Apart, View, ViewOf
<1>2. call'[c] = k \/ call'[c] = Sees(k, tree')
    BY DEF Within
<1>3. DOMAIN k = Fields
    BY DEF AtomicInv, ListInv, Shape
<1>4. /\ call'[c].op = k.op /\ call'[c].pc = k.pc /\ call'[c].err = k.err /\ call'[c].in = k.in
      /\ call'[c].out = k.out /\ call'[c].buf = k.buf /\ call'[c].before = k.before
      /\ call'[c].disturbed = k.disturbed
  <2>1. \A f \in Fields \ {"ever", "always"} : Sees(k, tree')[f] = k[f]
    BY <1>3, SeesFacts
  <2> QED
    BY <1>2, <2>1 DEF Fields
<1>5. /\ Handles(call'[c]) <=> Handles(k)
      /\ Linked(call'[c], tree') <=> Linked(k, tree')
      /\ OnTheWay(call'[c], tree', ViewOf(tree', data'))
             <=> OnTheWay(k, tree', ViewOf(tree', data'))
    BY <1>4, SameHolds
<1>6. ASSUME k.pc # "over", ~k.disturbed
      PROVE  \A q \in About(k.op) :
                 tree'[q] = tree[q] /\ ViewOf(tree', data')[q] = ViewOf(tree, data)[q]
  <2>1. /\ Touched(call[x].op) \cap About(k.op) = {}
        /\ \A q \in About(k.op) : tree[q] \in Inodes => tree[q] # call[x].out
    BY <1>1, <1>6 DEF Spares, Active
  <2>2. Touched(call[x].op) \in SUBSET Paths /\ About(k.op) \in SUBSET Paths
    BY TouchedAbout
  <2>3. /\ Redone(Touched(call[x].op), tree, tree', InUse)
        /\ \A i \in Inodes : data'[i] # data[i]
               => i = call[x].out \/ \E q \in Touched(call[x].op) : tree'[q] = i
    BY DEF Within
  <2>4. TAKE q \in About(k.op)
  <2>5. q \in Paths /\ q \notin Touched(call[x].op) /\ tree'[q] = tree[q]
    BY <2>1, <2>2, <2>3 DEF Redone
  <2>6. tree'[q] \in Inodes => data'[tree'[q]] = data[tree'[q]]
    BY <2>1, <2>2, <2>3, <2>5 DEF Redone, Single
  <2> QED
    BY <2>5, <2>6 DEF ViewOf
<1>7. k.pc # "over" => k.op.kind \in Kinds /\ (k.op.kind \in {"copy", "write", "read"} => k.op.path \in Paths)
                       /\ (k.op.kind = "copy" => k.op.dest \in Paths)
    BY <1>1 DEF Legal, AllowsRoot
<1>8. Linked(k, tree')
  <2> SUFFICES ASSUME k.pc # "over", ~k.disturbed, k.out # NoFile
               PROVE  tree'[Target(k.op)] = k.out
    BY DEF Linked
  <2>1. k.op.kind \in {"copy", "write"} /\ Target(k.op) \in Paths
    BY <1>1, <1>7 DEF Handles, Legal, Target
  <2>2. Target(k.op) \in About(k.op)
    BY <2>1, TouchedAbout
  <2> QED
    BY <1>1, <1>6, <2>2 DEF Linked
<1>9. OnTheWay(k, tree', ViewOf(tree', data'))
  <2> SUFFICES ASSUME Undisturbed(k)
               PROVE  /\ Gone(k, tree')
                      /\ \A q \in About(k.op) : ViewOf(tree', data')[q] = SoFar(k)[q]
    BY DEF OnTheWay
  <2>1. k.pc # "over" /\ ~k.disturbed /\ k.op.kind \in {"read", "unlink", "copy", "write"}
    BY DEF Undisturbed
  <2>2. \A q \in About(k.op) : ViewOf(tree', data')[q] = SoFar(k)[q]
    BY <1>1, <1>6, <2>1 DEF OnTheWay
  <2>3. k.pc = "read" \/ (k.op.kind = "copy" /\ k.pc = "create") => k.op.path \in About(k.op)
    BY <1>1, <1>7, <2>1, TouchedAbout DEF Legal
  <2>4. k.pc = "read" \/ (k.op.kind = "copy" /\ k.pc = "create") => k.in = tree'[k.op.path]
    BY <1>1, <1>6, <2>1, <2>3 DEF OnTheWay, Gone
  <2> QED
    BY <1>1, <2>2, <2>4 DEF OnTheWay, Gone
<1> QED
    BY <1>1, <1>4, <1>5, <1>8, <1>9

\* So the invariant is kept if x keeps to its own way, and only x may end.
LEMMA AtomicStep ==
    ASSUME AtomicInv, ListInv', NEW x \in Clients, Active(x), Within(x),
           Handles(call'[x]), Linked(call'[x], tree'),
           OnTheWay(call'[x], tree', ViewOf(tree', data')), EndsAsPromised(x)
    PROVE  AtomicInv' /\ \A c \in Clients : EndsAsPromised(c)
<1> USE StorageAssumption
<1>1. \A c \in Clients \ {x} : /\ Handles(call'[c]) /\ Linked(call'[c], tree')
                               /\ OnTheWay(call'[c], tree', ViewOf(tree', data'))
                               /\ call'[c].pc = call[c].pc
    BY OthersOnTheWay
<1>2. View' = ViewOf(tree', data')
    BY DEF View, ViewOf
<1>3. /\ Apart' /\ tree' \in TreeTypes /\ data' \in [Inodes -> Contents] /\ Single(tree)'
    BY ApartKept DEF Within, Redone, Single
<1>4. \A c \in Clients : /\ Handles(call'[c]) /\ Linked(call'[c], tree')
                         /\ OnTheWay(call'[c], tree', View')
    BY <1>1, <1>2
<1>5. AtomicInv'
    BY <1>3, <1>4 DEF AtomicInv
<1>6. \A c \in Clients \ {x} : EndsAsPromised(c)
    BY <1>1 DEF EndsAsPromised, Active
<1> QED
    BY <1>5, <1>6
-----------------------------------------------------------------------------
(* What the calls of the store change *)

\* A call that puts no file anywhere redoes what it overwrites.
LEMMA PutRedone ==
    ASSUME NEW t \in TreeTypes, Single(t), NEW S, NEW used, NEW P \in SUBSET S,
           NEW y \in {Dir, NoEntry}
    PROVE  Redone(S, t, t, used) /\ Redone(S, t, Put(t, P, y).new, used)
<1> USE StorageAssumption
<1> DEFINE n == [q \in Paths |-> IF q \in P THEN y ELSE t[q]]
<1>1. y \notin Inodes
    BY DEF StorageAssumption
<1>2. n \in TreeTypes
    BY DEF TreeTypes
<1>3. Single(n) /\ \A q \in Paths : n[q] \in Inodes => n[q] = t[q]
    BY <1>1 DEF Single
<1> QED
    BY <1>2, <1>3 DEF Redone, Put

\* A call that makes a file redoes its entry.
LEMMA MadeRedone ==
    ASSUME NEW t \in TreeTypes, Single(t), NEW S, NEW used, NEW p \in S,
           NEW i \in Inodes, i \notin used, \A q \in Paths : t[q] \in used
    PROVE  Redone(S, t, Put(t, {p}, i).new, used)
<1> USE StorageAssumption
<1> DEFINE n == [q \in Paths |-> IF q \in {p} THEN i ELSE t[q]]
<1>2. n \in TreeTypes
    BY DEF TreeTypes
<1>3. Single(n) /\ \A q \in Paths : n[q] \in Inodes => n[q] \notin used \/ n[q] = t[q]
    BY DEF Single
<1> QED
    BY <1>2, <1>3 DEF Redone, Put

\* Rename moves no two entries to one place.
LEMMA MovedOnce ==
    ASSUME NEW S, NEW p \in Seq(S), NEW q \in Seq(S), NEW x \in Seq(S), NEW y \in Seq(S),
           IsPrefix(q, x), IsPrefix(q, y)
    PROVE  MovedFrom(p, q, x) = MovedFrom(p, q, y) => x = y
<1>1. /\ Len(p) \in Nat /\ Len(q) \in Nat /\ Len(x) \in Nat /\ Len(y) \in Nat
      /\ Len(q) <= Len(x) /\ Len(q) <= Len(y)
    BY LenProperties DEF IsPrefix
<1>2. PICK a \in Seq(S) :
         /\ a = MovedFrom(p, q, x) /\ Len(a) = Len(p) + Len(x) - Len(q)
         /\ \A i \in 1 .. Len(p) + Len(x) - Len(q) :
                a[i] = IF i <= Len(p) THEN p[i] ELSE x[i - Len(p) + Len(q)]
  <2>1. /\ MovedFrom(p, q, x) \in Seq(S)
        /\ Len(MovedFrom(p, q, x)) = Len(p) + Len(x) - Len(q)
        /\ \A i \in 1 .. Len(p) + Len(x) - Len(q) :
               MovedFrom(p, q, x)[i] = IF i <= Len(p) THEN p[i] ELSE x[i - Len(p) + Len(q)]
    BY MovedNames
  <2> QED
    BY <2>1
<1>3. PICK b \in Seq(S) :
         /\ b = MovedFrom(p, q, y) /\ Len(b) = Len(p) + Len(y) - Len(q)
         /\ \A i \in 1 .. Len(p) + Len(y) - Len(q) :
                b[i] = IF i <= Len(p) THEN p[i] ELSE y[i - Len(p) + Len(q)]
  <2>1. /\ MovedFrom(p, q, y) \in Seq(S)
        /\ Len(MovedFrom(p, q, y)) = Len(p) + Len(y) - Len(q)
        /\ \A i \in 1 .. Len(p) + Len(y) - Len(q) :
               MovedFrom(p, q, y)[i] = IF i <= Len(p) THEN p[i] ELSE y[i - Len(p) + Len(q)]
    BY MovedNames
  <2> QED
    BY <2>1
<1> HAVE MovedFrom(p, q, x) = MovedFrom(p, q, y)
<1>4. Len(x) = Len(y)
    BY <1>1, <1>2, <1>3
<1>5. ASSUME NEW i \in 1 .. Len(x) PROVE x[i] = y[i]
  <2>1. CASE i <= Len(q)
    BY <1>1, <1>4, <2>1, PrefixDef
  <2>2. CASE ~(i <= Len(q))
    <3> DEFINE j == i + Len(p) - Len(q)
    <3>1. j \in 1 .. Len(p) + Len(x) - Len(q) /\ ~(j <= Len(p)) /\ j - Len(p) + Len(q) = i
      BY <1>1, <2>2
    <3> QED
      BY <1>2, <1>3, <1>4, <3>1
  <2> QED
    BY <2>1, <2>2
<1> QED
    BY <1>4, <1>5, SeqEqual

\* A rename redoes what is below its two places.
LEMMA RenameRedone ==
    ASSUME NEW t \in TreeTypes, Single(t), NEW p \in Paths, NEW q \in Paths,
           NEW used
    PROVE  Redone(Below(p) \cup Below(q), t, Rename(t, p, q).tree, used)
<1> USE StorageAssumption
<1> DEFINE S == Below(p) \cup Below(q)
           n == [x \in Paths |->
                    IF x \in Below(q)
                    THEN (IF MovedFrom(p, q, x) \in Paths THEN t[MovedFrom(p, q, x)] ELSE NoEntry)
                    ELSE IF x \in Below(p) THEN NoEntry ELSE t[x]]
<1>1. Rename(t, p, q).tree \in {t, n}
    BY DEF Rename, Result, MovedFrom
<1>2. NoEntry \notin Inodes
    BY DEF StorageAssumption
<1>3. ASSUME NEW x \in Paths, n[x] \in Inodes
      PROVE  \/ /\ x \in Below(q) /\ MovedFrom(p, q, x) \in Below(p)
                /\ n[x] = t[MovedFrom(p, q, x)]
             \/ x \notin S /\ n[x] = t[x]
  <2>1. x \in Seq(Names) /\ p \in Seq(Names) /\ q \in Seq(Names)
    BY PathFacts
  <2>2. CASE x \in Below(q)
    <3>1. MovedFrom(p, q, x) \in Paths /\ n[x] = t[MovedFrom(p, q, x)]
      BY <1>2, <1>3, <2>2
    <3>2. IsPrefix(q, x) /\ IsPrefix(x, x)
      BY <2>2, BelowFacts DEF Below
    <3>3. IsPrefix(p, MovedFrom(p, q, x))
      BY <2>1, <3>2, MovedOrder
    <3> QED
      BY <2>2, <3>1, <3>3 DEF Below
  <2>3. CASE x \notin Below(q)
    BY <1>2, <1>3, <2>3
  <2> QED
    BY <2>2, <2>3
<1>4. n \in TreeTypes
    BY DEF TreeTypes
<1>5. ASSUME NEW x \in Below(q), NEW y \in Below(q), MovedFrom(p, q, x) = MovedFrom(p, q, y)
      PROVE  x = y
  <2>1. /\ x \in Seq(Names) /\ y \in Seq(Names) /\ p \in Seq(Names) /\ q \in Seq(Names)
        /\ IsPrefix(q, x) /\ IsPrefix(q, y)
    BY PathFacts DEF Below
  <2> QED
    BY <1>5, <2>1, MovedOnce
<1>6. S \subseteq Paths /\ Below(p) \subseteq Paths
    BY DEF Below
<1>7. \A x \in Paths \ S : n[x] = t[x]
    OBVIOUS
<1> HIDE DEF n
<1>8. Single(n)
  <2> SUFFICES ASSUME NEW x \in Paths, NEW y \in Paths, n[x] = n[y], n[x] \in Inodes PROVE x = y
    BY DEF Single
  <2> QED
    BY <1>3, <1>5, <1>6 DEF Single
<1>9. \A x \in Paths : n[x] \in Inodes => \E s \in Paths : t[s] = n[x] /\ (s = x \/ s \in S)
    BY <1>3, <1>6
<1>10. Redone(S, t, n, used) /\ Redone(S, t, t, used)
    BY <1>4, <1>7, <1>8, <1>9 DEF Redone
<1> QED
    BY <1>1, <1>10
-----------------------------------------------------------------------------
(* Trees that look alike around a path *)

Alike(t, b, p) ==
    \A q \in Above(p) \cup Below(p) :
        (t[q] = NoEntry <=> b[q] = NoEntry) /\ (t[q] = Dir <=> b[q] = Dir)

\* A tree looks as its view does.
LEMMA AlikeView ==
    ASSUME NEW t \in TreeTypes, NEW d \in [Inodes -> Contents],
           NEW p, NEW b, \A q \in Above(p) \cup Below(p) : ViewOf(t, d)[q] = b[q]
    PROVE  Alike(t, b, p)
<1> USE StorageAssumption
<1> SUFFICES ASSUME NEW q \in Above(p) \cup Below(p)
             PROVE  (t[q] = NoEntry <=> b[q] = NoEntry) /\ (t[q] = Dir <=> b[q] = Dir)
    BY DEF Alike
<1>1. q \in Paths
    BY DEF Above, Below
<1>2. b[q] = IF t[q] \in Inodes THEN d[t[q]] ELSE t[q]
    BY <1>1 DEF ViewOf
<1>3. Dir \notin Inodes \cup Contents /\ NoEntry \notin Inodes \cup Contents
    BY DEF StorageAssumption, Contents
<1>4. t[q] \in Inodes => d[t[q]] \in Contents
    OBVIOUS
<1> QED
    BY <1>2, <1>3, <1>4

\* The calls of the store answer alike.
LEMMA AlikeAnswers ==
    ASSUME NEW p \in Paths, NEW t, NEW b, Alike(t, b, p)
    PROVE  /\ Stat(t, p) = Stat(b, p) /\ Room(t, p) = Room(b, p)
           /\ RemoveEntry(t, p).err = RemoveEntry(b, p).err
           /\ \A create, x, y : OpenFile(t, p, create, x).err = OpenFile(b, p, create, y).err
           /\ MkdirAll(t, Front(p)).err = MkdirAll(b, Front(p)).err
<1> USE StorageAssumption
<1> DEFINE A == Above(p) \cup Below(p)
<1>1. \A q \in A : /\ (t[q] = NoEntry <=> b[q] = NoEntry) /\ (t[q] = Dir <=> b[q] = Dir)
                   /\ (IsFile(t[q]) <=> IsFile(b[q]))
    BY DEF Alike, IsFile
<1>2. p \in A /\ Above(p) \subseteq A /\ p # <<>> /\ Front(p) \in A \cup {<<>>}
    BY BelowFacts, PathFacts DEF Above, Below
<1>3. Above(Front(p)) \subseteq A /\ {q \in Paths : IsPrefix(q, Front(p))} \subseteq A
  <2>1. ASSUME NEW q \in Paths, IsPrefix(q, Front(p)) PROVE q \in A
    <3>1. Front(p) # <<>>
      BY <2>1, BelowFacts, PathFacts
    <3>2. Front(p) \in Paths /\ IsStrictPrefix(Front(p), p)
      BY <3>1, PathFacts
    <3>3. IsStrictPrefix(q, p)
      BY <2>1, <3>2, BelowFacts DEF IsStrictPrefix
    <3> QED
      BY <3>3 DEF Above
  <2> QED
    BY <2>1 DEF Above, IsStrictPrefix
<1>4. \A q \in Paths : Front(q) = p => q \in A
    BY PathFacts DEF Below, IsStrictPrefix
<1> HIDE DEF A
<1>5. Stat(t, p) = Stat(b, p)
    BY <1>1, <1>2 DEF Stat, Entry
<1>6. Room(t, p) = Room(b, p)
    BY <1>1, <1>2, <1>3 DEF Room, ReadDir, Stat, Entry, IsFile
<1>7. RemoveEntry(t, p).err = RemoveEntry(b, p).err
  <2>1. Children(t, p) = Children(b, p)
    BY <1>1, <1>4 DEF Children
  <2> QED
    BY <1>5, <2>1 DEF RemoveEntry, Result
<1>8. ASSUME NEW create, NEW x, NEW y
      PROVE  OpenFile(t, p, create, x).err = OpenFile(b, p, create, y).err
    BY <1>1, <1>2, <1>5, <1>6 DEF OpenFile, Result
<1>9. MkdirAll(t, Front(p)).err = MkdirAll(b, Front(p)).err
    BY <1>1, <1>3 DEF MkdirAll, Result
<1> QED
    BY <1>5, <1>6, <1>7, <1>8, <1>9

\* Making directories and removing entries looks alike in the view.
LEMMA PutView ==
    ASSUME NEW t, NEW d, NEW b, NEW q \in Paths, ViewOf(t, d)[q] = b[q],
           NEW P, NEW y \in {Dir, NoEntry}
    PROVE  ViewOf(Put(t, P, y).new, d)[q] = Put(b, P, y).new[q]
<1> USE StorageAssumption
<1>1. y \notin Inodes
    BY DEF StorageAssumption
<1> QED
    BY <1>1 DEF ViewOf, Put

\* The tree t once a file is open at p, which is i if it had to be made.
WithOpened(t, p, i) == [q \in Paths |-> IF q = p /\ t[p] = NoEntry THEN i ELSE t[q]]

\* What OpenFile answers and leaves.
LEMMA OpenFileFacts ==
    ASSUME NEW t \in [Paths -> Inodes \cup Contents \cup {Dir, NoEntry}],
           NEW p \in Paths, NEW create, NEW x
    PROVE  LET res == OpenFile(t, p, create, x) IN
           /\ res.err # "ok" => res.tree = t
           /\ res.err = "ok" =>
                  t[p] # Dir /\ res.tree = WithOpened(t, p, x)
<1> USE StorageAssumption
<1> USE DEF WithOpened
<1> DEFINE res == OpenFile(t, p, create, x)
<1>1. \A P, y : Put(t, P, y).old = t
    BY DEF Put
<1>2. Put(t, {}, x).new = t
    BY DEF Put
<1>3. t[p] = NoEntry => Stat(t, p) # "ok"
    BY PathFacts DEF Stat, Entry
<1>4. Put(t, {p}, x).new = [q \in Paths |-> IF q = p THEN x ELSE t[q]]
    BY DEF Put
<1>5. CASE t[p] = Dir
    BY <1>1, <1>5 DEF OpenFile, Result, IsFile, StorageAssumption
<1>6. CASE t[p] \notin {Dir, NoEntry}
    BY <1>1, <1>2, <1>6 DEF OpenFile, Result, IsFile
<1>7. CASE t[p] = NoEntry
    BY <1>1, <1>3, <1>4, <1>7 DEF OpenFile, Result, IsFile, StorageAssumption
<1> QED
    BY <1>5, <1>6, <1>7
-----------------------------------------------------------------------------
(* A step of an operation on its own way *)

\* The operation k, which n ends, leaves what it promises in the view v.
KeepsWord(k, n, v) ==
    Undisturbed(k) /\ n.pc = "over" /\ n.err # "io" =>
        LET p == Promised(k.op, k.before) IN
        /\ n.err = p.err
        /\ \A q \in About(k.op) : v[q] = p.view[q]
        /\ k.op.kind = "read" /\ p.err = "ok" => n.buf = p.view[k.op.path]

\* x makes n of its call, t of the tree and e of the contents, on its way.
Fits(x, n, t, e) ==
    LET k == call[x]
        S == Touched(k.op)
    IN /\ DOMAIN n = Fields
       /\ Redone(S, tree, t, InUse)
       /\ e \in [Inodes -> Contents]
       /\ \A i \in Inodes : e[i] # data[i] => i = k.out \/ \E q \in S : t[q] = i
       /\ n.op = k.op /\ n.disturbed = k.disturbed
       /\ n.out \in {NoFile, k.out} \/ \E q \in S : t[q] = n.out
       /\ Handles(n) /\ Linked(n, t) /\ OnTheWay(n, t, ViewOf(t, e))
       /\ KeepsWord(k, n, ViewOf(t, e))

\* A step of an operation that fits leaves the invariant and the promise.
LEMMA OwnStep ==
    ASSUME AtomicInv, ListInv', NEW x \in Clients, Active(x),
           NEW n, NEW t, Goes(x, n, t), Fits(x, n, t, data')
    PROVE  AtomicInv' /\ \A c \in Clients : EndsAsPromised(c)
<1> USE StorageAssumption
<1>1. /\ tree' = t /\ call'[x] = Sees(n, t)
      /\ \A c \in Clients \ {x} : call'[c] = IF Active(c) THEN Sees(call[c], t) ELSE call[c]
    BY DEF Goes
<1>2. \A f \in Fields \ {"ever", "always"} : Sees(n, t)[f] = n[f]
    BY SeesFacts DEF Fits
<1>3. /\ call'[x].op = n.op /\ call'[x].pc = n.pc /\ call'[x].err = n.err /\ call'[x].in = n.in
      /\ call'[x].out = n.out /\ call'[x].buf = n.buf /\ call'[x].before = n.before
      /\ call'[x].disturbed = n.disturbed
    BY <1>1, <1>2 DEF Fields
<1>4. /\ Handles(call'[x]) /\ Linked(call'[x], tree')
      /\ OnTheWay(call'[x], tree', ViewOf(tree', data'))
    BY <1>1, <1>3, SameHolds DEF Fits
<1>5. Within(x)
    BY <1>1, <1>3 DEF Within, Fits
<1>6. KeepsWord(call[x], n, ViewOf(tree', data')) /\ View' = ViewOf(tree', data')
    BY <1>1 DEF Fits, View, ViewOf
<1>7. EndsAsPromised(x)
    BY <1>3, <1>6 DEF EndsAsPromised, KeepsWord, Undisturbed, Active
<1> QED
    BY <1>4, <1>5, <1>7, AtomicStep

\* What is known of an operation under way.
LEMMA UnderWay ==
    ASSUME AtomicInv, NEW x \in Clients, Active(x)
    PROVE  LET k == call[x]
               op == k.op
           IN /\ DOMAIN k = Fields /\ Legal(k) /\ Handles(k) /\ Linked(k, tree)
              /\ OnTheWay(k, tree, ViewOf(tree, data)) /\ k.err = "ok" /\ k.before \in ViewTypes
              /\ op.kind \in {"read", "unlink", "copy", "write"} => op.path \in Paths
              /\ op.kind = "copy" => op.dest \in Paths
              /\ tree \in TreeTypes /\ Single(tree) /\ data \in [Inodes -> Contents] /\ Rooted(tree)
              /\ \A S, used : Redone(S, tree, tree, used)
<1> USE StorageAssumption
<1>1. \A S, used : Redone(S, tree, tree, used)
    BY PutRedone DEF AtomicInv
<1> QED
    BY <1>1 DEF AtomicInv, ListInv, Shape, Active, Handles, Legal, AllowsRoot, View, ViewOf

\* A step that ends, with the contents as they are.
LEMMA EndFits ==
    ASSUME AtomicInv, NEW x \in Clients, Active(x), NEW n, NEW t,
           DOMAIN n = Fields, n.op = call[x].op, n.disturbed = call[x].disturbed,
           n.out \in {NoFile, call[x].out}, n.pc = "over",
           Redone(Touched(call[x].op), tree, t, InUse), KeepsWord(call[x], n, ViewOf(t, data))
    PROVE  Fits(x, n, t, data)
<1> USE StorageAssumption
<1>1. Handles(call[x]) /\ data \in [Inodes -> Contents]
    BY UnderWay
<1>2. Handles(n) /\ Linked(n, t) /\ OnTheWay(n, t, ViewOf(t, data))
    BY <1>1 DEF Handles, Linked, OnTheWay, Undisturbed
<1> QED
    BY <1>1, <1>2 DEF Fits

\* What one step promises to do of an operation.
LEMMA PromisedFacts ==
    ASSUME NEW op, NEW v
    PROVE  LET p == op.path
               dirs == Dirs(op, v)
               file == OpenFile(dirs.tree, p, op.create, <<>>)
               target == OpenFile(v, op.dest, TRUE, <<>>)
           IN /\ op.kind = "read" =>
                     Promised(op, v) = Outcome(IF Entry(v, p) = Dir THEN "isDir" ELSE Stat(v, p), v)
              /\ op.kind = "unlink" =>
                     Promised(op, v) = IF Entry(v, p) = Dir THEN Outcome("invalid", v)
                                       ELSE AsOutcome(RemoveEntry(v, p))
              /\ op.kind = "copy" =>
                     Promised(op, v) =
                         IF Stat(v, p) # "ok" THEN Outcome(Stat(v, p), v)
                         ELSE IF target.err = "ok"
                         THEN Outcome("ok", [target.tree EXCEPT ![op.dest] = v[p]])
                         ELSE AsOutcome(target)
              /\ op.kind = "write" =>
                     Promised(op, v) =
                         IF dirs.err # "ok" THEN AsOutcome(dirs)
                         ELSE IF file.err # "ok" THEN AsOutcome(file)
                         ELSE Outcome("ok", [file.tree EXCEPT ![p] =
                                  IF op.truncate THEN op.body ELSE Overwrite(@, op.body)])
<1>1. CASE op.kind = "read"
    BY <1>1 DEF Promised
<1>2. CASE op.kind = "unlink"
    BY <1>2 DEF Promised
<1>3. CASE op.kind = "copy"
    BY <1>3 DEF Promised, AsOutcome, Outcome
<1>4. CASE op.kind = "write"
    BY <1>4 DEF Promised, Dirs
<1> QED
    BY <1>1, <1>2, <1>3, <1>4
-----------------------------------------------------------------------------
(* The steps *)

\* A failure of the store changes nothing there; what it ends has failed.
LEMMA StoreFailsAtomic ==
    ASSUME AtomicInv, ListInv', NEW x \in Clients, StoreFails(x)
    PROVE  AtomicInv' /\ \A c \in Clients : EndsAsPromised(c)
<1> USE StorageAssumption
<1> DEFINE n == [call[x] EXCEPT !.pc = "over", !.err = "io", !.in = NoFile, !.out = NoFile]
<1>1. Active(x) /\ Goes(x, n, tree) /\ data' = data
    BY DEF StoreFails
<1>2. DOMAIN call[x] = Fields /\ Redone(Touched(call[x].op), tree, tree, InUse)
    BY <1>1, UnderWay
<1>3. /\ DOMAIN n = Fields /\ n.op = call[x].op /\ n.disturbed = call[x].disturbed
      /\ n.out = NoFile /\ n.pc = "over" /\ n.err = "io"
    BY <1>2 DEF Fields
<1> HIDE DEF n
<1>4. KeepsWord(call[x], n, ViewOf(tree, data))
    BY <1>3 DEF KeepsWord
<1>5. Fits(x, n, tree, data')
    BY <1>1, <1>2, <1>3, <1>4, EndFits
<1> QED
    BY <1>1, <1>5, OwnStep

\* What makes one call of the store, and a recursive listing: nothing is promised of
\* them here but that they change nothing else.
LEMMA SingleCallAtomic ==
    ASSUME AtomicInv, ListInv', NEW x \in Clients, SingleCall(x)
    PROVE  AtomicInv' /\ \A c \in Clients : EndsAsPromised(c)
<1> USE StorageAssumption
<1> DEFINE op == call[x].op
<1>1. Active(x) /\ data' = data
    BY DEF SingleCall, Active
<1>2. /\ DOMAIN call[x] = Fields /\ Legal(call[x]) /\ tree \in TreeTypes /\ Single(tree)
      /\ Redone(Touched(op), tree, tree, InUse)
    BY <1>1, UnderWay
<1>3. /\ op.kind \in {"stat", "readdir", "mkdir", "rm", "rename"}
      /\ op.kind = "rename" => op.path \in Paths /\ op.dest \in Paths
    BY <1>1, <1>2 DEF SingleCall, Legal, Active, AllowsRoot
<1>4. ASSUME NEW n, NEW t, Goes(x, n, t), DOMAIN n = Fields, n.op = op, n.pc = "over",
             n.disturbed = call[x].disturbed, n.out = call[x].out,
             Redone(Touched(op), tree, t, InUse)
      PROVE  AtomicInv' /\ \A c \in Clients : EndsAsPromised(c)
  <2>1. KeepsWord(call[x], n, ViewOf(t, data))
    BY <1>3 DEF KeepsWord, Undisturbed
  <2>2. Fits(x, n, t, data')
    BY <1>1, <1>4, <2>1, EndFits
  <2> QED
    BY <1>1, <1>4, <2>2, OwnStep
<1>5. \A P, y : P \subseteq Touched(op) /\ y \in {Dir, NoEntry}
                => Redone(Touched(op), tree, Put(tree, P, y).new, InUse)
    BY <1>2, PutRedone
<1>6. \A P, y : Put(tree, P, y).old = tree
    BY DEF Put
<1> DEFINE res == CASE op.kind = "stat" -> Result(Stat(tree, op.path), Put(tree, {}, NoEntry))
                    [] op.kind = "readdir" -> Result(ReadDir(tree, op.path), Put(tree, {}, NoEntry))
                    [] op.kind = "mkdir" -> IF op.recursive THEN MkdirAll(tree, op.path)
                                            ELSE Mkdir(tree, op.path)
                    [] op.kind = "rm" -> IF op.recursive THEN RemoveAll(tree, op.path)
                                         ELSE RemoveEntry(tree, op.path)
                    [] op.kind = "rename" -> Rename(tree, op.path, op.dest)
<1>7. Redone(Touched(op), tree, res.tree, InUse)
  <2>1. CASE op.kind \in {"stat", "readdir"}
    <3>1. res.tree \in {tree, Put(tree, {}, NoEntry).new}
      BY <1>6, <2>1 DEF Result
    <3> QED
      BY <1>2, <1>5, <3>1
  <2>2. CASE op.kind = "mkdir"
    <3>1. Below(op.path) \subseteq Touched(op) /\ (op.recursive => Above(op.path) \subseteq Touched(op))
      BY <2>2 DEF Touched, Changes, MakesParents
    <3>2. {q \in Paths : IsPrefix(q, op.path)} \subseteq Below(op.path) \cup Above(op.path)
      BY <1>1, <1>2, BelowFacts DEF Below, Above, IsStrictPrefix, Legal, Active, Locations
    <3>3. CASE op.recursive
      <4>1. res.tree \in {tree, Put(tree, {q \in Paths : IsPrefix(q, op.path)}, Dir).new}
        BY <1>6, <2>2, <3>3 DEF MkdirAll, Result
      <4> QED
        BY <1>2, <1>5, <3>1, <3>2, <3>3, <4>1
    <3>4. CASE ~op.recursive
      <4>1. CASE Mkdir(tree, op.path).err = "ok"
        <5>1. Entry(tree, op.path) = NoEntry /\ res.tree = Put(tree, {op.path}, Dir).new
          BY <2>2, <3>4, <4>1 DEF Mkdir, Result
        <5>2. op.path \in Paths
          BY <1>1, <1>2, <5>1 DEF Entry, Legal, Active, Locations, StorageAssumption
        <5>3. op.path \in Below(op.path)
          BY <5>2, BelowFacts DEF Below
        <5> QED
          BY <1>5, <3>1, <5>1, <5>3
      <4>2. CASE Mkdir(tree, op.path).err # "ok"
        BY <1>2, <1>6, <2>2, <3>4, <4>2 DEF Mkdir, Result
      <4> QED
        BY <4>1, <4>2
    <3> QED
      BY <3>3, <3>4
  <2>3. CASE op.kind = "rm"
    <3>1. Below(op.path) \subseteq Touched(op)
      BY <2>3 DEF Touched, Changes
    <3>2. CASE op.recursive
      <4>1. res.tree = Put(tree, Below(op.path), NoEntry).new
        BY <2>3, <3>2 DEF RemoveAll, Result
      <4> QED
        BY <1>5, <3>1, <4>1
    <3>3. CASE ~op.recursive
      <4>1. res.tree \in {tree, Put(tree, {op.path}, NoEntry).new}
        BY <1>6, <2>3, <3>3 DEF RemoveEntry, Result
      <4>2. CASE op.path \in Paths
        <5>1. op.path \in Below(op.path)
          BY <4>2, BelowFacts DEF Below
        <5> QED
          BY <1>2, <1>5, <3>1, <4>1, <5>1
      <4>3. CASE op.path \notin Paths
        <5>1. Put(tree, {op.path}, NoEntry).new = Put(tree, {}, NoEntry).new
          BY <4>3 DEF Put
        <5> QED
          BY <1>2, <1>5, <4>1, <5>1
      <4> QED
        BY <4>2, <4>3
    <3> QED
      BY <3>2, <3>3
  <2>4. CASE op.kind = "rename"
    <3>1. Touched(op) = Below(op.path) \cup Below(op.dest)
      BY <2>4 DEF Touched, Changes, MakesParents
    <3>2. res.tree = Rename(tree, op.path, op.dest).tree
      BY <2>4
    <3>3. op.path \in Paths /\ op.dest \in Paths /\ tree \in TreeTypes /\ Single(tree)
      BY <1>2, <1>3, <2>4
    <3>4. Redone(Below(op.path) \cup Below(op.dest), tree, Rename(tree, op.path, op.dest).tree, InUse)
      BY <3>3, RenameRedone
    <3> QED
      BY <3>1, <3>2, <3>4
  <2> QED
    BY <1>3, <2>1, <2>2, <2>3, <2>4
<1>8. PICK list, err : Goes(x, [call[x] EXCEPT !.pc = "over", !.list = list, !.err = err], res.tree)
    BY DEF SingleCall
<1> HIDE DEF res
<1> DEFINE n == [call[x] EXCEPT !.pc = "over", !.list = list, !.err = err]
<1>9. /\ DOMAIN n = Fields /\ n.op = op /\ n.pc = "over" /\ n.disturbed = call[x].disturbed
      /\ n.out = call[x].out
    BY <1>2 DEF Fields
<1> HIDE DEF n
<1>10. Goes(x, n, res.tree)
    BY <1>8 DEF n
<1> QED
    BY <1>4, <1>7, <1>9, <1>10

\* A step of a listing changes nothing in the store.
LEMMA WalkStepAtomic ==
    ASSUME AtomicInv, ListInv', NEW x \in Clients, WalkStep(x)
    PROVE  AtomicInv' /\ \A c \in Clients : EndsAsPromised(c)
<1> USE StorageAssumption
<1> DEFINE op == call[x].op
<1>1. Active(x) /\ data' = data /\ call[x].pc = "walk"
    BY DEF WalkStep, Active
<1>2. /\ DOMAIN call[x] = Fields /\ Legal(call[x]) /\ Handles(call[x])
      /\ data \in [Inodes -> Contents] /\ Redone(Touched(op), tree, tree, InUse)
    BY <1>1, UnderWay
<1>3. op.kind = "readdir" /\ call[x].out = NoFile
    BY <1>1, <1>2 DEF Legal, Handles
<1>4. PICK err, list, todo :
          \/ Ends(x, err, tree)
          \/ Goes(x, [call[x] EXCEPT !.list = list, !.todo = todo,
                                     !.pc = IF todo = {} THEN "over" ELSE "walk"], tree)
    BY DEF WalkStep
<1>5. ASSUME NEW n, Goes(x, n, tree), DOMAIN n = Fields, n.op = op, n.pc \in {"over", "walk"},
             n.disturbed = call[x].disturbed, n.out = NoFile,
             n.pc = "walk" => n.err = call[x].err /\ n.before = call[x].before
      PROVE  AtomicInv' /\ \A c \in Clients : EndsAsPromised(c)
  <2>1. /\ Handles(n) /\ Linked(n, tree) /\ OnTheWay(n, tree, ViewOf(tree, data))
        /\ KeepsWord(call[x], n, ViewOf(tree, data))
    BY <1>1, <1>2, <1>3, <1>5 DEF Handles, Linked, OnTheWay, KeepsWord, Undisturbed
  <2>2. Fits(x, n, tree, data')
    BY <1>1, <1>2, <1>5, <2>1 DEF Fits
  <2> QED
    BY <1>1, <1>5, <2>2, OwnStep
<1>6. CASE Ends(x, err, tree)
  <2> DEFINE n == [call[x] EXCEPT !.pc = "over", !.err = err]
  <2>1. /\ DOMAIN n = Fields /\ n.op = op /\ n.pc = "over" /\ n.disturbed = call[x].disturbed
        /\ n.out = call[x].out /\ Goes(x, n, tree)
    BY <1>2, <1>6 DEF Fields, Ends
  <2> HIDE DEF n
  <2> QED
    BY <1>3, <1>5, <2>1
<1>7. CASE Goes(x, [call[x] EXCEPT !.list = list, !.todo = todo,
                                   !.pc = IF todo = {} THEN "over" ELSE "walk"], tree)
  <2> DEFINE n == [call[x] EXCEPT !.list = list, !.todo = todo,
                                  !.pc = IF todo = {} THEN "over" ELSE "walk"]
  <2>1. /\ DOMAIN n = Fields /\ n.op = op /\ n.pc \in {"over", "walk"}
        /\ n.disturbed = call[x].disturbed /\ n.err = call[x].err /\ n.before = call[x].before
        /\ n.out = call[x].out
    BY <1>2 DEF Fields
  <2>2. Goes(x, n, tree)
    BY <1>7
  <2> HIDE DEF n
  <2> QED
    BY <1>3, <1>5, <2>1, <2>2
<1> QED
    BY <1>4, <1>6, <1>7

\* A step that goes on, with the tree and the contents as they are.
LEMMA StayFits ==
    ASSUME AtomicInv, NEW x \in Clients, Active(x), NEW n,
           DOMAIN n = Fields, n.op = call[x].op, n.disturbed = call[x].disturbed,
           n.out = call[x].out, n.pc # "over", Handles(n),
           Undisturbed(n) => /\ Gone(n, tree)
                             /\ \A q \in About(n.op) : ViewOf(tree, data)[q] = SoFar(n)[q]
    PROVE  Fits(x, n, tree, data)
<1> USE StorageAssumption
<1>1. Linked(n, tree) /\ OnTheWay(n, tree, ViewOf(tree, data)) /\ KeepsWord(call[x], n, ViewOf(tree, data))
    BY UnderWay DEF Linked, OnTheWay, KeepsWord, Active
<1> QED
    BY <1>1, UnderWay DEF Fits

\* What an undisturbed operation looks at is as it left it.
LEMMA Looks ==
    ASSUME AtomicInv, NEW x \in Clients, Undisturbed(call[x])
    PROVE  LET k == call[x]
               op == k.op
               s == SoFar(k)
           IN /\ Gone(k, tree) /\ \A q \in About(op) : ViewOf(tree, data)[q] = s[q]
              /\ op.path \in Paths /\ Alike(tree, s, op.path) /\ op.path \in About(op)
              /\ op.kind = "copy" => op.dest \in Paths /\ Alike(tree, s, op.dest) /\ op.dest \in About(op)
<1> USE StorageAssumption
<1> DEFINE k == call[x]
           op == k.op
           s == SoFar(k)
<1>1. Active(x)
    BY DEF Undisturbed, Active
<1>2. /\ OnTheWay(k, tree, ViewOf(tree, data)) /\ tree \in TreeTypes /\ data \in [Inodes -> Contents]
      /\ op.path \in Paths /\ (op.kind = "copy" => op.dest \in Paths)
    BY <1>1, UnderWay DEF Undisturbed
<1>3. Gone(k, tree) /\ \A q \in About(op) : ViewOf(tree, data)[q] = s[q]
    BY <1>2 DEF OnTheWay
<1>4. \A p \in {op.path, op.dest} : Above(p) \cup Below(p) \subseteq About(op)
    BY DEF About
<1>5. \A p \in {op.path, op.dest} : Alike(tree, s, p)
    BY <1>2, <1>3, <1>4, AlikeView
<1> QED
    BY <1>2, <1>3, <1>5, TouchedAbout

\* storageUnlink and aferoWalk look at the entry (storage.go:713-722, :797-803).
LEMMA StatFirstAtomic ==
    ASSUME AtomicInv, ListInv', NEW x \in Clients, StatFirst(x)
    PROVE  AtomicInv' /\ \A c \in Clients : EndsAsPromised(c)
<1> USE StorageAssumption
<1> DEFINE k == call[x]
           op == k.op
           err == Stat(tree, op.path)
           isDir == Entry(tree, op.path) = Dir
<1>1. Active(x) /\ data' = data /\ k.pc = "stat"
    BY DEF StatFirst, Active
<1>2. /\ DOMAIN k = Fields /\ Legal(k) /\ Handles(k) /\ Rooted(tree) /\ k.err = "ok"
      /\ Redone(Touched(op), tree, tree, InUse)
    BY <1>1, UnderWay
<1>3. op.kind \in {"unlink", "readdir"} /\ k.out = NoFile
    BY <1>1, <1>2 DEF Legal, Handles
<1>4. ASSUME NEW e, Goes(x, [k EXCEPT !.pc = "over", !.err = e], tree),
             Undisturbed(k) => e = Promised(op, k.before).err
                               /\ Promised(op, k.before).view = k.before
      PROVE  AtomicInv' /\ \A c \in Clients : EndsAsPromised(c)
  <2> DEFINE n == [k EXCEPT !.pc = "over", !.err = e]
  <2>1. /\ DOMAIN n = Fields /\ n.op = op /\ n.pc = "over" /\ n.disturbed = k.disturbed
        /\ n.out = k.out /\ n.err = e
    BY <1>2 DEF Fields
  <2>2. Goes(x, n, tree)
    BY <1>4
  <2> HIDE DEF n
  <2>3. Undisturbed(k) => SoFar(k) = k.before /\ op.kind = "unlink"
    BY <1>3 DEF SoFar, Undisturbed
  <2>4. KeepsWord(k, n, ViewOf(tree, data))
    BY <1>4, <2>1, <2>3, Looks DEF KeepsWord
  <2>5. Fits(x, n, tree, data')
    BY <1>1, <1>2, <2>1, <2>4, EndFits
  <2> QED
    BY <1>1, <2>2, <2>5, OwnStep
<1>5. ASSUME NEW pc \in {"remove", "walk"}, NEW todo,
             Goes(x, [k EXCEPT !.pc = pc, !.todo = todo], tree),
             op.kind = "unlink" => ~isDir
      PROVE  AtomicInv' /\ \A c \in Clients : EndsAsPromised(c)
  <2> DEFINE n == [k EXCEPT !.pc = pc, !.todo = todo]
  <2>1. /\ DOMAIN n = Fields /\ n.op = op /\ n.pc = pc /\ n.disturbed = k.disturbed
        /\ n.out = k.out /\ n.err = k.err /\ n.before = k.before
    BY <1>2 DEF Fields
  <2>2. Goes(x, n, tree)
    BY <1>5
  <2> HIDE DEF n
  <2>3. Handles(n)
    BY <1>1, <1>2, <1>3, <2>1 DEF Handles
  <2>4. ASSUME Undisturbed(n)
        PROVE  Gone(n, tree) /\ \A q \in About(n.op) : ViewOf(tree, data)[q] = SoFar(n)[q]
    <3>1. Undisturbed(k) /\ op.kind = "unlink"
      BY <1>1, <1>3, <2>1, <2>4 DEF Undisturbed
    <3>2. SoFar(k) = k.before /\ SoFar(n) = k.before
      BY <2>1, <3>1 DEF SoFar
    <3>3. Alike(tree, k.before, op.path) /\ op.path \in Paths
      BY <3>1, <3>2, Looks
    <3>4. k.before[op.path] # Dir
      BY <1>5, <3>1, <3>3, BelowFacts, PathFacts DEF Alike, Below, Entry
    <3>5. Gone(n, tree)
      BY <2>1, <3>1, <3>4 DEF Gone
    <3> QED
      BY <2>1, <3>1, <3>2, <3>5, Looks
  <2>5. Fits(x, n, tree, data')
    BY <1>1, <2>1, <2>3, <2>4, StayFits
  <2> QED
    BY <1>1, <2>2, <2>5, OwnStep
<1>6. ASSUME Undisturbed(k)
      PROVE  /\ op.kind = "unlink" /\ op.path \in Paths /\ op.path # <<>>
             /\ Alike(tree, k.before, op.path)
    BY <1>3, <1>6, Looks, PathFacts DEF SoFar, Undisturbed
<1>7. CASE err # "ok"
  <2>1. Goes(x, [k EXCEPT !.pc = "over", !.err = err], tree)
    BY <1>7 DEF StatFirst, Ends
  <2>2. ASSUME Undisturbed(k)
        PROVE  err = Promised(op, k.before).err /\ Promised(op, k.before).view = k.before
    <3>1. Stat(k.before, op.path) = err /\ tree[op.path] = NoEntry
      BY <1>6, <1>7, <2>2, AlikeAnswers DEF Stat, Entry
    <3>2. k.before[op.path] = NoEntry
      BY <1>6, <2>2, <3>1, BelowFacts DEF Alike, Below
    <3>3. ASSUME NEW q \in Paths, Front(q) = op.path PROVE k.before[q] = NoEntry
      <4>1. IsStrictPrefix(op.path, q) /\ q \in Below(op.path)
        BY <3>3, PathFacts DEF Below, IsStrictPrefix
      <4>2. tree[q] = NoEntry
        BY <1>2, <1>6, <2>2, <3>1, <4>1 DEF Rooted, StorageAssumption
      <4> QED
        BY <1>6, <2>2, <4>1, <4>2 DEF Alike
    <3>4. Children(k.before, op.path) = {}
      BY <3>3 DEF Children
    <3>5. Entry(k.before, op.path) # Dir
      BY <1>6, <2>2, <3>2 DEF Entry, StorageAssumption
    <3>6. Promised(op, k.before) = AsOutcome(RemoveEntry(k.before, op.path))
      BY <1>6, <2>2, <3>5, PromisedFacts
    <3>7. /\ RemoveEntry(k.before, op.path).err = err
          /\ RemoveEntry(k.before, op.path).tree = k.before
      BY <1>7, <3>1, <3>4 DEF RemoveEntry, Result, Put
    <3> QED
      BY <3>6, <3>7 DEF AsOutcome, Outcome
  <2> QED
    BY <1>4, <2>1, <2>2
<1>8. CASE err = "ok" /\ op.kind = "unlink" /\ isDir
  <2>1. Goes(x, [k EXCEPT !.pc = "over", !.err = "invalid"], tree)
    BY <1>8 DEF StatFirst, Ends
  <2>2. ASSUME Undisturbed(k)
        PROVE  "invalid" = Promised(op, k.before).err /\ Promised(op, k.before).view = k.before
    <3>1. Entry(k.before, op.path) = Dir
      BY <1>6, <1>8, <2>2, BelowFacts DEF Alike, Below, Entry
    <3>2. Promised(op, k.before) = Outcome("invalid", k.before)
      BY <1>8, <3>1, PromisedFacts
    <3> QED
      BY <3>2 DEF Outcome
  <2> QED
    BY <1>4, <2>1, <2>2
<1>9. CASE err = "ok" /\ op.kind = "unlink" /\ ~isDir
  <2>1. Goes(x, [k EXCEPT !.pc = "remove"], tree)
    BY <1>9 DEF StatFirst, GoesTo
  <2>2. [k EXCEPT !.pc = "remove"] = [k EXCEPT !.pc = "remove", !.todo = k.todo]
    BY <1>2 DEF Fields
  <2> QED
    BY <1>5, <1>9, <2>1, <2>2
<1>10. CASE err = "ok" /\ op.kind # "unlink" /\ isDir
  <2>1. Goes(x, [k EXCEPT !.pc = "walk", !.todo = {op.path}], tree)
    BY <1>10 DEF StatFirst
  <2> QED
    BY <1>5, <1>10, <2>1
<1>11. CASE err = "ok" /\ op.kind # "unlink" /\ ~isDir
  <2>1. Goes(x, [k EXCEPT !.pc = "over", !.err = "ok"], tree)
    BY <1>11 DEF StatFirst, Ends
  <2> QED
    BY <1>4, <1>6, <1>11, <2>1
<1> QED
    BY <1>7, <1>8, <1>9, <1>10, <1>11

\* ... and removes what is no directory.
LEMMA RemoveStepAtomic ==
    ASSUME AtomicInv, ListInv', NEW x \in Clients, RemoveStep(x)
    PROVE  AtomicInv' /\ \A c \in Clients : EndsAsPromised(c)
<1> USE StorageAssumption
<1> DEFINE k == call[x]
           op == k.op
           b == k.before
           res == RemoveEntry(tree, op.path)
           n == [k EXCEPT !.pc = "over", !.err = res.err]
<1>1. Active(x) /\ data' = data /\ k.pc = "remove" /\ Goes(x, n, res.tree)
    BY DEF RemoveStep, Active, Ends
<1>2. /\ DOMAIN k = Fields /\ Legal(k) /\ tree \in TreeTypes /\ Single(tree)
      /\ Redone(Touched(op), tree, tree, InUse)
    BY <1>1, UnderWay
<1>3. op.kind = "unlink" /\ op.path \in Paths /\ op.path # <<>>
    BY <1>1, <1>2, PathFacts DEF Legal, AllowsRoot
<1>4. /\ DOMAIN n = Fields /\ n.op = op /\ n.pc = "over" /\ n.disturbed = k.disturbed
      /\ n.out = k.out /\ n.err = res.err
    BY <1>2 DEF Fields
<1> HIDE DEF n
<1>5. \/ res.err = "ok" /\ res.tree = Put(tree, {op.path}, NoEntry).new
      \/ res.err # "ok" /\ res.tree = tree
    BY DEF RemoveEntry, Result, Put
<1>6. Redone(Touched(op), tree, res.tree, InUse)
  <2>1. op.path \in Touched(op)
    BY <1>3, BelowFacts DEF Touched, Changes, Below
  <2> QED
    BY <1>2, <1>5, <2>1, PutRedone
<1>7. KeepsWord(k, n, ViewOf(res.tree, data))
  <2> SUFFICES ASSUME Undisturbed(k)
               PROVE  LET p == Promised(op, b)
                      IN res.err = p.err /\ \A q \in About(op) : ViewOf(res.tree, data)[q] = p.view[q]
    BY <1>3, <1>4 DEF KeepsWord
  <2>1. SoFar(k) = b
    BY <1>3 DEF SoFar
  <2>2. /\ Alike(tree, b, op.path) /\ b[op.path] # Dir
        /\ \A q \in About(op) : ViewOf(tree, data)[q] = b[q]
    <3>1. Gone(k, tree) /\ Alike(tree, SoFar(k), op.path)
      BY Looks
    <3>2. \A q \in About(op) : ViewOf(tree, data)[q] = SoFar(k)[q]
      BY Looks
    <3> QED
      BY <1>1, <2>1, <3>1, <3>2 DEF Gone
  <2>3. Promised(op, b) = AsOutcome(RemoveEntry(b, op.path))
    BY <1>3, <2>2, PromisedFacts DEF Entry
  <2>4. res.err = RemoveEntry(b, op.path).err
    BY <1>3, <2>2, AlikeAnswers
  <2>5. \/ res.err = "ok" /\ RemoveEntry(b, op.path).tree = Put(b, {op.path}, NoEntry).new
        \/ res.err # "ok" /\ RemoveEntry(b, op.path).tree = b
    BY <2>4 DEF RemoveEntry, Result, Put
  <2>6. ASSUME NEW q \in About(op)
        PROVE  ViewOf(res.tree, data)[q] = RemoveEntry(b, op.path).tree[q]
    <3>1. q \in Paths /\ ViewOf(tree, data)[q] = b[q]
      BY <2>2, TouchedAbout
    <3>2. ViewOf(Put(tree, {op.path}, NoEntry).new, data)[q] = Put(b, {op.path}, NoEntry).new[q]
      BY <3>1 DEF ViewOf, Put, StorageAssumption
    <3> QED
      BY <1>5, <2>5, <3>1, <3>2
  <2> QED
    BY <2>3, <2>4, <2>6 DEF AsOutcome, Outcome
<1>8. Fits(x, n, res.tree, data')
    BY <1>1, <1>4, <1>6, <1>7, EndFits
<1> QED
    BY <1>1, <1>8, OwnStep

\* The directories that storageWriteFile makes are above the file.
LEMMA ParentsAbove ==
    ASSUME NEW p \in Paths
    PROVE  {q \in Paths : IsPrefix(q, Front(p))} \subseteq Above(p)
<1> USE StorageAssumption
<1> SUFFICES ASSUME NEW q \in Paths, IsPrefix(q, Front(p)) PROVE IsStrictPrefix(q, p)
    BY DEF Above
<1>1. Front(p) # <<>>
    BY BelowFacts, PathFacts
<1>2. Front(p) \in Paths /\ IsStrictPrefix(Front(p), p)
    BY <1>1, PathFacts
<1> QED
    BY <1>2, BelowFacts DEF IsStrictPrefix

\* storageWriteFile makes the parents (storage.go:631-638).
LEMMA MkdirStepAtomic ==
    ASSUME AtomicInv, ListInv', NEW x \in Clients, MkdirStep(x)
    PROVE  AtomicInv' /\ \A c \in Clients : EndsAsPromised(c)
<1> USE StorageAssumption
<1> DEFINE k == call[x]
           op == k.op
           b == k.before
           S == {q \in Paths : IsPrefix(q, Front(op.path))}
           res == MkdirAll(tree, Front(op.path))
           dirs == MkdirAll(b, Front(op.path))
<1>1. Active(x) /\ data' = data /\ k.pc = "mkdir"
    BY DEF MkdirStep, Active
<1>2. /\ DOMAIN k = Fields /\ Legal(k) /\ Handles(k) /\ tree \in TreeTypes /\ Single(tree)
      /\ Redone(Touched(op), tree, tree, InUse) /\ k.err = "ok" /\ data \in [Inodes -> Contents]
    BY <1>1, UnderWay
<1>3. op.kind = "write" /\ op.path \in Paths /\ op.mkdir /\ k.out = NoFile
    BY <1>1, <1>2 DEF Legal, AllowsRoot, Handles
<1>4. \/ res.err = "ok" /\ res.tree = Put(tree, S, Dir).new
      \/ res.err # "ok" /\ res.tree = tree
    BY DEF MkdirAll, Result, Put
<1>5. Redone(Touched(op), tree, res.tree, InUse)
  <2>1. S \subseteq Touched(op)
    BY <1>3, ParentsAbove DEF Touched, Changes, MakesParents
  <2> HIDE DEF S
  <2> QED
    BY <1>2, <1>4, <2>1, PutRedone
<1>6. ASSUME Undisturbed(k)
      PROVE  /\ res.err = dirs.err /\ Dirs(op, b) = dirs
             /\ \A q \in About(op) : ViewOf(res.tree, data)[q] = dirs.tree[q]
  <2>1. SoFar(k) = b
    BY <1>1, <1>3 DEF SoFar
  <2>2. Alike(tree, SoFar(k), op.path) /\ \A q \in About(op) : ViewOf(tree, data)[q] = SoFar(k)[q]
    BY <1>6, Looks
  <2>3. res.err = dirs.err
    BY <1>3, <2>1, <2>2, AlikeAnswers
  <2>4. \/ dirs.err = "ok" /\ dirs.tree = Put(b, S, Dir).new
        \/ dirs.err # "ok" /\ dirs.tree = b
    BY DEF MkdirAll, Result, Put
  <2>5. ASSUME NEW q \in About(op) PROVE ViewOf(Put(tree, S, Dir).new, data)[q] = Put(b, S, Dir).new[q]
    <3>1. q \in Paths /\ ViewOf(tree, data)[q] = b[q]
      BY <2>1, <2>2, TouchedAbout
    <3> HIDE DEF S, b
    <3> QED
      BY <3>1 DEF ViewOf, Put, StorageAssumption
  <2>6. Dirs(op, b) = dirs
    BY <1>3 DEF Dirs
  <2> QED
    BY <1>4, <2>1, <2>2, <2>3, <2>4, <2>5, <2>6
<1>7. CASE res.err # "ok"
  <2> DEFINE n == [k EXCEPT !.pc = "over", !.err = res.err]
  <2>1. /\ DOMAIN n = Fields /\ n.op = op /\ n.pc = "over" /\ n.disturbed = k.disturbed
        /\ n.out = k.out /\ n.err = res.err
    BY <1>2 DEF Fields
  <2>2. Goes(x, n, tree) /\ res.tree = tree
    BY <1>4, <1>7 DEF MkdirStep, Ends
  <2> HIDE DEF n, res, dirs
  <2>3. Undisturbed(k) => Promised(op, b) = AsOutcome(dirs)
    <3>1. Dirs(op, b).err # "ok" => Promised(op, b) = AsOutcome(Dirs(op, b))
      BY <1>3, PromisedFacts
    <3> QED
      BY <1>6, <1>7, <3>1
  <2>4. KeepsWord(k, n, ViewOf(tree, data))
    BY <1>3, <1>6, <2>1, <2>2, <2>3 DEF KeepsWord, AsOutcome, Outcome
  <2>5. Fits(x, n, tree, data')
    BY <1>1, <1>2, <2>1, <2>4, EndFits
  <2> QED
    BY <1>1, <2>2, <2>5, OwnStep
<1>8. CASE res.err = "ok"
  <2> DEFINE n == [k EXCEPT !.pc = "create"]
  <2>1. /\ DOMAIN n = Fields /\ n.op = op /\ n.pc = "create" /\ n.disturbed = k.disturbed
        /\ n.out = NoFile /\ n.err = k.err /\ n.before = b
    BY <1>2, <1>3 DEF Fields
  <2>2. Goes(x, n, res.tree)
    BY <1>8 DEF MkdirStep, GoesTo
  <2> HIDE DEF n, res, dirs
  <2>3. Handles(n) /\ Linked(n, res.tree)
    BY <1>1, <1>2, <1>3, <2>1 DEF Handles, Linked
  <2>4. OnTheWay(n, res.tree, ViewOf(res.tree, data))
    <3> SUFFICES ASSUME Undisturbed(n)
                 PROVE  /\ Gone(n, res.tree)
                        /\ \A q \in About(n.op) : ViewOf(res.tree, data)[q] = SoFar(n)[q]
      BY DEF OnTheWay
    <3>1. Undisturbed(k)
      BY <1>1, <2>1 DEF Undisturbed
    <3>2. SoFar(n) = dirs.tree
      BY <1>3, <1>6, <2>1, <3>1 DEF SoFar
    <3>3. Gone(n, res.tree)
      BY <1>3, <1>6, <1>8, <2>1, <3>1 DEF Gone
    <3> QED
      BY <1>6, <2>1, <3>1, <3>2, <3>3
  <2>5. Fits(x, n, res.tree, data')
    BY <1>1, <1>2, <1>5, <2>1, <2>3, <2>4 DEF Fits, KeepsWord
  <2> QED
    BY <1>1, <2>2, <2>5, OwnStep
<1> QED
    BY <1>7, <1>8

\* A file that is read, or copied, is opened.
LEMMA OpenStepAtomic ==
    ASSUME AtomicInv, ListInv', NEW x \in Clients, OpenStep(x)
    PROVE  AtomicInv' /\ \A c \in Clients : EndsAsPromised(c)
<1> USE StorageAssumption
<1> DEFINE k == call[x]
           op == k.op
           b == k.before
           err == Stat(tree, op.path)
<1>1. Active(x) /\ data' = data /\ k.pc = "open"
    BY DEF OpenStep, Active
<1>2. /\ DOMAIN k = Fields /\ Legal(k) /\ Handles(k) /\ tree \in TreeTypes /\ k.err = "ok"
      /\ Redone(Touched(op), tree, tree, InUse)
    BY <1>1, UnderWay
<1>3. op.kind \in {"read", "copy"} /\ op.path \in Paths /\ op.path # <<>> /\ k.out = NoFile
    BY <1>1, <1>2, PathFacts DEF Legal, AllowsRoot, Handles
<1>4. ASSUME Undisturbed(k)
      PROVE  /\ Alike(tree, b, op.path) /\ err = Stat(b, op.path)
             /\ \A q \in About(op) : ViewOf(tree, data)[q] = b[q]
  <2>1. SoFar(k) = b
    BY <1>3 DEF SoFar
  <2>2. Alike(tree, SoFar(k), op.path) /\ \A q \in About(op) : ViewOf(tree, data)[q] = SoFar(k)[q]
    BY <1>4, Looks
  <2>3. err = Stat(b, op.path)
    BY <1>3, <2>1, <2>2, AlikeAnswers
  <2> QED
    BY <2>1, <2>2, <2>3
<1>5. CASE err # "ok"
  <2> DEFINE n == [k EXCEPT !.pc = "over", !.err = err]
  <2>1. /\ DOMAIN n = Fields /\ n.op = op /\ n.pc = "over" /\ n.disturbed = k.disturbed
        /\ n.out = k.out /\ n.err = err
    BY <1>2 DEF Fields
  <2>2. Goes(x, n, tree)
    BY <1>5 DEF OpenStep, Ends
  <2> HIDE DEF n
  <2>3. ASSUME Undisturbed(k) PROVE Promised(op, b) = Outcome(err, b)
    <3>1. Stat(b, op.path) = err /\ Stat(b, op.path) # "ok"
      BY <1>4, <1>5, <2>3
    <3>2. Entry(b, op.path) # Dir
      BY <3>1 DEF Stat, StorageAssumption
    <3>3. CASE op.kind = "read"
      BY <3>1, <3>2, <3>3, PromisedFacts
    <3>4. CASE op.kind = "copy"
      BY <3>1, <3>4, PromisedFacts
    <3> QED
      BY <1>3, <3>3, <3>4
  <2> HIDE DEF err
  <2>4. KeepsWord(k, n, ViewOf(tree, data))
    BY <1>4, <1>5, <2>1, <2>3 DEF KeepsWord, Outcome
  <2>5. Fits(x, n, tree, data')
    BY <1>1, <1>2, <2>1, <2>4, EndFits
  <2> QED
    BY <1>1, <2>2, <2>5, OwnStep
<1>6. CASE err = "ok"
  <2> DEFINE n == [k EXCEPT !.in = tree[op.path],
                            !.pc = IF op.kind = "copy" THEN "create" ELSE "read"]
  <2>1. /\ DOMAIN n = Fields /\ n.op = op /\ n.disturbed = k.disturbed /\ n.in = tree[op.path]
        /\ n.pc = (IF op.kind = "copy" THEN "create" ELSE "read")
        /\ n.out = k.out /\ n.err = k.err /\ n.before = b
    BY <1>2 DEF Fields
  <2>2. Goes(x, n, tree)
    BY <1>6 DEF OpenStep
  <2> HIDE DEF n
  <2>3. tree[op.path] \in Inodes \cup {Dir}
    BY <1>2, <1>3, <1>6 DEF Stat, Entry, TreeTypes
  <2>4. Handles(n)
    BY <1>1, <1>2, <1>3, <2>1, <2>3 DEF Handles
  <2>5. ASSUME Undisturbed(n)
        PROVE  Gone(n, tree) /\ \A q \in About(n.op) : ViewOf(tree, data)[q] = SoFar(n)[q]
    <3>1. Undisturbed(k)
      BY <1>1, <2>1, <2>5 DEF Undisturbed
    <3>2. SoFar(n) = b
      BY <1>3, <2>1 DEF SoFar
    <3>3. op.kind = "copy" => IsFile(b[op.path])
      BY <1>3, <1>4, <1>6, <3>1 DEF Undisturbed, IsFile, Stat, Entry
    <3>4. Gone(n, tree)
      BY <1>3, <2>1, <3>3 DEF Gone
    <3> QED
      BY <1>4, <2>1, <3>1, <3>2, <3>4
  <2>6. Fits(x, n, tree, data')
    BY <1>1, <1>2, <1>3, <2>1, <2>4, <2>5, StayFits
  <2> QED
    BY <1>1, <2>2, <2>6, OwnStep
<1> QED
    BY <1>5, <1>6

\* The file is read, and written by a copy.
LEMMA ReadStepAtomic ==
    ASSUME AtomicInv, ListInv', NEW x \in Clients, ReadStep(x)
    PROVE  AtomicInv' /\ \A c \in Clients : EndsAsPromised(c)
<1> USE StorageAssumption
<1> DEFINE k == call[x]
           op == k.op
           b == k.before
<1>1. Active(x) /\ data' = data /\ k.pc = "read"
    BY DEF ReadStep, Active
<1>2. /\ DOMAIN k = Fields /\ Legal(k) /\ Handles(k) /\ tree \in TreeTypes /\ k.err = "ok"
      /\ data \in [Inodes -> Contents] /\ Linked(k, tree) /\ Redone(Touched(op), tree, tree, InUse)
    BY <1>1, UnderWay
<1>3. /\ op.kind \in {"read", "copy"} /\ op.path \in Paths /\ op.path # <<>>
      /\ k.in \in Inodes \cup {Dir}
      /\ op.kind = "copy" <=> k.out # NoFile
    BY <1>1, <1>2, PathFacts DEF Legal, AllowsRoot, Handles
<1>4. ASSUME Undisturbed(k)
      PROVE  /\ k.in = tree[op.path] /\ ViewOf(tree, data)[op.path] = b[op.path]
             /\ op.kind = "copy" => IsFile(b[op.path])
             /\ \A q \in About(op) : ViewOf(tree, data)[q] = SoFar(k)[q]
             /\ op.kind = "read" => SoFar(k) = b
  <2>1. /\ Gone(k, tree) /\ op.path \in About(op)
        /\ \A q \in About(op) : ViewOf(tree, data)[q] = SoFar(k)[q]
    BY <1>4, Looks
  <2>2. SoFar(k)[op.path] = b[op.path] /\ (op.kind = "read" => SoFar(k) = b)
    BY <1>3, <1>4 DEF SoFar, Undisturbed
  <2> QED
    BY <1>1, <2>1, <2>2 DEF Gone
<1>5. CASE k.in = Dir
  <2> DEFINE n == [k EXCEPT !.pc = "over", !.err = "isDir"]
  <2>1. /\ DOMAIN n = Fields /\ n.op = op /\ n.pc = "over" /\ n.disturbed = k.disturbed
        /\ n.out = k.out /\ n.err = "isDir"
    BY <1>2 DEF Fields
  <2>2. Goes(x, n, tree)
    BY <1>5 DEF ReadStep, Ends
  <2> HIDE DEF n
  <2>3. ASSUME Undisturbed(k) PROVE op.kind = "read" /\ Promised(op, b) = Outcome("isDir", b)
    <3>1. b[op.path] = Dir
      BY <1>3, <1>4, <1>5, <2>3 DEF ViewOf, StorageAssumption
    <3>2. op.kind = "read"
      BY <1>3, <1>4, <2>3, <3>1 DEF IsFile
    <3>3. Entry(b, op.path) = Dir
      BY <1>3, <3>1 DEF Entry
    <3> QED
      BY <3>2, <3>3, PromisedFacts
  <2>4. KeepsWord(k, n, ViewOf(tree, data))
    BY <1>4, <2>1, <2>3 DEF KeepsWord, Outcome
  <2>5. Fits(x, n, tree, data')
    BY <1>1, <1>2, <2>1, <2>4, EndFits
  <2> QED
    BY <1>1, <2>2, <2>5, OwnStep
<1>6. CASE k.in # Dir
  <2> DEFINE n == [k EXCEPT !.buf = data[k.in], !.in = NoFile,
                            !.pc = IF op.kind = "copy" THEN "write" ELSE "over"]
  <2>1. /\ DOMAIN n = Fields /\ n.op = op /\ n.disturbed = k.disturbed /\ n.buf = data[k.in]
        /\ n.pc = (IF op.kind = "copy" THEN "write" ELSE "over")
        /\ n.out = k.out /\ n.err = k.err /\ n.before = b
    BY <1>2 DEF Fields
  <2>2. Goes(x, n, tree)
    BY <1>6 DEF ReadStep
  <2> HIDE DEF n
  <2>3. k.in \in Inodes /\ data[k.in] \in Contents
    BY <1>2, <1>3, <1>6
  <2>4. Undisturbed(k) => data[k.in] = b[op.path]
    BY <1>3, <1>4, <2>3 DEF ViewOf
  <2>5. CASE op.kind = "copy"
    <3>1. n.pc = "write"
      BY <2>1, <2>5
    <3>2. Handles(n)
      BY <1>1, <1>2, <1>3, <2>1, <2>3, <2>5, <3>1 DEF Handles
    <3>3. ASSUME Undisturbed(n)
          PROVE  Gone(n, tree) /\ \A q \in About(n.op) : ViewOf(tree, data)[q] = SoFar(n)[q]
      <4>1. Undisturbed(k)
        BY <1>1, <2>1, <3>3 DEF Undisturbed
      <4>2. SoFar(n) = SoFar(k)
        BY <2>1, <2>5 DEF SoFar
      <4>3. Gone(k, tree)
        BY <4>1, Looks
      <4>4. Gone(n, tree)
        BY <1>1, <2>1, <2>4, <2>5, <3>1, <4>1, <4>3 DEF Gone
      <4> QED
        BY <1>4, <2>1, <4>1, <4>2, <4>4
    <3>4. n.pc # "over"
      BY <3>1
    <3>5. Fits(x, n, tree, data')
      BY <1>1, <2>1, <3>2, <3>3, <3>4, StayFits
    <3> QED
      BY <1>1, <2>2, <3>5, OwnStep
  <2>6. CASE op.kind = "read"
    <3>1. n.pc = "over"
      BY <2>1, <2>6
    <3>2. ASSUME Undisturbed(k) PROVE Promised(op, b) = Outcome("ok", b)
      <4>1. b[op.path] \in Contents
        BY <2>3, <2>4, <3>2
      <4>2. Entry(b, op.path) # Dir /\ Stat(b, op.path) = "ok"
        BY <1>3, <4>1 DEF Entry, Stat, StorageAssumption, Contents
      <4>3. Promised(op, b) = Outcome(IF Entry(b, op.path) = Dir THEN "isDir"
                                     ELSE Stat(b, op.path), b)
        BY <2>6, PromisedFacts
      <4> QED
        BY <4>2, <4>3
    <3>3. KeepsWord(k, n, ViewOf(tree, data))
      BY <1>2, <1>4, <2>1, <2>4, <2>6, <3>2 DEF KeepsWord, Outcome
    <3>4. Fits(x, n, tree, data')
      BY <1>1, <1>2, <2>1, <3>1, <3>3, EndFits
    <3> QED
      BY <1>1, <2>2, <3>4, OwnStep
  <2> QED
    BY <1>3, <2>5, <2>6
<1> QED
    BY <1>5, <1>6
-----------------------------------------------------------------------------
(* The target is opened and written *)

\* The parents, made or not, are in a view.
LEMMA DirsTyped ==
    ASSUME NEW b \in ViewTypes, NEW op
    PROVE  Dirs(op, b).tree \in ViewTypes
    BY DEF Dirs, MkdirAll, Result, Put, ViewTypes

\* The contents d once the file i is open.
Emptied(d, i, truncated) == [d EXCEPT ![i] = IF truncated THEN <<>> ELSE @]

\* The target is opened, which may make or truncate it (storage.go:639-649, :730).
LEMMA CreateStepAtomic ==
    ASSUME AtomicInv, ListInv', NEW x \in Clients, CreateStep(x)
    PROVE  AtomicInv' /\ \A c \in Clients : EndsAsPromised(c)
<1> USE StorageAssumption
<1> DEFINE k == call[x]
           op == k.op
           b == k.before
           s == SoFar(k)
           target == Target(op)
           create == op.kind = "copy" \/ op.create
           fresh == CHOOSE i \in Inodes : i \notin InUse
           res == OpenFile(tree, target, create, fresh)
           file == res.tree[target]
           e == Emptied(data, file, file = fresh \/ Truncates(op))
<1>1. Active(x) /\ k.pc = "create" /\ ~(Inodes \subseteq InUse)
    BY DEF CreateStep, Active
<1>2. /\ DOMAIN k = Fields /\ Legal(k) /\ Handles(k) /\ tree \in TreeTypes /\ Single(tree)
      /\ data \in [Inodes -> Contents] /\ k.err = "ok" /\ b \in ViewTypes
      /\ Redone(Touched(op), tree, tree, InUse)
    BY <1>1, UnderWay
<1>3. /\ op.kind \in {"write", "copy"} /\ op.path \in Paths /\ target \in Paths /\ k.out = NoFile
      /\ (op.kind = "copy" => op.dest \in Paths /\ target = op.dest /\ k.in \in Inodes \cup {Dir})
      /\ (op.kind = "write" => target = op.path /\ op.body \in Contents)
      /\ target \in Touched(op)
  <2>1. /\ op.kind \in {"write", "copy"} /\ op.path \in Paths /\ k.out = NoFile
        /\ (op.kind = "copy" => op.dest \in Paths /\ target = op.dest /\ k.in \in Inodes \cup {Dir})
        /\ (op.kind = "write" => target = op.path /\ op.body \in Contents)
    BY <1>1, <1>2 DEF Legal, AllowsRoot, Handles, Target
  <2>2. target \in Paths
    BY <2>1
  <2>3. target \in Touched(op)
    BY <2>1, <2>2, TouchedAbout
  <2> QED
    BY <2>1, <2>2, <2>3
<1>4. fresh \in Inodes /\ fresh \notin InUse /\ \A q \in Paths : tree[q] \in InUse
    BY <1>1 DEF InUse
<1>5. IF res.err # "ok" THEN Ends(x, res.err, res.tree) /\ data' = data
      ELSE /\ Goes(x, [k EXCEPT !.out = file, !.pc = IF op.kind = "copy" THEN "read" ELSE "write",
                                !.buf = IF op.kind = "copy" THEN <<>> ELSE op.body], res.tree)
           /\ data' = e
    BY DEF CreateStep, Target, Emptied
<1>6. /\ res.err # "ok" => res.tree = tree
      /\ res.err = "ok" => tree[target] # Dir /\ res.tree = WithOpened(tree, target, fresh)
  <2>1. tree \in [Paths -> Inodes \cup Contents \cup {Dir, NoEntry}]
    BY <1>2 DEF TreeTypes
  <2> HIDE DEF target, create, fresh
  <2> QED
    BY <1>3, <2>1, OpenFileFacts
<1>7. ASSUME Undisturbed(k)
      PROVE  /\ Gone(k, tree) /\ s \in ViewTypes /\ (tree[target] = NoEntry <=> s[target] = NoEntry)
             /\ \A q \in About(op) : ViewOf(tree, data)[q] = s[q]
             /\ OpenFile(s, target, create, <<>>).err = res.err
             /\ s = IF op.kind = "copy" THEN b ELSE Dirs(op, b).tree
  <2>1. s = IF op.kind = "copy" THEN b ELSE Dirs(op, b).tree
    BY <1>1, <1>3 DEF SoFar
  <2>2. s \in ViewTypes
    BY <1>2, <2>1, DirsTyped
  <2>3. /\ Gone(k, tree) /\ \A q \in About(op) : ViewOf(tree, data)[q] = s[q]
        /\ Alike(tree, s, op.path) /\ (op.kind = "copy" => Alike(tree, s, op.dest))
    BY <1>7, Looks
  <2> HIDE DEF s, target, create, fresh
  <2>4. Alike(tree, s, target)
    BY <1>3, <2>3
  <2>5. OpenFile(s, target, create, <<>>).err = res.err
    BY <1>3, <2>4, AlikeAnswers
  <2>6. tree[target] = NoEntry <=> s[target] = NoEntry
    BY <1>3, <2>4, BelowFacts DEF Alike, Below
  <2> QED
    BY <2>1, <2>2, <2>3, <2>5, <2>6
<1> HIDE DEF s, fresh, res, create
<1>8. CASE res.err # "ok"
  <2> DEFINE n == [k EXCEPT !.pc = "over", !.err = res.err]
  <2>1. /\ DOMAIN n = Fields /\ n.op = op /\ n.pc = "over" /\ n.disturbed = k.disturbed
        /\ n.out = k.out /\ n.err = res.err
    BY <1>2 DEF Fields
  <2>2. Goes(x, n, tree) /\ data' = data
    BY <1>5, <1>6, <1>8 DEF Ends
  <2> HIDE DEF n
  <2>3. ASSUME Undisturbed(k) PROVE Promised(op, b) = Outcome(res.err, s)
    <3> DEFINE r == OpenFile(s, target, create, <<>>)
    <3>1. r.err = res.err /\ r.tree = s
      <4>1. s \in [Paths -> Inodes \cup Contents \cup {Dir, NoEntry}]
        BY <1>7, <2>3 DEF ViewTypes
      <4>2. r.err # "ok" => r.tree = s
        <5> HIDE DEF target, s
        <5> QED
          BY <1>3, <4>1, OpenFileFacts
      <4> QED
        BY <1>7, <1>8, <2>3, <4>2
    <3>2. CASE op.kind = "copy"
      <4>1. IsFile(b[op.path]) /\ s = b /\ create = TRUE /\ target = op.dest
        BY <1>1, <1>3, <1>7, <2>3, <3>2 DEF Gone, create
      <4>2. Stat(b, op.path) = "ok"
        BY <1>3, <4>1, PathFacts DEF Stat, Entry, IsFile
      <4>3. OpenFile(b, op.dest, TRUE, <<>>).err # "ok"
        BY <1>8, <3>1, <4>1
      <4>4. Promised(op, b) = AsOutcome(OpenFile(b, op.dest, TRUE, <<>>))
        BY <3>2, <4>2, <4>3, PromisedFacts
      <4> QED
        BY <3>1, <4>1, <4>4 DEF AsOutcome
    <3>3. CASE op.kind = "write"
      <4>1. Dirs(op, b).err = "ok" /\ s = Dirs(op, b).tree /\ target = op.path
        BY <1>1, <1>3, <1>7, <2>3, <3>3 DEF Gone
      <4>2. OpenFile(s, target, create, <<>>) = OpenFile(s, target, op.create, <<>>)
        BY <3>3 DEF create, OpenFile
      <4>3. Promised(op, b) = AsOutcome(OpenFile(s, op.path, op.create, <<>>))
        <5>1. /\ Dirs(op, b).err = "ok" /\ OpenFile(Dirs(op, b).tree, op.path, op.create, <<>>).err # "ok"
          BY <1>8, <3>1, <4>1, <4>2
        <5>2. Promised(op, b) = AsOutcome(OpenFile(Dirs(op, b).tree, op.path, op.create, <<>>))
          BY <3>3, <5>1, PromisedFacts
        <5> QED
          BY <4>1, <5>2
      <4> QED
        BY <3>1, <4>1, <4>2, <4>3 DEF AsOutcome
    <3> QED
      BY <1>3, <3>2, <3>3
  <2>4. KeepsWord(k, n, ViewOf(tree, data))
    BY <1>3, <1>7, <2>1, <2>3 DEF KeepsWord, Outcome
  <2>5. Fits(x, n, tree, data')
    BY <1>1, <1>2, <2>1, <2>2, <2>4, EndFits
  <2> QED
    BY <1>1, <2>2, <2>5, OwnStep
<1>9. CASE res.err = "ok"
  <2> DEFINE n == [k EXCEPT !.out = file, !.pc = IF op.kind = "copy" THEN "read" ELSE "write",
                            !.buf = IF op.kind = "copy" THEN <<>> ELSE op.body]
  <2>1. /\ DOMAIN n = Fields /\ n.op = op /\ n.disturbed = k.disturbed /\ n.in = k.in
        /\ n.pc = (IF op.kind = "copy" THEN "read" ELSE "write")
        /\ n.buf = (IF op.kind = "copy" THEN <<>> ELSE op.body)
        /\ n.out = file /\ n.err = k.err /\ n.before = b
    BY <1>2 DEF Fields
  <2>2. Goes(x, n, res.tree) /\ data' = e
    BY <1>5, <1>9
  <2> HIDE DEF n
  <2>3. /\ file \in Inodes /\ e \in [Inodes -> Contents]
        /\ \A j \in Inodes : e[j] # data[j] => file = j
        /\ Redone(Touched(op), tree, res.tree, InUse)
        /\ \A q \in Paths :
               ViewOf(res.tree, e)[q] =
                   IF q = target /\ (tree[target] = NoEntry \/ Truncates(op)) THEN <<>>
                   ELSE ViewOf(tree, data)[q]
    <3>1. PICK m, d : m = res.tree /\ d = e
      OBVIOUS
    <3>2. PICK f \in BOOLEAN : f = (file = fresh \/ Truncates(op))
      OBVIOUS
    <3>3. /\ m = WithOpened(tree, target, fresh) /\ d = Emptied(data, m[target], f)
          /\ tree[target] # Dir /\ (m[target] = fresh => f)
      BY <1>6, <1>9, <3>1, <3>2
    <3> HIDE DEF target, e
    <3>4. m[target] \in Inodes /\ (m[target] = fresh <=> tree[target] = NoEntry)
      BY <1>2, <1>3, <1>4, <3>3 DEF TreeTypes, StorageAssumption, WithOpened
    <3>5. d \in [Inodes -> Contents] /\ \A j \in Inodes : d[j] # data[j] => m[target] = j
      BY <1>2, <3>3, <3>4, EmptySeq DEF Contents, Emptied
    <3>6. m = tree \/ m = Put(tree, {target}, fresh).new
      BY <1>2, <3>3 DEF TreeTypes, Put, WithOpened
    <3>7. Redone(Touched(op), tree, Put(tree, {target}, fresh).new, InUse)
      BY <1>2, <1>3, <1>4, MadeRedone
    <3>8. Redone(Touched(op), tree, m, InUse)
      BY <1>2, <3>6, <3>7
    <3>9. ASSUME NEW q \in Paths
          PROVE  ViewOf(m, d)[q] = IF q = target /\ f THEN <<>> ELSE ViewOf(tree, data)[q]
      <4>1. CASE q = target
        BY <1>2, <3>3, <3>4, <4>1 DEF ViewOf, Emptied, WithOpened
      <4>2. CASE q # target
        BY <1>2, <1>3, <3>3, <3>4, <3>8, <4>2 DEF ViewOf, Emptied, WithOpened, Redone, Single
      <4> QED
        BY <4>1, <4>2
    <3> QED
      BY <3>1, <3>2, <3>4, <3>5, <3>8, <3>9
  <2> HIDE DEF e
  <2>4. n.pc \in {"read", "write"} /\ n.pc # "over"
    BY <2>1
  <2>5. Handles(n)
    BY <1>2, <1>3, <2>1, <2>3, EmptySeq DEF Handles, Contents, StorageAssumption
  <2>6. Linked(n, res.tree)
    BY <2>1 DEF Linked
  <2>7. ASSUME Undisturbed(n)
        PROVE  Gone(n, res.tree) /\ \A q \in About(n.op) : ViewOf(res.tree, e)[q] = SoFar(n)[q]
    <3>1. Undisturbed(k)
      BY <1>1, <2>1, <2>7 DEF Undisturbed
    <3>2. CASE op.kind = "copy"
      <4>1. /\ n.pc = "read" /\ s = b /\ IsFile(b[op.path]) /\ k.in = tree[op.path]
            /\ op.path # op.dest /\ create = TRUE /\ target = op.dest
        BY <1>1, <1>3, <1>7, <2>1, <3>1, <3>2 DEF Gone, Undisturbed, create
      <4>2. OpenFile(b, op.dest, TRUE, <<>>).err = "ok"
        BY <1>7, <1>9, <3>1, <4>1
      <4>3. res.tree[op.path] = tree[op.path]
        BY <1>3, <1>6, <1>9, <4>1 DEF WithOpened
      <4>4. Gone(n, res.tree)
        BY <2>1, <3>2, <4>1, <4>2, <4>3 DEF Gone
      <4>5. SoFar(n) = [q \in Paths |-> IF q = op.dest THEN <<>> ELSE b[q]]
        <5>1. n.out # NoFile
          BY <2>1, <2>3 DEF StorageAssumption
        <5> QED
          BY <2>1, <3>2, <5>1 DEF SoFar
      <4>6. Truncates(op)
        BY <3>2 DEF Truncates
      <4>7. ASSUME NEW q \in About(op) PROVE ViewOf(res.tree, e)[q] = SoFar(n)[q]
        <5>1. q \in Paths /\ ViewOf(tree, data)[q] = s[q]
          BY <1>7, <3>1, TouchedAbout
        <5>2. ViewOf(res.tree, e)[q] = IF q = target THEN <<>> ELSE ViewOf(tree, data)[q]
          BY <2>3, <4>6, <5>1
        <5> QED
          BY <4>1, <4>5, <5>1, <5>2
      <4> QED
        BY <2>1, <4>4, <4>7
    <3>3. CASE op.kind = "write"
      <4>1. /\ n.pc = "write" /\ s = Dirs(op, b).tree /\ Dirs(op, b).err = "ok"
            /\ target = op.path
        BY <1>1, <1>3, <1>7, <2>1, <3>1, <3>3 DEF Gone
      <4>2. OpenFile(s, target, create, <<>>) = OpenFile(s, target, op.create, <<>>)
        BY <3>3 DEF create, OpenFile
      <4>3. OpenFile(Dirs(op, b).tree, op.path, op.create, <<>>).err = "ok"
        BY <1>7, <1>9, <3>1, <4>1, <4>2
      <4>4. Gone(n, res.tree)
        BY <2>1, <3>3, <4>1, <4>3 DEF Gone
      <4>5. SoFar(n) = [q \in Paths |->
                           IF q = op.path /\ (op.truncate \/ s[q] = NoEntry) THEN <<>> ELSE s[q]]
        BY <2>1, <3>3, <4>1 DEF SoFar
      <4>6. Truncates(op) <=> op.truncate
        BY <3>3 DEF Truncates
      <4>7. ASSUME NEW q \in About(op) PROVE ViewOf(res.tree, e)[q] = SoFar(n)[q]
        <5>1. q \in Paths /\ ViewOf(tree, data)[q] = s[q]
          BY <1>7, <3>1, TouchedAbout
        <5>2. tree[target] = NoEntry <=> s[target] = NoEntry
          BY <1>7, <3>1
        <5>3. ViewOf(res.tree, e)[q] =
                  IF q = target /\ (tree[target] = NoEntry \/ op.truncate) THEN <<>>
                  ELSE ViewOf(tree, data)[q]
          BY <2>3, <4>6, <5>1
        <5>4. SoFar(n)[q] = IF q = target /\ (op.truncate \/ s[q] = NoEntry) THEN <<>> ELSE s[q]
          BY <4>1, <4>5, <5>1
        <5> QED
          BY <5>1, <5>2, <5>3, <5>4
      <4> QED
        BY <2>1, <4>4, <4>7
    <3> QED
      BY <1>3, <3>2, <3>3
  <2>8. OnTheWay(n, res.tree, ViewOf(res.tree, e))
    BY <2>7 DEF OnTheWay
  <2>9. Fits(x, n, res.tree, e)
    BY <1>3, <2>1, <2>3, <2>4, <2>5, <2>6, <2>8 DEF Fits, KeepsWord
  <2> QED
    BY <1>1, <2>2, <2>9, OwnStep
<1> QED
    BY <1>8, <1>9

\* What is written over an empty file is the file.
LEMMA OverwriteFacts ==
    ASSUME NEW body \in Contents
    PROVE  /\ \A old \in Contents : Overwrite(old, body) \in Contents
           /\ Overwrite(<<>>, body) = body
<1>1. body \in Seq(Blocks) /\ Len(body) \in Nat
    BY LenProperties DEF Contents
<1>2. ASSUME NEW old \in Contents PROVE Overwrite(old, body) \in Contents
  <2>1. old \in Seq(Blocks) /\ Len(old) \in Nat
    BY LenProperties DEF Contents
  <2>2. \A j \in Len(body) + 1 .. Len(old) : old[j] \in Blocks
    BY <1>1, <2>1, ElementOfSeq
  <2>3. SubSeq(old, Len(body) + 1, Len(old)) \in Seq(Blocks)
    BY <1>1, <2>1, <2>2, SubSeqProperties
  <2> QED
    BY <1>1, <2>3, ConcatProperties DEF Overwrite, Contents
<1>3. Overwrite(<<>>, body) = body
  <2>1. Len(<<>>) = 0 /\ SubSeq(<<>>, Len(body) + 1, 0) = <<>>
    BY <1>1
  <2>2. body \o <<>> = body
    BY <1>1, ConcatEmptySeq
  <2> QED
    BY <2>1, <2>2 DEF Overwrite
<1> QED
    BY <1>2, <1>3

\* The target is written and closed (storage.go:650-652, :735-736).
LEMMA WriteStepAtomic ==
    ASSUME AtomicInv, ListInv', NEW x \in Clients, WriteStep(x)
    PROVE  AtomicInv' /\ \A c \in Clients : EndsAsPromised(c)
<1> USE StorageAssumption
<1> DEFINE k == call[x]
           op == k.op
           b == k.before
           s == SoFar(k)
           target == Target(op)
           e == [data EXCEPT ![k.out] = Overwrite(@, k.buf)]
           n == [k EXCEPT !.pc = "over", !.out = NoFile, !.buf = <<>>]
<1>1. Active(x) /\ k.pc = "write" /\ data' = e /\ Goes(x, n, tree)
    BY DEF WriteStep, Active
<1>2. /\ DOMAIN k = Fields /\ Legal(k) /\ Handles(k) /\ Linked(k, tree) /\ tree \in TreeTypes
      /\ Single(tree) /\ data \in [Inodes -> Contents] /\ k.err = "ok" /\ b \in ViewTypes
      /\ Redone(Touched(op), tree, tree, InUse)
    BY <1>1, UnderWay
<1>3. /\ op.kind \in {"write", "copy"} /\ op.path \in Paths /\ target \in Paths
      /\ (op.kind = "copy" => op.dest \in Paths /\ target = op.dest)
      /\ (op.kind = "write" => target = op.path /\ op.body \in Contents)
      /\ k.out \in Inodes /\ k.out # NoFile /\ k.buf \in Contents
    BY <1>1, <1>2 DEF Legal, AllowsRoot, Handles, Target
<1>4. /\ DOMAIN n = Fields /\ n.op = op /\ n.pc = "over" /\ n.disturbed = k.disturbed
      /\ n.out = NoFile /\ n.err = k.err
    BY <1>2 DEF Fields
<1>5. e \in [Inodes -> Contents] /\ \A i \in Inodes : e[i] # data[i] => i = k.out
    BY <1>2, <1>3, OverwriteFacts
<1>6. Handles(n) /\ Linked(n, tree) /\ OnTheWay(n, tree, ViewOf(tree, e))
    BY <1>4 DEF Handles, Linked, OnTheWay, Undisturbed
<1>7. ASSUME Undisturbed(k)
      PROVE  /\ s \in ViewTypes
             /\ \A q \in About(op) :
                    ViewOf(tree, e)[q] = IF q = target THEN Overwrite(s[q], k.buf) ELSE s[q]
  <2>1. tree[target] = k.out
    BY <1>1, <1>2, <1>3, <1>7 DEF Linked, Undisturbed
  <2>2. \A q \in About(op) : ViewOf(tree, data)[q] = s[q]
    BY <1>7, Looks
  <2>3. s \in ViewTypes
    <3>1. Dirs(op, b).tree \in ViewTypes
      BY <1>2, DirsTyped
    <3> QED
      BY <1>1, <1>2, <1>3, <3>1, EmptySeq DEF SoFar, ViewTypes, Contents
  <2> HIDE DEF target, s
  <2>4. ASSUME NEW q \in About(op)
        PROVE  ViewOf(tree, e)[q] = IF q = target THEN Overwrite(s[q], k.buf) ELSE s[q]
    <3>1. q \in Paths /\ ViewOf(tree, data)[q] = s[q]
      BY <2>2, TouchedAbout
    <3>2. CASE q = target
      BY <1>2, <1>3, <2>1, <3>1, <3>2 DEF ViewOf
    <3>3. CASE q # target
      BY <1>2, <1>3, <2>1, <3>1, <3>3 DEF ViewOf, Single
    <3> QED
      BY <3>2, <3>3
  <2> QED
    BY <2>3, <2>4
<1> HIDE DEF n, e
<1>8. KeepsWord(k, n, ViewOf(tree, e))
  <2> SUFFICES ASSUME Undisturbed(k)
               PROVE  LET p == Promised(op, b)
                      IN p.err = "ok" /\ \A q \in About(op) : ViewOf(tree, e)[q] = p.view[q]
    BY <1>2, <1>3, <1>4 DEF KeepsWord
  <2>1. Gone(k, tree)
    BY Looks
  <2>2. CASE op.kind = "copy"
    <3> DEFINE r == OpenFile(b, op.dest, TRUE, <<>>)
    <3>1. IsFile(b[op.path]) /\ r.err = "ok" /\ k.buf = b[op.path]
      BY <1>1, <2>1, <2>2 DEF Gone
    <3>2. Stat(b, op.path) = "ok"
      BY <1>3, <3>1, PathFacts DEF Stat, Entry, IsFile
    <3>3. Promised(op, b) = Outcome("ok", [r.tree EXCEPT ![op.dest] = b[op.path]])
      BY <2>2, <3>1, <3>2, PromisedFacts
    <3>4. b \in [Paths -> Inodes \cup Contents \cup {Dir, NoEntry}]
      BY <1>2 DEF ViewTypes
    <3>5. r.tree = WithOpened(b, op.dest, <<>>)
      <4>1. PICK create : create = TRUE
        OBVIOUS
      <4>2. op.dest \in Paths /\ OpenFile(b, op.dest, create, <<>>).err = "ok"
        BY <1>3, <2>2, <3>1, <4>1
      <4>3. OpenFile(b, op.dest, create, <<>>).tree = WithOpened(b, op.dest, <<>>)
        BY <3>4, <4>2, OpenFileFacts
      <4> QED
        BY <4>1, <4>3
    <3>6. s = [q \in Paths |-> IF q = op.dest THEN <<>> ELSE b[q]]
      BY <1>3, <2>2 DEF SoFar
    <3>7. Overwrite(<<>>, k.buf) = b[op.path]
      BY <1>3, <3>1, OverwriteFacts
    <3> HIDE DEF r, s
    <3>8. ASSUME NEW q \in About(op)
          PROVE  ViewOf(tree, e)[q] = [r.tree EXCEPT ![op.dest] = b[op.path]][q]
      BY <1>3, <1>7, <2>2, <3>5, <3>6, <3>7, TouchedAbout DEF WithOpened
    <3> QED
      BY <3>3, <3>8 DEF Outcome
  <2>3. CASE op.kind = "write"
    <3> DEFINE d == Dirs(op, b).tree
               r == OpenFile(d, op.path, op.create, <<>>)
               v == [r.tree EXCEPT ![op.path] = IF op.truncate THEN op.body
                                                ELSE Overwrite(@, op.body)]
    <3>1. Dirs(op, b).err = "ok" /\ r.err = "ok" /\ k.buf = op.body
      BY <1>1, <2>1, <2>3 DEF Gone
    <3>2. Promised(op, b) = Outcome("ok", v)
      BY <2>3, <3>1, PromisedFacts
    <3>3. d \in [Paths -> Inodes \cup Contents \cup {Dir, NoEntry}]
      <4>1. d \in ViewTypes
        BY <1>2, DirsTyped
      <4> QED
        BY <4>1 DEF ViewTypes
    <3>4. s = [q \in Paths |->
                  IF q = op.path /\ (op.truncate \/ d[q] = NoEntry) THEN <<>> ELSE d[q]]
      BY <1>1, <2>3 DEF SoFar
    <3> HIDE DEF d
    <3>5. r.tree = WithOpened(d, op.path, <<>>)
      <4>1. op.path \in Paths
        BY <1>3, <2>3
      <4>2. r.err = "ok" => r.tree = WithOpened(d, op.path, <<>>)
        BY <3>3, <4>1, OpenFileFacts
      <4> QED
        BY <3>1, <4>2
    <3>6. Overwrite(<<>>, op.body) = op.body
      BY <1>3, <2>3, OverwriteFacts
    <3> HIDE DEF r, s
    <3>7. ASSUME NEW q \in About(op) PROVE ViewOf(tree, e)[q] = v[q]
      <4>1. q \in Paths /\ target = op.path /\ op.path \in Paths
        BY <1>3, <2>3, TouchedAbout
      <4>2. ViewOf(tree, e)[q] = IF q = op.path THEN Overwrite(s[q], op.body) ELSE s[q]
        BY <1>7, <3>1, <4>1
      <4>3. r.tree[q] = IF q = op.path /\ d[op.path] = NoEntry THEN <<>> ELSE d[q]
        BY <3>5, <4>1 DEF WithOpened
      <4>4. v[q] = IF q # op.path THEN r.tree[q]
                   ELSE IF op.truncate THEN op.body ELSE Overwrite(r.tree[q], op.body)
        BY <3>5, <4>1 DEF WithOpened
      <4>5. s[q] = IF q = op.path /\ (op.truncate \/ d[q] = NoEntry) THEN <<>> ELSE d[q]
        BY <3>4, <4>1
      <4> QED
        BY <3>6, <4>2, <4>3, <4>4, <4>5
    <3> HIDE DEF v
    <3> QED
      BY <3>2, <3>7 DEF Outcome
  <2> QED
    BY <1>3, <2>2, <2>3
<1>9. Fits(x, n, tree, data')
    BY <1>1, <1>2, <1>4, <1>5, <1>6, <1>8 DEF Fits
<1> QED
    BY <1>1, <1>9, OwnStep
-----------------------------------------------------------------------------
(* A call begins *)

\* More operations are disturbed, and nothing else changes.
LEMMA DisturbedHolds ==
    ASSUME NEW k, NEW n, n.op = k.op, n.pc = k.pc, n.err = k.err, n.in = k.in, n.out = k.out,
           n.buf = k.buf, n.before = k.before, ~n.disturbed => ~k.disturbed
    PROVE  /\ Handles(k) => Handles(n)
           /\ \A t : Linked(k, t) => Linked(n, t)
           /\ \A t, v : OnTheWay(k, t, v) => OnTheWay(n, t, v)
<1>1. Handles(k) => Handles(n)
    BY DEF Handles
<1>2. \A t : Linked(k, t) => Linked(n, t)
    BY DEF Linked
<1>3. SoFar(n) = SoFar(k) /\ \A t : Gone(n, t) <=> Gone(k, t)
    BY DEF SoFar, Gone
<1>4. Undisturbed(n) => Undisturbed(k)
    BY DEF Undisturbed
<1> QED
    BY <1>1, <1>2, <1>3, <1>4 DEF OnTheWay

\* The view holds what a call may find.
LEMMA ViewTyped ==
    ASSUME NEW t \in TreeTypes, NEW d \in [Inodes -> Contents]
    PROVE  ViewOf(t, d) \in ViewTypes
    BY DEF ViewOf, TreeTypes, ViewTypes

\* A number that is neither zero nor more than one is one.
LEMMA OneLess ==
    ASSUME NEW l \in Nat, l # 0, ~(l > 1)
    PROVE  l - 1 = 0
    OBVIOUS

\* What a call begins with is what it promises its result of.
LEMMA NewOnTheWay ==
    ASSUME NEW n, n.pc = FirstStep(n.op), n.before \in ViewTypes,
           n.out = NoFile, n.op.kind \in Kinds, ~AllowsRoot(n.op.kind) => n.op.path \in Paths, NEW t
    PROVE  OnTheWay(n, t, n.before)
<1> USE StorageAssumption
<1> DEFINE op == n.op
           b == n.before
<1> SUFFICES ASSUME Undisturbed(n)
             PROVE  Gone(n, t) /\ \A q \in About(op) : b[q] = SoFar(n)[q]
    BY DEF OnTheWay
<1>1. op.kind \in {"read", "unlink", "copy", "write"} /\ op.path \in Paths
    BY DEF Undisturbed, AllowsRoot
<1>2. CASE op.kind # "write"
  <2>1. n.pc \in {"open", "stat"}
    BY <1>1, <1>2 DEF FirstStep
  <2>2. SoFar(n) = b
    BY <1>1, <1>2 DEF SoFar
  <2> QED
    BY <1>2, <2>1, <2>2 DEF Gone
<1>3. CASE op.kind = "write" /\ op.mkdir /\ Len(op.path) > 1
  <2>1. n.pc = "mkdir"
    BY <1>3 DEF FirstStep
  <2>2. SoFar(n) = b
    BY <1>3, <2>1 DEF SoFar
  <2> QED
    BY <1>3, <2>1, <2>2 DEF Gone
<1>4. CASE op.kind = "write" /\ ~(op.mkdir /\ Len(op.path) > 1)
  <2>1. n.pc = "create"
    BY <1>4 DEF FirstStep
  <2>2. Dirs(op, b).err = "ok" /\ Dirs(op, b).tree = b
    <3>1. CASE ~op.mkdir
      BY <3>1 DEF Dirs
    <3>2. CASE op.mkdir
      <4>1. op.path \in Seq(Names) /\ op.path # <<>>
        BY <1>1, PathFacts
      <4>2. Len(Front(op.path)) = Len(op.path) - 1 /\ Len(op.path) \in Nat \ {0}
            /\ Front(op.path) \in Seq(Names)
        BY <4>1, FrontFacts
      <4>3. Len(Front(op.path)) = 0
        <5>1. ~(Len(op.path) > 1)
          BY <1>4, <3>2
        <5>2. PICK l \in Nat \ {0} : l = Len(op.path)
          BY <4>2
        <5>3. ~(l > 1)
          BY <5>1, <5>2
        <5>4. l - 1 = 0
          BY <5>2, <5>3, OneLess
        <5> QED
          BY <4>2, <5>2, <5>4
      <4>4. Front(op.path) = <<>>
        BY <4>2, <4>3, EmptySeq
      <4>5. {q \in Paths : IsPrefix(q, Front(op.path))} = {}
        BY <4>4, BelowFacts, PathFacts
      <4>6. Put(b, {}, Dir).new = b
        BY DEF Put, ViewTypes
      <4>7. MkdirAll(b, Front(op.path)) = Result("ok", Put(b, {}, Dir))
        BY <4>5 DEF MkdirAll
      <4> QED
        BY <3>2, <4>6, <4>7 DEF Dirs, Result
    <3> QED
      BY <3>1, <3>2
  <2>3. SoFar(n) = b
    BY <1>4, <2>1, <2>2 DEF SoFar
  <2> QED
    BY <1>4, <2>1, <2>2, <2>3 DEF Gone
<1> QED
    BY <1>2, <1>3, <1>4

\* What an operation has open for writing is, unless it was disturbed, where it may change
\* the entries; one that changes nothing has no such file.
LEMMA OpenForWriting ==
    ASSUME AtomicInv, NEW y \in Clients, Active(y), call[y].out # NoFile
    PROVE  /\ Changes(call[y].op)
           /\ ~call[y].disturbed => \E p \in Touched(call[y].op) : tree[p] = call[y].out
<1> USE StorageAssumption
<1> DEFINE k == call[y]
           op == k.op
<1>1. /\ Legal(k) /\ Handles(k) /\ Linked(k, tree) /\ (op.kind = "copy" => op.dest \in Paths)
      /\ (op.kind = "write" => op.path \in Paths)
    BY UnderWay
<1>2. op.kind \in {"copy", "write"} /\ k.pc # "over"
    BY <1>1 DEF Legal, Handles, Active
<1>3. Target(op) \in Paths
    BY <1>1, <1>2 DEF Target
<1>4. Target(op) \in Touched(op)
    BY <1>2, <1>3, TouchedAbout
<1> QED
    BY <1>1, <1>2, <1>4 DEF Changes, Linked

\* The operations that a new call meets are apart from it, as Disturbs has it.
LEMMA NewApart ==
    ASSUME AtomicInv, NEW y \in Clients, Active(y), NEW op,
           ~Disturbs(call[y].op, call[y].disturbed, op)
    PROVE  /\ Touched(call[y].op) \cap About(op) = {}
           /\ \A q \in About(op) : tree[q] \in Inodes => tree[q] # call[y].out
<1> USE StorageAssumption
<1>1. NoFile \notin Inodes /\ Single(tree)
    BY DEF AtomicInv, StorageAssumption
<1>2. CASE ~Changes(call[y].op)
  <2>1. Touched(call[y].op) = {} /\ call[y].out = NoFile
    BY <1>2, OpenForWriting DEF Touched
  <2> QED
    BY <1>1, <2>1
<1>3. CASE ~call[y].disturbed /\ Touched(call[y].op) \cap About(op) = {}
  <2>1. Touched(call[y].op) \subseteq Paths /\ About(op) \subseteq Paths
    BY TouchedAbout
  <2>2. ASSUME NEW q \in About(op), tree[q] \in Inodes, tree[q] = call[y].out PROVE FALSE
    <3>1. PICK p \in Touched(call[y].op) : tree[p] = call[y].out
      BY <1>1, <1>3, <2>2, OpenForWriting
    <3> QED
      BY <1>1, <1>3, <2>1, <2>2, <3>1 DEF Single
  <2> QED
    BY <1>3, <2>2
<1> QED
    BY <1>2, <1>3 DEF Disturbs

\* A new call finds the store as it is, and marks whom it disturbs and who disturbs it.
LEMMA BeginAtomic ==
    ASSUME AtomicInv, ListInv', NEW c \in Clients, Begin(c)
    PROVE  AtomicInv' /\ \A x \in Clients : EndsAsPromised(x)
<1> USE StorageAssumption, CallAssumption
<1>1. PICK k \in Calls :
           LET op == [k EXCEPT !.path = storagePath(@, AllowsRoot(k.kind)),
                               !.dest = storagePath(@, k.kind # "copy" /\ k.kind # "rename")]
               valid == Invalid \notin {op.path, op.dest}
               others == {x \in Clients \ {c} : valid /\ Active(x)}
               disturbed == \E x \in others : Disturbs(call[x].op, call[x].disturbed, op)
               disturbs(x) == x \in others /\ Disturbs(op, disturbed, call[x].op)
           IN call' = [x \in Clients |->
                  IF x # c THEN [call[x] EXCEPT !.disturbed = @ \/ disturbs(x)]
                  ELSE IF ~valid THEN [Idle EXCEPT !.err = "invalid"]
                  ELSE IF op.kind = "mkdir" /\ op.path = <<>> THEN Idle
                  ELSE [Idle EXCEPT !.op = op, !.pc = FirstStep(op), !.before = View,
                                    !.disturbed = disturbed,
                                    !.ever = Entries(tree), !.always = Entries(tree)]]
    BY DEF Begin
<1> DEFINE op == [k EXCEPT !.path = storagePath(@, AllowsRoot(k.kind)),
                           !.dest = storagePath(@, k.kind # "copy" /\ k.kind # "rename")]
           valid == Invalid \notin {op.path, op.dest}
           others == {x \in Clients \ {c} : valid /\ Active(x)}
           disturbed == \E x \in others : Disturbs(call[x].op, call[x].disturbed, op)
           disturbs(x) == x \in others /\ Disturbs(op, disturbed, call[x].op)
           new == [Idle EXCEPT !.op = op, !.pc = FirstStep(op), !.before = View,
                               !.disturbed = disturbed,
                               !.ever = Entries(tree), !.always = Entries(tree)]
<1>2. /\ \A x \in Clients \ {c} : call'[x] = [call[x] EXCEPT !.disturbed = @ \/ disturbs(x)]
      /\ \/ call'[c] = [Idle EXCEPT !.err = "invalid"] \/ call'[c] = Idle
         \/ valid /\ call'[c] = new
    BY <1>1
<1>3. tree' = tree /\ data' = data /\ ~Active(c)
    BY DEF Begin
<1>4. tree \in TreeTypes /\ data \in [Inodes -> Contents] /\ Single(tree) /\ NoFile \notin Inodes
    BY DEF AtomicInv, StorageAssumption
<1>5. ASSUME NEW x \in Clients \ {c}
      PROVE  /\ call'[x].op = call[x].op /\ call'[x].pc = call[x].pc /\ call'[x].err = call[x].err
             /\ call'[x].in = call[x].in /\ call'[x].out = call[x].out
             /\ call'[x].buf = call[x].buf /\ call'[x].before = call[x].before
             /\ ~call'[x].disturbed => ~call[x].disturbed /\ ~disturbs(x)
  <2>1. DOMAIN call[x] = Fields
    BY DEF AtomicInv, ListInv, Shape
  <2>2. call'[x] = [call[x] EXCEPT !.disturbed = @ \/ disturbs(x)]
    BY <1>2
  <2> HIDE DEF disturbs
  <2>3. \A f \in Fields \ {"disturbed"} : call'[x][f] = call[x][f]
    BY <2>1, <2>2
  <2>4. call'[x].disturbed = (call[x].disturbed \/ disturbs(x))
    BY <2>1, <2>2 DEF Fields
  <2> QED
    BY <2>3, <2>4 DEF Fields
<1>6. /\ op.kind = "write" => op.body \in Contents
  <2>1. {"kind", "path", "dest"} \subseteq DOMAIN k
    BY DEF CallAssumption
  <2>2. k.kind = "write" => "body" \in DOMAIN k /\ k.body \in Contents
    BY DEF CallAssumption, Contents
  <2>3. op.kind = k.kind /\ (k.kind = "write" => op.body = k.body)
    BY <2>1, <2>2
  <2> QED
    BY <2>2, <2>3
<1> HIDE DEF op
<1>7. /\ new.op = op /\ new.pc = FirstStep(op) /\ new.err = "ok" /\ new.in = NoFile
      /\ new.out = NoFile /\ new.before = View /\ new.disturbed = disturbed
    BY DEF Idle
<1>8. View = ViewOf(tree, data) /\ View' = ViewOf(tree, data) /\ View \in ViewTypes
  <2>1. View = ViewOf(tree, data) /\ View' = ViewOf(tree, data)
    BY <1>3 DEF View, ViewOf
  <2> QED
    BY <1>4, <2>1, ViewTyped
<1>9. Legal(call'[c])
    BY DEF ListInv
<1>11. call'[c].pc = "over" \/ (valid /\ call'[c] = new)
    BY <1>2 DEF Idle
<1>12. call'[c].out = NoFile
    BY <1>2, <1>7 DEF Idle
<1> HIDE DEF new, valid
<1>13. Handles(call'[c]) /\ Linked(call'[c], tree) /\ OnTheWay(call'[c], tree, View)
  <2>1. CASE call'[c].pc = "over"
    BY <1>12, <2>1 DEF Handles, Linked, OnTheWay, Undisturbed
  <2>2. CASE call'[c].pc # "over" /\ call'[c] = new
    <3> DEFINE n == call'[c]
    <3>1. /\ n.op = op /\ n.pc = FirstStep(op) /\ n.err = "ok" /\ n.out = NoFile
          /\ n.before = View
      BY <1>7, <2>2
    <3>2. op.kind \in Kinds /\ (~AllowsRoot(op.kind) => op.path \in Paths)
      BY <1>9, <2>2, <3>1 DEF Legal
    <3>3. /\ FirstStep(op) \in {"mkdir", "create", "open", "stat", "call"}
          /\ FirstStep(op) = "mkdir" => op.mkdir
          /\ FirstStep(op) = "create" => op.kind # "copy"
      BY <3>2 DEF FirstStep, Kinds
    <3> HIDE DEF n
    <3>4. Handles(n)
      BY <1>6, <1>8, <3>1, <3>3 DEF Handles
    <3>5. Linked(n, tree)
      BY <3>1 DEF Linked
    <3>6. OnTheWay(n, tree, n.before)
      BY <1>8, <3>1, <3>2, NewOnTheWay
    <3> QED
      BY <3>1, <3>4, <3>5, <3>6 DEF n
  <2> QED
    BY <1>11, <2>1, <2>2
<1>14. ASSUME NEW x \in Clients \ {c}
       PROVE  Handles(call'[x]) /\ Linked(call'[x], tree) /\ OnTheWay(call'[x], tree, View)
  <2>1. Handles(call[x]) /\ Linked(call[x], tree) /\ OnTheWay(call[x], tree, View)
    BY DEF AtomicInv
  <2> QED
    BY <1>5, <2>1, DisturbedHolds
<1>15. Apart'
  <2> HIDE DEF others
  <2>1. SUFFICES ASSUME NEW x \in Clients, NEW y \in Clients, x # y,
                        call'[y].pc # "over", call'[x].pc # "over", ~call'[x].disturbed
                 PROVE  /\ Touched(call'[y].op) \cap About(call'[x].op) = {}
                        /\ \A q \in About(call'[x].op) : tree[q] \in Inodes => tree[q] # call'[y].out
    BY <1>3 DEF Apart, Spares
  <2>2. CASE x # c /\ y # c
    <3>1. x \in Clients \ {c} /\ y \in Clients \ {c}
      BY <2>2
    <3>2. /\ call'[x].op = call[x].op /\ call'[x].pc = call[x].pc
          /\ ~call'[x].disturbed => ~call[x].disturbed
      BY <1>5, <3>1
    <3>3. call'[y].op = call[y].op /\ call'[y].pc = call[y].pc /\ call'[y].out = call[y].out
      BY <1>5, <3>1
    <3>4. Spares(call[y], call[x], tree)
      BY <2>1 DEF AtomicInv, Apart
    <3>5. /\ Touched(call[y].op) \cap About(call[x].op) = {}
          /\ \A q \in About(call[x].op) : tree[q] \in Inodes => tree[q] # call[y].out
      BY <2>1, <3>2, <3>3, <3>4 DEF Spares
    <3> QED
      BY <3>2, <3>3, <3>5
  <2>3. CASE x = c
    <3>1. valid /\ call'[c] = new /\ y \in Clients \ {c} /\ Active(y)
      BY <1>5, <1>11, <2>1, <2>3 DEF Active
    <3>2. y \in others
      BY <3>1 DEF others
    <3>3. ~Disturbs(call[y].op, call[y].disturbed, op)
      BY <1>7, <2>1, <2>3, <3>1, <3>2
    <3>4. /\ Touched(call[y].op) \cap About(op) = {}
          /\ \A q \in About(op) : tree[q] \in Inodes => tree[q] # call[y].out
      BY <3>1, <3>3, NewApart
    <3> QED
      BY <1>5, <1>7, <2>3, <3>1, <3>4
  <2>4. CASE y = c
    <3>1. valid /\ call'[c] = new /\ x \in Clients \ {c} /\ Active(x)
      BY <1>5, <1>11, <2>1, <2>4 DEF Active
    <3>2. x \in others
      BY <3>1 DEF others
    <3>3. ~Disturbs(op, disturbed, call[x].op)
      BY <1>5, <2>1, <3>1, <3>2
    <3>4. Touched(op) \cap About(call[x].op) = {}
      BY <3>3 DEF Disturbs, Touched
    <3> QED
      BY <1>4, <1>5, <1>7, <1>12, <2>4, <3>1, <3>4
  <2> QED
    BY <2>1, <2>2, <2>3, <2>4
<1>16. AtomicInv'
  <2>1. \A x \in Clients : /\ Handles(call'[x]) /\ Linked(call'[x], tree')
                           /\ OnTheWay(call'[x], tree', View')
    BY <1>3, <1>8, <1>13, <1>14
  <2>2. tree' \in TreeTypes /\ data' \in [Inodes -> Contents] /\ Single(tree)'
    BY <1>3, <1>4 DEF Single
  <2> QED
    BY <1>15, <2>1, <2>2 DEF AtomicInv
<1>17. \A x \in Clients : EndsAsPromised(x)
    BY <1>3, <1>5 DEF EndsAsPromised, Active
<1> QED
    BY <1>16, <1>17
-----------------------------------------------------------------------------
(* The theorems *)

\* At first nothing is called, and every file has one name.
LEMMA InitAtomic ==
    ASSUME StorageInit
    PROVE  AtomicInv
<1> USE StorageAssumption
<1>1. ListInv
    BY InitListInv
<1>2. \A c \in Clients : call[c] = Idle
    BY DEF StorageInit
<1>3. tree \in TreeTypes /\ data \in [Inodes -> Contents] /\ Single(tree)
    BY DEF StorageInit, StorageAssumption, TreeTypes, Single, Contents
<1>4. Apart
    BY <1>2 DEF Apart, Spares, Idle
<1>5. \A c \in Clients : Handles(call[c]) /\ Linked(call[c], tree) /\ OnTheWay(call[c], tree, View)
    BY <1>2 DEF Handles, Linked, OnTheWay, Undisturbed, Idle
<1> QED
    BY <1>1, <1>3, <1>4, <1>5 DEF AtomicInv

\* Every step keeps AtomicInv, and an operation that it ends keeps its promise.
LEMMA AtomicKept ==
    ASSUME AtomicInv, ListInv', [StorageNext]_storageVars
    PROVE  AtomicInv' /\ \A c \in Clients : EndsAsPromised(c)
<1> USE StorageAssumption, CallAssumption
<1>1. CASE UNCHANGED storageVars
  <2>1. tree' = tree /\ data' = data /\ call' = call
    BY <1>1 DEF storageVars
  <2>2. View' = View
    BY <2>1 DEF View
  <2>3. Single(tree)' /\ Apart'
    BY <2>1 DEF AtomicInv, Single, Apart, Spares
  <2>4. AtomicInv'
    BY <2>1, <2>2, <2>3 DEF AtomicInv
  <2>5. \A c \in Clients : EndsAsPromised(c)
    BY <2>1 DEF EndsAsPromised, Active
  <2> QED
    BY <2>4, <2>5
<1>2. ASSUME NEW x \in Clients, Begin(x)
      PROVE  AtomicInv' /\ \A c \in Clients : EndsAsPromised(c)
    BY <1>2, BeginAtomic
<1>3. ASSUME NEW x \in Clients, SingleCall(x)
      PROVE  AtomicInv' /\ \A c \in Clients : EndsAsPromised(c)
    BY <1>3, SingleCallAtomic
<1>4. ASSUME NEW x \in Clients, StatFirst(x)
      PROVE  AtomicInv' /\ \A c \in Clients : EndsAsPromised(c)
    BY <1>4, StatFirstAtomic
<1>5. ASSUME NEW x \in Clients, RemoveStep(x)
      PROVE  AtomicInv' /\ \A c \in Clients : EndsAsPromised(c)
    BY <1>5, RemoveStepAtomic
<1>6. ASSUME NEW x \in Clients, WalkStep(x)
      PROVE  AtomicInv' /\ \A c \in Clients : EndsAsPromised(c)
    BY <1>6, WalkStepAtomic
<1>7. ASSUME NEW x \in Clients, MkdirStep(x)
      PROVE  AtomicInv' /\ \A c \in Clients : EndsAsPromised(c)
    BY <1>7, MkdirStepAtomic
<1>8. ASSUME NEW x \in Clients, OpenStep(x)
      PROVE  AtomicInv' /\ \A c \in Clients : EndsAsPromised(c)
    BY <1>8, OpenStepAtomic
<1>9. ASSUME NEW x \in Clients, CreateStep(x)
      PROVE  AtomicInv' /\ \A c \in Clients : EndsAsPromised(c)
    BY <1>9, CreateStepAtomic
<1>10. ASSUME NEW x \in Clients, ReadStep(x)
       PROVE  AtomicInv' /\ \A c \in Clients : EndsAsPromised(c)
    BY <1>10, ReadStepAtomic
<1>11. ASSUME NEW x \in Clients, WriteStep(x)
       PROVE  AtomicInv' /\ \A c \in Clients : EndsAsPromised(c)
    BY <1>11, WriteStepAtomic
<1>12. ASSUME NEW x \in Clients, StoreFails(x)
       PROVE  AtomicInv' /\ \A c \in Clients : EndsAsPromised(c)
    BY <1>12, StoreFailsAtomic
<1> QED
    BY <1>1, <1>2, <1>3, <1>4, <1>5, <1>6, <1>7, <1>8, <1>9, <1>10, <1>11, <1>12 DEF StorageNext

\* AtomicInv, the invariant of the operations of several steps, holds at all times: what
\* an undisturbed operation is about is what it found there, with what it has done of its
\* promise so far (storage.go:631-653, :713-737).
THEOREM AtomicInvariance == StorageSpec => []AtomicInv
<1> USE StorageAssumption, CallAssumption
<1>1. StorageInit => AtomicInv
    BY InitAtomic
<1>2. AtomicInv /\ ListInv' /\ [StorageNext]_storageVars => AtomicInv'
    BY AtomicKept
<1> QED
    BY <1>1, <1>2, ListInvariance, PTL DEF StorageSpec

\* UndisturbedIsAtomic: a read, an unlink, a copy or a write that nobody disturbs does at
\* once what it promises, whatever else any number of goroutines do in the storage at the
\* same time, and however their steps and failures mix (storage.go:631-653, :713-737).
THEOREM UndisturbedKeepsPromise == StorageSpec => UndisturbedIsAtomic
<1> USE StorageAssumption, CallAssumption
<1>1. AtomicInv /\ ListInv' /\ [StorageNext]_storageVars => [\A c \in Clients : EndsAsPromised(c)]_storageVars
    BY AtomicKept
<1> QED
    BY <1>1, AtomicInvariance, ListInvariance, PTL DEF StorageSpec, UndisturbedIsAtomic
=============================================================================
