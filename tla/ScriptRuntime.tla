---------------------------- MODULE ScriptRuntime ----------------------------
(***************************************************************************)
(* What a page script holds and who lets go of it (pkg/filters/goja).  A   *)
(* script opens streams of page files and of its storage and may upgrade   *)
(* the request to a websocket.  Its calls run as tasks of the runtime, in  *)
(* goroutines; what has to be closed is registered in the closers of the   *)
(* request, and the socket's in closers of its own that those close.  Two  *)
(* goroutines run the closers: the watcher when the request's context      *)
(* ends, and the filter when it has a result and leaves.                   *)
(*                                                                         *)
(* An open page file holds a token of the backend (see ProviderCache) until*)
(* its reader is closed.  A stream's mutex is held while it is opened and  *)
(* released while it is used; so is a closer's while it waits for that.    *)
(***************************************************************************)
EXTENDS Naturals, Sequences, FiniteSets, SequencesExt

CONSTANTS Pages,      \* readable streams of page files, which take a token
          Stores,     \* writable streams of storage files, which take none
          Socket,     \* the websocket
          NCalls,     \* bound on the calls of read, write and send
          Ping, Read, \* the two tasks of the socket
          Plans,      \* what a script may use: sets of streams and the socket
          Tokens,     \* capacity of backendSem
          None

Streams == Pages \cup Stores
IOs == 1 .. NCalls
Tasks == IOs \cup {Ping, Read}
Runners == {"watcher", "filter"}  \* the goroutines that run the closers

ASSUME RuntimeAssumption ==
    /\ Pages \cap Stores = {}
    /\ Socket \notin Streams
    /\ Ping # Read /\ {Ping, Read} \cap IOs = {}
    /\ NCalls \in Nat
    /\ None \notin Streams \cup Tasks \cup {Socket}
    /\ None \notin Runners
    /\ Plans \subseteq SUBSET (Streams \cup {Socket})
    /\ Tokens \in Nat \ {0}

VARIABLES
    plan,     \* what this script uses
    task,     \* the tasks, with what they work on
    tasks,    \* runtimeState.tasks, the counter of the wait group
    stream,   \* readableStreamState and writableStreamState
    conn,     \* the connection of the socket
    done,     \* webSocketState.done is closed
    serve,    \* the goroutine that serves the socket
    outer,    \* the closers of the request
    inner,    \* the closers of installWebSocket
    canceled, \* the request's context has ended
    closing,  \* runtimeState.closing
    watcher,  \* the goroutine that waits for the context
    result,   \* resultCh
    handler   \* the filter, waiting for the result and then leaving

fileVars == <<task, tasks, stream>>
socketVars == <<conn, done, serve>>
closerVars == <<outer, inner>>
endVars == <<canceled, closing, watcher, result, handler>>
vars == <<plan, fileVars, socketVars, closerVars, endVars>>

\* left: what the goroutine that runs the closers has not called yet.
ClosersRecords(xs) == [list : Seq(xs), by : Runners \cup {None}, left : Seq(xs)]
TaskPC == {"new", "add", "recheck", "lock", "opening", "using", "over"}
StreamRecords == [made : BOOLEAN, mu : IOs \cup {None}, opened : BOOLEAN, closed : BOOLEAN,
                  eof : BOOLEAN, busy : BOOLEAN, reader : BOOLEAN, held : BOOLEAN]

TypeOK ==
    /\ plan \in Plans
    /\ task \in [Tasks -> [pc : TaskPC, on : Streams \cup {Socket, None}]]
    /\ tasks \in Nat
    /\ stream \in [Streams -> StreamRecords]
    /\ conn \in {"none", "open", "closed"}
    /\ <<done, canceled, closing>> \in BOOLEAN \X BOOLEAN \X BOOLEAN
    /\ serve \in {"idle", "unused", "spawned", "add", "ping", "read", "wait", "over"}
    /\ outer \in ClosersRecords(Streams \cup {Socket})
    /\ inner \in ClosersRecords({"socket", "conn"})
    /\ watcher \in {"wait", "lock", "close", "timer", "over"}
    /\ result \in {"none", "ok", "err"}
    /\ handler \in {"wait", "lock", "close", "tasks", "drained", "timedOut", "gone"}

NewStream == [made |-> FALSE, mu |-> None, opened |-> FALSE, closed |-> FALSE,
              eof |-> FALSE, busy |-> FALSE, reader |-> FALSE, held |-> FALSE]
NoClosers == [list |-> <<>>, by |-> None, left |-> <<>>]

\* initRuntime registers the closers of the socket; it is taken to run before
\* the context ends.
initRuntime == [NoClosers EXCEPT !.list = <<Socket>>]

Init ==
    /\ plan \in Plans
    /\ task = [t \in Tasks |-> [pc |-> "new", on |-> None]]
    /\ tasks = 0
    /\ stream = [s \in Streams |-> NewStream]
    /\ conn = "none" /\ done = FALSE /\ serve = "idle"
    /\ outer = initRuntime /\ inner = NoClosers
    /\ canceled = FALSE /\ closing = FALSE
    /\ watcher = "wait" /\ result = "none" /\ handler = "wait"
-----------------------------------------------------------------------------
(* The request's context, and tasks *)

\* The client leaves or an update kills the request; ServeHTTP ends the context
\* of a request that it has answered.
CtxDone == canceled \/ handler = "gone"

Cancel ==
    /\ ~CtxDone
    /\ canceled' = TRUE
    /\ UNCHANGED <<plan, fileVars, socketVars, closerVars, closing, watcher, result, handler>>

\* The event loop: startTask is the only call of the script with steps.
LoopIsFree ==
    /\ handler # "gone"
    /\ \A t \in IOs : task[t].pc \notin {"add", "recheck"}

\* The script makes no further call once the watcher has interrupted it.
ScriptRuns == LoopIsFree /\ watcher \notin {"timer", "over"}

\* startTask looks at closing, ...
StartTask(t, on) ==
    /\ task[t].pc = "new"
    /\ task' = [task EXCEPT ![t] = [pc |-> IF closing THEN "over" ELSE "add", on |-> on]]
    /\ UNCHANGED <<plan, tasks, stream, socketVars, closerVars, endVars>>

\* ... counts the task ...
AddTask(t) ==
    /\ task[t].pc = "add"
    /\ task' = [task EXCEPT ![t].pc = "recheck"]
    /\ tasks' = tasks + 1
    /\ UNCHANGED <<plan, stream, socketVars, closerVars, endVars>>

\* Mutant: closing is not looked at again.
LooksOnce == FALSE

SeesClosing == closing

\* ... and looks again: the filter may have waited for the tasks in between.
RecheckTask(t) ==
    /\ task[t].pc = "recheck"
    /\ IF SeesClosing
       THEN task' = [task EXCEPT ![t].pc = "over"] /\ tasks' = tasks - 1
       ELSE task' = [task EXCEPT ![t].pc = "lock"] /\ UNCHANGED tasks
    /\ UNCHANGED <<plan, stream, socketVars, closerVars, endVars>>

\* finishTask, once the promise's outcome is posted to the loop.
FinishTask(t) ==
    /\ task' = [task EXCEPT ![t].pc = "over"]
    /\ tasks' = tasks - 1
-----------------------------------------------------------------------------
(* Streams *)

Holders == {s \in Pages : stream[s].held}

\* openReadable and openWritable; AddCloser waits for a goroutine that closes.
OpenStream(s) ==
    /\ ScriptRuns
    /\ s \in plan
    /\ ~stream[s].made
    /\ outer.by = None
    /\ stream' = [stream EXCEPT ![s].made = TRUE]
    /\ outer' = [outer EXCEPT !.list = Append(@, s)]
    /\ UNCHANGED <<plan, task, tasks, socketVars, inner, endVars>>

IsNext(t) == \A u \in IOs : u < t => task[u].pc # "new"

\* read and write are tasks.
Call(t) ==
    /\ ScriptRuns
    /\ IsNext(t)
    /\ \E s \in plan \cap Streams : stream[s].made /\ StartTask(t, s)

\* Mutants: the mutex is not held while the file is opened; it is held while the
\* file is read.
OpensUnlocked(t) == None
ReadsLocked(t) == t

HolderWhileOpening(t) == t
HolderWhileUsing(t) == None

\* read and write, to where they open the file or use it: nothing to do at the
\* end of the file, refused when closed or in use.
EnterStream(t) ==
    LET s == task[t].on IN
    /\ task[t].pc = "lock"
    /\ s \in Streams
    /\ stream[s].mu = None
    /\ IF stream[s].eof \/ stream[s].closed \/ stream[s].busy
       THEN FinishTask(t) /\ UNCHANGED stream
       ELSE /\ task' = [task EXCEPT ![t].pc = IF stream[s].opened THEN "using" ELSE "opening"]
            /\ stream' = [stream EXCEPT
                   ![s].mu = IF stream[s].opened THEN HolderWhileUsing(t) ELSE HolderWhileOpening(t),
                   ![s].busy = stream[s].opened]
            /\ UNCHANGED tasks
    /\ UNCHANGED <<plan, socketVars, closerVars, endVars>>

\* The file is opened: a page file waits for a token.
Opened(t) ==
    LET s == task[t].on IN
    /\ task[t].pc = "opening"
    /\ s \in Pages => Cardinality(Holders) < Tokens
    /\ task' = [task EXCEPT ![t].pc = "using"]
    /\ stream' = [stream EXCEPT ![s].opened = TRUE, ![s].reader = TRUE, ![s].held = TRUE,
                                ![s].busy = TRUE, ![s].mu = HolderWhileUsing(t)]
    /\ UNCHANGED <<plan, tasks, socketVars, closerVars, endVars>>

\* Mutant: the page file is opened without the request's context.
NeverGivesUp(s) == s \in Stores

OpenGivesUp(s) == s \in Stores \/ CtxDone

\* It is not: the stream is closed, unless only its directory could not be made.
\* Nothing is open then, an offset that cannot be reached included.
OpenFails(t) ==
    LET s == task[t].on IN
    /\ task[t].pc = "opening"
    /\ OpenGivesUp(s) \/ Cardinality(Holders) < Tokens
    /\ \E closed \in (IF s \in Stores THEN {TRUE, stream[s].closed} ELSE {TRUE}) :
           stream' = [stream EXCEPT ![s].closed = closed, ![s].mu = None]
    /\ FinishTask(t)
    /\ UNCHANGED <<plan, socketVars, closerVars, endVars>>

\* closeReaderLocked and closeWriterLocked.
CloseFile(st) == [st EXCEPT !.reader = FALSE, !.held = IF st.reader THEN FALSE ELSE @]

\* The read or write returns, with data, at the end of the file or with an error;
\* with an error if the file was closed under it.
UseEnds(t) ==
    LET s == task[t].on
        st == [stream[s] EXCEPT !.busy = FALSE, !.mu = None]
    IN
    /\ task[t].pc = "using"
    /\ s \in Streams
    /\ stream[s].mu \in {None, t}
    /\ \/ stream[s].held /\ stream' = [stream EXCEPT ![s] = st]
       \/ /\ stream[s].held /\ s \in Pages
          /\ stream' = [stream EXCEPT ![s] = CloseFile([st EXCEPT !.eof = TRUE])]
       \/ stream' = [stream EXCEPT ![s] = CloseFile([st EXCEPT !.closed = TRUE])]
    /\ FinishTask(t)
    /\ UNCHANGED <<plan, socketVars, closerVars, endVars>>

\* close, by the script (cancel, abort) or a closer: idempotent.
CloseStream(s) ==
    /\ stream[s].mu = None
    /\ stream' = IF stream[s].closed THEN stream
                 ELSE [stream EXCEPT ![s] = CloseFile([@ EXCEPT !.closed = TRUE])]

ScriptCloses(s) ==
    /\ ScriptRuns
    /\ stream[s].made
    /\ CloseStream(s)
    /\ UNCHANGED <<plan, task, tasks, socketVars, closerVars, endVars>>
-----------------------------------------------------------------------------
(* The websocket *)

SocketMade == inner.list # <<>> \/ done

\* upgradeWebSocket registers the closer of the socket.
UpgradeWebSocket ==
    /\ ScriptRuns
    /\ Socket \in plan
    /\ ~SocketMade
    /\ inner.by = None
    /\ inner' = [inner EXCEPT !.list = <<"socket">>]
    /\ UNCHANGED <<plan, fileVars, socketVars, outer, endVars>>

Once(err) == IF result = "none" THEN err ELSE result

\* The script returns the response of the upgrade, which a goroutine serves, ...
ReturnUpgrade ==
    /\ ScriptRuns
    /\ SocketMade
    /\ serve = "idle"
    /\ serve' = "spawned"
    /\ UNCHANGED <<plan, fileVars, conn, done, closerVars, endVars>>

\* ... or another one, written there and then, or throws.
ReturnOther ==
    /\ ScriptRuns
    /\ serve = "idle"
    /\ serve' = "unused"
    /\ \E err \in {"ok", "err"} : result' = Once(err)
    /\ UNCHANGED <<plan, fileVars, conn, done, closerVars, canceled, closing, watcher, handler>>

\* serve upgrades the connection, or cannot; it sets conn ...
Upgrade ==
    /\ serve = "spawned"
    /\ \/ serve' = "add" /\ conn' = "open" /\ UNCHANGED result
       \/ serve' = "over" /\ result' = Once("err") /\ UNCHANGED conn
    /\ UNCHANGED <<plan, fileVars, done, closerVars, canceled, closing, watcher, handler>>

\* ... registers it ...
AddConn ==
    /\ serve = "add"
    /\ inner.by = None
    /\ inner' = [inner EXCEPT !.list = Append(@, "conn")]
    /\ serve' = "ping"
    /\ UNCHANGED <<plan, fileVars, conn, done, outer, endVars>>

\* ... starts the two tasks, one after the other, ...
StartSocketTask ==
    \/ serve = "ping" /\ StartTask(Ping, Socket)
    \/ serve = "read" /\ StartTask(Read, Socket)

SocketTaskStarted ==
    /\ \/ serve = "ping" /\ task[Ping].pc \notin {"new", "add", "recheck"} /\ serve' = "read"
       \/ serve = "read" /\ task[Read].pc \notin {"new", "add", "recheck"} /\ serve' = "wait"
    /\ UNCHANGED <<plan, fileVars, conn, done, closerVars, endVars>>

\* ... and waits for the socket to be done.
ServeEnds ==
    /\ serve = "wait"
    /\ done
    /\ serve' = "over"
    /\ result' = Once("ok")
    /\ UNCHANGED <<plan, fileVars, conn, done, closerVars, canceled, closing, watcher, handler>>

Closed(c) == IF c = "open" THEN "closed" ELSE c

\* pingLoop ends with the context or the socket, and ends both when a ping fails,
\* as it does once the connection is closed.
PingEnds ==
    /\ task[Ping].pc = "lock"
    /\ \/ done /\ UNCHANGED <<conn, done, canceled>>
       \/ CtxDone /\ conn' = Closed(conn) /\ done' = TRUE /\ UNCHANGED canceled
       \/ conn' = Closed(conn) /\ done' = TRUE /\ canceled' = TRUE
    /\ FinishTask(Ping)
    /\ UNCHANGED <<plan, stream, serve, closerVars, closing, watcher, result, handler>>

\* readLoop ends when the client has left or the connection is closed.
ReadEnds ==
    /\ task[Read].pc = "lock"
    /\ done' = TRUE
    /\ FinishTask(Read)
    /\ UNCHANGED <<plan, stream, conn, serve, closerVars, endVars>>

Send(t) ==
    /\ ScriptRuns
    /\ IsNext(t)
    /\ SocketMade
    /\ StartTask(t, Socket)

\* send needs the connection and then its turn to write.
EnterSend(t) ==
    /\ task[t].pc = "lock"
    /\ task[t].on = Socket
    /\ \/ conn = "none" /\ FinishTask(t)
       \/ /\ conn # "none"
          /\ \A u \in IOs : ~(task[u].pc = "using" /\ task[u].on = Socket)
          /\ task' = [task EXCEPT ![t].pc = "using"]
          /\ UNCHANGED tasks
    /\ UNCHANGED <<plan, stream, socketVars, closerVars, endVars>>

\* The message is written, or the connection has been closed.
SendEnds(t) ==
    /\ task[t].pc = "using"
    /\ task[t].on = Socket
    /\ FinishTask(t)
    /\ UNCHANGED <<plan, stream, socketVars, closerVars, endVars>>

ScriptClosesSocket ==
    /\ ScriptRuns
    /\ SocketMade /\ ~done
    /\ conn' = Closed(conn)
    /\ done' = TRUE
    /\ UNCHANGED <<plan, fileVars, serve, closerVars, endVars>>
-----------------------------------------------------------------------------
(* The closers, run from the last registered to the first under their mutex *)

Lock(c, who) == [c EXCEPT !.by = who, !.left = c.list]

\* Mutant: the socket's closer does not end the goroutine that serves it.
OnlyClosesConn == done

DoneOnceClosed == TRUE

\* The closers of the socket: the connection's Close, and closeConn with finish.
\* A second run of the outer closers does not find these again.
RunInner ==
    /\ inner.by # None
    /\ IF inner.left = <<>>
       THEN /\ inner' = NoClosers
            /\ outer' = [outer EXCEPT !.left = Front(@)]
            /\ UNCHANGED <<conn, done>>
       ELSE /\ conn' = Closed(conn)
            /\ done' = IF Last(inner.left) = "socket" THEN DoneOnceClosed ELSE done
            /\ inner' = [inner EXCEPT !.left = Front(@)]
            /\ UNCHANGED outer
    /\ UNCHANGED <<plan, fileVars, serve, endVars>>

RunOuter ==
    /\ outer.by # None
    /\ outer.left # <<>>
    /\ inner.by = None
    /\ LET x == Last(outer.left) IN
       IF x = Socket
       THEN inner' = Lock(inner, outer.by) /\ UNCHANGED <<stream, outer>>
       ELSE CloseStream(x) /\ outer' = [outer EXCEPT !.left = Front(@)] /\ UNCHANGED inner
    /\ UNCHANGED <<plan, task, tasks, socketVars, endVars>>

WatcherWakes ==
    /\ watcher = "wait"
    /\ CtxDone
    /\ closing' = TRUE
    /\ watcher' = "lock"
    /\ UNCHANGED <<plan, fileVars, socketVars, closerVars, canceled, result, handler>>

WatcherLocks ==
    /\ watcher = "lock"
    /\ outer.by = None
    /\ outer' = Lock(outer, "watcher")
    /\ watcher' = "close"
    /\ UNCHANGED <<plan, fileVars, socketVars, inner, canceled, closing, result, handler>>

\* It unlocks and interrupts the script.
WatcherUnlocks ==
    /\ watcher = "close"
    /\ outer.by = "watcher" /\ outer.left = <<>>
    /\ outer' = NoClosers
    /\ watcher' = "timer"
    /\ UNCHANGED <<plan, fileVars, socketVars, inner, canceled, closing, result, handler>>

\* 20 ms later, taken to be enough for an upgrade under way: net/http refuses to
\* hand over the connection of a handler that has returned.
WatcherFinishes ==
    /\ watcher = "timer"
    /\ serve # "spawned"
    /\ watcher' = "over"
    /\ result' = Once("err")
    /\ UNCHANGED <<plan, fileVars, socketVars, closerVars, canceled, closing, handler>>

FilterWakes ==
    /\ handler = "wait"
    /\ result # "none"
    /\ closing' = TRUE
    /\ handler' = "lock"
    /\ UNCHANGED <<plan, fileVars, socketVars, closerVars, canceled, watcher, result>>

FilterLocks ==
    /\ handler = "lock"
    /\ outer.by = None
    /\ outer' = Lock(outer, "filter")
    /\ handler' = "close"
    /\ UNCHANGED <<plan, fileVars, socketVars, inner, canceled, closing, watcher, result>>

FilterUnlocks ==
    /\ handler = "close"
    /\ outer.by = "filter" /\ outer.left = <<>>
    /\ outer' = NoClosers
    /\ handler' = "tasks"
    /\ UNCHANGED <<plan, fileVars, socketVars, inner, canceled, closing, watcher, result>>

\* wait: until no task is left, ...
TasksDrained ==
    /\ handler = "tasks"
    /\ tasks = 0
    /\ handler' = "drained"
    /\ UNCHANGED <<plan, fileVars, socketVars, closerVars, canceled, closing, watcher, result>>

\* ... or for two seconds (runtimeShutdownTimeout); tasks go on then.
TasksTimeOut ==
    /\ handler = "tasks"
    /\ tasks # 0
    /\ handler' = "timedOut"
    /\ UNCHANGED <<plan, fileVars, socketVars, closerVars, canceled, closing, watcher, result>>

LoopStops ==
    /\ handler \in {"drained", "timedOut"}
    /\ LoopIsFree
    /\ handler' = "gone"
    /\ UNCHANGED <<plan, fileVars, socketVars, closerVars, canceled, closing, watcher, result>>
-----------------------------------------------------------------------------
Task(t) ==
    IF t \in IOs
    THEN \/ AddTask(t) \/ RecheckTask(t) \/ EnterStream(t) \/ Opened(t) \/ OpenFails(t)
         \/ UseEnds(t) \/ EnterSend(t) \/ SendEnds(t)
    ELSE AddTask(t) \/ RecheckTask(t)
Script ==
    \/ \E s \in Streams : OpenStream(s) \/ ScriptCloses(s)
    \/ \E t \in IOs : Call(t) \/ Send(t)
    \/ UpgradeWebSocket \/ ReturnUpgrade \/ ReturnOther \/ ScriptClosesSocket
Serve == Upgrade \/ AddConn \/ StartSocketTask \/ SocketTaskStarted \/ ServeEnds
RunClosers == RunInner \/ RunOuter
Watcher == WatcherWakes \/ WatcherLocks \/ WatcherUnlocks \/ WatcherFinishes
Filter == FilterWakes \/ FilterLocks \/ FilterUnlocks \/ TasksDrained \/ TasksTimeOut \/ LoopStops

Next == (\E t \in Tasks : Task(t)) \/ PingEnds \/ ReadEnds \/ Script \/ Serve
        \/ RunClosers \/ Watcher \/ Filter \/ Cancel

Spec == Init /\ [][Next]_vars

\* Goroutines run.  Nothing is assumed of the script, nor that a backend, a client
\* or a peer answers, nor that other requests give their tokens back: the opening of
\* a page file may last until the context ends, its reading until then or until it is
\* closed; a message is sent or received until the connection is closed.
MustRun(t) ==
    \/ AddTask(t) \/ RecheckTask(t) \/ EnterStream(t) \/ EnterSend(t)
    \/ (Opened(t) \/ OpenFails(t)) /\ (task[t].on \in Stores \/ CtxDone)
    \/ UseEnds(t) /\ (task[t].on \in Stores \/ CtxDone \/ ~stream[task[t].on].held)
    \/ SendEnds(t) /\ conn # "open"
PingMustRun ==
    \/ AddTask(Ping) \/ RecheckTask(Ping)
    \/ PingEnds /\ (done \/ CtxDone \/ conn # "open")
ReadMustRun == AddTask(Read) \/ RecheckTask(Read) \/ (ReadEnds /\ conn # "open")

Fairness ==
    /\ \A t \in IOs : WF_vars(MustRun(t))
    /\ WF_vars(PingMustRun) /\ WF_vars(ReadMustRun)
    /\ WF_vars(Serve) /\ WF_vars(RunClosers) /\ WF_vars(Watcher) /\ WF_vars(Filter)

FairSpec == Spec /\ Fairness
-----------------------------------------------------------------------------
(* Properties *)

Running(t) == task[t].pc \in {"lock", "opening", "using"}

\* What was registered in the socket's closers after they had been run: installed
\* once, they are run once (runtime_init.go:69, websocket.go:192).
Escaped == inner.list # <<>> /\ Socket \notin ToSet(outer.list)

\* Once the filter is past its closers, no file of the script is open and none
\* will be (filter.go:129-130), though a call may still be on its way; nor is the
\* connection, unless it was made while the context ended and the closers ran
\* before they knew of it.
NothingOutlivesClosers ==
    handler \in {"tasks", "drained", "timedOut", "gone"} =>
        /\ \A s \in Streams : ~stream[s].held
        /\ conn = "open" => canceled /\ (serve = "add" \/ Escaped)

\* The tasks that the filter waits for are all there are: once it has found none
\* left, no call of the script runs any more or starts (runtime_state.go:24-27).
DrainedMeansOver ==
    handler = "drained" => \A t \in Tasks : ~Running(t)

\* A request whose context has ended leaves, whatever its script has open.
EndsWithContext == canceled ~> handler = "gone"

\* A request that has its result leaves without its context's end and without the
\* client's or the peer's help, whatever is being read, written or sent, and whoever
\* else closes it.  If it does not, an opening of a file lasts for ever, since the
\* backend hangs or the tokens are held, by this script or by other requests: only an
\* opening holds a stream's mutex against the closers (stream.go:134-141,
\* filter.go:129-130).
EndsWithResult ==
    <>[](result # "none" /\ handler # "gone") => \E t \in IOs : <>[](task[t].pc = "opening")

\* Every goroutine of the request ends after it (runtimeShutdownTimeout only
\* bounds the wait for them), unless the socket escaped its closers.
TasksEnd ==
    handler = "gone" ~>
        \/ Escaped
        \/ /\ \A t \in Tasks : task[t].pc \in {"new", "over"}
           /\ serve \in {"idle", "unused", "over"}
           /\ watcher = "over"
=============================================================================
