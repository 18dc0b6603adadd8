----------------------------- MODULE EventStream -----------------------------
(***************************************************************************)
(* The event API of a page script (pkg/filters/goja/host_globals.go), for  *)
(* one key of one request: event.load(key) waits for the next broadcast.   *)
(* The first load subscribes and starts a supervisor goroutine, which      *)
(* hands each event to the oldest waiting load or keeps it, up to a limit, *)
(* for a later one, and subscribes again when the broker ends the          *)
(* subscription.                                                           *)
(*                                                                         *)
(* Three parties interleave: the script's event loop, where load runs and  *)
(* promises settle; the supervisors; and the request, whose runtime is     *)
(* closing (runtime_state.go) from the moment its handler is done.         *)
(***************************************************************************)
EXTENDS Integers, Sequences, FiniteSets

CONSTANTS Streams,    \* the eventStream objects that may be made
          NLoads,     \* bound on the calls of load, numbered in their order
          MaxEvents,  \* bound on the events published under the key
          Limit,      \* bound of pending
          None        \* no stream

ASSUME StreamAssumption ==
    /\ NLoads \in Nat
    /\ MaxEvents \in Nat
    /\ Limit \in Nat \ {0}
    /\ None \notin Streams

VARIABLES
    published,   \* events published so far: event n is the n-th
    registered,  \* streams[key]
    stream,      \* the streams, each with its subscription and supervisor
    load,        \* the calls of load
    closing,     \* runtimeState.closing
    ctxDone      \* the request's context has ended

vars == <<published, registered, stream, load, closing, ctxDone>>

Loads == 1 .. NLoads
Events == 1 .. MaxEvents
Ends == {"open", "overflow", "canceled"}
SupervisorPC == {"free", "check", "peek", "select", "retry", "exit", "gone"}

\* pending, waiters, overflow and closed are the fields of eventStream, events
\* and ended belong to its subscription (subscribed: it has one).  History: the
\* events published before the stream, the last event that found pending full,
\* whether the stream subscribed again.
StreamRecords ==
    [pc : SupervisorPC, pending : Seq(Events), waiters : Seq(Loads), overflow : BOOLEAN,
     closed : Ends, subscribed : BOOLEAN, events : Seq(Events), ended : BOOLEAN,
     first : 0 .. MaxEvents, dropped : 0 .. MaxEvents, again : BOOLEAN]

\* A load "waits" in a goroutine of its own and is "dropped" if the runtime
\* closes before its promise settles.  event and err are what waits in its
\* channel or what the promise settled to.
LoadPC == {"new", "await", "start", "wait", "settled", "dropped"}
LoadErrs == {"none", "overflow", "canceled", "closing", "subscribe"}
LoadRecords == [pc : LoadPC, stream : Streams \cup {None}, event : 0 .. MaxEvents, err : LoadErrs]

TypeOK ==
    /\ published \in 0 .. MaxEvents
    /\ registered \in Streams \cup {None}
    /\ stream \in [Streams -> StreamRecords]
    /\ \A s \in Streams : Len(stream[s].pending) <= Limit
    /\ load \in [Loads -> LoadRecords]
    /\ closing \in BOOLEAN
    /\ ctxDone \in BOOLEAN

NoStream == [pc |-> "free", pending |-> <<>>, waiters |-> <<>>, overflow |-> FALSE,
             closed |-> "open", subscribed |-> FALSE, events |-> <<>>, ended |-> FALSE,
             first |-> 0, dropped |-> 0, again |-> FALSE]
NewLoad == [pc |-> "new", stream |-> None, event |-> 0, err |-> "none"]

Init ==
    /\ published = 0
    /\ registered = None
    /\ stream = [s \in Streams |-> NoStream]
    /\ load = [l \in Loads |-> NewLoad]
    /\ closing = FALSE
    /\ ctxDone = FALSE

Answered(l) == load[l].event # 0 \/ load[l].err # "none"
-----------------------------------------------------------------------------
(* The event loop: load, one call after the other *)

LoopIsFree == \A l \in Loads : load[l].pc \notin {"await", "start"}
IsNext(l) == load[l].pc = "new" /\ \A k \in Loads : k < l => load[k].pc # "new"

Settled(l, event, err) ==
    [load EXCEPT ![l].pc = "settled", ![l].event = event, ![l].err = err]

HasOpenStream == IF registered = None THEN FALSE ELSE stream[registered].closed = "open"

\* ensureStream, under streamsMu: the registered stream if it is open, or a new
\* one with a subscription and a supervisor; a closed one is dropped.
Load(l) ==
    /\ LoopIsFree
    /\ IsNext(l)
    /\ IF HasOpenStream
       THEN /\ load' = [load EXCEPT ![l].pc = "await", ![l].stream = registered]
            /\ UNCHANGED <<registered, stream>>
       ELSE \/ \E s \in Streams :
                  /\ stream[s].pc = "free"
                  /\ registered' = s
                  /\ stream' = [stream EXCEPT ![s] = [NoStream EXCEPT
                                   !.pc = "check", !.subscribed = TRUE, !.first = published]]
                  /\ load' = [load EXCEPT ![l].pc = "await", ![l].stream = s]
            \/ /\ registered' = None
               /\ load' = Settled(l, 0, "subscribe")
               /\ UNCHANGED stream
    /\ UNCHANGED <<published, closing, ctxDone>>

\* Mutant: the waiters are taken off the list and left alone.
ToldNothing(waiters, err) == load

\* The waiters of a stream that finishes are told so.
Told(waiters, err) ==
    [l \in Loads |-> IF \E i \in DOMAIN waiters : waiters[i] = l
                     THEN [load[l] EXCEPT !.err = err] ELSE load[l]]

\* finish: the first end counts.
Finish(s, err) ==
    IF stream[s].closed # "open" THEN stream[s]
    ELSE [stream[s] EXCEPT !.closed = err, !.pending = <<>>, !.waiters = <<>>]

\* await: an event that is kept, then the overflow, which ends the stream (no
\* load waits beside one), then the end; else the load waits its turn.
Await(l) ==
    LET s == load[l].stream
        x == stream[s]
    IN
    /\ load[l].pc = "await"
    /\ \/ /\ x.pending # <<>>
          /\ stream' = [stream EXCEPT ![s].pending = Tail(@)]
          /\ load' = Settled(l, Head(x.pending), "none")
       \/ /\ x.pending = <<>> /\ x.overflow
          /\ stream' = [stream EXCEPT ![s] = [Finish(s, "overflow") EXCEPT !.overflow = FALSE]]
          /\ load' = Settled(l, 0, "overflow")
       \/ /\ x.pending = <<>> /\ ~x.overflow /\ x.closed # "open"
          /\ load' = Settled(l, 0, x.closed)
          /\ UNCHANGED stream
       \/ /\ x.pending = <<>> /\ ~x.overflow /\ x.closed = "open"
          /\ stream' = [stream EXCEPT ![s].waiters = Append(@, l)]
          /\ load' = [load EXCEPT ![l].pc = "start"]
    /\ UNCHANGED <<published, registered, closing, ctxDone>>

Without(waiters, i) == SubSeq(waiters, 1, i - 1) \o SubSeq(waiters, i + 1, Len(waiters))

\* The load's channel is looked for; it is listed once, if it still is.
TakenBack(waiters, l) ==
    LET at == {i \in DOMAIN waiters : waiters[i] = l} IN
    IF at = {} THEN waiters ELSE Without(waiters, CHOOSE i \in at : TRUE)

\* startTask.  A closing runtime takes the waiter back and rejects, whatever
\* the waiter has been handed meanwhile.
StartTask(l) ==
    LET s == load[l].stream IN
    /\ load[l].pc = "start"
    /\ IF closing
       THEN /\ stream' = [stream EXCEPT ![s].waiters = TakenBack(@, l)]
            /\ load' = Settled(l, 0, "closing")
       ELSE /\ load' = [load EXCEPT ![l].pc = "wait"]
            /\ UNCHANGED stream
    /\ UNCHANGED <<published, registered, closing, ctxDone>>

\* The load's goroutine has its result: runOnLoop settles the promise, or does
\* nothing in a closing runtime.  Either way the task is finished.
Settle(l) ==
    /\ load[l].pc = "wait"
    /\ Answered(l)
    /\ closing \/ LoopIsFree
    /\ load' = [load EXCEPT ![l].pc = IF closing THEN "dropped" ELSE "settled"]
    /\ UNCHANGED <<published, registered, stream, closing, ctxDone>>
-----------------------------------------------------------------------------
(* superviseEventStream and consumeEventSubscription *)

Moves(s, to) == stream' = [stream EXCEPT ![s].pc = to]

\* finish with the context's error; the supervisor's exit closes the subscription.
FinishCanceled(s) ==
    /\ stream' = [stream EXCEPT ![s] = [Finish(s, "canceled") EXCEPT
                                           !.pc = "exit", !.subscribed = FALSE, !.events = <<>>]]
    /\ load' = IF stream[s].closed = "open" THEN Told(stream[s].waiters, "canceled") ELSE load

\* The top of the supervisor's loop: end, cancelled, or subscribe if need be.
Check(s) ==
    LET x == stream[s] IN
    /\ x.pc = "check"
    /\ \/ /\ x.closed # "open"
          /\ stream' = [stream EXCEPT ![s].pc = "exit", ![s].subscribed = FALSE,
                                      ![s].events = <<>>]
          /\ UNCHANGED load
       \/ /\ x.closed = "open" /\ ctxDone
          /\ FinishCanceled(s)
       \/ /\ x.closed = "open" /\ ~ctxDone /\ x.subscribed
          /\ Moves(s, "peek")
          /\ UNCHANGED load
       \/ /\ x.closed = "open" /\ ~ctxDone /\ ~x.subscribed
          /\ \/ Moves(s, "retry")
             \/ stream' = [stream EXCEPT ![s].pc = "peek", ![s].subscribed = TRUE,
                                         ![s].again = TRUE]
          /\ UNCHANGED load
    /\ UNCHANGED <<published, registered, closing, ctxDone>>

\* The top of the loop over the subscription.
Peek(s) ==
    /\ stream[s].pc = "peek"
    /\ IF stream[s].closed = "open"
       THEN Moves(s, "select")
       ELSE stream' = [stream EXCEPT ![s].pc = "exit", ![s].subscribed = FALSE,
                                     ![s].events = <<>>]
    /\ UNCHANGED <<published, registered, load, closing, ctxDone>>

\* Mutants: an event is kept although a load waits; the newest waiter is served.
FillsPendingFirst(s) == stream[s].waiters # <<>> /\ Len(stream[s].pending) >= Limit
ServesNewest(waiters) == Len(waiters)

HandsOver(s) == stream[s].waiters # <<>>
Served(waiters) == 1
HasRoom(s) == Len(stream[s].pending) < Limit

\* select takes an event, and push hands it over, keeps it, or notes the overflow.
TakeEvent(s) ==
    LET x == stream[s]
        e == Head(x.events)
        taken == [x EXCEPT !.pc = "peek", !.events = Tail(@)]
    IN
    /\ x.pc = "select"
    /\ x.events # <<>>
    /\ \/ /\ x.closed # "open"
          /\ stream' = [stream EXCEPT ![s] = taken]
          /\ UNCHANGED load
       \/ /\ x.closed = "open" /\ HandsOver(s)
          /\ LET i == Served(x.waiters) IN
                /\ stream' = [stream EXCEPT ![s] = [taken EXCEPT !.waiters = Without(@, i)]]
                /\ load' = [load EXCEPT ![x.waiters[i]].event = e]
       \/ /\ x.closed = "open" /\ ~HandsOver(s)
          /\ stream' = [stream EXCEPT ![s] =
                 IF HasRoom(s) THEN [taken EXCEPT !.pending = Append(@, e)]
                 ELSE [taken EXCEPT !.overflow = TRUE, !.dropped = e]]
          /\ UNCHANGED load
    /\ UNCHANGED <<published, registered, closing, ctxDone>>

\* select finds a channel closed or an error: what still waits in the
\* subscription is lost with it.
SubscriptionEnds(s) ==
    /\ stream[s].pc = "select"
    /\ stream[s].ended
    /\ stream' = [stream EXCEPT ![s].pc = "retry", ![s].subscribed = FALSE,
                                ![s].events = <<>>, ![s].ended = FALSE]
    /\ UNCHANGED <<published, registered, load, closing, ctxDone>>

\* waitEventRetry, and the other places where the context's end is noticed.
Retry(s) ==
    /\ stream[s].pc = "retry"
    /\ Moves(s, "check")
    /\ UNCHANGED <<published, registered, load, closing, ctxDone>>

NoticeDone(s) ==
    /\ stream[s].pc \in {"select", "retry"}
    /\ ctxDone
    /\ FinishCanceled(s)
    /\ UNCHANGED <<published, registered, closing, ctxDone>>

\* Mutant: the key is deleted whoever has it.
DeletesAny(s) == None

\* The deferred delete leaves a newer stream alone.
EntryAfter(s) == IF registered = s THEN None ELSE registered

Unregister(s) ==
    /\ stream[s].pc = "exit"
    /\ registered' = EntryAfter(s)
    /\ Moves(s, "gone")
    /\ UNCHANGED <<published, load, closing, ctxDone>>
-----------------------------------------------------------------------------
(* The request and the broker *)

\* The handler is done, or its context: beginClosing.
BeginClosing ==
    /\ ~closing
    /\ closing' = TRUE
    /\ UNCHANGED <<published, registered, stream, load, ctxDone>>

\* The client leaves, an update kills the request, or it has been answered.
Cancel ==
    /\ ~ctxDone
    /\ ctxDone' = TRUE
    /\ UNCHANGED <<published, registered, stream, load, closing>>

Publish ==
    /\ published < MaxEvents
    /\ published' = published + 1
    /\ stream' = [s \in Streams |->
                     IF stream[s].subscribed /\ ~stream[s].ended
                     THEN [stream[s] EXCEPT !.events = Append(@, published + 1)]
                     ELSE stream[s]]
    /\ UNCHANGED <<registered, load, closing, ctxDone>>

BrokerEnds(s) ==
    /\ stream[s].subscribed
    /\ ~stream[s].ended
    /\ stream' = [stream EXCEPT ![s].ended = TRUE]
    /\ UNCHANGED <<published, registered, load, closing, ctxDone>>
-----------------------------------------------------------------------------
Script(l) == Load(l) \/ Await(l) \/ StartTask(l) \/ Settle(l)

Supervise(s) == \/ Check(s) \/ Peek(s) \/ TakeEvent(s) \/ SubscriptionEnds(s)
                \/ Retry(s) \/ NoticeDone(s) \/ Unregister(s)

Next == \/ \E l \in Loads : Script(l)
        \/ \E s \in Streams : Supervise(s) \/ BrokerEnds(s)
        \/ BeginClosing \/ Cancel \/ Publish

Spec == Init /\ [][Next]_vars

\* Goroutines run, the loop ends the call it is in, and net/http cancels the
\* context of a request once its handler has returned, which a closing runtime
\* does after two seconds at the latest (runtimeShutdownTimeout).
Fairness ==
    /\ \A s \in Streams : WF_vars(Supervise(s))
    /\ \A l \in Loads : WF_vars(Await(l)) /\ WF_vars(StartTask(l)) /\ WF_vars(Settle(l))
    /\ WF_vars(closing /\ Cancel)

FairSpec == Spec /\ Fairness
-----------------------------------------------------------------------------
(* Properties *)

IsOpen(s) == stream[s].pc # "free" /\ stream[s].closed = "open"

\* A request has one open stream per key, the one registered under it: the exit
\* of an old supervisor does not forget a newer stream (host_globals.go:277-283).
OneOpenStream == \A s \in Streams : IsOpen(s) => registered = s

\* The loads that got an event of stream s.
Got(s) == {l \in Loads : load[l].stream = s /\ load[l].event # 0}

\* Stream s has kept its first subscription and all of its events.
Undisturbed(s) ==
    /\ IsOpen(s) /\ stream[s].subscribed /\ ~stream[s].ended
    /\ stream[s].dropped = 0 /\ ~stream[s].again /\ ~closing

\* What loads make of a stream: its events in order, each once and, until the
\* stream overflows or subscribes again, none left out.  Up to some event n, each
\* since the stream began was got by one load, a later one by a later load; the
\* events after n are those kept, then those in the subscription
\* (host_globals.go:252).
NoBroadcastLost ==
    \A s \in Streams : Undisturbed(s) =>
        \E n \in stream[s].first .. published :
            /\ {load[l].event : l \in Got(s)} = stream[s].first + 1 .. n
            /\ \A k, l \in Got(s) : k < l => load[k].event < load[l].event
            /\ stream[s].pending \o stream[s].events = [i \in 1 .. published - n |-> n + i]

\* No load waits beside an event that is kept for it, and none waits in a stream
\* that has ended: the wakeup between await and push is not lost.
NobodyWaitsInVain ==
    /\ \A s \in Streams : stream[s].waiters # <<>> =>
           stream[s].pending = <<>> /\ ~stream[s].overflow /\ stream[s].closed = "open"
    /\ \A l \in Loads : load[l].pc = "wait" /\ ~Answered(l) =>
           \E i \in DOMAIN stream[load[l].stream].waiters :
               stream[load[l].stream].waiters[i] = l

\* When the runtime closes, every load still waiting ends its task, so that the
\* goroutines of a request end with it.
TasksEnd == \A l \in Loads : closing ~> load[l].pc # "wait"
=============================================================================
