--------------------------- MODULE ResponseStream ---------------------------
(***************************************************************************)
(* A streamed response of a page script (pkg/filters/goja: http.stream)    *)
(* and the end of the script's runtime.  The script runs on an event loop; *)
(* each write, flush or ready runs in a goroutine of its own and settles   *)
(* its promise on the loop, while close runs on the loop and may block it. *)
(* Returning the response starts the goroutine that serves the stream: it  *)
(* sends what was written so far, then takes the operations one by one.    *)
(*                                                                         *)
(* The filter waits for a result, that of the served response or, 20 ms    *)
(* after the request's context has ended, that of the watcher goroutine,   *)
(* and then closes the stream, waits for the calls and stops the loop.     *)
(*                                                                         *)
(* One stream per request; it is the only closer.  The writer can flush.   *)
(***************************************************************************)
EXTENDS Integers, Sequences, FiniteSets

CONSTANTS NCalls,    \* bound on the calls of write, flush and ready
          Programs   \* which of them a script makes, in which order

ASSUME CallAssumption ==
    /\ NCalls \in Nat \ {0}
    /\ Programs \subseteq [1 .. NCalls -> {"write", "flush", "ready", "none"}]

Calls == 1 .. NCalls

\* state.close has three callers: the script, the context's watcher and the filter.
ByScript  == NCalls + 1
ByWatcher == NCalls + 2
ByFilter  == NCalls + 3
Closers   == {ByScript, ByWatcher, ByFilter}
Ops       == Calls \cup Closers
NoOp      == 0

VARIABLES
    op,        \* the calls, in the order the script makes them, and the closes
    started,   \* the fields of responseStreamState
    closed,
    pending,
    done,
    serve,     \* the goroutine that serves the stream
    sent,      \* the chunks that the client was sent: chunk k is that of call k
    returned,  \* the script's handler has returned its response, or thrown
    committed, \* the response has been written to: IsWrittenResponseWriter
    canceled,  \* the request's context has ended
    closing,   \* runtimeState.closing
    closersMu, \* who holds Closers.mu
    watcher,   \* the goroutine that waits for the context
    result,    \* resultCh
    handler    \* the filter, waiting for the result and then leaving

streamVars == <<started, closed, pending, done>>
endVars == <<canceled, closing, closersMu, watcher, result, handler>>
vars == <<op, streamVars, serve, sent, returned, committed, endVars>>

\* A call enters its function, sends (or is sent) an operation, is answered, and
\* its promise settles, or is dropped by a closing runtime.
OpPC == {"new", "enter", "send", "sent", "answered", "settled", "dropped"}
Kinds == {"write", "flush", "ready", "close", "none"}
\* answer is what waits in op.result, res what the call returns.
OpRecords == [pc : OpPC, kind : Kinds, answer : {"none", "ok", "err"},
              res : {"none", "ok", "err"}]
ServePC == {"idle", "spawned", "backlog", "loop", "serving", "ended"}
ServeRecords == [pc : ServePC, backlog : Seq(Calls), closed : BOOLEAN,
                 op : Ops \cup {NoOp}, res : {"none", "ok", "err"}]

TypeOK ==
    /\ op \in [Ops -> OpRecords]
    /\ <<started, closed, done>> \in BOOLEAN \X BOOLEAN \X BOOLEAN
    /\ pending \in Seq(Calls) /\ Len(pending) <= NCalls
    /\ serve \in ServeRecords /\ Len(serve.backlog) <= NCalls
    /\ sent \in Seq(Calls) /\ Len(sent) <= NCalls
    /\ <<returned, committed, canceled, closing>> \in BOOLEAN \X BOOLEAN \X BOOLEAN \X BOOLEAN
    /\ closersMu \in {NoOp, ByWatcher, ByFilter}
    /\ watcher \in {"wait", "lock", "close", "timer", "over"}
    /\ result \in {"none", "ok", "err"}
    /\ handler \in {"wait", "lock", "close", "tasks", "stop", "gone"}

NewOp(kind) == [pc |-> "new", kind |-> kind, answer |-> "none", res |-> "none"]

Init ==
    /\ \E program \in Programs :
           op = [o \in Ops |-> NewOp(IF o \in Calls THEN program[o] ELSE "close")]
    /\ started = FALSE /\ closed = FALSE /\ done = FALSE
    /\ pending = <<>>
    /\ serve = [pc |-> "idle", backlog |-> <<>>, closed |-> FALSE, op |-> NoOp, res |-> "none"]
    /\ sent = <<>>
    /\ returned = FALSE /\ committed = FALSE /\ canceled = FALSE /\ closing = FALSE
    /\ closersMu = NoOp
    /\ watcher = "wait" /\ result = "none" /\ handler = "wait"
-----------------------------------------------------------------------------
(* The script's event loop *)

LoopIsFree == op[ByScript].pc \notin {"send", "sent"} /\ handler # "gone"
IsNext(k) == op[k].pc = "new" /\ \A j \in Calls : j < k => op[j].pc # "new"

\* asyncValuePromise: a task of its own, unless the runtime is closing.
Call(k) ==
    /\ LoopIsFree
    /\ IsNext(k)
    /\ op[k].kind # "none"
    /\ op' = [op EXCEPT ![k].pc = IF closing THEN "settled" ELSE "enter",
                        ![k].res = IF closing THEN "err" ELSE "none"]
    /\ UNCHANGED <<streamVars, serve, sent, returned, committed, endVars>>

\* The task has its result: runOnLoop settles the promise, or does nothing in a
\* closing runtime.
Settle(k) ==
    /\ op[k].pc = "answered"
    /\ closing \/ LoopIsFree
    /\ op' = [op EXCEPT ![k] = IF closing THEN [NewOp(@.kind) EXCEPT !.pc = "dropped"]
                                ELSE [@ EXCEPT !.pc = "settled"]]
    /\ UNCHANGED <<streamVars, serve, sent, returned, committed, endVars>>

Once(err) == IF result = "none" THEN err ELSE result

\* Mutant: finish is called when the response is returned.
FinishesAtOnce == Once("ok")

\* A streamed response is served by a goroutine, which gives the result.
ResultOfReturn == result

ReturnStream ==
    /\ LoopIsFree
    /\ ~returned
    /\ returned' = TRUE
    /\ serve' = [serve EXCEPT !.pc = "spawned"]
    /\ result' = ResultOfReturn
    /\ UNCHANGED <<op, streamVars, sent, committed, canceled, closing, closersMu, watcher, handler>>

\* The script returns a plain response, written on the loop, or throws.
ReturnOther ==
    /\ LoopIsFree
    /\ ~returned
    /\ returned' = TRUE
    /\ \/ committed' = TRUE /\ result' = Once("ok")
       \/ committed' = committed /\ result' = Once("err")
    /\ UNCHANGED <<op, streamVars, serve, sent, canceled, closing, closersMu, watcher, handler>>
-----------------------------------------------------------------------------
(* The functions of responseStreamState *)

Answers(o, res) ==
    [op EXCEPT ![o] = [NewOp(@.kind) EXCEPT !.pc = "answered",
                                            !.res = IF o \in Calls THEN res ELSE "none"]]

\* write and flush, to where they unlock: refused when closed, kept or passed
\* over before the stream starts, sent to the serving goroutine afterwards.
Enter(k) ==
    /\ op[k].pc = "enter"
    /\ op[k].kind \in {"write", "flush"}
    /\ \/ /\ closed \/ (~started /\ committed)
          /\ op' = Answers(k, "err")
          /\ UNCHANGED pending
       \/ /\ ~closed /\ ~started /\ ~committed
          /\ op' = Answers(k, "ok")
          /\ pending' = IF op[k].kind = "write" THEN Append(pending, k) ELSE pending
       \/ /\ ~closed /\ started
          /\ op' = [op EXCEPT ![k].pc = "send"]
          /\ UNCHANGED pending
    /\ UNCHANGED <<started, closed, done, serve, sent, returned, committed, endVars>>

\* ready polls until the stream has started or cannot any more.
Ready(k) ==
    /\ op[k].pc = "enter"
    /\ op[k].kind = "ready"
    /\ \/ started /\ op' = Answers(k, "ok")
       \/ ~started /\ (committed \/ closed \/ canceled) /\ op' = Answers(k, "err")
    /\ UNCHANGED <<streamVars, serve, sent, returned, committed, endVars>>

\* close, to where it unlocks.
EnterClose(o) ==
    /\ closed' = TRUE
    /\ op' = IF ~closed /\ started THEN [op EXCEPT ![o].pc = "send"] ELSE Answers(o, "ok")
    /\ UNCHANGED <<started, pending, done>>

\* send meets the serving goroutine at the queue, ...
HandOver(o) ==
    /\ op[o].pc = "send"
    /\ serve.pc = "loop"
    /\ op' = [op EXCEPT ![o].pc = "sent"]
    /\ serve' = [serve EXCEPT !.pc = "serving", !.op = o]
    /\ UNCHANGED <<streamVars, sent, returned, committed, endVars>>

StopsSending == canceled \/ done

\* ... gets its answer, or gives up on either wait, at whichever it sees.
Receive(o) ==
    /\ op[o].pc = "sent"
    /\ op[o].answer # "none"
    /\ op' = Answers(o, op[o].answer)
    /\ UNCHANGED <<streamVars, serve, sent, returned, committed, endVars>>

GiveUp(o) ==
    /\ op[o].pc \in {"send", "sent"}
    /\ StopsSending
    /\ op' = Answers(o, "err")
    /\ UNCHANGED <<streamVars, serve, sent, returned, committed, endVars>>

CloseByScript ==
    /\ LoopIsFree
    /\ op[ByScript].pc = "new"
    /\ EnterClose(ByScript)
    /\ UNCHANGED <<serve, sent, returned, committed, endVars>>
-----------------------------------------------------------------------------
(* serve *)

\* serve returns: the deferred finish closes done, and its error is the result.
\* What it had in hand when it failed is kept for the reader of this model.
Ends(res) ==
    /\ serve' = [serve EXCEPT !.pc = "ended", !.res = res,
                              !.op = IF res = "ok" THEN NoOp ELSE @]
    /\ done' = TRUE
    /\ result' = Once(res)

\* Mutant: a close before the start is not looked at.
ForgetsClose == FALSE

ClosedAtStart == closed

\* Mutant: what was written before the start is sent from its end.
FromTheEnd(chunks) == [i \in DOMAIN chunks |-> chunks[Len(chunks) + 1 - i]]

\* What serve takes over of the chunks written before.
Backlog(chunks) == chunks

\* serve's critical section; the response may have been written to by then, if
\* the handler is gone and the server has reported the context's error.
ServeStarts ==
    /\ serve.pc = "spawned"
    /\ \/ /\ committed
          /\ serve' = [serve EXCEPT !.pc = "ended", !.res = "err"]
          /\ result' = Once("err")
          /\ UNCHANGED <<started, pending, committed>>
       \/ /\ ~committed
          /\ started' = TRUE
          /\ committed' = TRUE
          /\ serve' = [serve EXCEPT !.pc = "backlog", !.backlog = Backlog(pending),
                                    !.closed = ClosedAtStart]
          /\ pending' = <<>>
          /\ UNCHANGED result
    /\ UNCHANGED <<op, closed, done, sent, returned, canceled, closing, closersMu, watcher, handler>>

\* A flush, then the chunks written before the start, each written and flushed; the
\* client may be gone.
ServeBacklog ==
    /\ serve.pc = "backlog"
    /\ \/ /\ serve.backlog # <<>>
          /\ sent' = Append(sent, Head(serve.backlog))
          /\ serve' = [serve EXCEPT !.backlog = Tail(@)]
          /\ UNCHANGED <<done, result>>
       \/ /\ Ends("err")
          /\ UNCHANGED sent
    /\ UNCHANGED <<op, started, closed, pending, returned, committed,
                   canceled, closing, closersMu, watcher, handler>>

\* The backlog is sent: the stream was closed before it started, or goes on.
BacklogSent ==
    /\ serve.pc = "backlog"
    /\ serve.backlog = <<>>
    /\ IF serve.closed
       THEN Ends("ok")
       ELSE /\ serve' = [serve EXCEPT !.pc = "loop"]
            /\ UNCHANGED <<done, result>>
    /\ UNCHANGED <<op, started, closed, pending, sent, returned, committed,
                   canceled, closing, closersMu, watcher, handler>>

\* An operation of the queue is carried out and answered; serve goes on after a
\* flush that failed.
ServeOp ==
    LET o == serve.op
        Answer(res) == op' = IF op[o].pc = "sent" THEN [op EXCEPT ![o].answer = res] ELSE op
    IN
    /\ serve.pc = "serving"
    /\ \/ /\ op[o].kind # "close"
          /\ Answer("ok")
          /\ sent' = IF op[o].kind = "write" THEN Append(sent, o) ELSE sent
          /\ serve' = [serve EXCEPT !.pc = "loop", !.op = NoOp]
          /\ UNCHANGED <<done, result>>
       \/ /\ op[o].kind = "flush"
          /\ Answer("err")
          /\ serve' = [serve EXCEPT !.pc = "loop", !.op = NoOp]
          /\ UNCHANGED <<sent, done, result>>
       \/ /\ op[o].kind = "write"
          /\ Answer("err")
          /\ Ends("err")
          /\ UNCHANGED sent
       \/ /\ op[o].kind = "close"
          /\ Answer("ok")
          /\ Ends("ok")
          /\ UNCHANGED sent
    /\ UNCHANGED <<started, closed, pending, returned, committed,
                   canceled, closing, closersMu, watcher, handler>>

ServeCanceled ==
    /\ serve.pc = "loop"
    /\ canceled
    /\ Ends("err")
    /\ UNCHANGED <<op, started, closed, pending, sent, returned, committed,
                   canceled, closing, closersMu, watcher, handler>>
-----------------------------------------------------------------------------
(* The request's end *)

\* The client leaves or an update kills the request; once the handler is gone the
\* context ends as well, which changes nothing any more.
Cancel ==
    /\ ~canceled
    /\ handler # "gone"
    /\ canceled' = TRUE
    /\ UNCHANGED <<op, streamVars, serve, sent, returned, committed,
                   closing, closersMu, watcher, result, handler>>

\* Closers.Close by o, the watcher or the filter, whose place is pc: lock, close
\* the stream unless the other one has, unlock.
LockClosers(o, pc) ==
    /\ pc = "lock"
    /\ closersMu = NoOp
    /\ closersMu' = o
    /\ IF \E c \in {ByWatcher, ByFilter} : op[c].pc # "new"
       THEN UNCHANGED <<op, streamVars>>
       ELSE EnterClose(o)

UnlockClosers(o, pc) ==
    /\ pc = "close"
    /\ op[o].pc \in {"new", "answered"}
    /\ closersMu' = NoOp

WatcherWakes ==
    /\ watcher = "wait"
    /\ canceled
    /\ closing' = TRUE
    /\ watcher' = "lock"
    /\ UNCHANGED <<op, streamVars, serve, sent, returned, committed,
                   canceled, closersMu, result, handler>>

WatcherLocks ==
    /\ LockClosers(ByWatcher, watcher)
    /\ watcher' = "close"
    /\ UNCHANGED <<serve, sent, returned, committed, canceled, closing, result, handler>>

WatcherUnlocks ==
    /\ UnlockClosers(ByWatcher, watcher)
    /\ watcher' = "timer"
    /\ UNCHANGED <<op, streamVars, serve, sent, returned, committed,
                   canceled, closing, result, handler>>

\* 20 ms later.
WatcherFinishes ==
    /\ watcher = "timer"
    /\ watcher' = "over"
    /\ result' = Once("err")
    /\ UNCHANGED <<op, streamVars, serve, sent, returned, committed,
                   canceled, closing, closersMu, handler>>

FilterWakes ==
    /\ handler = "wait"
    /\ result # "none"
    /\ closing' = TRUE
    /\ handler' = "lock"
    /\ UNCHANGED <<op, streamVars, serve, sent, returned, committed,
                   canceled, closersMu, watcher, result>>

FilterLocks ==
    /\ LockClosers(ByFilter, handler)
    /\ handler' = "close"
    /\ UNCHANGED <<serve, sent, returned, committed, canceled, closing, watcher, result>>

FilterUnlocks ==
    /\ UnlockClosers(ByFilter, handler)
    /\ handler' = "tasks"
    /\ UNCHANGED <<op, streamVars, serve, sent, returned, committed,
                   canceled, closing, watcher, result>>

\* runtimeState.wait, without its timeout: none of these calls needs it.
TasksDone ==
    /\ handler = "tasks"
    /\ \A k \in Calls : op[k].pc \in {"new", "settled", "dropped"}
    /\ handler' = "stop"
    /\ UNCHANGED <<op, streamVars, serve, sent, returned, committed,
                   canceled, closing, closersMu, watcher, result>>

\* jsLoop.Stop waits for the job on the loop, and the handler returns; an error
\* is reported if nothing has been written.
LoopStops ==
    /\ handler = "stop"
    /\ LoopIsFree
    /\ handler' = "gone"
    /\ committed' = (committed \/ result = "err")
    /\ UNCHANGED <<op, streamVars, serve, sent, returned,
                   canceled, closing, closersMu, watcher, result>>
-----------------------------------------------------------------------------
Function(o) ==
    IF o \in Calls
    THEN Enter(o) \/ Ready(o) \/ HandOver(o) \/ Receive(o) \/ GiveUp(o) \/ Settle(o)
    ELSE HandOver(o) \/ Receive(o) \/ GiveUp(o)
Script ==
    \/ \E k \in Calls : Call(k)
    \/ CloseByScript \/ ReturnStream \/ ReturnOther
Serve == ServeStarts \/ ServeBacklog \/ BacklogSent \/ ServeOp \/ ServeCanceled
Watcher == WatcherWakes \/ WatcherLocks \/ WatcherUnlocks \/ WatcherFinishes
Filter == FilterWakes \/ FilterLocks \/ FilterUnlocks \/ TasksDone \/ LoopStops

Next == (\E o \in Ops : Function(o)) \/ Script \/ Serve \/ Watcher \/ Filter \/ Cancel

Spec == Init /\ [][Next]_vars

\* Goroutines run and the loop settles what was posted to it.  Nothing is assumed
\* of the script, nor that the client takes what it is sent (no write timeout).
Fairness ==
    /\ \A o \in Ops : WF_vars(Function(o))
    /\ WF_vars(ServeStarts) /\ WF_vars(BacklogSent) /\ WF_vars(ServeCanceled)
    /\ WF_vars(Watcher) /\ WF_vars(Filter)

FairSpec == Spec /\ Fairness
-----------------------------------------------------------------------------
(* Properties *)

InHand == IF serve.op \in Calls /\ op[serve.op].kind = "write" THEN <<serve.op>> ELSE <<>>

Pipe == INSTANCE OrderedPipe WITH
    Chunks <- Calls,
    accepted <- sent \o InHand \o serve.backlog \o pending,
    delivered <- sent,
    acked <- {k \in Calls : /\ op[k].kind = "write"
                            /\ op[k].pc = "settled" /\ op[k].res = "ok"},
    state <- IF serve.pc # "ended" \/ ~started THEN "open"
             ELSE IF serve.res = "ok" THEN "over" ELSE "broken"

\* A write that resolved is on the wire, or on its way in the order of
\* acceptance, and a response that ends well has sent it (response_stream.go:103,
\* :204): the hand-over at the start loses and reorders nothing.  So a script that
\* awaits a write before the next has them sent in that order.
IsOrderedPipe == Pipe!Spec

\* The response writer is not used once the handler has returned, unless the
\* context's end cut the response short (filter.go:143-152, :176-181).
WriterIsReleased == handler = "gone" /\ ~canceled => serve.pc \in {"idle", "ended"}

\* close, which blocks the event loop that runProgram waits for, ends a started
\* stream, or the client does not take what it is sent; and a request whose
\* context has ended leaves whatever script and client do, without the two
\* seconds of runtimeShutdownTimeout (response_stream.go:147-170, filter.go:131).
CloseEndsStream ==
    /\ [](closed /\ started => <>(done \/ <>[](serve.pc \in {"backlog", "serving"})))
    /\ canceled ~> handler = "gone"
=============================================================================
