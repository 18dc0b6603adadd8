------------------------- MODULE ResponseStreamProofs -------------------------
(***************************************************************************)
(* A streamed response implements an ordered pipe, and its writer is not   *)
(* used once the handler has returned, for every number of calls and every *)
(* script.  The chunks on their way form one line: those sent, the one in  *)
(* the hands of the serving goroutine, those it has taken over at the      *)
(* start and those still pending.  Every step leaves the line as it is or  *)
(* puts a chunk that is not in it at its end.                              *)
(***************************************************************************)
EXTENDS ResponseStream, SequenceTheorems, FiniteSetTheorems, TLAPS

\* The chunks taken, in their order.
Line == sent \o InHand \o serve.backlog \o pending
InLine(k) == \E i \in DOMAIN Line : Line[i] = k

Distinct(s) == \A i, j \in DOMAIN s : s[i] = s[j] => i = j

\* TypeOK but for the lengths, which follow from the chunks' being distinct.
Types ==
    /\ op \in [Ops -> OpRecords]
    /\ <<started, closed, done>> \in BOOLEAN \X BOOLEAN \X BOOLEAN
    /\ pending \in Seq(Calls)
    /\ serve \in ServeRecords
    /\ sent \in Seq(Calls)
    /\ <<returned, committed, canceled, closing>> \in BOOLEAN \X BOOLEAN \X BOOLEAN \X BOOLEAN
    /\ closersMu \in {NoOp, ByWatcher, ByFilter}
    /\ watcher \in {"wait", "lock", "close", "timer", "over"}
    /\ result \in {"none", "ok", "err"}
    /\ handler \in {"wait", "lock", "close", "tasks", "stop", "gone"}

ClosersClose == \A o \in Closers : op[o].kind = "close"

\* The stations of the serving goroutine.
ServeLife ==
    /\ serve.pc # "idle" => returned
    /\ serve.pc \in {"idle", "spawned"} => ~started
    /\ serve.pc \in {"backlog", "loop", "serving"} => started
    /\ serve.pc \notin {"backlog", "ended"} => serve.backlog = <<>>
    /\ serve.pc \notin {"serving", "ended"} => serve.op = NoOp
    /\ serve.pc = "serving" => serve.op \in Ops
    /\ started => pending = <<>>

\* A chunk in the line is there once, and its call is past the queue; a call is
\* told of success only if its chunk is in the line.
Past == {"sent", "answered", "settled", "dropped"}
Vouched(x) == x.kind = "write" /\ (x.answer = "ok" \/ x.res = "ok")

LineLife ==
    /\ Distinct(Line)
    /\ \A k \in Calls : InLine(k) => op[k].pc \in Past
    /\ \A k \in Calls : Vouched(op[k]) => InLine(k)

\* There is a result once serve has ended or nothing is served, or the context has.
ResultLife ==
    /\ watcher # "wait" => canceled
    /\ handler # "wait" => result # "none"
    /\ result # "none" => canceled \/ (returned /\ serve.pc \in {"idle", "ended"})

IInv == Types /\ ClosersClose /\ ServeLife /\ LineLife /\ ResultLife
-----------------------------------------------------------------------------
(* Sequences *)

LEMMA ConcatAppend ==
    ASSUME NEW S, NEW a \in Seq(S), NEW b \in Seq(S), NEW x \in S
    PROVE  a \o Append(b, x) = Append(a \o b, x)
<1>1. Append(b, x) = b \o <<x>> /\ a \o b \in Seq(S) /\ <<x>> \in Seq(S)
    BY AppendIsConcat, ConcatProperties
<1>2. Append(a \o b, x) = (a \o b) \o <<x>>
    BY <1>1, AppendIsConcat
<1> QED
    BY <1>1, <1>2, ConcatAssociative

LEMMA HeadMoves ==
    ASSUME NEW S, NEW a \in Seq(S), NEW b \in Seq(S), b # <<>>
    PROVE  Append(a, Head(b)) \o Tail(b) = a \o b
<1>1. Head(b) \in S /\ Tail(b) \in Seq(S)
    BY HeadTailProperties
<1>2. Append(a, Head(b)) = a \o <<Head(b)>> /\ <<Head(b)>> \in Seq(S)
    BY <1>1, AppendIsConcat
<1>3. <<Head(b)>> \o Tail(b) = b
  <2> DEFINE t == <<Head(b)>> \o Tail(b)
  <2>1. t \in Seq(S) /\ Len(t) = Len(b)
    BY <1>1, <1>2, HeadTailProperties, ConcatProperties, LenProperties
  <2>2. \A i \in 1 .. Len(b) : t[i] = b[i]
    BY <1>1, <1>2, HeadTailProperties, ConcatProperties, LenProperties
  <2> QED
    BY <2>1, <2>2, SeqEqual
<1> QED
    BY <1>1, <1>2, <1>3, ConcatAssociative

\* What a sequence holds when an element has been put at its end.
LEMMA AppendHolds ==
    ASSUME NEW S, NEW s \in Seq(S), NEW x \in S, NEW y
    PROVE  (\E i \in DOMAIN Append(s, x) : Append(s, x)[i] = y)
               <=> (y = x \/ \E i \in DOMAIN s : s[i] = y)
<1>1. /\ DOMAIN Append(s, x) = 1 .. Len(s) + 1 /\ DOMAIN s = 1 .. Len(s) /\ Len(s) \in Nat
      /\ \A i \in 1 .. Len(s) : Append(s, x)[i] = s[i]
      /\ Append(s, x)[Len(s) + 1] = x
    BY AppendProperties, LenProperties
<1> QED
    BY <1>1

LEMMA AppendDistinct ==
    ASSUME NEW S, NEW s \in Seq(S), NEW x \in S,
           Distinct(s), \A i \in DOMAIN s : s[i] # x
    PROVE  Distinct(Append(s, x))
<1>1. /\ DOMAIN Append(s, x) = 1 .. Len(s) + 1 /\ DOMAIN s = 1 .. Len(s) /\ Len(s) \in Nat
      /\ \A i \in 1 .. Len(s) : Append(s, x)[i] = s[i]
      /\ Append(s, x)[Len(s) + 1] = x
    BY AppendProperties, LenProperties
<1> QED
    BY <1>1 DEF Distinct

\* Distinct numbers up to N are N at most.
LEMMA DistinctIsShort ==
    ASSUME NEW N \in Nat, NEW s \in Seq(1 .. N), Distinct(s)
    PROVE  Len(s) <= N
<1>1. Len(s) \in Nat /\ s \in [1 .. Len(s) -> 1 .. N]
    BY LenProperties
<1>2. IsFiniteSet(1 .. N) /\ Cardinality(1 .. N) = N
      /\ IsFiniteSet(1 .. Len(s)) /\ Cardinality(1 .. Len(s)) = Len(s)
  <2>1. \A n \in Nat : IsFiniteSet(1 .. n) /\ Cardinality(1 .. n) = n
    <3>1. ASSUME NEW n \in Nat PROVE Cardinality(1 .. n) = (IF 1 <= n THEN n - 1 + 1 ELSE 0)
      BY FS_Interval
    <3> QED
      BY <3>1, FS_Interval
  <2> QED
    BY <1>1, <2>1
<1>3. s \in Injection(1 .. Len(s), 1 .. N)
    BY <1>1 DEF Distinct, Injection, IsInjective
<1> QED
    BY <1>2, <1>3, FS_Injection
-----------------------------------------------------------------------------
(* The records of the calls *)

LEMMA OpTypes ==
    ASSUME NEW x \in OpRecords
    PROVE  /\ x.pc \in OpPC /\ x.kind \in Kinds
           /\ x.answer \in {"none", "ok", "err"} /\ x.res \in {"none", "ok", "err"}
    BY DEF OpRecords

\* What a step may make of the record of a call o: from its station to a later one.
Continued(x, y) ==
    /\ y \in OpRecords
    /\ y.kind = x.kind
    /\ x.pc \in Past => y.pc \in Past
    /\ x.pc # "settled"
    /\ y.pc = "settled" /\ y.res = "ok" => x.pc = "answered" /\ x.res = "ok"

\* Its success is that of the record before, of the pending chunk or of the one served.
Deserved(o, y) ==
    Vouched(y) =>
        \/ Vouched(op[o])
        \/ op[o].pc = "enter" /\ pending' = Append(pending, o)
        \/ serve.pc = "serving" /\ serve.op = o

Steps(o) ==
    \E y : Continued(op[o], y) /\ Deserved(o, y) /\ op' = [op EXCEPT ![o] = y]

LEMMA AnswersSteps ==
    ASSUME Types, NEW o \in Ops, NEW res \in {"none", "ok", "err"}, op' = Answers(o, res),
           op[o].pc # "settled",
           res = "ok" /\ o \in Calls /\ op[o].kind = "write" =>
               \/ op[o].answer = "ok"
               \/ op[o].pc = "enter" /\ pending' = Append(pending, o)
    PROVE  Steps(o)
<1> DEFINE y == [NewOp(op[o].kind) EXCEPT !.pc = "answered",
                                          !.res = IF o \in Calls THEN res ELSE "none"]
<1>1. op[o] \in OpRecords
    BY DEF Types
<1>2. /\ y \in OpRecords /\ y.kind = op[o].kind /\ y.pc = "answered" /\ y.answer = "none"
      /\ y.res = IF o \in Calls THEN res ELSE "none"
    BY <1>1 DEF OpRecords, NewOp, OpPC
<1>3. op' = [op EXCEPT ![o] = y]
    BY DEF Answers
<1> HIDE DEF y
<1>4. Continued(op[o], y)
    BY <1>2 DEF Continued, Past
<1>5. Deserved(o, y)
    BY <1>2 DEF Deserved, Vouched
<1> QED
    BY <1>3, <1>4, <1>5 DEF Steps
LEMMA CallSteps ==
    ASSUME Types, NEW k \in Calls, Call(k)
    PROVE  Steps(k)
<1> DEFINE y == [op[k] EXCEPT !.pc = IF closing THEN "settled" ELSE "enter",
                              !.res = IF closing THEN "err" ELSE "none"]
<1>1. op[k] \in OpRecords /\ k \in Ops /\ op[k].pc = "new"
    BY DEF Types, Ops, Call, IsNext
<1>2. /\ y \in OpRecords /\ y.kind = op[k].kind /\ y.res # "ok" /\ y.answer = op[k].answer
    BY <1>1 DEF OpRecords, OpPC
<1>3. op' = [op EXCEPT ![k] = y]
    BY <1>1 DEF Call, Types
<1> HIDE DEF y
<1>4. Continued(op[k], y) /\ Deserved(k, y)
    BY <1>1, <1>2 DEF Continued, Deserved, Vouched, Past
<1> QED
    BY <1>3, <1>4 DEF Steps

LEMMA SettleSteps ==
    ASSUME Types, NEW k \in Calls, Settle(k)
    PROVE  Steps(k)
<1> DEFINE y == IF closing THEN [NewOp(op[k].kind) EXCEPT !.pc = "dropped"]
                ELSE [op[k] EXCEPT !.pc = "settled"]
<1>1. op[k] \in OpRecords /\ k \in Ops /\ op[k].pc = "answered"
    BY DEF Types, Ops, Settle
<1>2. /\ y \in OpRecords /\ y.kind = op[k].kind /\ y.pc \in Past
      /\ y.res # "none" => y.res = op[k].res
      /\ y.answer # "none" => y.answer = op[k].answer
    BY <1>1 DEF OpRecords, OpPC, NewOp, Past
<1>3. op' = [op EXCEPT ![k] = y]
    BY <1>1 DEF Settle, Types
<1> HIDE DEF y
<1>4. Continued(op[k], y) /\ Deserved(k, y)
    BY <1>1, <1>2 DEF Continued, Deserved, Vouched
<1> QED
    BY <1>3, <1>4 DEF Steps

LEMMA SendSteps ==
    ASSUME Types, NEW o \in Ops, NEW pc \in {"send", "sent"}, op' = [op EXCEPT ![o].pc = pc],
           op[o].pc \in Past => pc = "sent", op[o].pc # "settled"
    PROVE  Steps(o)
<1> DEFINE y == [op[o] EXCEPT !.pc = pc]
<1>1. op[o] \in OpRecords
    BY DEF Types
<1>2. /\ y \in OpRecords /\ y.kind = op[o].kind /\ y.pc = pc
      /\ y.res = op[o].res /\ y.answer = op[o].answer
    BY <1>1 DEF OpRecords, OpPC
<1>3. op' = [op EXCEPT ![o] = y]
    BY <1>1 DEF Types
<1> HIDE DEF y
<1>4. Continued(op[o], y) /\ Deserved(o, y)
    BY <1>1, <1>2 DEF Continued, Deserved, Vouched, Past
<1> QED
    BY <1>3, <1>4 DEF Steps

LEMMA EnterSteps ==
    ASSUME Types, NEW k \in Calls, Enter(k)
    PROVE  Steps(k)
<1>1. k \in Ops /\ op[k].pc = "enter"
    BY DEF Ops, Enter
<1>2. CASE op' = Answers(k, "err")
    BY <1>1, <1>2, AnswersSteps
<1>3. CASE /\ op' = Answers(k, "ok")
           /\ pending' = IF op[k].kind = "write" THEN Append(pending, k) ELSE pending
    BY <1>1, <1>3, AnswersSteps
<1>4. CASE op' = [op EXCEPT ![k].pc = "send"]
    BY <1>1, <1>4, SendSteps DEF Past
<1> QED
    BY <1>2, <1>3, <1>4 DEF Enter

LEMMA ReadySteps ==
    ASSUME Types, NEW k \in Calls, Ready(k)
    PROVE  Steps(k)
<1>1. k \in Ops /\ op[k].pc = "enter" /\ op[k].kind = "ready"
    BY DEF Ops, Ready
<1>2. op' = Answers(k, "ok") \/ op' = Answers(k, "err")
    BY DEF Ready
<1> QED
    BY <1>1, <1>2, AnswersSteps

LEMMA CloseSteps ==
    ASSUME Types, ClosersClose, NEW o \in Closers, op[o].pc = "new", EnterClose(o)
    PROVE  Steps(o)
<1>1. o \in Ops /\ op[o].kind = "close"
    BY DEF Ops, ClosersClose
<1>2. op' = [op EXCEPT ![o].pc = "send"] \/ op' = Answers(o, "ok")
    BY DEF EnterClose
<1> QED
    BY <1>1, <1>2, AnswersSteps, SendSteps DEF Past

LEMMA QueueSteps ==
    ASSUME Types, NEW o \in Ops, HandOver(o) \/ Receive(o) \/ GiveUp(o)
    PROVE  Steps(o)
<1>1. CASE HandOver(o)
    BY <1>1, SendSteps DEF HandOver, Past
<1>2. CASE Receive(o)
  <2>1. op[o] \in OpRecords
    BY DEF Types
  <2>2. op[o].answer \in {"ok", "err"}
    BY <1>2, <2>1, OpTypes DEF Receive
  <2> QED
    BY <1>2, <2>2, AnswersSteps DEF Receive
<1>3. CASE GiveUp(o)
    BY <1>3, AnswersSteps DEF GiveUp
<1> QED
    BY <1>1, <1>2, <1>3

LEMMA ServeOpSteps ==
    ASSUME Types, ServeLife, ServeOp
    PROVE  UNCHANGED op \/ Steps(serve.op)
<1> DEFINE o == serve.op
<1>1. o \in Ops /\ serve.pc = "serving" /\ op[o] \in OpRecords
    BY DEF ServeOp, ServeLife, Types
<1>2. ASSUME NEW res \in {"ok", "err"}, op[o].pc = "sent", op' = [op EXCEPT ![o].answer = res]
      PROVE  Steps(o)
  <2> DEFINE y == [op[o] EXCEPT !.answer = res]
  <2>1. y \in OpRecords /\ y.kind = op[o].kind /\ y.pc = "sent"
    BY <1>1, <1>2 DEF OpRecords
  <2>2. op' = [op EXCEPT ![o] = y]
    BY <1>1, <1>2 DEF Types
  <2> HIDE DEF y
  <2>3. Continued(op[o], y) /\ Deserved(o, y)
    BY <1>1, <1>2, <2>1 DEF Continued, Deserved, Vouched, Past
  <2> QED
    BY <2>2, <2>3 DEF Steps
<1>3. \E res \in {"ok", "err"} :
          op' = IF op[o].pc = "sent" THEN [op EXCEPT ![o].answer = res] ELSE op
    BY DEF ServeOp
<1> QED
    BY <1>2, <1>3

LEMMA OpSteps ==
    ASSUME Types, ClosersClose, ServeLife, [Next]_vars
    PROVE  UNCHANGED op \/ \E o \in Ops : Steps(o)
<1>1. ASSUME NEW o \in Ops, Function(o) PROVE Steps(o)
    BY <1>1, EnterSteps, ReadySteps, QueueSteps, SettleSteps DEF Function
<1>2. ASSUME NEW k \in Calls, Call(k) PROVE k \in Ops /\ Steps(k)
    BY <1>2, CallSteps DEF Ops
<1>3. CASE CloseByScript
    BY <1>3, CloseSteps DEF CloseByScript, Closers, Ops
<1>4. CASE ServeOp
    BY <1>4, ServeOpSteps DEF ServeLife, ServeOp
<1>5. CASE WatcherLocks \/ FilterLocks
  <2>1. PICK o \in {ByWatcher, ByFilter}, pc \in {watcher, handler} : LockClosers(o, pc)
    BY <1>5 DEF WatcherLocks, FilterLocks
  <2> QED
    BY <2>1, CloseSteps DEF LockClosers, Closers, Ops
<1>6. CASE UNCHANGED op
    BY <1>6
<1> QED
    BY <1>1, <1>2, <1>3, <1>4, <1>5, <1>6 DEF Next, Script, Serve, Watcher, Filter, vars,
       ReturnStream, ReturnOther, ServeStarts, ServeBacklog, BacklogSent, ServeCanceled, Cancel,
       WatcherWakes, WatcherUnlocks, WatcherFinishes, FilterWakes, FilterUnlocks, TasksDone, LoopStops
-----------------------------------------------------------------------------
(* The line *)

LEMMA Parts ==
    ASSUME Types
    PROVE  /\ sent \in Seq(Calls) /\ InHand \in Seq(Calls)
           /\ serve.backlog \in Seq(Calls) /\ pending \in Seq(Calls)
           /\ sent \o InHand \in Seq(Calls) /\ sent \o InHand \o serve.backlog \in Seq(Calls)
           /\ Line \in Seq(Calls)
<1>1. sent \in Seq(Calls) /\ serve.backlog \in Seq(Calls) /\ pending \in Seq(Calls)
    BY DEF Types, ServeRecords
<1>2. InHand \in Seq(Calls)
    BY DEF InHand
<1> QED
    BY <1>1, <1>2, ConcatProperties DEF Line

\* A step keeps the kinds, and what a chunk is vouched for by.
LEMMA KindsKept ==
    ASSUME Types, UNCHANGED op \/ \E o \in Ops : Steps(o)
    PROVE  \A x \in Ops : op'[x].kind = op[x].kind
    BY DEF Steps, Continued, Types

LEMMA HandKept ==
    ASSUME Types, \A x \in Ops : op'[x].kind = op[x].kind, serve'.op = serve.op
    PROVE  InHand' = InHand
    BY DEF InHand, Ops

\* Chunk k joins the line at its end.
Joins(k) == ~InLine(k) /\ Line' = Append(Line, k)

LEMMA PendingJoins ==
    ASSUME Types, NEW k \in Calls, pending' = Append(pending, k),
           UNCHANGED <<sent, serve>>, InHand' = InHand
    PROVE  Line' = Append(Line, k)
<1> DEFINE a == sent \o InHand \o serve.backlog
<1>1. Line' = a \o Append(pending, k) /\ Line = a \o pending
    BY DEF Line
<1>2. a \in Seq(Calls) /\ pending \in Seq(Calls)
    BY Parts
<1> HIDE DEF a
<1> QED
    BY <1>1, <1>2, ConcatAppend

\* What the functions of the stream's state do to it.
LEMMA EnterLine ==
    ASSUME Types, ServeLife, LineLife, NEW k \in Calls, Enter(k)
    PROVE  /\ UNCHANGED <<started, serve, sent>>
           /\ \/ UNCHANGED <<pending, Line>>
              \/ Joins(k) /\ ~started /\ op[k].kind = "write" /\ op'[k].pc \in Past
                 /\ pending' = Append(pending, k)
<1>1. UNCHANGED <<started, serve, sent>> /\ InHand' = InHand
    BY EnterSteps, KindsKept, HandKept DEF Enter, Ops
<1>2. CASE UNCHANGED pending
    BY <1>1, <1>2 DEF Line
<1>3. CASE /\ ~started /\ op' = Answers(k, "ok") /\ op[k].kind = "write"
           /\ pending' = Append(pending, k)
  <2>1. ~InLine(k)
    BY DEF LineLife, Enter, Past
  <2>2. Line' = Append(Line, k)
    BY <1>1, <1>3, PendingJoins
  <2>3. op'[k].pc = "answered"
    BY <1>3 DEF Answers, Types, Ops
  <2> QED
    BY <1>1, <1>3, <2>1, <2>2, <2>3 DEF Joins, Past
<1> QED
    BY <1>1, <1>2, <1>3 DEF Enter

\* The serving goroutine takes an operation: its chunk joins the line.
LEMMA HandOverLine ==
    ASSUME Types, ServeLife, LineLife, NEW o \in Ops, HandOver(o)
    PROVE  \/ UNCHANGED Line
           \/ o \in Calls /\ Joins(o) /\ op'[o].pc \in Past /\ op[o].kind = "write"
<1>1. /\ serve.op = NoOp /\ serve.backlog = <<>> /\ pending = <<>> /\ serve.pc = "loop"
      /\ UNCHANGED <<sent, pending>>
    BY DEF HandOver, ServeLife, streamVars
<1>2. serve'.op = o /\ serve'.backlog = <<>>
    BY <1>1 DEF HandOver, Types, ServeRecords
<1>3. op'[o].kind = op[o].kind /\ op'[o].pc = "sent"
  <2>1. op[o] \in OpRecords
    BY DEF Types
  <2> QED
    BY <2>1, QueueSteps, KindsKept DEF HandOver, Types, OpRecords
<1>4. Line = sent
  <2>1. InHand = <<>>
    BY <1>1 DEF InHand, NoOp, Calls
  <2> QED
    BY <1>1, <2>1, Parts, ConcatEmptySeq DEF Line
<1>5. InHand' = IF o \in Calls /\ op[o].kind = "write" THEN <<o>> ELSE <<>>
    BY <1>2, <1>3 DEF InHand
<1>6. CASE o \in Calls /\ op[o].kind = "write"
  <2>1. Line' = sent \o <<o>>
    <3>1. sent \o <<o>> \in Seq(Calls)
      BY <1>6, Parts, ConcatProperties
    <3> QED
      BY <1>1, <1>2, <1>5, <1>6, <3>1, ConcatEmptySeq DEF Line
  <2>2. Line' = Append(Line, o)
    BY <1>4, <1>6, <2>1, Parts, AppendIsConcat
  <2>3. ~InLine(o)
    BY <1>6 DEF LineLife, HandOver, Past
  <2> QED
    BY <1>3, <1>6, <2>2, <2>3 DEF Joins, Past
<1>7. CASE ~(o \in Calls /\ op[o].kind = "write")
    BY <1>1, <1>2, <1>4, <1>5, <1>7, Parts, ConcatEmptySeq DEF Line
<1> QED
    BY <1>6, <1>7

LEMMA ServeStartsLine ==
    ASSUME Types, ServeLife, ServeStarts
    PROVE  UNCHANGED Line
<1>1. /\ serve.op = NoOp /\ serve.backlog = <<>> /\ UNCHANGED <<op, sent>>
      /\ serve'.op = NoOp
      /\ \/ serve'.backlog = <<>> /\ UNCHANGED pending
         \/ serve'.backlog = pending /\ pending' = <<>>
    BY DEF ServeStarts, ServeLife, Types, ServeRecords, Backlog
<1>2. InHand = <<>> /\ InHand' = <<>>
    BY <1>1 DEF InHand, NoOp, Calls
<1> QED
    BY <1>1, <1>2, Parts, ConcatEmptySeq DEF Line

LEMMA ServeBacklogLine ==
    ASSUME Types, ServeLife, ServeBacklog
    PROVE  /\ UNCHANGED <<Line, InHand>>
           /\ \/ UNCHANGED sent
              \/ /\ sent' = Append(sent, Line[Len(sent) + 1])
                 /\ Len(sent) < Len(Line) /\ serve.pc # "ended" /\ serve'.pc # "ended"
<1>1. serve.op = NoOp /\ pending = <<>> /\ UNCHANGED <<op, pending>> /\ serve.pc = "backlog"
    BY DEF ServeBacklog, ServeLife
<1>2. serve'.op = NoOp
    BY <1>1 DEF ServeBacklog, Ends, Types, ServeRecords
<1>3. InHand = <<>> /\ InHand' = <<>>
    BY <1>1, <1>2 DEF InHand, NoOp, Calls
<1>4. CASE UNCHANGED sent /\ Ends("err")
  <2>1. serve'.backlog = serve.backlog
    BY <1>4 DEF Ends, Types, ServeRecords
  <2> QED
    BY <1>1, <1>3, <1>4, <2>1 DEF Line
<1>5. CASE /\ serve.backlog # <<>> /\ sent' = Append(sent, Head(serve.backlog))
           /\ serve' = [serve EXCEPT !.backlog = Tail(@)]
  <2> DEFINE b == serve.backlog
  <2>1. b # <<>> /\ b \in Seq(Calls) /\ Len(b) \in Nat \ {0}
    BY <1>5, Parts, EmptySeq, LenProperties
  <2>2. serve'.backlog = Tail(b) /\ serve'.pc = "backlog"
    BY <1>1, <1>5 DEF Types, ServeRecords
  <2>3. Head(b) \in Calls /\ Tail(b) \in Seq(Calls) /\ Head(b) = b[1]
    BY <2>1, HeadTailProperties
  <2>4. sent' \in Seq(Calls) /\ sent' \o Tail(b) \in Seq(Calls) /\ sent \o b \in Seq(Calls)
    BY <1>5, <2>1, <2>3, Parts, AppendProperties, ConcatProperties
  <2>5. Line = sent \o b /\ Line' = sent' \o Tail(b)
    BY <1>1, <1>3, <2>2, <2>4, Parts, ConcatEmptySeq DEF Line
  <2>6. Line' = Line
    BY <1>5, <2>1, <2>5, Parts, HeadMoves
  <2>7. Len(Line) = Len(sent) + Len(b) /\ Line[Len(sent) + 1] = b[1] /\ Len(sent) \in Nat
    <3>1. Len(sent) \in Nat
      BY Parts, LenProperties
    <3>2. /\ Len(sent \o b) = Len(sent) + Len(b)
          /\ \A i \in 1 .. Len(sent) + Len(b) : (sent \o b)[i] =
                 IF i <= Len(sent) THEN sent[i] ELSE b[i - Len(sent)]
      BY <2>1, Parts, ConcatProperties
    <3> QED
      BY <2>1, <2>5, <3>1, <3>2
  <2> QED
    BY <1>1, <1>3, <1>5, <2>1, <2>2, <2>3, <2>6, <2>7
<1> QED
    BY <1>4, <1>5 DEF ServeBacklog
\* The chunk in hand goes out, or the operation ends the stream.
LEMMA ServeOpLine ==
    ASSUME Types, ClosersClose, ServeLife, ServeOp
    PROVE  /\ UNCHANGED Line
           /\ \/ UNCHANGED sent
              \/ /\ sent' = Append(sent, Line[Len(sent) + 1])
                 /\ Len(sent) < Len(Line) /\ serve.pc # "ended" /\ serve'.pc # "ended"
           /\ serve'.pc = "ended" /\ serve'.res = "ok" => sent = Line
<1> DEFINE o == serve.op
<1>1. /\ o \in Ops /\ serve.pc = "serving" /\ serve.backlog = <<>> /\ pending = <<>>
      /\ UNCHANGED pending
    BY DEF ServeOp, ServeLife, Types
<1>2. Line = sent \o InHand
    BY <1>1, Parts, ConcatEmptySeq DEF Line
<1>3. \A x \in Ops : op'[x].kind = op[x].kind
    BY <1>1, ServeOpSteps, KindsKept
<1>4. CASE op[o].kind = "write" /\ sent' = Append(sent, o)
           /\ serve' = [serve EXCEPT !.pc = "loop", !.op = NoOp]
  <2>1. o \in Calls
    BY <1>1, <1>4 DEF ClosersClose, Ops
  <2>2. serve'.pc = "loop" /\ serve'.op = NoOp /\ serve'.backlog = <<>>
    BY <1>1, <1>4 DEF Types, ServeRecords
  <2>3. InHand = <<o>> /\ InHand' = <<>>
    BY <1>4, <2>1, <2>2 DEF InHand, NoOp, Calls
  <2>4. Line = Append(sent, o)
    BY <1>2, <2>1, <2>3, Parts, AppendIsConcat
  <2>5. Line' = sent'
    <3>1. sent' \in Seq(Calls)
      BY <1>4, <2>1, Parts, AppendProperties
    <3> QED
      BY <1>1, <2>2, <2>3, <3>1, ConcatEmptySeq DEF Line
  <2>6. Len(sent) < Len(Line) /\ Line[Len(sent) + 1] = o
    BY <2>1, <2>4, Parts, AppendProperties, LenProperties
  <2> QED
    BY <1>1, <1>4, <2>2, <2>4, <2>5, <2>6
<1>5. CASE op[o].kind \notin {"write", "close"} /\ UNCHANGED sent
           /\ serve' = [serve EXCEPT !.pc = "loop", !.op = NoOp]
  <2>1. serve'.pc = "loop" /\ serve'.op = NoOp /\ serve'.backlog = <<>>
    BY <1>1, <1>5 DEF Types, ServeRecords
  <2>2. InHand = <<>> /\ InHand' = <<>>
    BY <1>5, <2>1 DEF InHand, NoOp, Calls
  <2> QED
    BY <1>1, <1>5, <2>1, <2>2 DEF Line
<1>6. CASE op[o].kind = "write" /\ UNCHANGED sent /\ Ends("err")
  <2>1. serve'.op = o /\ serve'.backlog = <<>> /\ serve'.res = "err"
    BY <1>1, <1>6 DEF Ends, Types, ServeRecords
  <2>2. InHand' = InHand
    BY <1>3, <2>1, HandKept
  <2> QED
    BY <1>1, <1>6, <2>1, <2>2 DEF Line
<1>7. CASE op[o].kind = "close" /\ UNCHANGED sent /\ Ends("ok")
  <2>1. serve'.op = NoOp /\ serve'.backlog = <<>>
    BY <1>1, <1>7 DEF Ends, Types, ServeRecords
  <2>2. InHand = <<>> /\ InHand' = <<>>
    BY <1>7, <2>1 DEF InHand, NoOp, Calls
  <2>3. Line = sent
    BY <1>2, <2>2, Parts, ConcatEmptySeq
  <2> QED
    BY <1>1, <1>7, <2>1, <2>2, <2>3 DEF Line
<1> QED
    BY <1>4, <1>5, <1>6, <1>7 DEF ServeOp

\* The serving goroutine ends, or goes on without a chunk.
LEMMA BacklogSentLine ==
    ASSUME Types, ServeLife, BacklogSent
    PROVE  /\ UNCHANGED <<Line, sent>>
           /\ serve'.pc = "ended" /\ serve'.res = "ok" => sent = Line
<1>1. /\ serve.pc = "backlog" /\ serve.op = NoOp /\ serve.backlog = <<>> /\ pending = <<>>
      /\ UNCHANGED <<op, sent, pending>>
    BY DEF BacklogSent, ServeLife
<1>2. serve'.op = NoOp /\ serve'.backlog = <<>>
    BY <1>1 DEF BacklogSent, Ends, Types, ServeRecords
<1>3. InHand = <<>> /\ InHand' = <<>>
    BY <1>1, <1>2 DEF InHand, NoOp, Calls
<1> QED
    BY <1>1, <1>2, <1>3, Parts, ConcatEmptySeq DEF Line

LEMMA ServeCanceledLine ==
    ASSUME Types, ServeLife, ServeCanceled
    PROVE  UNCHANGED <<Line, sent>> /\ serve'.res = "err"
<1>1. /\ serve.pc = "loop" /\ serve.op = NoOp /\ serve.backlog = <<>>
      /\ UNCHANGED <<op, sent, pending>>
    BY DEF ServeCanceled, ServeLife
<1>2. serve'.op = NoOp /\ serve'.backlog = <<>> /\ serve'.res = "err"
    BY <1>1 DEF ServeCanceled, Ends, Types, ServeRecords
<1>3. InHand = <<>> /\ InHand' = <<>>
    BY <1>1, <1>2 DEF InHand, NoOp, Calls
<1> QED
    BY <1>1, <1>2, <1>3 DEF Line

\* The steps that neither send nor take a chunk: only ReturnStream moves serve.
LEMMA OtherLine ==
    ASSUME Types, ClosersClose, ServeLife, UNCHANGED <<sent, pending>>,
           UNCHANGED op \/ \E o \in Ops : Steps(o),
           UNCHANGED serve \/ serve' = [serve EXCEPT !.pc = "spawned"]
    PROVE  UNCHANGED Line
<1>1. serve'.op = serve.op /\ serve'.backlog = serve.backlog
    BY DEF Types, ServeRecords
<1>2. InHand' = InHand
    BY <1>1, KindsKept, HandKept
<1> QED
    BY <1>1, <1>2 DEF Line

\* All others.
Other ==
    /\ UNCHANGED <<sent, pending, started>>
    /\ \/ UNCHANGED serve
       \/ serve.pc = "idle" /\ serve' = [serve EXCEPT !.pc = "spawned"]

LEMMA NextCases ==
    ASSUME ServeLife, [Next]_vars
    PROVE  \/ \E k \in Calls : Enter(k)
           \/ \E o \in Ops : HandOver(o)
           \/ ServeStarts \/ ServeBacklog \/ BacklogSent \/ ServeOp \/ ServeCanceled
           \/ Other
<1>1. ASSUME NEW o \in Ops, Function(o)
      PROVE  (o \in Calls /\ Enter(o)) \/ HandOver(o) \/ Other
    BY <1>1 DEF Function, Ready, Receive, GiveUp, Settle, Other, streamVars
<1>2. CASE Script
    BY <1>2 DEF Script, Call, CloseByScript, EnterClose, ReturnStream, ReturnOther, Other,
       streamVars, ServeLife
<1>3. CASE Watcher
    BY <1>3 DEF Watcher, WatcherWakes, WatcherLocks, WatcherUnlocks, WatcherFinishes,
       LockClosers, EnterClose, Other, streamVars
<1>4. CASE Filter
    BY <1>4 DEF Filter, FilterWakes, FilterLocks, FilterUnlocks, TasksDone, LoopStops,
       LockClosers, EnterClose, Other, streamVars
<1>5. CASE Cancel \/ UNCHANGED vars
    BY <1>5 DEF Cancel, Other, streamVars, vars
<1> QED
    BY <1>1, <1>2, <1>3, <1>4, <1>5 DEF Next, Serve
-----------------------------------------------------------------------------
(* The invariants *)

\* Every step leaves the line alone or puts a new chunk at its end.
LEMMA LineSteps ==
    ASSUME IInv, [Next]_vars
    PROVE  UNCHANGED Line \/ \E k \in Calls : Joins(k) /\ op'[k].pc \in Past
<1>1. Types /\ ClosersClose /\ ServeLife /\ LineLife
    BY DEF IInv
<1>2. CASE Other
    BY <1>1, <1>2, OpSteps, OtherLine DEF Other
<1> QED
    BY <1>1, <1>2, NextCases, EnterLine, HandOverLine, ServeStartsLine, ServeBacklogLine,
       BacklogSentLine, ServeOpLine, ServeCanceledLine

LEMMA LineLifeStep ==
    ASSUME IInv, [Next]_vars
    PROVE  LineLife'
<1>1. Types /\ ClosersClose /\ ServeLife /\ LineLife
    BY DEF IInv
<1>2. Line \in Seq(Calls)
    BY <1>1, Parts
<1>3. ASSUME NEW k \in Calls PROVE InLine(k) => InLine(k)'
    BY <1>2, LineSteps, AppendHolds DEF Joins, InLine
<1>4. ASSUME NEW k \in Calls, Joins(k) PROVE InLine(k)'
    BY <1>2, <1>4, AppendHolds DEF Joins, InLine
<1>5. UNCHANGED op \/ \E o \in Ops : Steps(o)
    BY <1>1, OpSteps
<1>6. Distinct(Line)'
  <2>1. CASE UNCHANGED Line
    BY <1>1, <2>1 DEF LineLife, Distinct
  <2>2. ASSUME NEW k \in Calls, Joins(k) PROVE Distinct(Line')
    BY <1>1, <1>2, <2>2, AppendDistinct DEF LineLife, Joins, InLine
  <2>3. CASE \E k \in Calls : Joins(k)
    BY <2>2, <2>3 DEF Distinct
  <2> QED
    BY <2>1, <2>3, LineSteps
<1>7. ASSUME NEW k \in Calls, InLine(k)' PROVE op'[k].pc \in Past
  <2>1. InLine(k) \/ op'[k].pc \in Past
    BY <1>2, <1>7, LineSteps, AppendHolds DEF Joins, InLine
  <2>2. op[k].pc \in Past => op'[k].pc \in Past
    BY <1>1, <1>5 DEF Steps, Continued, Types, Ops
  <2> QED
    BY <1>1, <2>1, <2>2 DEF LineLife
<1>8. ASSUME NEW k \in Calls, op[k].pc = "enter", op'[k] # op[k], pending' = Append(pending, k)
      PROVE  InLine(k)'
  <2>1. pending \in Seq(Calls) /\ pending' # pending
    BY <1>1, <1>8, Parts, AppendProperties, LenProperties
  <2>2. ~ServeStarts
    BY <1>8 DEF ServeStarts
  <2>3. PICK j \in Calls : Enter(j)
    BY <1>1, <2>1, <2>2, NextCases DEF HandOver, ServeBacklog, BacklogSent, ServeOp,
       ServeCanceled, Other, streamVars
  <2>4. Joins(j) /\ pending' = Append(pending, j)
    BY <1>1, <2>1, <2>3, EnterLine
  <2>5. j = k
    <3>1. /\ Append(pending, j)[Len(pending) + 1] = j
          /\ Append(pending, k)[Len(pending) + 1] = k
      BY <2>1, AppendProperties
    <3> QED
      BY <1>8, <2>4, <3>1
  <2> QED
    BY <1>4, <2>4, <2>5
<1>9. ASSUME NEW k \in Calls, Vouched(op'[k]) PROVE InLine(k)'
  <2>1. CASE Vouched(op[k])
    BY <1>1, <1>3, <2>1 DEF LineLife
  <2>2. CASE ~Vouched(op[k])
    <3>1. Steps(k)
      <4>1. PICK o \in Ops : Steps(o)
        BY <1>5, <1>9, <2>2
      <4>2. o # k => op'[k] = op[k]
        BY <1>1, <4>1 DEF Steps, Types, Ops
      <4> QED
        BY <1>9, <2>2, <4>1, <4>2
    <3>2. /\ op'[k].kind = op[k].kind
          /\ \/ op[k].pc = "enter" /\ pending' = Append(pending, k)
             \/ serve.pc = "serving" /\ serve.op = k
      BY <1>1, <1>9, <2>2, <3>1 DEF Steps, Continued, Deserved, Types, Ops
    <3>3. CASE op[k].pc = "enter" /\ pending' = Append(pending, k)
      BY <1>8, <1>9, <2>2, <3>3
    <3>4. CASE serve.pc = "serving" /\ serve.op = k
      <4>1. InHand = <<k>>
        BY <1>9, <3>2, <3>4 DEF InHand, Vouched
      <4>2. serve.backlog = <<>> /\ pending = <<>>
        BY <1>1, <3>4 DEF ServeLife
      <4>3. Line = Append(sent, k)
        BY <1>1, <4>1, <4>2, Parts, ConcatEmptySeq, AppendIsConcat DEF Line
      <4>4. InLine(k)
        BY <1>1, <4>3, Parts, AppendHolds DEF InLine
      <4> QED
        BY <1>3, <4>4
    <3> QED
      BY <3>2, <3>3, <3>4
  <2> QED
    BY <2>1, <2>2
<1> QED
    BY <1>6, <1>7, <1>9 DEF LineLife

LEMMA ServeLifeStep ==
    ASSUME IInv, [Next]_vars
    PROVE  ServeLife'
<1>1. Types /\ ServeLife /\ serve \in ServeRecords
    BY DEF IInv, Types
<1>2. returned => returned'
    BY DEF Next, Function, Script, Serve, Watcher, Filter, vars, endVars,
       Enter, Ready, HandOver, Receive, GiveUp, Settle, Call, CloseByScript,
       ReturnStream, ReturnOther, ServeStarts, ServeBacklog, BacklogSent, ServeOp, ServeCanceled,
       Cancel, WatcherWakes, WatcherLocks, WatcherUnlocks, WatcherFinishes,
       FilterWakes, FilterLocks, FilterUnlocks, TasksDone, LoopStops
<1>3. CASE \E k \in Calls : Enter(k)
    BY <1>1, <1>2, <1>3 DEF Enter, ServeLife
<1>4. CASE \E o \in Ops : HandOver(o)
  <2>1. PICK o \in Ops : HandOver(o)
    BY <1>4
  <2>2. /\ serve.pc = "loop" /\ UNCHANGED <<started, pending, returned>>
        /\ serve'.pc = "serving" /\ serve'.op = o /\ serve'.backlog = serve.backlog
    BY <1>1, <2>1 DEF HandOver, ServeRecords, streamVars
  <2> QED
    BY <1>1, <2>2 DEF ServeLife
<1>5. CASE ServeStarts
  <2>1. \/ started' = started /\ pending' = pending /\ serve'.pc = "ended"
        \/ started' /\ pending' = <<>> /\ serve'.pc = "backlog"
    BY <1>1, <1>5 DEF ServeStarts, ServeRecords
  <2>2. serve'.op = serve.op /\ serve.pc = "spawned"
    BY <1>1, <1>5 DEF ServeStarts, ServeRecords
  <2> QED
    BY <1>1, <1>2, <2>1, <2>2 DEF ServeLife
<1>6. CASE ServeBacklog
    BY <1>1, <1>2, <1>6 DEF ServeBacklog, Ends, ServeLife, ServeRecords
<1>7. CASE BacklogSent
    BY <1>1, <1>2, <1>7 DEF BacklogSent, Ends, ServeLife, ServeRecords
<1>8. CASE ServeOp
    BY <1>1, <1>2, <1>8 DEF ServeOp, Ends, ServeLife, ServeRecords
<1>9. CASE ServeCanceled
    BY <1>1, <1>2, <1>9 DEF ServeCanceled, Ends, ServeLife, ServeRecords
<1>10. CASE Other /\ UNCHANGED serve
    BY <1>1, <1>2, <1>10 DEF Other, ServeLife
<1>11. CASE Other /\ ~UNCHANGED serve
  <2>1. returned'
    BY <1>11 DEF Next, Function, Script, Serve, Watcher, Filter, vars, endVars, Other,
       Enter, Ready, HandOver, Receive, GiveUp, Settle, Call, CloseByScript,
       ReturnStream, ReturnOther, ServeStarts, ServeBacklog, BacklogSent, ServeOp, ServeCanceled,
       Cancel, WatcherWakes, WatcherLocks, WatcherUnlocks, WatcherFinishes,
       FilterWakes, FilterLocks, FilterUnlocks, TasksDone, LoopStops
  <2> QED
    BY <1>1, <1>11, <2>1 DEF Other, ServeLife, ServeRecords
<1> QED
    BY <1>1, <1>3, <1>4, <1>5, <1>6, <1>7, <1>8, <1>9, <1>10, <1>11, NextCases

LEMMA ResultLifeStep ==
    ASSUME IInv, [Next]_vars
    PROVE  ResultLife'
<1>1. Types /\ ServeLife /\ ResultLife /\ serve \in ServeRecords
    BY DEF IInv, Types
<1>2. ASSUME NEW o \in Ops, Function(o) PROVE ResultLife'
  <2>1. UNCHANGED <<returned, canceled, watcher, result, handler>>
    BY <1>2 DEF Function, Enter, Ready, HandOver, Receive, GiveUp, Settle, endVars
  <2>2. serve'.pc \in {"idle", "ended"} \/ serve.pc \notin {"idle", "ended"}
    BY <1>2 DEF Function, Enter, Ready, HandOver, Receive, GiveUp, Settle
  <2> QED
    BY <1>1, <2>1, <2>2 DEF ResultLife
<1>3. CASE Script
    BY <1>1, <1>3 DEF Script, Call, CloseByScript, ReturnStream, ReturnOther, ResultLife,
       ServeLife, ServeRecords, Once, ResultOfReturn, endVars
<1>4. CASE Serve
    BY <1>1, <1>4 DEF Serve, ServeStarts, ServeBacklog, BacklogSent, ServeOp, ServeCanceled,
       Ends, Once, ResultLife, ServeLife, ServeRecords
<1>5. CASE Watcher
  <2>1. UNCHANGED <<serve, returned, canceled, handler>>
    BY <1>5 DEF Watcher, WatcherWakes, WatcherLocks, WatcherUnlocks, WatcherFinishes
  <2>2. canceled
    BY <1>1, <1>5 DEF Watcher, WatcherWakes, WatcherLocks, WatcherUnlocks, WatcherFinishes,
       LockClosers, UnlockClosers, ResultLife
  <2>3. result # "none" => result' # "none"
    BY <1>5 DEF Watcher, WatcherWakes, WatcherLocks, WatcherUnlocks, WatcherFinishes, Once
  <2> QED
    BY <1>1, <2>1, <2>2, <2>3 DEF ResultLife
<1>6. CASE Filter
    BY <1>1, <1>6 DEF Filter, FilterWakes, FilterLocks, FilterUnlocks, TasksDone, LoopStops,
       LockClosers, UnlockClosers, ResultLife
<1>7. CASE Cancel \/ UNCHANGED vars
    BY <1>1, <1>7 DEF Cancel, ResultLife, vars, endVars
<1> QED
    BY <1>2, <1>3, <1>4, <1>5, <1>6, <1>7 DEF Next

\* The records and the sequences.
LEMMA DataTypesStep ==
    ASSUME IInv, [Next]_vars
    PROVE  /\ op' \in [Ops -> OpRecords] /\ ClosersClose'
           /\ pending' \in Seq(Calls) /\ sent' \in Seq(Calls)
           /\ serve' \in ServeRecords
           /\ started' \in BOOLEAN
<1>1. Types /\ ClosersClose /\ ServeLife /\ LineLife
    BY DEF IInv
<1>2. /\ serve \in ServeRecords /\ sent \in Seq(Calls) /\ pending \in Seq(Calls)
      /\ started \in BOOLEAN
    BY <1>1 DEF Types
<1>3. UNCHANGED op \/ \E o \in Ops : Steps(o)
    BY <1>1, OpSteps
<1>4. op' \in [Ops -> OpRecords] /\ ClosersClose'
    BY <1>1, <1>3, KindsKept DEF Steps, Continued, Types, ClosersClose, Closers, Ops
<1>5. ASSUME NEW k \in Calls, Enter(k)
      PROVE  pending' \in Seq(Calls) /\ UNCHANGED <<sent, serve, started>>
    BY <1>1, <1>2, <1>5, EnterLine, AppendProperties
<1>6. ASSUME NEW o \in Ops, HandOver(o)
      PROVE  serve' \in ServeRecords /\ UNCHANGED <<sent, pending, started>>
    BY <1>2, <1>6, ZenonT(60) DEF HandOver, ServeRecords, ServePC, streamVars
<1>7. CASE ServeStarts
  <2>1. closed \in BOOLEAN /\ <<>> \in Seq(Calls)
    BY <1>1 DEF Types
  <2>2. ASSUME committed PROVE serve' \in ServeRecords
    <3>1. serve' = [serve EXCEPT !.pc = "ended", !.res = "err"]
      BY <1>7, <2>2 DEF ServeStarts
    <3> QED
      BY <1>2, <3>1, ZenonT(60) DEF ServeRecords, ServePC
  <2>3. ASSUME ~committed PROVE serve' \in ServeRecords
    <3>1. serve' = [serve EXCEPT !.pc = "backlog", !.backlog = pending, !.closed = closed]
      BY <1>7, <2>3 DEF ServeStarts, Backlog, ClosedAtStart
    <3> QED
      BY <1>2, <2>1, <3>1, ZenonT(60) DEF ServeRecords, ServePC
  <2>4. serve' \in ServeRecords
    BY <2>2, <2>3
  <2> QED
    BY <1>2, <1>4, <1>7, <2>1, <2>4 DEF ServeStarts
<1>8. ASSUME ServeBacklog \/ BacklogSent \/ ServeOp \/ ServeCanceled
      PROVE  UNCHANGED <<pending, started>>
    BY <1>8 DEF ServeBacklog, BacklogSent, ServeOp, ServeCanceled
<1>9. ASSUME ServeBacklog \/ BacklogSent \/ ServeOp \/ ServeCanceled
      PROVE  sent' \in Seq(Calls)
  <2>1. /\ Line \in Seq(Calls)
        /\ \/ UNCHANGED sent
           \/ sent' = Append(sent, Line[Len(sent) + 1]) /\ Len(sent) < Len(Line)
    BY <1>1, <1>9, Parts, ServeBacklogLine, BacklogSentLine, ServeOpLine, ServeCanceledLine
  <2>2. Len(sent) < Len(Line) => Line[Len(sent) + 1] \in Calls
    <3>1. Len(sent) \in Nat /\ Len(Line) \in Nat /\ \A i \in 1 .. Len(Line) : Line[i] \in Calls
      BY <1>2, <2>1, LenProperties, ElementOfSeq
    <3> QED
      BY <3>1
  <2>3. CASE Len(sent) < Len(Line) /\ sent' = Append(sent, Line[Len(sent) + 1])
    <3> DEFINE x == Line[Len(sent) + 1]
    <3>1. x \in Calls /\ sent' = Append(sent, x)
      BY <2>2, <2>3
    <3> HIDE DEF x
    <3> QED
      BY <1>2, <3>1, AppendProperties
  <2> QED
    BY <1>2, <2>1, <2>3
<1>10. ASSUME ServeBacklog \/ BacklogSent \/ ServeOp \/ ServeCanceled
       PROVE  serve' \in ServeRecords
  <2>1. serve.backlog # <<>> => Tail(serve.backlog) \in Seq(Calls)
    BY <1>1, Parts, HeadTailProperties
  <2>2. ASSUME NEW res \in {"ok", "err"}, Ends(res) PROVE serve' \in ServeRecords
    BY <1>2, <2>2 DEF Ends, ServeRecords, ServePC
  <2> QED
    BY <1>2, <1>10, <2>1, <2>2 DEF ServeBacklog, BacklogSent, ServeOp, ServeCanceled,
       ServeRecords, ServePC
<1>11. CASE Other
    BY <1>2, <1>4, <1>11 DEF Other, ServeRecords, ServePC
<1> QED
    BY <1>1, <1>2, <1>4, <1>5, <1>6, <1>7, <1>8, <1>9, <1>10, <1>11, NextCases

LEMMA TypesStep ==
    ASSUME IInv, [Next]_vars
    PROVE  Types'
<1>1. Types
    BY DEF IInv
<1>2. ASSUME NEW o \in Ops, Function(o)
      PROVE  UNCHANGED <<closed, done, returned, committed, endVars>>
    BY <1>2 DEF Function, Enter, Ready, HandOver, Receive, GiveUp, Settle, streamVars
<1>3. ASSUME Script \/ Serve \/ Watcher \/ Filter \/ Cancel
      PROVE  /\ closed' \in BOOLEAN /\ done' \in BOOLEAN
             /\ returned' \in BOOLEAN /\ committed' \in BOOLEAN
    BY <1>1, <1>3 DEF Script, Call, CloseByScript, EnterClose, ReturnStream, ReturnOther,
       Serve, ServeStarts, ServeBacklog, BacklogSent, ServeOp, ServeCanceled, Ends, Cancel,
       Watcher, WatcherWakes, WatcherLocks, WatcherUnlocks, WatcherFinishes,
       Filter, FilterWakes, FilterLocks, FilterUnlocks, TasksDone, LoopStops,
       LockClosers, streamVars, Types
<1> DEFINE Ended == /\ canceled' \in BOOLEAN /\ closing' \in BOOLEAN
                     /\ closersMu' \in {NoOp, ByWatcher, ByFilter}
                     /\ watcher' \in {"wait", "lock", "close", "timer", "over"}
                     /\ result' \in {"none", "ok", "err"}
                     /\ handler' \in {"wait", "lock", "close", "tasks", "stop", "gone"}
<1>4. ASSUME Script \/ Serve \/ Watcher \/ Filter \/ Cancel PROVE Ended
  <2>1. CASE Script
    <3>1. UNCHANGED <<canceled, closing, closersMu, watcher, handler>>
      BY <2>1 DEF Script, Call, CloseByScript, ReturnStream, ReturnOther, endVars
    <3>2. result' \in {result, "ok", "err"}
      BY <2>1 DEF Script, Call, CloseByScript, ReturnStream, ReturnOther, Once, ResultOfReturn,
         endVars
    <3> QED
      BY <1>1, <3>1, <3>2 DEF Types
  <2>5. CASE Cancel
    BY <1>1, <2>5 DEF Cancel, Types
  <2>4. CASE Serve
    <3>1. UNCHANGED <<canceled, closing, closersMu, watcher, handler>>
      BY <2>4 DEF Serve, ServeStarts, ServeBacklog, BacklogSent, ServeOp, ServeCanceled
    <3>2. result' \in {result, "ok", "err"}
      BY <2>4 DEF Serve, ServeStarts, ServeBacklog, BacklogSent, ServeOp, ServeCanceled,
         Ends, Once
    <3> QED
      BY <1>1, <3>1, <3>2 DEF Types
  <2>2. CASE Watcher
    BY <1>1, <2>2 DEF Watcher, WatcherWakes, WatcherLocks, WatcherUnlocks, WatcherFinishes,
       LockClosers, UnlockClosers, Once, Types
  <2>3. CASE Filter
    BY <1>1, <2>3 DEF Filter, FilterWakes, FilterLocks, FilterUnlocks, TasksDone, LoopStops,
       LockClosers, UnlockClosers, Types
  <2> QED
    BY <1>4, <2>1, <2>2, <2>3, <2>4, <2>5
<1>5. CASE UNCHANGED vars
    BY <1>1, <1>5, DataTypesStep DEF vars, streamVars, endVars, Types
<1>6. CASE \E o \in Ops : Function(o)
    BY <1>1, <1>2, <1>6, DataTypesStep DEF endVars, Types
<1>7. CASE Script \/ Serve \/ Watcher \/ Filter \/ Cancel
    BY <1>3, <1>4, <1>7, DataTypesStep DEF Types
<1> QED
    BY <1>5, <1>6, <1>7 DEF Next

\* Initially the line is empty and nothing has a result.
LEMMA InitIInv == Init => IInv
<1> SUFFICES ASSUME Init PROVE IInv
    OBVIOUS
<1>1. PICK program \in Programs :
          op = [o \in Ops |-> NewOp(IF o \in Calls THEN program[o] ELSE "close")]
    BY DEF Init
<1>2. \A k \in Calls : program[k] \in Kinds
    BY CallAssumption DEF Kinds, Calls
<1>3. \A o \in Ops : op[o] \in OpRecords /\ ~Vouched(op[o])
    BY <1>1, <1>2 DEF NewOp, OpRecords, OpPC, Kinds, Vouched
<1>4. Types
  <2>1. op \in [Ops -> OpRecords]
    BY <1>1, <1>3
  <2>2. serve \in ServeRecords /\ pending \in Seq(Calls) /\ sent \in Seq(Calls)
    BY DEF Init, ServeRecords, ServePC
  <2> QED
    BY <2>1, <2>2 DEF Init, Types
<1>5. ClosersClose
  <2>1. \A o \in Closers : o \in Ops /\ o \notin Calls
    BY CallAssumption DEF Closers, Ops, Calls, ByScript, ByWatcher, ByFilter
  <2> QED
    BY <1>1, <2>1 DEF ClosersClose, NewOp
<1>6. ServeLife /\ ResultLife
    BY DEF Init, ServeLife, ResultLife
<1>7. Line = <<>>
    BY ConcatEmptySeq, EmptySeq DEF Line, InHand, Init, Calls, NoOp
<1>8. LineLife
    BY <1>3, <1>7 DEF LineLife, Distinct, InLine, Ops
<1> QED
    BY <1>4, <1>5, <1>6, <1>8 DEF IInv

LEMMA NextIInv == IInv /\ [Next]_vars => IInv'
<1> SUFFICES ASSUME IInv, [Next]_vars PROVE IInv'
    OBVIOUS
<1> QED
    BY DataTypesStep, TypesStep, ServeLifeStep, LineLifeStep, ResultLifeStep DEF IInv

\* The inductive invariant holds of every state of a run.
THEOREM Invariance == Spec => []IInv
    BY InitIInv, NextIInv, PTL DEF Spec

\* The variables keep their types; in particular what waits to be sent is never
\* longer than what was written.
THEOREM TypeCorrect == Spec => []TypeOK
<1>1. IInv => TypeOK
  <2> SUFFICES ASSUME IInv PROVE TypeOK
      OBVIOUS
  <2>1. Types /\ Distinct(Line) /\ NCalls \in Nat
      BY CallAssumption DEF IInv, LineLife
  <2>2. Line \in Seq(1 .. NCalls)
      BY <2>1, Parts DEF Calls
  <2>3. Len(Line) <= NCalls
      BY <2>1, <2>2, DistinctIsShort
  <2>4. Len(Line) = Len(sent) + Len(InHand) + Len(serve.backlog) + Len(pending)
      BY <2>1, Parts, ConcatProperties DEF Line
  <2>5. /\ Len(sent) \in Nat /\ Len(InHand) \in Nat /\ Len(serve.backlog) \in Nat
        /\ Len(pending) \in Nat
      BY <2>1, Parts, LenProperties
  <2>6. Len(sent) <= NCalls /\ Len(serve.backlog) <= NCalls /\ Len(pending) <= NCalls
    <3> DEFINE a == Len(sent)
               b == Len(InHand)
               c == Len(serve.backlog)
               d == Len(pending)
    <3>1. a \in Nat /\ b \in Nat /\ c \in Nat /\ d \in Nat
      BY <2>5
    <3>2. a + b + c + d <= NCalls
      BY <2>3, <2>4
    <3> HIDE DEF a, b, c, d
    <3>3. a <= NCalls /\ c <= NCalls /\ d <= NCalls
      BY <2>1, <3>1, <3>2
    <3> QED
      BY <3>3 DEF a, c, d
  <2> QED
      BY <2>1, <2>6 DEF TypeOK, Types
<1> QED
    BY <1>1, Invariance, PTL

\* Once the handler has returned, nobody uses its response writer, unless the end
\* of the request's context cut the response short (filter.go:143-152, :176-181).
THEOREM WriterIsLetGo == Spec => []WriterIsReleased
<1>1. IInv => WriterIsReleased
    BY DEF IInv, ResultLife, WriterIsReleased
<1> QED
    BY <1>1, Invariance, PTL
-----------------------------------------------------------------------------
(* The refinement of OrderedPipe *)

\* What the mapping makes of the state.
State == IF serve.pc # "ended" \/ ~started THEN "open"
         ELSE IF serve.res = "ok" THEN "over" ELSE "broken"
Acked == {k \in Calls : op[k].kind = "write" /\ op[k].pc = "settled" /\ op[k].res = "ok"}

\* A call is acknowledged, if at all, by the step that settles its promise.
LEMMA AckedSteps ==
    ASSUME Types, UNCHANGED op \/ \E o \in Ops : Steps(o)
    PROVE  \/ UNCHANGED Acked
           \/ \E k \in Calls : /\ k \notin Acked /\ Acked' = Acked \cup {k}
                               /\ op[k].pc = "answered" /\ Vouched(op[k])
<1>1. CASE UNCHANGED op
    BY <1>1 DEF Acked
<1>2. ASSUME NEW o \in Ops, Steps(o)
      PROVE  \/ UNCHANGED Acked
             \/ /\ o \in Calls /\ o \notin Acked /\ Acked' = Acked \cup {o}
                /\ op[o].pc = "answered" /\ Vouched(op[o])
  <2>1. PICK y : Continued(op[o], y) /\ op' = [op EXCEPT ![o] = y]
    BY <1>2 DEF Steps
  <2>2. op'[o] = y /\ \A x \in Ops \ {o} : op'[x] = op[x]
    BY <2>1 DEF Types
  <2>3. o \notin Acked /\ Calls \subseteq Ops
    BY <2>1 DEF Acked, Continued, Ops
  <2>4. CASE o \in Calls /\ y.kind = "write" /\ y.pc = "settled" /\ y.res = "ok"
    <3>1. op[o].pc = "answered" /\ Vouched(op[o])
      BY <2>1, <2>4 DEF Continued, Vouched
    <3>2. Acked' = Acked \cup {o}
      BY <2>2, <2>3, <2>4 DEF Acked
    <3> QED
      BY <2>3, <2>4, <3>1, <3>2
  <2>5. CASE ~(o \in Calls /\ y.kind = "write" /\ y.pc = "settled" /\ y.res = "ok")
    <3>1. Acked' = Acked
      BY <2>2, <2>3, <2>5 DEF Acked
    <3> QED
      BY <3>1
  <2> QED
    BY <2>4, <2>5
<1> QED
    BY <1>1, <1>2

LEMMA AckedKept ==
    ASSUME Types, NEW o \in Ops, Steps(o), op[o].pc # "answered"
    PROVE  UNCHANGED Acked
<1>1. \A x \in Ops \ {o} : op'[x] = op[x]
    BY DEF Steps, Types
<1>2. o \notin Acked /\ (op'[o].pc = "settled" => op'[o].res # "ok")
    BY DEF Steps, Continued, Acked, Types
<1> QED
    BY <1>1, <1>2 DEF Acked, Ops

\* How the stream ends, in the terms of the pipe.
LEMMA StateSteps ==
    ASSUME Types, ServeLife, UNCHANGED started
    PROVE  /\ serve'.pc # "ended" /\ serve.pc # "ended" => UNCHANGED State
           /\ UNCHANGED serve => UNCHANGED State
           /\ serve.pc # "ended" /\ serve'.pc = "ended" /\ serve'.res = "ok" /\ started =>
                  State = "open" /\ State' = "over"
           /\ serve.pc # "ended" /\ serve'.pc = "ended" /\ serve'.res = "err" /\ started =>
                  State = "open" /\ State' = "broken"
    BY DEF State

\* A chunk that is in the line is accepted, and no other one.
LEMMA AcceptedIsInLine ==
    ASSUME NEW k
    PROVE  k \in Pipe!Accepted <=> InLine(k)
    BY DEF Pipe!Accepted, InLine, Line

\* Every step of the code is one of the pipe, or none.
LEMMA PipeStep ==
    ASSUME IInv, [Next]_vars
    PROVE  [Pipe!Next]_Pipe!vars
<1>1. Types /\ ClosersClose /\ ServeLife /\ LineLife
    BY DEF IInv
<1>2. UNCHANGED op \/ \E o \in Ops : Steps(o)
    BY <1>1, OpSteps
<1>3. ASSUME UNCHANGED <<Line, sent, Acked, State>> PROVE UNCHANGED Pipe!vars
    BY <1>3 DEF Pipe!vars, Line, Acked, State
<1>4. ASSUME NEW k \in Calls, Joins(k), State = "open", UNCHANGED <<sent, Acked, State>>
      PROVE  Pipe!Accept(k)
    BY <1>4, AcceptedIsInLine DEF Pipe!Accept, Joins, Line, Acked, State
<1>5. ASSUME UNCHANGED <<Line, Acked, State>>, State = "open",
             sent' = Append(sent, Line[Len(sent) + 1]), Len(sent) < Len(Line)
      PROVE  Pipe!Deliver
    BY <1>5 DEF Pipe!Deliver, Line, Acked, State
<1>6. ASSUME UNCHANGED <<Line, sent, Acked>>, State = "open",
             State' = "broken" \/ (State' = "over" /\ sent = Line)
      PROVE  Pipe!Break \/ Pipe!Finish
    BY <1>6 DEF Pipe!Break, Pipe!Finish, Line, Acked, State
<1>7. ASSUME NEW k \in Calls, k \notin Acked, InLine(k), Acked' = Acked \cup {k},
             UNCHANGED <<Line, sent, State>>
      PROVE  Pipe!Ack(k)
    BY <1>7, AcceptedIsInLine DEF Pipe!Ack, Line, Acked, State
<1>8. CASE \E k \in Calls : Enter(k)
  <2>1. PICK k \in Calls : Enter(k)
    BY <1>8
  <2>2. UNCHANGED <<started, serve, sent, State>>
    BY <1>1, <2>1, EnterLine, StateSteps
  <2>3. UNCHANGED Acked
    BY <1>1, <2>1, EnterSteps, AckedKept DEF Enter, Ops
  <2>4. CASE UNCHANGED Line
    BY <1>3, <2>2, <2>3, <2>4
  <2>5. CASE Joins(k) /\ ~started
    BY <1>4, <2>2, <2>3, <2>5 DEF Pipe!Next, State
  <2> QED
    BY <1>1, <2>1, <2>4, <2>5, EnterLine
<1>9. CASE \E o \in Ops : HandOver(o)
  <2>1. PICK o \in Ops : HandOver(o)
    BY <1>9
  <2>2. /\ UNCHANGED <<sent, started>>
        /\ serve.pc = "loop" /\ serve'.pc = "serving"
    BY <1>1, <2>1 DEF HandOver, streamVars, Types, ServeRecords
  <2>3. UNCHANGED State /\ State = "open"
    BY <1>1, <2>2, StateSteps DEF State
  <2>4. UNCHANGED Acked
    BY <1>1, <2>1, QueueSteps, AckedKept DEF HandOver
  <2>5. CASE UNCHANGED Line
    BY <1>3, <2>2, <2>3, <2>4, <2>5
  <2>6. CASE o \in Calls /\ Joins(o)
    BY <1>4, <2>2, <2>3, <2>4, <2>6 DEF Pipe!Next
  <2> QED
    BY <1>1, <2>1, <2>5, <2>6, HandOverLine
<1>10. CASE ServeStarts
  <2>1. UNCHANGED <<sent, Acked>>
    BY <1>10 DEF ServeStarts, Acked
  <2>2. State = "open" /\ State' = "open"
    BY <1>1, <1>10 DEF ServeStarts, State, ServeLife, Types, ServeRecords
  <2> QED
    BY <1>1, <1>3, <1>10, <2>1, <2>2, ServeStartsLine
<1>11. CASE ServeBacklog \/ BacklogSent \/ ServeCanceled \/ ServeOp
  <2>1. /\ serve.pc \in {"backlog", "loop", "serving"} /\ started /\ UNCHANGED started
        /\ serve'.pc = "ended" => serve'.res \in {"ok", "err"}
    BY <1>1, <1>11 DEF ServeBacklog, BacklogSent, ServeCanceled, ServeOp, Ends, ServeLife,
       Types, ServeRecords
  <2>2. State = "open" /\ (serve'.pc # "ended" => UNCHANGED State)
    BY <1>1, <2>1, StateSteps DEF State
  <2>3. UNCHANGED Acked
    <3>1. CASE UNCHANGED op
      BY <3>1 DEF Acked
    <3>2. CASE ~UNCHANGED op
      <4>1. ServeOp /\ Steps(serve.op) /\ serve.op \in Ops
        BY <1>1, <1>11, <3>2, ServeOpSteps DEF ServeBacklog, BacklogSent, ServeCanceled,
           ServeOp, ServeLife
      <4>2. op[serve.op].pc = "sent"
        BY <3>2, <4>1 DEF ServeOp
      <4> QED
        BY <1>1, <4>1, <4>2, AckedKept
    <3> QED
      BY <3>1, <3>2
  <2>4. /\ UNCHANGED Line
        /\ \/ UNCHANGED sent
           \/ /\ sent' = Append(sent, Line[Len(sent) + 1])
              /\ Len(sent) < Len(Line) /\ serve'.pc # "ended"
    BY <1>1, <1>11, ServeBacklogLine, BacklogSentLine, ServeOpLine, ServeCanceledLine
  <2>5. serve'.pc = "ended" /\ serve'.res = "ok" => sent = Line
    <3>1. CASE ServeBacklog
      BY <1>1, <3>1, <2>1 DEF ServeBacklog, Ends, Types, ServeRecords
    <3>2. CASE ServeCanceled
      BY <1>1, <3>2, ServeCanceledLine
    <3> QED
      BY <1>1, <1>11, <3>1, <3>2, BacklogSentLine, ServeOpLine
  <2>6. CASE serve'.pc # "ended" /\ UNCHANGED sent
    BY <1>3, <2>2, <2>3, <2>4, <2>6
  <2>7. CASE serve'.pc # "ended" /\ ~UNCHANGED sent
    BY <1>5, <2>2, <2>3, <2>4, <2>7 DEF Pipe!Next
  <2>8. CASE serve'.pc = "ended"
    <3>1. UNCHANGED sent
      BY <2>4, <2>8
    <3>2. State' = "broken" \/ (State' = "over" /\ sent = Line)
      BY <1>1, <2>1, <2>5, <2>8, StateSteps
    <3> QED
      BY <1>6, <2>2, <2>3, <2>4, <3>1, <3>2 DEF Pipe!Next
  <2> QED
    BY <2>6, <2>7, <2>8
<1>12. CASE Other
  <2>1. UNCHANGED <<Line, sent>>
    BY <1>1, <1>2, <1>12, OtherLine DEF Other
  <2>2. UNCHANGED State
    BY <1>1, <1>12, StateSteps DEF Other, State, Types, ServeRecords
  <2>3. CASE UNCHANGED Acked
    BY <1>3, <2>1, <2>2, <2>3
  <2>4. CASE ~UNCHANGED Acked
    <3>1. PICK k \in Calls : k \notin Acked /\ Acked' = Acked \cup {k} /\ Vouched(op[k])
      BY <1>1, <1>2, <2>4, AckedSteps
    <3>2. InLine(k)
      BY <1>1, <3>1 DEF LineLife
    <3> QED
      BY <1>7, <2>1, <2>2, <3>1, <3>2 DEF Pipe!Next
  <2> QED
    BY <2>3, <2>4
<1> QED
    BY <1>1, <1>8, <1>9, <1>10, <1>11, <1>12, NextCases

LEMMA PipeInit == Init => Pipe!Init
<1> SUFFICES ASSUME Init PROVE Pipe!Init
    OBVIOUS
<1>1. sent \o InHand \o serve.backlog \o pending = <<>>
    BY ConcatEmptySeq, EmptySeq DEF InHand, Init, Calls, NoOp
<1>2. Acked = {}
    BY DEF Init, Acked, NewOp, Ops
<1>3. sent = <<>> /\ State = "open"
    BY DEF Init, State
<1> QED
    BY <1>1, <1>2, <1>3 DEF Pipe!Init, Acked, State

\* What the stream makes of its calls is an ordered pipe: nothing that was accepted
\* is lost, repeated or reordered at the start of the response or after it, no
\* write is acknowledged that was not accepted, and a response that ends well has
\* sent every chunk (response_stream.go:103-127, :204-277).
THEOREM StreamIsAPipe == Spec => IsOrderedPipe
<1>1. Init => Pipe!Init
    BY PipeInit
<1>2. IInv /\ [Next]_vars => [Pipe!Next]_Pipe!vars
    BY PipeStep
<1> QED
    BY <1>1, <1>2, Invariance, PTL DEF Spec, IsOrderedPipe, Pipe!Spec
=============================================================================
