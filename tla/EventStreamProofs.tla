------------------------- MODULE EventStreamProofs --------------------------
(***************************************************************************)
(* Proofs about EventStream, for every set of streams, number of loads and *)
(* events and every limit: the types, the stream that is registered, the   *)
(* waiters, and the events that are handed to them.                        *)
(***************************************************************************)
EXTENDS EventStream, SequenceTheorems, TLAPS

(* The inductive invariant *)

OnLoop == {"await", "start"}
Waits(l) == load[l].pc \in {"start", "wait"} /\ ~Answered(l)

\* The loads are called one after the other: those after the one that runs on the
\* event loop are new.
LoadOrder ==
    \A k, l \in Loads : k < l =>
        /\ load[k].pc = "new" => load[l].pc = "new"
        /\ load[k].pc \in OnLoop => load[l].pc = "new"

\* A load knows no stream but one that was made.
LifeOf(l) ==
    /\ load[l].pc = "new" => load[l] = NewLoad
    /\ load[l].pc = "await" => ~Answered(l)
    /\ load[l].pc \in {"await", "start", "wait"} => load[l].stream # None
    /\ load[l].stream # None => stream[load[l].stream].pc # "free"

LoadLife == \A l \in Loads : LifeOf(l)

\* A stream that has ended keeps nothing, and only an ended one is left by its
\* supervisor; where loads wait, nothing is kept for them.
LifeOfStream(s) ==
    /\ stream[s].pc = "free" => stream[s] = NoStream
    /\ stream[s].pc \in {"exit", "gone"} => stream[s].closed # "open"
    /\ stream[s].closed # "open" => stream[s].pending = <<>> /\ stream[s].waiters = <<>>
    /\ stream[s].waiters # <<>> => stream[s].pending = <<>> /\ ~stream[s].overflow

StreamLife ==
    /\ \A s \in Streams : LifeOfStream(s)
    /\ registered # None => stream[registered].pc # "free"

\* The waiters of a stream: loads of this stream, without an answer, in the order of
\* their calls, and later than those that got one of its events.
Waiting(s) ==
    LET w == stream[s].waiters IN
    \A i \in 1 .. Len(w) :
        /\ load[w[i]].stream = s /\ Waits(w[i])
        /\ \A j \in 1 .. Len(w) : i < j => w[i] < w[j]
        /\ \A k \in Got(s) : k < w[i]

WaitersWait == \A s \in Streams : Waiting(s)

\* And every load that waits is among them.
Listed ==
    \A l \in Loads : Waits(l) =>
        LET w == stream[load[l].stream].waiters IN \E i \in 1 .. Len(w) : w[i] = l

\* Up to event n, the loads got them all, in order; the others are kept or wait in
\* the subscription.
GotUpTo(s, n) ==
    /\ \A l \in Got(s) : load[l].event \in stream[s].first + 1 .. n
    /\ \A e \in stream[s].first + 1 .. n : \E l \in Got(s) : load[l].event = e
    /\ \A k, l \in Got(s) : k < l => load[k].event < load[l].event

KeptFrom(s, n) ==
    LET p == stream[s].pending
        v == stream[s].events
    IN /\ Len(p) + Len(v) = published - n
       /\ \A i \in 1 .. Len(p) : p[i] = n + i
       /\ \A i \in 1 .. Len(v) : v[i] = n + Len(p) + i

Complete(s) == \E n \in stream[s].first .. published : GotUpTo(s, n) /\ KeptFrom(s, n)

NoneLost == \A s \in Streams : Undisturbed(s) => Complete(s)

IInv ==
    /\ TypeOK /\ LoadOrder /\ LoadLife /\ StreamLife /\ OneOpenStream
    /\ WaitersWait /\ Listed /\ NoneLost
-----------------------------------------------------------------------------
(* Facts that the types give *)

LEMMA LoadFacts ==
    ASSUME TypeOK, NEW l \in Loads
    PROVE  /\ load[l] \in LoadRecords /\ DOMAIN load = Loads /\ l \in Int
           /\ load[l].pc \in LoadPC /\ load[l].stream \in Streams \cup {None}
           /\ load[l].event \in 0 .. MaxEvents /\ load[l].err \in LoadErrs
           /\ load[l].event \in Int
<1>1. load[l] \in LoadRecords /\ DOMAIN load = Loads
    BY DEF TypeOK
<1> QED
    BY <1>1, StreamAssumption DEF LoadRecords, Loads

LEMMA StreamFacts ==
    ASSUME TypeOK, NEW s \in Streams
    PROVE  /\ stream[s] \in StreamRecords /\ DOMAIN stream = Streams
           /\ stream[s].pc \in SupervisorPC /\ stream[s].closed \in Ends
           /\ stream[s].pending \in Seq(Events) /\ Len(stream[s].pending) <= Limit
           /\ stream[s].waiters \in Seq(Loads) /\ stream[s].events \in Seq(Events)
           /\ stream[s].overflow \in BOOLEAN /\ stream[s].subscribed \in BOOLEAN
           /\ stream[s].ended \in BOOLEAN /\ stream[s].again \in BOOLEAN
           /\ stream[s].first \in 0 .. MaxEvents /\ stream[s].dropped \in 0 .. MaxEvents
<1>1. stream[s] \in StreamRecords /\ DOMAIN stream = Streams /\ Len(stream[s].pending) <= Limit
    BY DEF TypeOK
<1> QED
    BY <1>1 DEF StreamRecords

LEMMA NullFacts ==
    /\ NewLoad \in LoadRecords /\ NewLoad.pc = "new" /\ NewLoad.stream = None
    /\ NewLoad.event = 0 /\ NewLoad.err = "none"
    /\ NoStream \in StreamRecords
    /\ NoStream.pc = "free" /\ NoStream.pending = <<>> /\ NoStream.waiters = <<>>
    /\ NoStream.overflow = FALSE /\ NoStream.closed = "open" /\ NoStream.subscribed = FALSE
    /\ NoStream.events = <<>> /\ NoStream.ended = FALSE /\ NoStream.first = 0
    /\ NoStream.dropped = 0 /\ NoStream.again = FALSE
<1>1. NewLoad \in LoadRecords /\ NewLoad.pc = "new" /\ NewLoad.stream = None
      /\ NewLoad.event = 0 /\ NewLoad.err = "none"
    BY StreamAssumption DEF NewLoad, LoadRecords, LoadPC, LoadErrs
<1>2. <<>> \in Seq(Events) /\ <<>> \in Seq(Loads) /\ 0 \in 0 .. MaxEvents
    BY StreamAssumption
<1> QED
    BY <1>1, <1>2 DEF NoStream, StreamRecords, SupervisorPC, Ends

\* The load that runs on the event loop, or is called next: those before it have
\* left the loop and those after it are new.
Runs(l) ==
    \A k \in Loads : /\ k < l => load[k].pc \notin OnLoop \cup {"new"}
                     /\ k > l => load[k].pc = "new"

LEMMA RunsFacts ==
    ASSUME TypeOK, LoadOrder, NEW l \in Loads
    PROVE  /\ load[l].pc \in OnLoop => Runs(l)
           /\ LoopIsFree /\ IsNext(l) => Runs(l)
<1>1. ASSUME load[l].pc \in OnLoop PROVE Runs(l)
    BY <1>1 DEF Runs, LoadOrder, OnLoop
<1>2. ASSUME LoopIsFree, IsNext(l) PROVE Runs(l)
  <2>1. ASSUME NEW k \in Loads, k < l PROVE load[k].pc \notin OnLoop \cup {"new"}
    BY <1>2, <2>1 DEF LoopIsFree, IsNext, OnLoop
  <2>2. ASSUME NEW k \in Loads, k > l PROVE load[k].pc = "new"
    <3>1. l < k /\ load[l].pc = "new"
      BY <1>2, <2>2 DEF IsNext, Loads
    <3> QED
      BY <3>1 DEF LoadOrder
  <2> QED
    BY <2>1, <2>2 DEF Runs
<1> QED
    BY <1>1, <1>2

\* Only load l changes its place, as the one that runs or as one that has waited.
LEMMA OrderStep ==
    ASSUME TypeOK, LoadOrder, NEW l \in Loads,
           \A k \in Loads \ {l} : load'[k].pc = load[k].pc,
           \/ Runs(l) /\ load'[l].pc # "new"
           \/ load[l].pc \notin OnLoop \cup {"new"} /\ load'[l].pc \notin OnLoop \cup {"new"}
    PROVE  LoadOrder'
<1> SUFFICES ASSUME NEW i \in Loads, NEW j \in Loads, i < j
             PROVE  /\ load'[i].pc = "new" => load'[j].pc = "new"
                    /\ load'[i].pc \in OnLoop => load'[j].pc = "new"
    BY DEF LoadOrder
<1>1. i \in Int /\ j \in Int /\ l \in Int
    BY DEF Loads
<1>2. CASE i # l /\ j # l
    BY <1>2 DEF LoadOrder
<1>3. CASE i = l
    BY <1>1, <1>3 DEF Runs, LoadOrder
<1>4. CASE j = l
    BY <1>1, <1>4 DEF Runs, LoadOrder
<1> QED
    BY <1>2, <1>3, <1>4

(* What a step leaves as it is *)

SameGot(k) == load'[k].event = load[k].event /\ (load[k].event # 0 => load'[k].stream = load[k].stream)

LEMMA GotSame ==
    ASSUME NEW s \in Streams, \A k \in Loads : SameGot(k)
    PROVE  Got(s)' = Got(s) /\ \A k \in Got(s) : load'[k].event = load[k].event
    BY DEF SameGot, Got

LEMMA LifeSame ==
    ASSUME TypeOK, NEW k \in Loads, LifeOf(k), load'[k] = load[k],
           \A s \in Streams : stream[s].pc # "free" => stream'[s].pc # "free"
    PROVE  LifeOf(k)'
<1>1. load[k].stream \in Streams \cup {None}
    BY LoadFacts
<1> QED
    BY <1>1 DEF LifeOf, Answered

\* A waiter of s is a load, and waits.
LEMMA WaiterFacts ==
    ASSUME TypeOK, NEW s \in Streams, Waiting(s), NEW i \in 1 .. Len(stream[s].waiters)
    PROVE  /\ stream[s].waiters[i] \in Loads
           /\ load[stream[s].waiters[i]].stream = s /\ Waits(stream[s].waiters[i])
<1>1. stream[s].waiters \in Seq(Loads)
    BY StreamFacts
<1>2. stream[s].waiters[i] \in Loads
    BY <1>1, ElementOfSeq
<1> QED
    BY <1>2 DEF Waiting

LEMMA WaitingSame ==
    ASSUME TypeOK, NEW s \in Streams, Waiting(s), stream'[s].waiters = stream[s].waiters,
           \A k \in Loads : load[k].stream = s /\ Waits(k) => load'[k].stream = s /\ Waits(k)',
           \A k \in Loads : SameGot(k)
    PROVE  Waiting(s)'
<1>1. Got(s)' = Got(s)
    BY GotSame
<1>2. ASSUME NEW i \in 1 .. Len(stream[s].waiters), NEW k \in Loads, k = stream[s].waiters[i]
      PROVE  /\ load'[k].stream = s /\ Waits(k)'
             /\ \A j \in 1 .. Len(stream[s].waiters) : i < j => k < stream[s].waiters[j]
             /\ \A h \in Got(s)' : h < k
    BY <1>1, <1>2 DEF Waiting
<1>3. \A i \in 1 .. Len(stream[s].waiters) : stream[s].waiters[i] \in Loads
    BY StreamFacts, ElementOfSeq
<1> QED
    BY <1>2, <1>3 DEF Waiting, Waits, Answered

LEMMA CompleteSame ==
    ASSUME NEW s \in Streams, Undisturbed(s) => Complete(s),
           Undisturbed(s)' => /\ Undisturbed(s)
                              /\ stream'[s].first = stream[s].first
                              /\ stream'[s].pending = stream[s].pending
                              /\ stream'[s].events = stream[s].events,
           published' = published,
           \A k \in Loads : SameGot(k)
    PROVE  (Undisturbed(s) => Complete(s))'
<1> SUFFICES ASSUME Undisturbed(s)' PROVE Complete(s)'
    OBVIOUS
<1>1. PICK n \in stream[s].first .. published : GotUpTo(s, n) /\ KeptFrom(s, n)
    BY DEF Complete
<1>2. Got(s)' = Got(s) /\ \A k \in Got(s) : load'[k].event = load[k].event
    BY GotSame
<1>3. GotUpTo(s, n)'
    BY <1>1, <1>2 DEF GotUpTo
<1>4. KeptFrom(s, n)'
    BY <1>1 DEF KeptFrom
<1> QED
    BY <1>1, <1>3, <1>4 DEF Complete

-----------------------------------------------------------------------------
(* Steps of a load that leave the streams alone *)

LoadMoves(l) ==
    /\ UNCHANGED <<published, stream, closing, ctxDone>>
    /\ load' = [load EXCEPT ![l] = load'[l]] /\ load'[l] \in LoadRecords
    /\ SameGot(l)
    /\ \/ Runs(l) /\ load'[l].pc # "new"
       \/ load[l].pc \notin OnLoop \cup {"new"} /\ load'[l].pc \notin OnLoop \cup {"new"}
    /\ load'[l].stream # None => stream[load'[l].stream].pc # "free"
    /\ load'[l].pc = "await" => load'[l].event = 0 /\ load'[l].err = "none"
    /\ load'[l].pc \in {"await", "start", "wait"} => load'[l].stream # None
    /\ load'[l].pc # "new"
    /\ load'[l].pc \in {"start", "wait"} => load[l].pc \in {"start", "wait"}
    /\ load[l].pc \in {"start", "wait"} =>
           /\ load'[l].stream = load[l].stream /\ load'[l].err = load[l].err
           /\ Answered(l) \/ load'[l].pc \in {"start", "wait"}
    /\ registered' = registered \/ (registered' = None /\ ~HasOpenStream)

LEMMA LoadMovesStep ==
    ASSUME IInv, NEW l \in Loads, LoadMoves(l)
    PROVE  IInv'
<1>1. TypeOK /\ LoadOrder /\ LoadLife /\ StreamLife /\ OneOpenStream
      /\ WaitersWait /\ Listed /\ NoneLost
    BY DEF IInv
<1>2. /\ \A k \in Loads \ {l} : load'[k] = load[k]
      /\ \A k \in Loads : SameGot(k)
      /\ stream' = stream
    BY <1>1 DEF LoadMoves, TypeOK, SameGot
<1>3. TypeOK'
    BY <1>1 DEF LoadMoves, TypeOK
<1>4. LoadOrder'
    BY <1>1, <1>2, OrderStep DEF LoadMoves
<1>5. LoadLife'
  <2>1. ASSUME NEW k \in Loads, k # l PROVE LifeOf(k)'
    BY <1>1, <1>2, <2>1, LifeSame DEF LoadLife
  <2>2. LifeOf(l)'
    BY <1>2 DEF LoadMoves, LifeOf, Answered
  <2> QED
    BY <2>1, <2>2 DEF LoadLife
<1>6. StreamLife'
    BY <1>1, <1>2 DEF LoadMoves, StreamLife, LifeOfStream
<1>7. OneOpenStream'
    BY <1>1, <1>2 DEF LoadMoves, OneOpenStream, IsOpen, HasOpenStream
<1>8. ASSUME NEW k \in Loads, Waits(k)
      PROVE  load'[k].stream = load[k].stream /\ Waits(k)'
    BY <1>2, <1>8 DEF LoadMoves, Waits, Answered, SameGot
<1>9. WaitersWait'
    BY <1>1, <1>2, <1>8, WaitingSame DEF WaitersWait
<1>10. Listed'
  <2>1. ASSUME NEW k \in Loads, Waits(k)'
        PROVE  Waits(k) /\ load'[k].stream = load[k].stream
    BY <1>2, <2>1 DEF LoadMoves, Waits, Answered, SameGot
  <2> QED
    BY <1>1, <1>2, <2>1 DEF Listed
<1>11. NoneLost'
    BY <1>1, <1>2, CompleteSame DEF NoneLost, LoadMoves, Undisturbed, IsOpen
<1> QED
    BY <1>3, <1>4, <1>5, <1>6, <1>7, <1>9, <1>10, <1>11 DEF IInv

Refused(l) ==
    /\ ~HasOpenStream /\ registered' = None
    /\ load' = Settled(l, 0, "subscribe") /\ UNCHANGED stream
IsRejected(l) ==
    /\ stream[load[l].stream].closed # "open"
    /\ load' = Settled(l, 0, stream[load[l].stream].closed) /\ UNCHANGED stream

LEMMA LoadActions ==
    ASSUME IInv, NEW l \in Loads
    PROVE  /\ Load(l) /\ HasOpenStream => LoadMoves(l)
           /\ Load(l) /\ Refused(l) => LoadMoves(l)
           /\ Await(l) /\ IsRejected(l) => LoadMoves(l)
           /\ StartTask(l) /\ ~closing => LoadMoves(l)
           /\ Settle(l) => LoadMoves(l)
<1>1. TypeOK /\ LoadOrder /\ LoadLife /\ StreamLife
    BY DEF IInv
<1>2. /\ load[l] \in LoadRecords /\ DOMAIN load = Loads
      /\ load[l].stream \in Streams \cup {None} /\ LifeOf(l)
      /\ registered \in Streams \cup {None}
      /\ registered # None => stream[registered].pc # "free"
    BY <1>1, LoadFacts DEF LoadLife, StreamLife, TypeOK
<1>3. ASSUME Load(l), HasOpenStream PROVE LoadMoves(l)
  <2> DEFINE c == [load[l] EXCEPT !.pc = "await", !.stream = registered]
  <2>1. /\ LoopIsFree /\ IsNext(l) /\ load' = [load EXCEPT ![l] = c]
        /\ UNCHANGED <<published, registered, stream, closing, ctxDone>>
    BY <1>3 DEF Load
  <2>2. registered # None
    BY <1>3 DEF HasOpenStream
  <2>3. load[l].pc = "new" /\ load[l] = NewLoad /\ Runs(l)
    BY <1>1, <1>2, <2>1, RunsFacts DEF IsNext, LifeOf
  <2>4. /\ c \in LoadRecords /\ c.pc = "await" /\ c.stream = registered
        /\ c.event = 0 /\ c.err = "none" /\ load[l].event = 0
    BY <1>2, <2>2, <2>3, NullFacts DEF LoadRecords, LoadPC
  <2> HIDE DEF c
  <2>5. load'[l] = c
    BY <1>2, <2>1
  <2> QED
    BY <1>2, <2>1, <2>2, <2>3, <2>4, <2>5 DEF LoadMoves, SameGot
<1>4. ASSUME Load(l), Refused(l) PROVE LoadMoves(l)
  <2> DEFINE c == [load[l] EXCEPT !.pc = "settled", !.event = 0, !.err = "subscribe"]
  <2>1. /\ LoopIsFree /\ IsNext(l) /\ load' = [load EXCEPT ![l] = c]
        /\ UNCHANGED <<published, stream, closing, ctxDone>>
    BY <1>4 DEF Load, Refused, Settled
  <2>2. load[l].pc = "new" /\ load[l] = NewLoad /\ Runs(l)
    BY <1>1, <1>2, <2>1, RunsFacts DEF IsNext, LifeOf
  <2>3. /\ c \in LoadRecords /\ c.pc = "settled" /\ c.stream = None
        /\ c.event = 0 /\ load[l].event = 0
    BY <1>2, <2>2, NullFacts, StreamAssumption DEF LoadRecords, LoadPC, LoadErrs
  <2> HIDE DEF c
  <2>4. load'[l] = c
    BY <1>2, <2>1
  <2> QED
    BY <1>2, <1>4, <2>1, <2>2, <2>3, <2>4 DEF Refused, LoadMoves, SameGot
<1>5. ASSUME Await(l), IsRejected(l) PROVE LoadMoves(l)
  <2> DEFINE s == load[l].stream
             c == [load[l] EXCEPT !.pc = "settled", !.event = 0, !.err = stream[s].closed]
  <2>1. /\ load[l].pc = "await" /\ load' = [load EXCEPT ![l] = c]
        /\ UNCHANGED <<published, registered, stream, closing, ctxDone>>
    BY <1>5 DEF Await, IsRejected, Settled
  <2>2. Runs(l) /\ ~Answered(l) /\ s # None /\ s \in Streams /\ stream[s].pc # "free"
    BY <1>1, <1>2, <2>1, RunsFacts DEF LifeOf, OnLoop
  <2>3. stream[s].closed \in Ends \ {"open"}
    BY <1>1, <1>5, <2>2, StreamFacts DEF IsRejected
  <2>4. /\ c \in LoadRecords /\ c.pc = "settled" /\ c.stream = s
        /\ c.event = 0 /\ load[l].event = 0
    BY <1>2, <2>2, <2>3, StreamAssumption DEF LoadRecords, LoadPC, LoadErrs, Ends, Answered
  <2> HIDE DEF c
  <2>5. load'[l] = c
    BY <1>2, <2>1
  <2> QED
    BY <1>2, <2>1, <2>2, <2>4, <2>5 DEF LoadMoves, SameGot
<1>6. ASSUME StartTask(l), ~closing PROVE LoadMoves(l)
  <2> DEFINE c == [load[l] EXCEPT !.pc = "wait"]
  <2>1. /\ load[l].pc = "start" /\ load' = [load EXCEPT ![l] = c]
        /\ UNCHANGED <<published, registered, stream, closing, ctxDone>>
    BY <1>6 DEF StartTask
  <2>2. Runs(l) /\ load[l].stream # None /\ stream[load[l].stream].pc # "free"
    BY <1>1, <1>2, <2>1, RunsFacts DEF LifeOf, OnLoop
  <2>3. /\ c \in LoadRecords /\ c.pc = "wait" /\ c.stream = load[l].stream
        /\ c.event = load[l].event /\ c.err = load[l].err
    BY <1>2 DEF LoadRecords, LoadPC
  <2> HIDE DEF c
  <2>4. load'[l] = c
    BY <1>2, <2>1
  <2> QED
    BY <1>2, <2>1, <2>2, <2>3, <2>4 DEF LoadMoves, SameGot
<1>7. ASSUME Settle(l) PROVE LoadMoves(l)
  <2> DEFINE c == [load[l] EXCEPT !.pc = IF closing THEN "dropped" ELSE "settled"]
  <2>1. /\ load[l].pc = "wait" /\ Answered(l) /\ load' = [load EXCEPT ![l] = c]
        /\ UNCHANGED <<published, registered, stream, closing, ctxDone>>
    BY <1>7 DEF Settle
  <2>2. load[l].stream # None /\ stream[load[l].stream].pc # "free"
    BY <1>2, <2>1 DEF LifeOf
  <2>3. /\ c \in LoadRecords /\ c.pc \in {"dropped", "settled"} /\ c.stream = load[l].stream
        /\ c.event = load[l].event /\ c.err = load[l].err
    BY <1>2 DEF LoadRecords, LoadPC
  <2> HIDE DEF c
  <2>4. load'[l] = c
    BY <1>2, <2>1
  <2> QED
    BY <1>2, <2>1, <2>2, <2>3, <2>4 DEF LoadMoves, SameGot, OnLoop
<1> QED
    BY <1>3, <1>4, <1>5, <1>6, <1>7

-----------------------------------------------------------------------------
(* A new stream *)

Makes(l, s) ==
    /\ ~HasOpenStream /\ stream[s].pc = "free" /\ registered' = s
    /\ stream' = [stream EXCEPT ![s] = [NoStream EXCEPT
                     !.pc = "check", !.subscribed = TRUE, !.first = published]]
    /\ load' = [load EXCEPT ![l].pc = "await", ![l].stream = s]

LEMMA MakesStep ==
    ASSUME IInv, NEW l \in Loads, NEW s \in Streams, Load(l), Makes(l, s)
    PROVE  IInv'
<1>1. TypeOK /\ LoadOrder /\ LoadLife /\ StreamLife /\ OneOpenStream
      /\ WaitersWait /\ Listed /\ NoneLost
    BY DEF IInv
<1> DEFINE c == [load[l] EXCEPT !.pc = "await", !.stream = s]
           y == [NoStream EXCEPT !.pc = "check", !.subscribed = TRUE, !.first = published]
<1>2. /\ LoopIsFree /\ IsNext(l) /\ UNCHANGED <<published, closing, ctxDone>>
      /\ ~HasOpenStream /\ stream[s].pc = "free" /\ registered' = s
      /\ load' = [load EXCEPT ![l] = c] /\ stream' = [stream EXCEPT ![s] = y]
    BY DEF Load, Makes
<1>3. load[l].pc = "new" /\ load[l] = NewLoad /\ Runs(l) /\ stream[s] = NoStream
    BY <1>1, <1>2, RunsFacts DEF IsNext, LoadLife, LifeOf, StreamLife, LifeOfStream
<1>4. /\ c \in LoadRecords /\ c.pc = "await" /\ c.stream = s /\ c.event = 0 /\ c.err = "none"
    BY <1>3, NullFacts DEF LoadRecords, LoadPC
<1>5. /\ y \in StreamRecords /\ y.pc = "check" /\ y.pending = <<>> /\ y.waiters = <<>>
      /\ y.closed = "open" /\ y.events = <<>> /\ y.first = published /\ y.overflow = FALSE
      /\ Len(y.pending) <= Limit /\ Len(y.pending) = 0 /\ Len(y.events) = 0
  <2>1. published \in 0 .. MaxEvents
    BY <1>1 DEF TypeOK
  <2>2. y \in StreamRecords /\ y.pc = "check" /\ y.pending = <<>> /\ y.waiters = <<>>
        /\ y.closed = "open" /\ y.events = <<>> /\ y.first = published /\ y.overflow = FALSE
    BY <2>1, NullFacts DEF NoStream, StreamRecords, SupervisorPC
  <2> QED
    BY <2>2, StreamAssumption
<1> HIDE DEF c, y
<1>6. /\ load'[l] = c /\ stream'[s] = y
      /\ \A k \in Loads \ {l} : load'[k] = load[k]
      /\ \A q \in Streams \ {s} : stream'[q] = stream[q]
      /\ load' \in [Loads -> LoadRecords] /\ stream' \in [Streams -> StreamRecords]
    BY <1>1, <1>2, <1>4, <1>5 DEF TypeOK
<1>7. \A k \in Loads : SameGot(k)
    BY <1>3, <1>4, <1>6, NullFacts DEF SameGot
<1>8. TypeOK'
    BY <1>1, <1>2, <1>5, <1>6 DEF TypeOK
<1>9. LoadOrder'
    BY <1>1, <1>3, <1>4, <1>6, OrderStep
<1>10. LoadLife'
  <2>1. ASSUME NEW k \in Loads, k # l PROVE LifeOf(k)'
    BY <1>1, <1>5, <1>6, <2>1, LifeSame DEF LoadLife
  <2>2. LifeOf(l)'
    BY <1>4, <1>5, <1>6, StreamAssumption DEF LifeOf, Answered
  <2> QED
    BY <2>1, <2>2 DEF LoadLife
<1>11. StreamLife'
    BY <1>1, <1>2, <1>5, <1>6 DEF StreamLife, LifeOfStream
<1>12. OneOpenStream'
    BY <1>1, <1>2, <1>6, StreamAssumption DEF OneOpenStream, IsOpen, HasOpenStream
<1>13. WaitersWait'
  <2>1. ASSUME NEW q \in Streams, q # s PROVE Waiting(q)'
    <3>1. ASSUME NEW k \in Loads, Waits(k) PROVE load'[k] = load[k] /\ Waits(k)'
      <4>1. k # l
        BY <1>3, <3>1 DEF Waits
      <4> QED
        BY <1>6, <3>1, <4>1 DEF Waits, Answered
    <3> QED
      BY <1>1, <1>6, <1>7, <2>1, <3>1, WaitingSame DEF WaitersWait
  <2>2. Waiting(s)'
    BY <1>5, <1>6 DEF Waiting
  <2> QED
    BY <2>1, <2>2 DEF WaitersWait
<1>14. Listed'
  <2> SUFFICES ASSUME NEW k \in Loads, Waits(k)'
               PROVE  LET w == stream'[load'[k].stream].waiters IN \E i \in 1 .. Len(w) : w[i] = k
    BY DEF Listed
  <2>1. k # l /\ load'[k] = load[k] /\ Waits(k)
    BY <1>4, <1>6 DEF Waits, Answered
  <2>2. load[k].stream \in Streams /\ load[k].stream # s
    BY <1>1, <1>2, <2>1, LoadFacts DEF LoadLife, LifeOf, Waits
  <2> QED
    BY <1>1, <1>6, <2>1, <2>2 DEF Listed
<1>15. NoneLost'
  <2>1. ASSUME NEW q \in Streams, q # s PROVE (Undisturbed(q) => Complete(q))'
    BY <1>1, <1>2, <1>6, <1>7, <2>1, CompleteSame DEF NoneLost, Undisturbed, IsOpen
  <2>2. Complete(s)'
    <3>1. Got(s) = {}
      BY <1>1, <1>2, StreamAssumption DEF Got, LoadLife, LifeOf
    <3>2. Got(s)' = {}
      BY <1>7, <3>1, GotSame
    <3>3. published \in Int
      BY <1>1, StreamAssumption DEF TypeOK
    <3> PICK p \in Int : p = published
      BY <3>3
    <3>4. /\ p \in Int /\ published' = p /\ stream'[s].first = p
          /\ Len(stream'[s].pending) = 0 /\ Len(stream'[s].events) = 0
      BY <1>2, <1>5, <1>6, <3>3
    <3>5. GotUpTo(s, p)'
      BY <3>2, <3>4 DEF GotUpTo
    <3>6. KeptFrom(s, p)'
      BY <3>4 DEF KeptFrom
    <3> QED
      BY <3>4, <3>5, <3>6 DEF Complete
  <2> QED
    BY <2>1, <2>2 DEF NoneLost
<1> QED
    BY <1>8, <1>9, <1>10, <1>11, <1>12, <1>13, <1>14, <1>15 DEF IInv

(* Steps of a supervisor or the broker that touch neither waiters nor backlog *)

Quiet(s) ==
    /\ UNCHANGED <<published, load, closing>>
    /\ stream' = [stream EXCEPT ![s] = stream'[s]] /\ stream'[s] \in StreamRecords
    /\ stream[s].pc # "free" /\ stream'[s].pc # "free"
    /\ stream'[s].pc \in {"exit", "gone"} => stream[s].closed # "open"
    /\ stream'[s].pending = stream[s].pending /\ stream'[s].waiters = stream[s].waiters
    /\ stream'[s].overflow = stream[s].overflow /\ stream'[s].closed = stream[s].closed
    /\ stream'[s].first = stream[s].first /\ stream'[s].dropped = stream[s].dropped
    /\ \/ stream[s].closed # "open" \/ ~stream'[s].subscribed \/ stream'[s].ended \/ stream'[s].again
       \/ /\ stream[s].subscribed /\ ~stream[s].ended /\ ~stream[s].again
          /\ stream'[s].events = stream[s].events
    /\ \/ registered' = registered
       \/ registered' = None /\ registered = s /\ stream[s].closed # "open"
    /\ ctxDone' \in BOOLEAN

LEMMA QuietStep ==
    ASSUME IInv, NEW s \in Streams, Quiet(s)
    PROVE  IInv'
<1>1. TypeOK /\ LoadOrder /\ LoadLife /\ StreamLife /\ OneOpenStream
      /\ WaitersWait /\ Listed /\ NoneLost
    BY DEF IInv
<1>2. /\ \A q \in Streams \ {s} : stream'[q] = stream[q]
      /\ \A k \in Loads : SameGot(k)
      /\ \A q \in Streams : stream'[q].waiters = stream[q].waiters
      /\ load' = load
    BY <1>1 DEF Quiet, TypeOK, SameGot
<1>3. TypeOK'
    BY <1>1, <1>2 DEF Quiet, TypeOK
<1>4. LoadOrder'
    BY <1>1, <1>2 DEF LoadOrder
<1>5. LoadLife'
    BY <1>1, <1>2, LifeSame DEF LoadLife, Quiet
<1>6. StreamLife'
  <2>1. ASSUME NEW q \in Streams, q # s PROVE LifeOfStream(q)'
    BY <1>1, <1>2, <2>1 DEF StreamLife, LifeOfStream
  <2>2. LifeOfStream(s)'
    BY <1>1 DEF Quiet, StreamLife, LifeOfStream
  <2>3. registered \in Streams \cup {None}
    BY <1>1 DEF TypeOK
  <2>4. (registered # None => stream[registered].pc # "free")'
    BY <1>1, <1>2, <2>3 DEF Quiet, StreamLife
  <2> QED
    BY <2>1, <2>2, <2>4 DEF StreamLife
<1>7. OneOpenStream'
    BY <1>1, <1>2 DEF Quiet, OneOpenStream, IsOpen
<1>8. \A k \in Loads : Waits(k)' <=> Waits(k)
    BY <1>2 DEF Waits, Answered
<1>9. WaitersWait'
    BY <1>1, <1>2, <1>8, WaitingSame DEF WaitersWait
<1>10. Listed'
  <2> SUFFICES ASSUME NEW k \in Loads, Waits(k)'
               PROVE  LET w == stream'[load'[k].stream].waiters IN \E i \in 1 .. Len(w) : w[i] = k
    BY DEF Listed
  <2>1. Waits(k) /\ load[k].stream \in Streams
    BY <1>1, <1>8, LoadFacts DEF LoadLife, LifeOf, Waits
  <2> QED
    BY <1>1, <1>2, <2>1 DEF Listed
<1>11. NoneLost'
    BY <1>1, <1>2, CompleteSame DEF NoneLost, Quiet, Undisturbed, IsOpen
<1> QED
    BY <1>3, <1>4, <1>5, <1>6, <1>7, <1>9, <1>10, <1>11 DEF IInv

\* A supervisor that finds its context ended finishes a stream that is still open.
Cancels(s) == stream[s].closed = "open" /\ FinishCanceled(s)

LEMMA SupervisorSteps ==
    ASSUME IInv, NEW s \in Streams
    PROVE  /\ Check(s) => Quiet(s) \/ Cancels(s)
           /\ Peek(s) => Quiet(s)
           /\ TakeEvent(s) /\ stream[s].closed # "open" => Quiet(s)
           /\ SubscriptionEnds(s) => Quiet(s)
           /\ Retry(s) => Quiet(s)
           /\ NoticeDone(s) => Quiet(s) \/ Cancels(s)
           /\ Unregister(s) => Quiet(s)
           /\ BrokerEnds(s) => Quiet(s)
<1>1. TypeOK /\ StreamLife
    BY DEF IInv
<1>2. /\ stream[s] \in StreamRecords /\ DOMAIN stream = Streams /\ LifeOfStream(s)
      /\ ctxDone \in BOOLEAN /\ stream[s].events \in Seq(Events)
    BY <1>1, StreamFacts DEF StreamLife, TypeOK
<1>3. <<>> \in Seq(Events) /\ (stream[s].events # <<>> => Tail(stream[s].events) \in Seq(Events))
    BY <1>2, HeadTailProperties
<1>4. ASSUME NEW to \in SupervisorPC \ {"free", "exit", "gone"}, stream[s].pc # "free", Moves(s, to),
             UNCHANGED <<published, registered, load, closing, ctxDone>>
      PROVE  Quiet(s)
  <2> DEFINE y == [stream[s] EXCEPT !.pc = to]
  <2>1. /\ y \in StreamRecords /\ y.pc = to
        /\ y.pending = stream[s].pending /\ y.waiters = stream[s].waiters
        /\ y.overflow = stream[s].overflow /\ y.closed = stream[s].closed
        /\ y.first = stream[s].first /\ y.dropped = stream[s].dropped
        /\ y.subscribed = stream[s].subscribed /\ y.ended = stream[s].ended
        /\ y.again = stream[s].again /\ y.events = stream[s].events
    BY <1>2 DEF StreamRecords
  <2>2. stream' = [stream EXCEPT ![s] = y]
    BY <1>4 DEF Moves
  <2> HIDE DEF y
  <2>3. stream'[s] = y
    BY <1>2, <2>2
  <2> QED
    BY <1>2, <1>4, <2>1, <2>2, <2>3 DEF Quiet
<1>5. ASSUME stream[s].closed # "open", stream[s].pc # "free",
             stream' = [stream EXCEPT ![s].pc = "exit", ![s].subscribed = FALSE, ![s].events = <<>>],
             UNCHANGED <<published, registered, load, closing, ctxDone>>
      PROVE  Quiet(s)
  <2> DEFINE y == [stream[s] EXCEPT !.pc = "exit", !.subscribed = FALSE, !.events = <<>>]
  <2>1. /\ y \in StreamRecords /\ y.pc = "exit"
        /\ y.pending = stream[s].pending /\ y.waiters = stream[s].waiters
        /\ y.overflow = stream[s].overflow /\ y.closed = stream[s].closed
        /\ y.first = stream[s].first /\ y.dropped = stream[s].dropped
    BY <1>2, <1>3 DEF StreamRecords, SupervisorPC
  <2>2. stream' = [stream EXCEPT ![s] = y]
    BY <1>5
  <2> HIDE DEF y
  <2>3. stream'[s] = y
    BY <1>2, <2>2
  <2> QED
    BY <1>2, <1>5, <2>1, <2>2, <2>3 DEF Quiet
<1>6. ASSUME stream[s].closed # "open", stream[s].pc # "free", FinishCanceled(s),
             UNCHANGED <<published, registered, closing, ctxDone>>
      PROVE  Quiet(s)
    BY <1>5, <1>6 DEF FinishCanceled, Finish
<1>7. ASSUME Check(s), ~Cancels(s) PROVE Quiet(s)
  <2>1. stream[s].pc = "check" /\ UNCHANGED <<published, registered, closing, ctxDone>>
    BY <1>7 DEF Check
  <2>2. ASSUME stream[s].closed = "open", ~stream[s].subscribed, UNCHANGED load,
               stream' = [stream EXCEPT ![s].pc = "peek", ![s].subscribed = TRUE, ![s].again = TRUE]
        PROVE  Quiet(s)
    <3> DEFINE y == [stream[s] EXCEPT !.pc = "peek", !.subscribed = TRUE, !.again = TRUE]
    <3>1. /\ y \in StreamRecords /\ y.pc = "peek" /\ y.again
          /\ y.pending = stream[s].pending /\ y.waiters = stream[s].waiters
          /\ y.overflow = stream[s].overflow /\ y.closed = stream[s].closed
          /\ y.first = stream[s].first /\ y.dropped = stream[s].dropped
      BY <1>2 DEF StreamRecords, SupervisorPC
    <3>2. stream' = [stream EXCEPT ![s] = y]
      BY <2>2
    <3> HIDE DEF y
    <3>3. stream'[s] = y
      BY <1>2, <3>2
    <3> QED
      BY <1>2, <2>1, <2>2, <3>1, <3>2, <3>3 DEF Quiet
  <2> QED
    BY <1>4, <1>5, <1>7, <2>1, <2>2 DEF Check, Cancels, SupervisorPC
<1>8. ASSUME Peek(s) PROVE Quiet(s)
    BY <1>4, <1>5, <1>8 DEF Peek, SupervisorPC
<1>9. ASSUME TakeEvent(s), stream[s].closed # "open" PROVE Quiet(s)
  <2> DEFINE y == [stream[s] EXCEPT !.pc = "peek", !.events = Tail(@)]
  <2>1. /\ stream[s].pc = "select" /\ stream[s].events # <<>>
        /\ stream' = [stream EXCEPT ![s] = y]
        /\ UNCHANGED <<published, registered, load, closing, ctxDone>>
    BY <1>9 DEF TakeEvent
  <2>2. /\ y \in StreamRecords /\ y.pc = "peek"
        /\ y.pending = stream[s].pending /\ y.waiters = stream[s].waiters
        /\ y.overflow = stream[s].overflow /\ y.closed = stream[s].closed
        /\ y.first = stream[s].first /\ y.dropped = stream[s].dropped
    BY <1>2, <1>3, <2>1 DEF StreamRecords, SupervisorPC
  <2> HIDE DEF y
  <2>3. stream'[s] = y
    BY <1>2, <2>1
  <2> QED
    BY <1>2, <1>9, <2>1, <2>2, <2>3 DEF Quiet
<1>10. ASSUME SubscriptionEnds(s) PROVE Quiet(s)
  <2> DEFINE y == [stream[s] EXCEPT !.pc = "retry", !.subscribed = FALSE,
                                    !.events = <<>>, !.ended = FALSE]
  <2>1. /\ stream[s].pc = "select" /\ stream' = [stream EXCEPT ![s] = y]
        /\ UNCHANGED <<published, registered, load, closing, ctxDone>>
    BY <1>10 DEF SubscriptionEnds
  <2>2. /\ y \in StreamRecords /\ y.pc = "retry" /\ ~y.subscribed
        /\ y.pending = stream[s].pending /\ y.waiters = stream[s].waiters
        /\ y.overflow = stream[s].overflow /\ y.closed = stream[s].closed
        /\ y.first = stream[s].first /\ y.dropped = stream[s].dropped
    BY <1>2, <1>3 DEF StreamRecords, SupervisorPC
  <2> HIDE DEF y
  <2>3. stream'[s] = y
    BY <1>2, <2>1
  <2> QED
    BY <1>2, <2>1, <2>2, <2>3 DEF Quiet
<1>11. ASSUME Retry(s) PROVE Quiet(s)
    BY <1>4, <1>11 DEF Retry, SupervisorPC
<1>12. ASSUME NoticeDone(s), ~Cancels(s) PROVE Quiet(s)
    BY <1>6, <1>12 DEF NoticeDone, Cancels
<1>13. ASSUME Unregister(s) PROVE Quiet(s)
  <2> DEFINE y == [stream[s] EXCEPT !.pc = "gone"]
  <2>1. /\ stream[s].pc = "exit" /\ stream' = [stream EXCEPT ![s] = y]
        /\ registered' = IF registered = s THEN None ELSE registered
        /\ UNCHANGED <<published, load, closing, ctxDone>>
    BY <1>13 DEF Unregister, Moves, EntryAfter
  <2>2. /\ y \in StreamRecords /\ y.pc = "gone"
        /\ y.pending = stream[s].pending /\ y.waiters = stream[s].waiters
        /\ y.overflow = stream[s].overflow /\ y.closed = stream[s].closed
        /\ y.first = stream[s].first /\ y.dropped = stream[s].dropped
    BY <1>2 DEF StreamRecords, SupervisorPC
  <2>3. stream[s].closed # "open"
    BY <1>2, <2>1 DEF LifeOfStream
  <2> HIDE DEF y
  <2>4. stream'[s] = y
    BY <1>2, <2>1
  <2> QED
    BY <1>2, <2>1, <2>2, <2>3, <2>4 DEF Quiet
<1>14. ASSUME BrokerEnds(s) PROVE Quiet(s)
  <2> DEFINE y == [stream[s] EXCEPT !.ended = TRUE]
  <2>1. /\ stream[s].subscribed /\ stream' = [stream EXCEPT ![s] = y]
        /\ UNCHANGED <<published, registered, load, closing, ctxDone>>
    BY <1>14 DEF BrokerEnds
  <2>2. /\ y \in StreamRecords /\ y.pc = stream[s].pc /\ y.ended
        /\ y.pending = stream[s].pending /\ y.waiters = stream[s].waiters
        /\ y.overflow = stream[s].overflow /\ y.closed = stream[s].closed
        /\ y.first = stream[s].first /\ y.dropped = stream[s].dropped
    BY <1>2 DEF StreamRecords
  <2>3. stream[s].pc # "free"
    BY <1>2, <2>1, NullFacts DEF LifeOfStream
  <2> HIDE DEF y
  <2>4. stream'[s] = y
    BY <1>2, <2>1
  <2> QED
    BY <1>2, <2>1, <2>2, <2>3, <2>4 DEF Quiet, LifeOfStream
<1> QED
    BY <1>7, <1>8, <1>9, <1>10, <1>11, <1>12, <1>13, <1>14

(* The end of a stream *)

Over(s) ==
    /\ UNCHANGED <<published, registered, closing, ctxDone>>
    /\ stream' = [stream EXCEPT ![s] = stream'[s]] /\ stream'[s] \in StreamRecords
    /\ stream[s].pc # "free" /\ stream'[s].pc # "free"
    /\ stream'[s].closed # "open" /\ stream'[s].pending = <<>> /\ stream'[s].waiters = <<>>
    /\ load' \in [Loads -> LoadRecords] /\ LoadOrder' /\ LoadLife'
    /\ \A k \in Loads :
           /\ SameGot(k) /\ load'[k].stream = load[k].stream
           /\ Waits(k) /\ load[k].stream # s => Waits(k)'
           /\ Waits(k)' => Waits(k) /\ load[k].stream # s

LEMMA OverStep ==
    ASSUME IInv, NEW s \in Streams, Over(s)
    PROVE  IInv'
<1>1. TypeOK /\ LoadOrder /\ LoadLife /\ StreamLife /\ OneOpenStream
      /\ WaitersWait /\ Listed /\ NoneLost
    BY DEF IInv
<1>2. /\ \A q \in Streams \ {s} : stream'[q] = stream[q]
      /\ \A k \in Loads : SameGot(k)
      /\ LoadOrder' /\ LoadLife'
    BY <1>1 DEF Over, TypeOK
<1>3. TypeOK'
  <2>1. Len(stream'[s].pending) <= Limit
    BY StreamAssumption DEF Over
  <2> QED
    BY <1>1, <1>2, <2>1 DEF Over, TypeOK
<1>4. StreamLife'
  <2>1. ASSUME NEW q \in Streams, q # s PROVE LifeOfStream(q)'
    BY <1>1, <1>2, <2>1 DEF StreamLife, LifeOfStream
  <2>2. LifeOfStream(s)'
    BY DEF Over, LifeOfStream
  <2>3. registered \in Streams \cup {None}
    BY <1>1 DEF TypeOK
  <2>4. (registered # None => stream[registered].pc # "free")'
    BY <1>1, <1>2, <2>3 DEF Over, StreamLife
  <2> QED
    BY <2>1, <2>2, <2>4 DEF StreamLife
<1>5. OneOpenStream'
    BY <1>1, <1>2 DEF Over, OneOpenStream, IsOpen
<1>6. WaitersWait'
  <2>1. ASSUME NEW q \in Streams, q # s PROVE Waiting(q)'
    BY <1>1, <1>2, <2>1, WaitingSame DEF WaitersWait, Over
  <2>2. Waiting(s)'
    BY DEF Over, Waiting
  <2> QED
    BY <2>1, <2>2 DEF WaitersWait
<1>7. Listed'
  <2> SUFFICES ASSUME NEW k \in Loads, Waits(k)'
               PROVE  LET w == stream'[load'[k].stream].waiters IN \E i \in 1 .. Len(w) : w[i] = k
    BY DEF Listed
  <2>1. Waits(k) /\ load[k].stream # s /\ load'[k].stream = load[k].stream
    BY DEF Over
  <2>2. load[k].stream \in Streams
    BY <1>1, <2>1, LoadFacts DEF LoadLife, LifeOf, Waits
  <2> QED
    BY <1>1, <1>2, <2>1, <2>2 DEF Listed
<1>8. NoneLost'
    BY <1>1, <1>2, CompleteSame DEF NoneLost, Over, Undisturbed, IsOpen
<1> QED
    BY <1>2, <1>3, <1>4, <1>5, <1>6, <1>7, <1>8 DEF IInv

\* The waiters of a stream whose context has ended are told so.
LEMMA CancelsStep ==
    ASSUME IInv, NEW s \in Streams, Cancels(s), stream[s].pc # "free",
           UNCHANGED <<published, registered, closing, ctxDone>>
    PROVE  IInv'
<1>1. TypeOK /\ LoadOrder /\ LoadLife /\ StreamLife /\ WaitersWait /\ Listed
    BY DEF IInv
<1> DEFINE w == stream[s].waiters
           y == [[stream[s] EXCEPT !.closed = "canceled", !.pending = <<>>, !.waiters = <<>>]
                    EXCEPT !.pc = "exit", !.subscribed = FALSE, !.events = <<>>]
<1>2. stream' = [stream EXCEPT ![s] = y] /\ load' = Told(w, "canceled")
    BY DEF Cancels, FinishCanceled, Finish
<1>3. stream[s] \in StreamRecords /\ DOMAIN stream = Streams /\ <<>> \in Seq(Events) /\ <<>> \in Seq(Loads)
    BY <1>1, StreamFacts
<1>4. y \in StreamRecords /\ y.pc = "exit" /\ y.closed = "canceled" /\ y.pending = <<>> /\ y.waiters = <<>>
    BY <1>3 DEF StreamRecords, SupervisorPC, Ends
<1> HIDE DEF y
<1>5. stream'[s] = y
    BY <1>2, <1>3
<1> DEFINE In(k) == \E i \in DOMAIN w : w[i] = k
<1>6. load' = [k \in Loads |-> IF In(k) THEN [load[k] EXCEPT !.err = "canceled"] ELSE load[k]]
    BY <1>2 DEF Told
<1>7. ASSUME NEW k \in Loads
      PROVE  /\ load'[k] \in LoadRecords
             /\ load'[k].pc = load[k].pc /\ load'[k].stream = load[k].stream
             /\ load'[k].event = load[k].event
             /\ In(k) => load'[k].err = "canceled"
             /\ ~In(k) => load'[k] = load[k]
    BY <1>1, <1>6, LoadFacts DEF LoadRecords, LoadErrs
<1>8. load' \in [Loads -> LoadRecords]
    BY <1>6, <1>7
<1>9. DOMAIN w = 1 .. Len(w)
    BY <1>1, StreamFacts, LenProperties
<1>10. ASSUME NEW k \in Loads, In(k) PROVE Waits(k) /\ load[k].stream = s
  <2>1. PICK i \in 1 .. Len(w) : w[i] = k
    BY <1>9, <1>10
  <2> QED
    BY <1>1, <2>1 DEF WaitersWait, Waiting
<1>11. ASSUME NEW k \in Loads, Waits(k), load[k].stream = s PROVE In(k)
    BY <1>1, <1>9, <1>11 DEF Listed
<1> HIDE DEF w, In
<1>12. LoadOrder'
    BY <1>1, <1>7 DEF LoadOrder
<1>13. LoadLife'
  <2>1. ASSUME NEW q \in Streams, stream[q].pc # "free" PROVE stream'[q].pc # "free"
    BY <1>2, <1>3, <1>4, <2>1
  <2>2. ASSUME NEW k \in Loads, In(k) PROVE LifeOf(k)'
    <3>1. load[k].pc \in {"start", "wait"} /\ load'[k].stream = s
      BY <1>7, <1>10, <2>2 DEF Waits
    <3> QED
      BY <1>4, <1>5, <1>7, <2>2, <3>1, StreamAssumption DEF LifeOf
  <2>3. ASSUME NEW k \in Loads, ~In(k) PROVE LifeOf(k)'
    BY <1>1, <1>7, <2>1, <2>3, LifeSame DEF LoadLife
  <2> QED
    BY <2>2, <2>3 DEF LoadLife
<1>14. ASSUME NEW k \in Loads
       PROVE  /\ SameGot(k)
              /\ Waits(k) /\ load[k].stream # s => Waits(k)'
              /\ Waits(k)' => Waits(k) /\ load[k].stream # s
  <2>1. SameGot(k)
    BY <1>7 DEF SameGot
  <2>2. ASSUME Waits(k), load[k].stream # s PROVE Waits(k)'
    BY <1>7, <1>10, <2>2 DEF Waits, Answered
  <2>3. ASSUME Waits(k)' PROVE Waits(k) /\ load[k].stream # s
    <3>1. ~In(k)
      BY <1>7, <2>3 DEF Waits, Answered
    <3> QED
      BY <1>7, <1>11, <2>3, <3>1 DEF Waits, Answered
  <2> QED
    BY <2>1, <2>2, <2>3
<1>15. Over(s)
    BY <1>2, <1>4, <1>5, <1>7, <1>8, <1>12, <1>13, <1>14 DEF Over
<1> QED
    BY <1>15, OverStep

\* A load that finds the overflow ends the stream; no load waits in it.
IsOverflow(l) ==
    LET s == load[l].stream IN
    /\ stream[s].pending = <<>> /\ stream[s].overflow
    /\ stream' = [stream EXCEPT ![s] = [Finish(s, "overflow") EXCEPT !.overflow = FALSE]]
    /\ load' = Settled(l, 0, "overflow")

LEMMA OverflowStep ==
    ASSUME IInv, NEW l \in Loads, Await(l), IsOverflow(l)
    PROVE  IInv'
<1>1. TypeOK /\ LoadOrder /\ LoadLife /\ StreamLife /\ WaitersWait /\ Listed
    BY DEF IInv
<1> DEFINE s == load[l].stream
           f == Finish(s, "overflow")
           y == [f EXCEPT !.overflow = FALSE]
           c == [load[l] EXCEPT !.pc = "settled", !.event = 0, !.err = "overflow"]
<1>2. /\ load[l].pc = "await" /\ stream[s].overflow
      /\ stream' = [stream EXCEPT ![s] = y] /\ load' = [load EXCEPT ![l] = c]
      /\ UNCHANGED <<published, registered, closing, ctxDone>>
    BY DEF Await, IsOverflow, Settled
<1>3. /\ load[l] \in LoadRecords /\ DOMAIN load = Loads /\ Runs(l) /\ ~Answered(l)
      /\ s # None /\ s \in Streams /\ stream[s].pc # "free"
    BY <1>1, <1>2, LoadFacts, RunsFacts DEF LoadLife, LifeOf, OnLoop
<1>4. /\ stream[s] \in StreamRecords /\ DOMAIN stream = Streams
      /\ <<>> \in Seq(Events) /\ <<>> \in Seq(Loads) /\ LifeOfStream(s)
    BY <1>1, <1>3, StreamFacts DEF StreamLife
<1>5. /\ f \in StreamRecords /\ f.pc = stream[s].pc /\ f.closed # "open"
      /\ f.pending = <<>> /\ f.waiters = <<>>
    BY <1>4 DEF Finish, StreamRecords, Ends, LifeOfStream
<1> HIDE DEF f
<1>6. /\ y \in StreamRecords /\ y.pc = stream[s].pc /\ y.closed # "open"
      /\ y.pending = <<>> /\ y.waiters = <<>>
    BY <1>5 DEF StreamRecords
<1>7. c \in LoadRecords /\ c.pc = "settled" /\ c.event = 0 /\ c.stream = s
  <2>1. load[l] \in LoadRecords /\ 0 \in 0 .. MaxEvents
    BY <1>3, StreamAssumption
  <2>2. c \in LoadRecords
    BY <2>1 DEF LoadRecords, LoadPC, LoadErrs
  <2> QED
    BY <2>1, <2>2 DEF LoadRecords
<1>8. load[l].event = 0 /\ stream[s].waiters = <<>>
    BY <1>2, <1>3, <1>4 DEF Answered, LifeOfStream
<1> HIDE DEF y, c
<1>9. /\ stream'[s] = y /\ load'[l] = c
      /\ \A k \in Loads \ {l} : load'[k] = load[k]
      /\ load' \in [Loads -> LoadRecords]
    BY <1>1, <1>2, <1>3, <1>4, <1>7 DEF TypeOK
<1>10. LoadOrder'
    BY <1>1, <1>3, <1>7, <1>9, OrderStep
<1>11. LoadLife'
  <2>1. ASSUME NEW q \in Streams, stream[q].pc # "free" PROVE stream'[q].pc # "free"
    BY <1>2, <1>4, <1>6, <2>1
  <2>2. LifeOf(l)'
    BY <1>3, <1>6, <1>7, <1>9 DEF LifeOf
  <2>3. ASSUME NEW k \in Loads, k # l PROVE LifeOf(k)'
    BY <1>1, <1>9, <2>1, <2>3, LifeSame DEF LoadLife
  <2> QED
    BY <2>2, <2>3 DEF LoadLife
<1>12. ASSUME NEW k \in Loads, Waits(k) PROVE load[k].stream # s /\ k # l
  <2>1. load[k].stream # s
    BY <1>1, <1>8, <1>12 DEF Listed
  <2> QED
    BY <1>2, <1>12, <2>1 DEF Waits
<1>13. ASSUME NEW k \in Loads
       PROVE  /\ SameGot(k) /\ load'[k].stream = load[k].stream
              /\ Waits(k) /\ load[k].stream # s => Waits(k)'
              /\ Waits(k)' => Waits(k) /\ load[k].stream # s
  <2>1. CASE k = l
    BY <1>2, <1>7, <1>8, <1>9, <2>1 DEF SameGot, Waits
  <2>2. CASE k # l
    BY <1>9, <1>12, <2>2 DEF SameGot, Waits, Answered
  <2> QED
    BY <2>1, <2>2
<1> HIDE DEF s
<1>14. Over(s)
    BY <1>2, <1>3, <1>6, <1>9, <1>10, <1>11, <1>13 DEF Over
<1> QED
    BY <1>3, <1>14, OverStep

-----------------------------------------------------------------------------
(* Steps inside one stream: a load takes or awaits an event, or its supervisor *)
(* passes one on                                                               *)

Within(s) ==
    /\ UNCHANGED <<published, registered, closing, ctxDone>>
    /\ stream' = [stream EXCEPT ![s] = stream'[s]] /\ stream'[s] \in StreamRecords
    /\ stream[s].pc # "free" /\ stream'[s].pc # "free"
    /\ stream'[s].closed = stream[s].closed /\ Len(stream'[s].pending) <= Limit
    /\ load' \in [Loads -> LoadRecords] /\ LoadOrder' /\ LoadLife'
    /\ \A k \in Loads : load[k].stream # s => load'[k] = load[k]
    /\ \A k \in Loads : load'[k].stream = load[k].stream
    /\ LifeOfStream(s)' /\ Waiting(s)'
    /\ \A k \in Loads : load[k].stream = s /\ Waits(k)' =>
           \E i \in 1 .. Len(stream'[s].waiters) : stream'[s].waiters[i] = k
    /\ (Undisturbed(s) => Complete(s))'

LEMMA WithinStep ==
    ASSUME IInv, NEW s \in Streams, Within(s)
    PROVE  IInv'
<1>1. TypeOK /\ LoadOrder /\ LoadLife /\ StreamLife /\ OneOpenStream
      /\ WaitersWait /\ Listed /\ NoneLost
    BY DEF IInv
<1>2. /\ \A q \in Streams \ {s} : stream'[q] = stream[q]
      /\ \A k \in Loads : load[k].stream # s => load'[k] = load[k]
      /\ \A k \in Loads : load'[k].stream = load[k].stream
    BY <1>1 DEF Within, TypeOK
<1>3. TypeOK'
    BY <1>1, <1>2 DEF Within, TypeOK
<1>4. StreamLife'
  <2>1. ASSUME NEW q \in Streams, q # s PROVE LifeOfStream(q)'
    BY <1>1, <1>2, <2>1 DEF StreamLife, LifeOfStream
  <2>2. LifeOfStream(s)'
    BY DEF Within
  <2>3. registered \in Streams \cup {None}
    BY <1>1 DEF TypeOK
  <2>4. (registered # None => stream[registered].pc # "free")'
    BY <1>1, <1>2, <2>3 DEF Within, StreamLife
  <2> QED
    BY <2>1, <2>2, <2>4 DEF StreamLife
<1>5. OneOpenStream'
    BY <1>1, <1>2 DEF Within, OneOpenStream, IsOpen
\* A load of another stream is as it was.
<1>6. ASSUME NEW q \in Streams, q # s
      PROVE  /\ Got(q)' = Got(q)
             /\ \A k \in Loads : load[k].stream = q => load'[k] = load[k]
    BY <1>2, <1>6 DEF Got
<1>7. WaitersWait'
  <2>1. ASSUME NEW q \in Streams, q # s PROVE Waiting(q)'
    <3>1. \A i \in 1 .. Len(stream[q].waiters) :
              stream[q].waiters[i] \in Loads /\ load[stream[q].waiters[i]].stream = q
      BY <1>1, WaiterFacts DEF WaitersWait
    <3>2. \A i \in 1 .. Len(stream[q].waiters) :
              load'[stream[q].waiters[i]] = load[stream[q].waiters[i]]
      BY <1>6, <2>1, <3>1
    <3> QED
      BY <1>1, <1>2, <1>6, <2>1, <3>2 DEF WaitersWait, Waiting, Waits, Answered
  <2> QED
    BY <2>1 DEF WaitersWait, Within
<1>8. Listed'
  <2> SUFFICES ASSUME NEW k \in Loads, Waits(k)'
               PROVE  LET w == stream'[load'[k].stream].waiters IN \E i \in 1 .. Len(w) : w[i] = k
    BY DEF Listed
  <2>1. CASE load[k].stream = s
    BY <1>2, <2>1 DEF Within
  <2>2. CASE load[k].stream # s
    <3>1. load'[k] = load[k] /\ Waits(k)
      BY <1>2, <2>2 DEF Waits, Answered
    <3>2. load[k].stream \in Streams
      BY <1>1, <3>1, LoadFacts DEF LoadLife, LifeOf, Waits
    <3> QED
      BY <1>1, <1>2, <2>2, <3>1, <3>2 DEF Listed
  <2> QED
    BY <2>1, <2>2
<1>9. NoneLost'
  <2>1. ASSUME NEW q \in Streams, q # s, Undisturbed(q)' PROVE Complete(q)'
    <3>1. stream'[q] = stream[q] /\ published' = published /\ Undisturbed(q)
      BY <1>2, <2>1 DEF Within, Undisturbed, IsOpen
    <3>2. PICK n \in stream[q].first .. published : GotUpTo(q, n) /\ KeptFrom(q, n)
      BY <1>1, <3>1 DEF NoneLost, Complete
    <3>3. \A k \in Got(q) : load'[k] = load[k]
      BY <1>6, <2>1 DEF Got
    <3>4. GotUpTo(q, n)'
      BY <1>6, <2>1, <3>1, <3>2, <3>3 DEF GotUpTo
    <3>5. KeptFrom(q, n)'
      BY <3>1, <3>2 DEF KeptFrom
    <3> QED
      BY <3>1, <3>2, <3>4, <3>5 DEF Complete
  <2> QED
    BY <2>1 DEF NoneLost, Within
<1> QED
    BY <1>3, <1>4, <1>5, <1>7, <1>8, <1>9 DEF IInv, Within

\* Load m gets event n + 1, and is later than those that got the events up to n.
LEMMA GotNext ==
    ASSUME TypeOK, NEW s \in Streams, NEW n \in Int, GotUpTo(s, n), NEW m \in Loads,
           \A k \in Loads \ {m} : load'[k] = load[k],
           load'[m].stream = s, load'[m].event = n + 1, m \notin Got(s),
           \A k \in Got(s) : k < m,
           stream'[s].first = stream[s].first, n >= stream[s].first
    PROVE  (GotUpTo(s, n + 1))'
<1> PICK f \in Nat : f = stream[s].first
    BY StreamFacts, StreamAssumption
<1>1. Got(s)' = Got(s) \cup {m} /\ \A k \in Got(s) : load'[k] = load[k]
    BY DEF Got
<1>2. Got(s) \subseteq Loads /\ Loads \subseteq Int
    BY DEF Got, Loads
<1>3. \A l \in Got(s)' : load'[l].event \in f + 1 .. n + 1
    BY <1>1 DEF GotUpTo
<1>4. \A e \in f + 1 .. n + 1 : \E l \in Got(s)' : load'[l].event = e
  <2>1. ASSUME NEW e \in f + 1 .. n PROVE \E l \in Got(s)' : load'[l].event = e
    BY <1>1 DEF GotUpTo
  <2>2. ASSUME NEW e \in f + 1 .. n + 1, e # n + 1 PROVE e \in f + 1 .. n
    BY <2>2
  <2> QED
    BY <1>1, <2>1, <2>2
<1>5. ASSUME NEW k \in Got(s)', NEW l \in Got(s)', k < l PROVE load'[k].event < load'[l].event
  <2>1. CASE l \in Got(s) /\ k \in Got(s)
    BY <1>1, <1>5, <2>1 DEF GotUpTo
  <2>2. CASE l = m /\ k \in Got(s)
    BY <1>1, <2>2 DEF GotUpTo
  <2>3. CASE k = m
    BY <1>1, <1>2, <1>5, <2>3
  <2> QED
    BY <1>1, <2>1, <2>2, <2>3
<1> QED
    BY <1>3, <1>4, <1>5 DEF GotUpTo

-----------------------------------------------------------------------------
(* A load takes an event that is kept, or waits *)

\* Those that got an event of the stream were called before the load that runs.
LEMMA RunsLast ==
    ASSUME TypeOK, LoadLife, NEW l \in Loads, Runs(l), ~Answered(l), NEW s \in Streams
    PROVE  l \notin Got(s) /\ \A k \in Got(s) : k < l
<1>1. ASSUME NEW k \in Got(s), k > l PROVE FALSE
  <2>1. k \in Loads /\ load[k].event # 0 /\ load[k].pc = "new"
    BY <1>1 DEF Got, Runs
  <2> QED
    BY <2>1, NullFacts DEF LoadLife, LifeOf
<1>2. l \notin Got(s)
    BY DEF Got, Answered
<1>3. \A k \in Got(s) : k \in Int /\ l \in Int /\ k # l
    BY <1>2 DEF Got, Loads
<1> QED
    BY <1>1, <1>2, <1>3

IsTaking(l) ==
    LET s == load[l].stream IN
    /\ stream[s].pending # <<>>
    /\ stream' = [stream EXCEPT ![s].pending = Tail(@)]
    /\ load' = Settled(l, Head(stream[s].pending), "none")

LEMMA TakesStep ==
    ASSUME IInv, NEW l \in Loads, Await(l), IsTaking(l)
    PROVE  IInv'
<1>1. TypeOK /\ LoadOrder /\ LoadLife /\ StreamLife /\ WaitersWait /\ Listed /\ NoneLost
    BY DEF IInv
<1>2. /\ load[l].pc = "await" /\ UNCHANGED <<published, registered, closing, ctxDone>>
      /\ load[l] \in LoadRecords /\ DOMAIN load = Loads /\ Runs(l) /\ ~Answered(l)
      /\ load[l].stream \in Streams /\ stream[load[l].stream].pc # "free"
    BY <1>1, LoadFacts, RunsFacts DEF LoadLife, LifeOf, OnLoop, Await
<1>S. PICK s \in Streams : s = load[l].stream
    BY <1>2
<1>P. PICK p : p = stream[s].pending
    OBVIOUS
<1>E. PICK e : e = Head(p)
    OBVIOUS
<1>T. PICK t : t = Tail(p)
    OBVIOUS
<1> DEFINE y == [stream[s] EXCEPT !.pending = t]
           c == [load[l] EXCEPT !.pc = "settled", !.event = e, !.err = "none"]
<1>3. /\ p # <<>> /\ stream[s].pc # "free"
      /\ stream' = [stream EXCEPT ![s] = y] /\ load' = [load EXCEPT ![l] = c]
    BY <1>2, <1>S, <1>P, <1>E, <1>T DEF IsTaking, Settled
<1>4. /\ stream[s] \in StreamRecords /\ DOMAIN stream = Streams /\ LifeOfStream(s)
      /\ p \in Seq(Events) /\ Len(p) <= Limit /\ stream[s].closed = "open"
      /\ stream[s].waiters = <<>>
    BY <1>1, <1>3, <1>P, StreamFacts DEF StreamLife, LifeOfStream
<1>5. /\ e \in Events /\ t \in Seq(Events) /\ Len(p) \in Nat \ {0} /\ Len(t) = Len(p) - 1
      /\ e = p[1] /\ \A i \in 1 .. Len(t) : t[i] = p[i + 1]
  <2>1. /\ t \in Seq(Events) /\ Len(p) \in Nat \ {0} /\ Len(t) = Len(p) - 1
        /\ e = p[1] /\ \A i \in 1 .. Len(t) : t[i] = p[i + 1]
    BY <1>3, <1>4, <1>E, <1>T, HeadTailProperties, LenProperties
  <2> QED
    BY <1>4, <2>1, ElementOfSeq
<1>6. /\ y \in StreamRecords /\ y.pending = t /\ y.pc = stream[s].pc /\ y.closed = "open"
      /\ y.waiters = <<>> /\ y.events = stream[s].events /\ y.first = stream[s].first
      /\ y.subscribed = stream[s].subscribed /\ y.ended = stream[s].ended
      /\ y.dropped = stream[s].dropped /\ y.again = stream[s].again
    BY <1>4, <1>5 DEF StreamRecords
<1>7. c \in LoadRecords /\ c.pc = "settled" /\ c.event = e /\ c.stream = s /\ e \in Int /\ e # 0
  <2>1. e \in 0 .. MaxEvents /\ e \in Int /\ e # 0
    <3>1. e \in Events
      BY <1>5
    <3> QED
      BY <3>1, StreamAssumption DEF Events
  <2>2. c \in LoadRecords
    BY <1>2, <2>1 DEF LoadRecords, LoadPC, LoadErrs
  <2> QED
    BY <1>2, <1>S, <2>1, <2>2 DEF LoadRecords
<1> HIDE DEF y, c
<1>8. /\ stream'[s] = y /\ load'[l] = c
      /\ \A k \in Loads \ {l} : load'[k] = load[k]
      /\ load' \in [Loads -> LoadRecords]
    BY <1>1, <1>2, <1>3, <1>4, <1>7 DEF TypeOK
<1>9. LoadOrder'
    BY <1>1, <1>2, <1>7, <1>8, OrderStep
<1>10. LoadLife'
  <2>1. ASSUME NEW q \in Streams, stream[q].pc # "free" PROVE stream'[q].pc # "free"
    BY <1>3, <1>4, <1>6, <2>1
  <2>2. LifeOf(l)'
    BY <1>3, <1>6, <1>7, <1>8, StreamAssumption DEF LifeOf
  <2>3. ASSUME NEW k \in Loads, k # l PROVE LifeOf(k)'
    BY <1>1, <1>8, <2>1, <2>3, LifeSame DEF LoadLife
  <2> QED
    BY <2>2, <2>3 DEF LoadLife
<1>11. LifeOfStream(s)' /\ Waiting(s)'
    BY <1>3, <1>4, <1>6, <1>8 DEF LifeOfStream, Waiting
<1>12. ASSUME NEW k \in Loads, load[k].stream = s, Waits(k)' PROVE FALSE
  <2>1. k # l
    BY <1>7, <1>8, <1>12 DEF Waits
  <2>2. Waits(k)
    BY <1>8, <1>12, <2>1 DEF Waits, Answered
  <2> QED
    BY <1>1, <1>4, <1>12, <2>2 DEF Listed
<1>13. (Undisturbed(s) => Complete(s))'
  <2> SUFFICES ASSUME Undisturbed(s)' PROVE Complete(s)'
    OBVIOUS
  <2>1. Undisturbed(s)
    BY <1>2, <1>4, <1>6, <1>8 DEF Undisturbed, IsOpen
  <2>2. PICK n \in stream[s].first .. published : GotUpTo(s, n) /\ KeptFrom(s, n)
    BY <1>1, <2>1 DEF NoneLost, Complete
  <2>3. /\ stream[s].first \in Nat /\ published \in Nat /\ Len(stream[s].events) \in Nat
        /\ n \in Int /\ n >= stream[s].first
    BY <1>1, <1>3, StreamFacts, StreamAssumption, LenProperties DEF TypeOK
  <2>4. e = n + 1
    BY <1>5, <1>P, <2>2, <2>3 DEF KeptFrom
  <2>5. l \notin Got(s) /\ \A k \in Got(s) : k < l
    BY <1>1, <1>2, RunsLast
  <2>6. (GotUpTo(s, n + 1))'
    BY <1>1, <1>3, <1>6, <1>7, <1>8, <2>2, <2>3, <2>4, <2>5, GotNext
  <2>V. PICK v : v = stream[s].events
    OBVIOUS
  <2>7. /\ Len(t) + Len(v) = published - (n + 1)
        /\ \A i \in 1 .. Len(t) : t[i] = n + 1 + i
        /\ \A i \in 1 .. Len(v) : v[i] = n + 1 + Len(t) + i
    <3>1. /\ Len(p) + Len(v) = published - n
          /\ \A i \in 1 .. Len(p) : p[i] = n + i
          /\ \A i \in 1 .. Len(v) : v[i] = n + Len(p) + i
      BY <2>2, <1>P, <2>V DEF KeptFrom
    <3>2. Len(p) \in Nat \ {0} /\ Len(t) = Len(p) - 1 /\ Len(v) \in Nat
          /\ \A i \in 1 .. Len(t) : t[i] = p[i + 1]
      BY <1>5, <2>3, <2>V
    <3>3. ASSUME NEW i \in 1 .. Len(t) PROVE t[i] = n + 1 + i
      <4>1. i + 1 \in 1 .. Len(p) /\ t[i] = p[i + 1]
        BY <3>2
      <4>2. t[i] = n + (i + 1)
        BY <3>1, <4>1
      <4> QED
        BY <2>3, <4>2
    <3> QED
      BY <2>3, <3>1, <3>2, <3>3
  <2>8. /\ Len(t) \in Nat /\ Len(v) \in Nat /\ published' = published
        /\ stream'[s].first = stream[s].first
        /\ stream'[s].pending = t /\ stream'[s].events = v
    BY <1>2, <1>5, <1>6, <1>8, <2>3, <2>V, LenProperties
  <2>9. (KeptFrom(s, n + 1))'
    BY <2>7, <2>8 DEF KeptFrom
  <2>10. n + 1 \in stream'[s].first .. published'
    <3>1. n + 1 <= published
      BY <2>3, <2>7, <2>8
    <3> QED
      BY <2>3, <2>8, <3>1
  <2> QED
    BY <2>6, <2>9, <2>10 DEF Complete
<1>14. Len(y.pending) <= Limit
    BY <1>4, <1>5, <1>6, StreamAssumption
<1>15. \A k \in Loads : /\ load'[k].stream = load[k].stream
                        /\ load[k].stream # s => load'[k] = load[k]
    BY <1>7, <1>8, <1>S
<1>16. Within(s)
    BY <1>2, <1>3, <1>4, <1>6, <1>8, <1>9, <1>10, <1>11, <1>12, <1>13, <1>14, <1>15 DEF Within
<1> QED
    BY <1>16, WithinStep

IsAwaiting(l) ==
    LET s == load[l].stream IN
    /\ stream[s].pending = <<>> /\ ~stream[s].overflow /\ stream[s].closed = "open"
    /\ stream' = [stream EXCEPT ![s].waiters = Append(@, l)]
    /\ load' = [load EXCEPT ![l].pc = "start"]

LEMMA AwaitsStep ==
    ASSUME IInv, NEW l \in Loads, Await(l), IsAwaiting(l)
    PROVE  IInv'
<1>1. TypeOK /\ LoadOrder /\ LoadLife /\ StreamLife /\ WaitersWait /\ Listed /\ NoneLost
    BY DEF IInv
<1>2. /\ load[l].pc = "await" /\ UNCHANGED <<published, registered, closing, ctxDone>>
      /\ load[l] \in LoadRecords /\ DOMAIN load = Loads /\ Runs(l) /\ ~Answered(l)
      /\ load[l].stream \in Streams /\ stream[load[l].stream].pc # "free"
    BY <1>1, LoadFacts, RunsFacts DEF LoadLife, LifeOf, OnLoop, Await
<1>S. PICK s \in Streams : s = load[l].stream
    BY <1>2
<1>W. PICK w : w = stream[s].waiters
    OBVIOUS
<1>V. PICK v : v = Append(w, l)
    OBVIOUS
<1> DEFINE y == [stream[s] EXCEPT !.waiters = v]
           c == [load[l] EXCEPT !.pc = "start"]
<1>3. /\ stream[s].pending = <<>> /\ ~stream[s].overflow /\ stream[s].closed = "open"
      /\ stream[s].pc # "free"
      /\ stream' = [stream EXCEPT ![s] = y] /\ load' = [load EXCEPT ![l] = c]
    BY <1>2, <1>S, <1>W, <1>V DEF IsAwaiting
<1>4. /\ stream[s] \in StreamRecords /\ DOMAIN stream = Streams /\ LifeOfStream(s)
      /\ w \in Seq(Loads) /\ Len(stream[s].pending) <= Limit /\ Waiting(s)
    BY <1>1, <1>W, StreamFacts DEF StreamLife, WaitersWait
<1>5. /\ v \in Seq(Loads) /\ Len(w) \in Nat /\ Len(v) = Len(w) + 1
      /\ v[Len(w) + 1] = l /\ \A i \in 1 .. Len(w) : v[i] = w[i]
    BY <1>4, <1>V, AppendProperties, LenProperties
<1>6. \A i \in 1 .. Len(w) :
          /\ w[i] \in Loads /\ load[w[i]].stream = s /\ Waits(w[i])
          /\ \A j \in 1 .. Len(w) : i < j => w[i] < w[j]
          /\ \A k \in Got(s) : k < w[i]
    BY <1>1, <1>4, <1>W, WaiterFacts DEF Waiting
\* The waiters were called before the load that runs.
<1>7. ASSUME NEW i \in 1 .. Len(w) PROVE w[i] \in Loads \ {l} /\ w[i] < l
  <2>1. w[i] \in Loads /\ load[w[i]].pc \in {"start", "wait"}
    BY <1>6 DEF Waits
  <2>2. w[i] # l /\ ~(w[i] > l)
    BY <1>2, <2>1 DEF Runs
  <2> QED
    BY <2>1, <2>2 DEF Loads
<1>8. /\ y \in StreamRecords /\ y.pending = <<>> /\ y.pc = stream[s].pc /\ y.closed = "open"
      /\ y.waiters = v /\ y.events = stream[s].events /\ y.first = stream[s].first
      /\ y.subscribed = stream[s].subscribed /\ y.ended = stream[s].ended
      /\ y.dropped = stream[s].dropped /\ y.again = stream[s].again
      /\ y.overflow = stream[s].overflow /\ y.pending = stream[s].pending
    BY <1>3, <1>4, <1>5 DEF StreamRecords
<1>9. c \in LoadRecords /\ c.pc = "start" /\ c.event = load[l].event /\ c.stream = s
      /\ c.err = load[l].err
    BY <1>2, <1>S DEF LoadRecords, LoadPC
<1> HIDE DEF y, c
<1>10. /\ stream'[s] = y /\ load'[l] = c
       /\ \A k \in Loads \ {l} : load'[k] = load[k]
       /\ load' \in [Loads -> LoadRecords]
    BY <1>1, <1>2, <1>3, <1>4, <1>9 DEF TypeOK
<1>11. LoadOrder'
    BY <1>1, <1>2, <1>9, <1>10, OrderStep
<1>12. LoadLife'
  <2>1. ASSUME NEW q \in Streams, stream[q].pc # "free" PROVE stream'[q].pc # "free"
    BY <1>3, <1>4, <1>8, <2>1
  <2>2. LifeOf(l)'
    BY <1>3, <1>8, <1>9, <1>10, StreamAssumption DEF LifeOf
  <2>3. ASSUME NEW k \in Loads, k # l PROVE LifeOf(k)'
    BY <1>1, <1>10, <2>1, <2>3, LifeSame DEF LoadLife
  <2> QED
    BY <2>2, <2>3 DEF LoadLife
<1>13. \A k \in Loads : SameGot(k)
    BY <1>2, <1>9, <1>10, <1>S DEF SameGot
<1>14. Got(s)' = Got(s)
    BY <1>13, GotSame
<1>15. Waiting(s)'
  <2>1. ASSUME NEW i \in 1 .. Len(v)
        PROVE  /\ load'[v[i]].stream = s /\ Waits(v[i])'
               /\ \A j \in 1 .. Len(v) : i < j => v[i] < v[j]
               /\ \A k \in Got(s)' : k < v[i]
    <3>1. CASE i \in 1 .. Len(w)
      <4>1. /\ v[i] = w[i] /\ w[i] \in Loads \ {l} /\ w[i] < l
            /\ load'[w[i]] = load[w[i]] /\ load[w[i]].stream = s /\ Waits(w[i])
            /\ \A k \in Got(s) : k < w[i]
        BY <1>5, <1>6, <1>7, <1>10, <3>1
      <4>2. ASSUME NEW j \in 1 .. Len(v), i < j PROVE v[i] < v[j]
        <5>1. CASE j \in 1 .. Len(w)
          BY <1>5, <1>6, <3>1, <4>2, <5>1
        <5>2. CASE j = Len(w) + 1
          BY <1>5, <4>1, <5>2
        <5> QED
          BY <1>5, <5>1, <5>2
      <4> QED
        BY <1>14, <4>1, <4>2 DEF Waits, Answered
    <3>2. CASE i = Len(w) + 1
      <4>1. v[i] = l /\ \A k \in Got(s) : k < l
        BY <1>1, <1>2, <1>5, <3>2, RunsLast
      <4>2. \A j \in 1 .. Len(v) : ~(i < j)
        BY <1>5, <3>2
      <4> QED
        BY <1>2, <1>9, <1>10, <1>14, <4>1, <4>2 DEF Waits, Answered
    <3> QED
      BY <1>5, <3>1, <3>2
  <2> QED
    BY <1>8, <1>10, <2>1 DEF Waiting
<1>16. LifeOfStream(s)'
    BY <1>3, <1>4, <1>8, <1>10 DEF LifeOfStream
<1>17. ASSUME NEW k \in Loads, load[k].stream = s, Waits(k)'
       PROVE  \E i \in 1 .. Len(v) : v[i] = k
  <2>1. CASE k = l
    BY <1>5, <2>1
  <2>2. CASE k # l
    <3>1. Waits(k)
      BY <1>10, <1>17, <2>2 DEF Waits, Answered
    <3>2. PICK i \in 1 .. Len(w) : w[i] = k
      BY <1>1, <1>17, <1>W, <3>1 DEF Listed
    <3> QED
      BY <1>5, <3>2
  <2> QED
    BY <2>1, <2>2
<1>18. (Undisturbed(s) => Complete(s))'
  <2>1. Undisturbed(s)' => Undisturbed(s)
    BY <1>2, <1>3, <1>8, <1>10 DEF Undisturbed, IsOpen
  <2> QED
    BY <1>1, <1>2, <1>8, <1>10, <1>13, <2>1, CompleteSame DEF NoneLost
<1>19. \A k \in Loads : /\ load'[k].stream = load[k].stream
                        /\ load[k].stream # s => load'[k] = load[k]
    BY <1>9, <1>10, <1>S
<1>20. Within(s)
    BY <1>2, <1>3, <1>4, <1>8, <1>10, <1>11, <1>12, <1>15, <1>16, <1>17, <1>18, <1>19 DEF Within
<1> QED
    BY <1>20, WithinStep

-----------------------------------------------------------------------------
(* A waiter leaves the list *)

LEMMA WithoutFacts ==
    ASSUME NEW S, NEW w \in Seq(S), NEW h \in 1 .. Len(w)
    PROVE  /\ Without(w, h) \in Seq(S) /\ Len(Without(w, h)) = Len(w) - 1
           /\ \A i \in 1 .. Len(w) - 1 : Without(w, h)[i] = IF i < h THEN w[i] ELSE w[i + 1]
<1>1. Len(w) \in Nat /\ h \in Nat
    BY LenProperties
<1> DEFINE a == SubSeq(w, 1, h - 1)
           b == SubSeq(w, h + 1, Len(w))
<1>2. a \in Seq(S) /\ Len(a) = h - 1 /\ \A i \in 1 .. h - 1 : a[i] = w[i]
    BY <1>1, SubSeqProperties
<1>3. b \in Seq(S) /\ Len(b) = Len(w) - h /\ \A i \in 1 .. Len(w) - h : b[i] = w[h + i]
    BY <1>1, SubSeqProperties
<1> HIDE DEF a, b
<1>4. /\ a \o b \in Seq(S) /\ Len(a \o b) = Len(a) + Len(b)
      /\ \A i \in 1 .. Len(a) + Len(b) : (a \o b)[i] = IF i <= Len(a) THEN a[i] ELSE b[i - Len(a)]
    BY <1>2, <1>3, ConcatProperties
<1>5. Without(w, h) = a \o b
    BY DEF Without, a, b
<1>6. ASSUME NEW i \in 1 .. Len(w) - 1
      PROVE  (a \o b)[i] = IF i < h THEN w[i] ELSE w[i + 1]
  <2>1. CASE i < h
    BY <1>1, <1>2, <1>3, <1>4, <2>1
  <2>2. CASE ~(i < h)
    <3>1. i - (h - 1) \in 1 .. Len(w) - h /\ h + (i - (h - 1)) = i + 1
      BY <1>1, <2>2
    <3>2. (a \o b)[i] = b[i - (h - 1)]
      BY <1>1, <1>2, <1>3, <1>4, <2>2
    <3> QED
      BY <1>3, <2>2, <3>1, <3>2
  <2> QED
    BY <2>1, <2>2
<1>7. Len(a \o b) = Len(w) - 1
    BY <1>1, <1>2, <1>3, <1>4
<1> QED
    BY <1>4, <1>5, <1>6, <1>7

\* What is left of the waiters is in order and has no more of the one that left.
LEMMA WithoutOrder ==
    ASSUME NEW w \in Seq(Loads), NEW h \in 1 .. Len(w),
           \A i, j \in 1 .. Len(w) : i < j => w[i] < w[j]
    PROVE  /\ Without(w, h) \in Seq(Loads)
           /\ \A i, j \in 1 .. Len(Without(w, h)) : i < j => Without(w, h)[i] < Without(w, h)[j]
           /\ \A i \in 1 .. Len(Without(w, h)) :
                  /\ Without(w, h)[i] # w[h]
                  /\ \E j \in 1 .. Len(w) : j # h /\ Without(w, h)[i] = w[j]
           /\ \A j \in 1 .. Len(w) :
                  j # h => \E i \in 1 .. Len(Without(w, h)) : Without(w, h)[i] = w[j]
<1> DEFINE v == Without(w, h)
<1>1. /\ v \in Seq(Loads) /\ Len(v) = Len(w) - 1 /\ Len(w) \in Nat
      /\ \A i \in 1 .. Len(v) : v[i] = IF i < h THEN w[i] ELSE w[i + 1]
  <2>1. /\ v \in Seq(Loads) /\ Len(v) = Len(w) - 1
        /\ \A i \in 1 .. Len(w) - 1 : v[i] = IF i < h THEN w[i] ELSE w[i + 1]
    BY WithoutFacts
  <2> HIDE DEF v
  <2> QED
    BY <2>1, LenProperties
<1> HIDE DEF v
<1>2. \A i \in 1 .. Len(w) : w[i] \in Int
  <2>1. \A i \in 1 .. Len(w) : w[i] \in Loads
    BY ElementOfSeq
  <2> QED
    BY <2>1 DEF Loads
<1>3. ASSUME NEW i \in 1 .. Len(v), NEW j \in 1 .. Len(v), i < j PROVE v[i] < v[j]
    BY <1>1, <1>3
<1>4. ASSUME NEW i \in 1 .. Len(v)
      PROVE  \E j \in 1 .. Len(w) : j # h /\ v[i] = w[j]
  <2>1. CASE i < h
    <3>1. i \in 1 .. Len(w) /\ i # h /\ v[i] = w[i]
      BY <1>1, <2>1
    <3> QED
      BY <3>1
  <2>2. CASE ~(i < h)
    <3>1. i + 1 \in 1 .. Len(w) /\ i + 1 # h /\ v[i] = w[i + 1]
      BY <1>1, <2>2
    <3> QED
      BY <3>1
  <2> QED
    BY <2>1, <2>2
<1>5. ASSUME NEW j \in 1 .. Len(w), j # h PROVE \E i \in 1 .. Len(v) : v[i] = w[j]
  <2>1. CASE j < h
    <3>1. j \in 1 .. Len(v) /\ v[j] = w[j]
      BY <1>1, <2>1
    <3> QED
      BY <3>1
  <2>2. CASE ~(j < h)
    <3>1. j - 1 \in 1 .. Len(v) /\ ~(j - 1 < h) /\ (j - 1) + 1 = j
      BY <1>1, <1>5, <2>2
    <3> QED
      BY <1>1, <3>1
  <2> QED
    BY <2>1, <2>2
<1>6. ASSUME NEW i \in 1 .. Len(v) PROVE v[i] # w[h]
  <2>1. PICK j \in 1 .. Len(w) : j # h /\ v[i] = w[j]
    BY <1>4
  <2>2. j < h \/ h < j
    BY <1>1, <2>1
  <2> QED
    BY <1>2, <2>1, <2>2
<1> QED
    BY <1>1, <1>3, <1>4, <1>5, <1>6 DEF v

\* In a closing runtime the load that starts its task leaves, if it still waits.
LEMMA TakenBackStep ==
    ASSUME IInv, NEW l \in Loads, StartTask(l), closing
    PROVE  IInv'
<1>1. TypeOK /\ LoadOrder /\ LoadLife /\ StreamLife /\ WaitersWait /\ Listed
    BY DEF IInv
<1>2. /\ load[l].pc = "start" /\ UNCHANGED <<published, registered, closing, ctxDone>>
      /\ load[l] \in LoadRecords /\ DOMAIN load = Loads /\ Runs(l)
      /\ load[l].stream \in Streams /\ stream[load[l].stream].pc # "free"
    BY <1>1, LoadFacts, RunsFacts DEF LoadLife, LifeOf, OnLoop, StartTask
<1>S. PICK s \in Streams : s = load[l].stream
    BY <1>2
<1>W. PICK w : w = stream[s].waiters
    OBVIOUS
<1>V. PICK v : v = TakenBack(w, l)
    OBVIOUS
<1> DEFINE y == [stream[s] EXCEPT !.waiters = v]
           c == [load[l] EXCEPT !.pc = "settled", !.event = 0, !.err = "closing"]
<1>3. stream' = [stream EXCEPT ![s] = y] /\ load' = [load EXCEPT ![l] = c]
    BY <1>2, <1>S, <1>W, <1>V DEF StartTask, Settled
<1>4. /\ stream[s] \in StreamRecords /\ DOMAIN stream = Streams /\ LifeOfStream(s)
      /\ w \in Seq(Loads) /\ Len(stream[s].pending) <= Limit /\ Waiting(s) /\ stream[s].pc # "free"
    BY <1>1, <1>2, <1>S, <1>W, StreamFacts DEF StreamLife, WaitersWait
<1>5. \A i \in 1 .. Len(w) :
          /\ w[i] \in Loads /\ load[w[i]].stream = s /\ Waits(w[i])
          /\ \A j \in 1 .. Len(w) : i < j => w[i] < w[j]
          /\ \A k \in Got(s) : k < w[i]
    BY <1>1, <1>4, <1>W, WaiterFacts DEF Waiting
<1>6. /\ v \in Seq(Loads) /\ (w = <<>> => v = <<>>)
      /\ \A i, j \in 1 .. Len(v) : i < j => v[i] < v[j]
      /\ \A i \in 1 .. Len(v) : v[i] # l /\ \E j \in 1 .. Len(w) : v[i] = w[j]
      /\ \A j \in 1 .. Len(w) : w[j] # l => \E i \in 1 .. Len(v) : v[i] = w[j]
  <2> DEFINE at == {i \in DOMAIN w : w[i] = l}
  <2>1. DOMAIN w = 1 .. Len(w)
    BY <1>4, LenProperties
  <2>2. CASE at = {}
    <3>1. v = w
      BY <1>V, <2>2 DEF TakenBack
    <3>2. \A i \in 1 .. Len(w) : w[i] # l
      BY <2>1, <2>2
    <3> QED
      BY <1>4, <1>5, <3>1, <3>2
  <2>3. CASE at # {}
    <3>1. PICK h : h = CHOOSE i \in at : TRUE
      OBVIOUS
    <3>2. h \in at /\ v = Without(w, h)
      BY <1>V, <2>3, <3>1 DEF TakenBack
    <3>3. h \in 1 .. Len(w) /\ w \in Seq(Loads)
      BY <1>4, <2>1, <3>2
    <3> HIDE DEF at
    <3>4. w # <<>>
      BY <3>3
    <3>5. \A i, j \in 1 .. Len(w) : i < j => w[i] < w[j]
      BY <1>5
    <3>6. /\ Without(w, h) \in Seq(Loads)
          /\ \A i, j \in 1 .. Len(Without(w, h)) : i < j => Without(w, h)[i] < Without(w, h)[j]
          /\ \A i \in 1 .. Len(Without(w, h)) :
                 /\ Without(w, h)[i] # w[h]
                 /\ \E j \in 1 .. Len(w) : j # h /\ Without(w, h)[i] = w[j]
          /\ \A j \in 1 .. Len(w) :
                 j # h => \E i \in 1 .. Len(Without(w, h)) : Without(w, h)[i] = w[j]
      BY <3>3, <3>5, WithoutOrder
    <3>7. w[h] = l /\ v = Without(w, h)
      BY <3>2 DEF at
    <3> QED
      BY <3>3, <3>4, <3>6, <3>7
  <2> QED
    BY <2>2, <2>3
<1>7. /\ y \in StreamRecords /\ y.pending = stream[s].pending /\ y.pc = stream[s].pc
      /\ y.closed = stream[s].closed /\ y.waiters = v /\ y.overflow = stream[s].overflow
    BY <1>4, <1>6 DEF StreamRecords
<1>8. c \in LoadRecords /\ c.pc = "settled" /\ c.event = 0 /\ c.stream = s
  <2>1. 0 \in 0 .. MaxEvents
    BY StreamAssumption
  <2>2. c \in LoadRecords
    BY <1>2, <2>1 DEF LoadRecords, LoadPC, LoadErrs
  <2> QED
    BY <1>2, <1>S, <2>2 DEF LoadRecords
<1> HIDE DEF y, c
<1>9. /\ stream'[s] = y /\ load'[l] = c
      /\ \A k \in Loads \ {l} : load'[k] = load[k]
      /\ load' \in [Loads -> LoadRecords]
    BY <1>1, <1>2, <1>3, <1>4, <1>8 DEF TypeOK
<1>10. LoadOrder'
    BY <1>1, <1>2, <1>8, <1>9, OrderStep
<1>11. LoadLife'
  <2>1. ASSUME NEW q \in Streams, stream[q].pc # "free" PROVE stream'[q].pc # "free"
    BY <1>3, <1>4, <1>7, <2>1
  <2>2. LifeOf(l)'
    BY <1>4, <1>7, <1>8, <1>9 DEF LifeOf
  <2>3. ASSUME NEW k \in Loads, k # l PROVE LifeOf(k)'
    BY <1>1, <1>9, <2>1, <2>3, LifeSame DEF LoadLife
  <2> QED
    BY <2>2, <2>3 DEF LoadLife
<1>12. Got(s)' \subseteq Got(s)
    BY <1>8, <1>9 DEF Got
<1>13. Waiting(s)'
  <2>1. ASSUME NEW i \in 1 .. Len(v)
        PROVE  /\ load'[v[i]].stream = s /\ Waits(v[i])'
               /\ \A j \in 1 .. Len(v) : i < j => v[i] < v[j]
               /\ \A k \in Got(s)' : k < v[i]
    <3>1. /\ v[i] \in Loads \ {l} /\ load[v[i]].stream = s /\ Waits(v[i])
          /\ \A k \in Got(s) : k < v[i]
      BY <1>5, <1>6
    <3> QED
      BY <1>6, <1>9, <1>12, <3>1 DEF Waits, Answered
  <2> QED
    BY <1>7, <1>9, <2>1 DEF Waiting
<1>14. LifeOfStream(s)'
    BY <1>4, <1>6, <1>7, <1>9, <1>W DEF LifeOfStream
<1>15. ASSUME NEW k \in Loads, load[k].stream = s, Waits(k)'
       PROVE  \E i \in 1 .. Len(v) : v[i] = k
  <2>1. k # l
    BY <1>8, <1>9, <1>15 DEF Waits
  <2>2. Waits(k)
    BY <1>9, <1>15, <2>1 DEF Waits, Answered
  <2>3. PICK j \in 1 .. Len(w) : w[j] = k
    BY <1>1, <1>15, <1>W, <2>2 DEF Listed
  <2> QED
    BY <1>6, <2>1, <2>3
<1>16. ~Undisturbed(s)'
    BY <1>2 DEF Undisturbed
<1>17. \A k \in Loads : /\ load'[k].stream = load[k].stream
                        /\ load[k].stream # s => load'[k] = load[k]
    BY <1>8, <1>9, <1>S
<1>18. Within(s)
    BY <1>2, <1>3, <1>4, <1>7, <1>9, <1>10, <1>11, <1>13, <1>14, <1>15, <1>16, <1>17 DEF Within
<1> QED
    BY <1>18, WithinStep

-----------------------------------------------------------------------------
(* The supervisor hands an event over, or keeps it *)

\* The event it has taken: the next one, if the stream is undisturbed.
LEMMA EventFacts ==
    ASSUME TypeOK, NEW s \in Streams, stream[s].events # <<>>
    PROVE  LET v == stream[s].events IN
           /\ Head(v) \in Events /\ Head(v) \in Int /\ Head(v) # 0 /\ Head(v) \in 0 .. MaxEvents
           /\ Tail(v) \in Seq(Events) /\ Len(v) \in Nat \ {0} /\ Len(Tail(v)) = Len(v) - 1
           /\ Head(v) = v[1] /\ \A i \in 1 .. Len(v) - 1 : Tail(v)[i] = v[i + 1]
<1> DEFINE v == stream[s].events
<1>1. v \in Seq(Events) /\ v # <<>>
    BY StreamFacts
<1> HIDE DEF v
<1>2. /\ Tail(v) \in Seq(Events) /\ Len(v) \in Nat \ {0} /\ Len(Tail(v)) = Len(v) - 1
      /\ Head(v) = v[1] /\ \A i \in 1 .. Len(Tail(v)) : Tail(v)[i] = v[i + 1]
    BY <1>1, HeadTailProperties, LenProperties
<1>3. Head(v) \in Events
    BY <1>1, <1>2, ElementOfSeq
<1>4. Head(v) \in Int /\ Head(v) # 0 /\ Head(v) \in 0 .. MaxEvents
    BY <1>3, StreamAssumption DEF Events
<1> QED
    BY <1>2, <1>3, <1>4 DEF v

Hands(s) == stream[s].closed = "open" /\ stream[s].waiters # <<>>

LEMMA HandsStep ==
    ASSUME IInv, NEW s \in Streams, TakeEvent(s), Hands(s)
    PROVE  IInv'
<1>1. TypeOK /\ LoadOrder /\ LoadLife /\ StreamLife /\ WaitersWait /\ Listed /\ NoneLost
    BY DEF IInv
<1>W. PICK w : w = stream[s].waiters
    OBVIOUS
<1>V. PICK v : v = Without(w, 1)
    OBVIOUS
<1>T. PICK t : t = Tail(stream[s].events)
    OBVIOUS
<1>E. PICK e : e = Head(stream[s].events)
    OBVIOUS
<1>M. PICK m : m = w[1]
    OBVIOUS
<1> DEFINE y == [[stream[s] EXCEPT !.pc = "peek", !.events = t] EXCEPT !.waiters = v]
           c == [load[m] EXCEPT !.event = e]
<1>2. /\ stream[s].pc = "select" /\ stream[s].events # <<>> /\ stream[s].closed = "open"
      /\ w # <<>> /\ stream' = [stream EXCEPT ![s] = y] /\ load' = [load EXCEPT ![m] = c]
      /\ UNCHANGED <<published, registered, closing, ctxDone>>
    BY <1>W, <1>V, <1>T, <1>E, <1>M DEF TakeEvent, Hands, HandsOver, Served
<1>3. /\ stream[s] \in StreamRecords /\ DOMAIN stream = Streams /\ LifeOfStream(s)
      /\ w \in Seq(Loads) /\ Waiting(s) /\ stream[s].pending = <<>> /\ DOMAIN load = Loads
      /\ 1 \in 1 .. Len(w) /\ Len(w) \in Nat
    BY <1>1, <1>2, <1>W, StreamFacts, LenProperties DEF StreamLife, LifeOfStream, WaitersWait, TypeOK
<1>4. /\ e \in Int /\ e # 0 /\ e \in 0 .. MaxEvents /\ t \in Seq(Events)
      /\ Len(stream[s].events) \in Nat \ {0} /\ Len(t) = Len(stream[s].events) - 1
      /\ e = stream[s].events[1]
      /\ \A i \in 1 .. Len(stream[s].events) - 1 : t[i] = stream[s].events[i + 1]
    BY <1>1, <1>2, <1>T, <1>E, EventFacts
<1>5. \A i \in 1 .. Len(w) :
          /\ w[i] \in Loads /\ load[w[i]].stream = s /\ Waits(w[i])
          /\ \A j \in 1 .. Len(w) : i < j => w[i] < w[j]
          /\ \A k \in Got(s) : k < w[i]
    BY <1>1, <1>3, <1>W, WaiterFacts DEF Waiting
<1>6. /\ m \in Loads /\ load[m].stream = s /\ Waits(m) /\ load[m] \in LoadRecords
      /\ \A k \in Got(s) : k < m
    BY <1>1, <1>3, <1>5, <1>M, LoadFacts
<1>7. m \notin Got(s) /\ load[m].event = 0
    BY <1>6 DEF Got, Waits, Answered
<1>8. /\ v \in Seq(Loads)
      /\ \A i, j \in 1 .. Len(v) : i < j => v[i] < v[j]
      /\ \A i \in 1 .. Len(v) : v[i] # m /\ \E j \in 1 .. Len(w) : j # 1 /\ v[i] = w[j]
      /\ \A j \in 1 .. Len(w) : w[j] # m => \E i \in 1 .. Len(v) : v[i] = w[j]
  <2>1. \A i, j \in 1 .. Len(w) : i < j => w[i] < w[j]
    BY <1>5
  <2>2. w \in Seq(Loads) /\ 1 \in 1 .. Len(w)
    BY <1>3
  <2>3. /\ Without(w, 1) \in Seq(Loads)
        /\ \A i, j \in 1 .. Len(Without(w, 1)) : i < j => Without(w, 1)[i] < Without(w, 1)[j]
        /\ \A i \in 1 .. Len(Without(w, 1)) :
               /\ Without(w, 1)[i] # w[1]
               /\ \E j \in 1 .. Len(w) : j # 1 /\ Without(w, 1)[i] = w[j]
        /\ \A j \in 1 .. Len(w) :
               j # 1 => \E i \in 1 .. Len(Without(w, 1)) : Without(w, 1)[i] = w[j]
    BY <2>1, <2>2, WithoutOrder
  <2> QED
    BY <1>V, <1>M, <2>3
<1>9. /\ y \in StreamRecords /\ y.pending = stream[s].pending /\ y.pc = "peek"
      /\ y.closed = stream[s].closed /\ y.waiters = v /\ y.overflow = stream[s].overflow
      /\ y.events = t /\ y.first = stream[s].first /\ y.subscribed = stream[s].subscribed
      /\ y.ended = stream[s].ended /\ y.dropped = stream[s].dropped /\ y.again = stream[s].again
    BY <1>3, <1>4, <1>8 DEF StreamRecords, SupervisorPC
<1>10. /\ c \in LoadRecords /\ c.pc = load[m].pc /\ c.event = e /\ c.stream = s
       /\ c.err = load[m].err
    BY <1>4, <1>6 DEF LoadRecords
<1> HIDE DEF y, c
<1>11. /\ stream'[s] = y /\ load'[m] = c
       /\ \A k \in Loads \ {m} : load'[k] = load[k]
       /\ load' \in [Loads -> LoadRecords]
    BY <1>1, <1>2, <1>3, <1>6, <1>10 DEF TypeOK
<1>12. LoadOrder'
  <2>1. \A k \in Loads : load'[k].pc = load[k].pc
    BY <1>10, <1>11
  <2> QED
    BY <1>1, <2>1 DEF LoadOrder
<1>13. LoadLife'
  <2>1. ASSUME NEW q \in Streams, stream[q].pc # "free" PROVE stream'[q].pc # "free"
    BY <1>2, <1>3, <1>9, <2>1
  <2>2. LifeOf(m)'
    BY <1>2, <1>6, <1>9, <1>10, <1>11, StreamAssumption DEF LifeOf, Waits
  <2>3. ASSUME NEW k \in Loads, k # m PROVE LifeOf(k)'
    BY <1>1, <1>11, <2>1, <2>3, LifeSame DEF LoadLife
  <2> QED
    BY <2>2, <2>3 DEF LoadLife
<1>14. Got(s)' \subseteq Got(s) \cup {m}
    BY <1>11 DEF Got
<1>15. Waiting(s)'
  <2>1. ASSUME NEW i \in 1 .. Len(v)
        PROVE  /\ load'[v[i]].stream = s /\ Waits(v[i])'
               /\ \A j \in 1 .. Len(v) : i < j => v[i] < v[j]
               /\ \A k \in Got(s)' : k < v[i]
    <3>1. PICK j \in 1 .. Len(w) : j # 1 /\ v[i] = w[j]
      BY <1>8
    <3>2. 1 < j
      BY <1>3, <3>1
    <3>3. /\ v[i] \in Loads \ {m} /\ load[v[i]].stream = s /\ Waits(v[i])
          /\ \A k \in Got(s) : k < v[i]
      BY <1>5, <1>8, <3>1
    <3>4. m < v[i]
      BY <1>3, <1>5, <1>M, <3>1, <3>2
    <3> QED
      BY <1>8, <1>11, <1>14, <3>3, <3>4 DEF Waits, Answered
  <2> QED
    BY <1>9, <1>11, <2>1 DEF Waiting
<1>16. LifeOfStream(s)'
    BY <1>2, <1>3, <1>9, <1>11, <1>W DEF LifeOfStream
<1>17. ASSUME NEW k \in Loads, load[k].stream = s, Waits(k)'
       PROVE  \E i \in 1 .. Len(v) : v[i] = k
  <2>1. k # m
    BY <1>4, <1>10, <1>11, <1>17 DEF Waits, Answered
  <2>2. Waits(k)
    BY <1>11, <1>17, <2>1 DEF Waits, Answered
  <2>3. PICK j \in 1 .. Len(w) : w[j] = k
    BY <1>1, <1>17, <1>W, <2>2 DEF Listed
  <2> QED
    BY <1>8, <2>1, <2>3
<1>18. (Undisturbed(s) => Complete(s))'
  <2> SUFFICES ASSUME Undisturbed(s)' PROVE Complete(s)'
    OBVIOUS
  <2>1. Undisturbed(s)
    BY <1>2, <1>9, <1>11 DEF Undisturbed, IsOpen
  <2>2. PICK n \in stream[s].first .. published : GotUpTo(s, n) /\ KeptFrom(s, n)
    BY <1>1, <2>1 DEF NoneLost, Complete
  <2>3. /\ stream[s].first \in Nat /\ published \in Nat
        /\ n \in Int /\ n >= stream[s].first /\ Len(stream[s].pending) = 0
    BY <1>1, <1>3, StreamFacts, StreamAssumption DEF TypeOK
  <2>V. PICK x : x = stream[s].events
    OBVIOUS
  <2>4. Len(x) = published - n /\ \A i \in 1 .. Len(x) : x[i] = n + i
    BY <2>2, <2>3, <2>V DEF KeptFrom
  <2>5. /\ Len(x) \in Nat \ {0} /\ Len(t) = Len(x) - 1 /\ e = x[1]
        /\ \A i \in 1 .. Len(x) - 1 : t[i] = x[i + 1]
    BY <1>4, <2>V
  <2>6. e = n + 1 /\ n + 1 <= published /\ Len(t) = published - (n + 1)
    BY <2>3, <2>4, <2>5
  <2>7. (GotUpTo(s, n + 1))'
    BY <1>1, <1>6, <1>7, <1>9, <1>10, <1>11, <2>2, <2>3, <2>6, GotNext
  <2>8. ASSUME NEW i \in 1 .. Len(t) PROVE t[i] = n + 1 + i
    <3>1. i + 1 \in 1 .. Len(x) /\ t[i] = x[i + 1]
      BY <2>5
    <3> QED
      BY <2>3, <2>4, <3>1
  <2>9. (KeptFrom(s, n + 1))'
    <3>1. /\ stream'[s].events = t /\ published' = published
          /\ Len(stream'[s].pending) = 0
      BY <1>2, <1>9, <1>11, <2>3
    <3> QED
      BY <2>3, <2>6, <2>8, <3>1 DEF KeptFrom
  <2>10. n + 1 \in stream'[s].first .. published'
    BY <1>2, <1>9, <1>11, <2>3, <2>6
  <2> QED
    BY <2>7, <2>9, <2>10 DEF Complete
<1>19. \A k \in Loads : /\ load'[k].stream = load[k].stream
                        /\ load[k].stream # s => load'[k] = load[k]
    BY <1>6, <1>10, <1>11
<1>20. Len(y.pending) <= Limit
    BY <1>1, <1>9, StreamFacts
<1>21. Within(s)
    BY <1>2, <1>3, <1>9, <1>11, <1>12, <1>13, <1>15, <1>16, <1>17, <1>18, <1>19, <1>20 DEF Within
<1> QED
    BY <1>21, WithinStep

Keeps(s) == stream[s].closed = "open" /\ stream[s].waiters = <<>> /\ HasRoom(s)

LEMMA KeepsStep ==
    ASSUME IInv, NEW s \in Streams, TakeEvent(s), Keeps(s)
    PROVE  IInv'
<1>1. TypeOK /\ LoadOrder /\ LoadLife /\ StreamLife /\ WaitersWait /\ Listed /\ NoneLost
    BY DEF IInv
<1>P. PICK p : p = stream[s].pending
    OBVIOUS
<1>T. PICK t : t = Tail(stream[s].events)
    OBVIOUS
<1>E. PICK e : e = Head(stream[s].events)
    OBVIOUS
<1>Q. PICK q : q = Append(p, e)
    OBVIOUS
<1> DEFINE y == [[stream[s] EXCEPT !.pc = "peek", !.events = t] EXCEPT !.pending = q]
<1>2. /\ stream[s].pc = "select" /\ stream[s].events # <<>> /\ stream[s].closed = "open"
      /\ stream[s].waiters = <<>> /\ Len(p) < Limit /\ stream' = [stream EXCEPT ![s] = y]
      /\ UNCHANGED <<published, registered, load, closing, ctxDone>>
    BY <1>P, <1>T, <1>E, <1>Q DEF TakeEvent, Keeps, HandsOver, HasRoom
<1>3. /\ stream[s] \in StreamRecords /\ DOMAIN stream = Streams /\ LifeOfStream(s)
      /\ p \in Seq(Events) /\ Len(p) \in Nat
    BY <1>1, <1>P, StreamFacts, LenProperties DEF StreamLife
<1>4. /\ e \in Events /\ t \in Seq(Events)
      /\ Len(stream[s].events) \in Nat \ {0} /\ Len(t) = Len(stream[s].events) - 1
      /\ e = stream[s].events[1]
      /\ \A i \in 1 .. Len(stream[s].events) - 1 : t[i] = stream[s].events[i + 1]
    BY <1>1, <1>2, <1>T, <1>E, EventFacts
<1>5. /\ q \in Seq(Events) /\ Len(q) = Len(p) + 1 /\ Len(q) <= Limit /\ Len(q) \in Nat
      /\ q[Len(p) + 1] = e /\ \A i \in 1 .. Len(p) : q[i] = p[i]
  <2>1. /\ q \in Seq(Events) /\ Len(q) = Len(p) + 1
        /\ q[Len(p) + 1] = e /\ \A i \in 1 .. Len(p) : q[i] = p[i]
    BY <1>3, <1>4, <1>Q, AppendProperties
  <2> QED
    BY <1>2, <1>3, <2>1, StreamAssumption
<1>6. /\ y \in StreamRecords /\ y.pending = q /\ y.pc = "peek"
      /\ y.closed = stream[s].closed /\ y.waiters = <<>> /\ y.overflow = stream[s].overflow
      /\ y.events = t /\ y.first = stream[s].first /\ y.subscribed = stream[s].subscribed
      /\ y.ended = stream[s].ended /\ y.dropped = stream[s].dropped /\ y.again = stream[s].again
    BY <1>2, <1>3, <1>4, <1>5 DEF StreamRecords, SupervisorPC
<1> HIDE DEF y
<1>7. stream'[s] = y /\ load' = load /\ load \in [Loads -> LoadRecords]
    BY <1>1, <1>2, <1>3 DEF TypeOK
<1>8. LoadOrder' /\ Got(s)' = Got(s)
    BY <1>1, <1>2 DEF LoadOrder, Got
<1>9. LoadLife'
  <2>1. ASSUME NEW x \in Streams, stream[x].pc # "free" PROVE stream'[x].pc # "free"
    BY <1>2, <1>3, <1>6, <2>1
  <2> QED
    BY <1>1, <1>7, <2>1, LifeSame DEF LoadLife
<1>10. LifeOfStream(s)' /\ Waiting(s)'
    BY <1>2, <1>3, <1>6, <1>7 DEF LifeOfStream, Waiting
<1>11. ASSUME NEW k \in Loads, load[k].stream = s, Waits(k)' PROVE FALSE
  <2>1. Waits(k)
    BY <1>7, <1>11 DEF Waits, Answered
  <2> QED
    BY <1>1, <1>2, <1>11, <2>1 DEF Listed
<1>12. (Undisturbed(s) => Complete(s))'
  <2> SUFFICES ASSUME Undisturbed(s)' PROVE Complete(s)'
    OBVIOUS
  <2>1. Undisturbed(s)
    BY <1>2, <1>6, <1>7 DEF Undisturbed, IsOpen
  <2>2. PICK n \in stream[s].first .. published : GotUpTo(s, n) /\ KeptFrom(s, n)
    BY <1>1, <2>1 DEF NoneLost, Complete
  <2>3. stream[s].first \in Nat /\ published \in Nat /\ n \in Int
    BY <1>1, StreamFacts, StreamAssumption DEF TypeOK
  <2>V. PICK x : x = stream[s].events
    OBVIOUS
  <2>4. /\ Len(p) + Len(x) = published - n
        /\ \A i \in 1 .. Len(p) : p[i] = n + i
        /\ \A i \in 1 .. Len(x) : x[i] = n + Len(p) + i
    BY <2>2, <2>V, <1>P DEF KeptFrom
  <2>5. /\ Len(x) \in Nat \ {0} /\ Len(t) = Len(x) - 1 /\ e = x[1]
        /\ \A i \in 1 .. Len(x) - 1 : t[i] = x[i + 1]
    BY <1>4, <2>V
  <2>6. Len(q) + Len(t) = published - n
    <3>1. /\ Len(p) + Len(x) = published - n /\ Len(q) = Len(p) + 1 /\ Len(t) = Len(x) - 1
          /\ Len(p) \in Nat /\ Len(x) \in Nat /\ published \in Nat /\ n \in Int
      BY <1>3, <1>5, <2>3, <2>4, <2>5
    <3> QED
      BY <3>1
  <2>7. ASSUME NEW i \in 1 .. Len(q) PROVE q[i] = n + i
    <3>1. CASE i \in 1 .. Len(p)
      BY <1>5, <2>4, <3>1
    <3>2. CASE i = Len(p) + 1
      BY <1>3, <1>5, <2>3, <2>4, <2>5, <3>2
    <3> QED
      BY <1>3, <1>5, <3>1, <3>2
  <2>8. ASSUME NEW i \in 1 .. Len(t) PROVE t[i] = n + Len(q) + i
    <3>1. i + 1 \in 1 .. Len(x) /\ t[i] = x[i + 1]
      BY <2>5
    <3>2. t[i] = n + Len(p) + (i + 1)
      BY <2>4, <3>1
    <3> QED
      BY <1>3, <1>5, <2>3, <3>2
  <2>9. (KeptFrom(s, n))'
    <3>1. /\ stream'[s].events = t /\ stream'[s].pending = q /\ published' = published
      BY <1>2, <1>6, <1>7
    <3> QED
      BY <2>6, <2>7, <2>8, <3>1 DEF KeptFrom
  <2>10. (GotUpTo(s, n))'
    BY <1>6, <1>7, <1>8, <2>2 DEF GotUpTo
  <2> QED
    BY <1>2, <1>6, <1>7, <2>9, <2>10 DEF Complete
<1>13. Within(s)
    BY <1>2, <1>3, <1>5, <1>6, <1>7, <1>8, <1>9, <1>10, <1>11, <1>12 DEF Within
<1> QED
    BY <1>13, WithinStep

\* An event that finds no room is noted.
Overflows(s) == stream[s].closed = "open" /\ stream[s].waiters = <<>> /\ ~HasRoom(s)

LEMMA OverflowsStep ==
    ASSUME IInv, NEW s \in Streams, TakeEvent(s), Overflows(s)
    PROVE  IInv'
<1>1. TypeOK /\ LoadOrder /\ LoadLife /\ StreamLife /\ WaitersWait /\ Listed /\ NoneLost
    BY DEF IInv
<1>T. PICK t : t = Tail(stream[s].events)
    OBVIOUS
<1>E. PICK e : e = Head(stream[s].events)
    OBVIOUS
<1> DEFINE y == [[stream[s] EXCEPT !.pc = "peek", !.events = t]
                     EXCEPT !.overflow = TRUE, !.dropped = e]
<1>2. /\ stream[s].pc = "select" /\ stream[s].events # <<>> /\ stream[s].closed = "open"
      /\ stream[s].waiters = <<>> /\ stream' = [stream EXCEPT ![s] = y]
      /\ UNCHANGED <<published, registered, load, closing, ctxDone>>
    BY <1>T, <1>E DEF TakeEvent, Overflows, HandsOver
<1>3. /\ stream[s] \in StreamRecords /\ DOMAIN stream = Streams /\ LifeOfStream(s)
      /\ Len(stream[s].pending) <= Limit
    BY <1>1, StreamFacts DEF StreamLife
<1>4. e \in 0 .. MaxEvents /\ e # 0 /\ t \in Seq(Events)
    BY <1>1, <1>2, <1>T, <1>E, EventFacts
<1>5. /\ y \in StreamRecords /\ y.pending = stream[s].pending /\ y.pc = "peek"
      /\ y.closed = stream[s].closed /\ y.waiters = <<>> /\ y.dropped = e
    BY <1>2, <1>3, <1>4 DEF StreamRecords, SupervisorPC
<1> HIDE DEF y
<1>6. stream'[s] = y /\ load' = load /\ load \in [Loads -> LoadRecords]
    BY <1>1, <1>2, <1>3 DEF TypeOK
<1>7. LoadOrder'
    BY <1>1, <1>2 DEF LoadOrder
<1>8. LoadLife'
  <2>1. ASSUME NEW x \in Streams, stream[x].pc # "free" PROVE stream'[x].pc # "free"
    BY <1>2, <1>3, <1>5, <2>1
  <2> QED
    BY <1>1, <1>6, <2>1, LifeSame DEF LoadLife
<1>9. LifeOfStream(s)' /\ Waiting(s)'
    BY <1>2, <1>3, <1>5, <1>6 DEF LifeOfStream, Waiting
<1>10. ASSUME NEW k \in Loads, load[k].stream = s, Waits(k)' PROVE FALSE
  <2>1. Waits(k)
    BY <1>6, <1>10 DEF Waits, Answered
  <2> QED
    BY <1>1, <1>2, <1>10, <2>1 DEF Listed
<1>11. ~Undisturbed(s)'
    BY <1>4, <1>5, <1>6 DEF Undisturbed
<1>12. Within(s)
    BY <1>2, <1>3, <1>5, <1>6, <1>7, <1>8, <1>9, <1>10, <1>11 DEF Within
<1> QED
    BY <1>12, WithinStep

-----------------------------------------------------------------------------
(* The broker and the request *)

LEMMA PublishStep ==
    ASSUME IInv, Publish
    PROVE  IInv'
<1>1. TypeOK /\ LoadOrder /\ LoadLife /\ StreamLife /\ OneOpenStream
      /\ WaitersWait /\ Listed /\ NoneLost
    BY DEF IInv
<1>N. PICK e : e = published + 1
    OBVIOUS
<1>2. /\ published' = e /\ e \in Events /\ e \in 0 .. MaxEvents /\ published \in Nat
      /\ UNCHANGED <<registered, load, closing, ctxDone>>
    BY <1>1, <1>N, StreamAssumption DEF Publish, TypeOK, Events
<1> DEFINE y(s) == [stream[s] EXCEPT !.events = Append(@, e)]
<1>3. stream' = [s \in Streams |-> IF stream[s].subscribed /\ ~stream[s].ended
                                   THEN y(s) ELSE stream[s]]
    BY <1>N DEF Publish
<1>4. ASSUME NEW s \in Streams
      PROVE  /\ y(s) \in StreamRecords /\ y(s).pending = stream[s].pending
             /\ y(s).pc = stream[s].pc /\ y(s).waiters = stream[s].waiters
             /\ y(s).closed = stream[s].closed /\ y(s).overflow = stream[s].overflow
             /\ y(s).first = stream[s].first /\ y(s).subscribed = stream[s].subscribed
             /\ y(s).ended = stream[s].ended /\ y(s).dropped = stream[s].dropped
             /\ y(s).again = stream[s].again /\ y(s).events = Append(stream[s].events, e)
  <2>1. /\ stream[s] \in StreamRecords /\ stream[s].events \in Seq(Events)
    BY <1>1, StreamFacts
  <2>2. Append(stream[s].events, e) \in Seq(Events)
    BY <1>2, <2>1, AppendProperties
  <2> QED
    BY <2>1, <2>2 DEF StreamRecords
<1> HIDE DEF y
<1>5. ASSUME NEW s \in Streams
      PROVE  /\ stream'[s] \in StreamRecords /\ stream'[s].pending = stream[s].pending
             /\ stream'[s].pc = stream[s].pc /\ stream'[s].waiters = stream[s].waiters
             /\ stream'[s].closed = stream[s].closed /\ stream'[s].overflow = stream[s].overflow
             /\ stream'[s].first = stream[s].first /\ stream'[s].subscribed = stream[s].subscribed
             /\ stream'[s].ended = stream[s].ended /\ stream'[s].dropped = stream[s].dropped
             /\ stream'[s].again = stream[s].again
             /\ stream[s].subscribed /\ ~stream[s].ended =>
                    stream'[s].events = Append(stream[s].events, e)
             /\ ~stream[s].subscribed => stream'[s] = stream[s]
  <2>1. stream[s] \in StreamRecords
    BY <1>1, StreamFacts
  <2> QED
    BY <1>3, <1>4, <2>1
<1>6. TypeOK'
  <2>1. \A s \in Streams : stream'[s] \in StreamRecords
    BY <1>5
  <2>2. stream' \in [Streams -> StreamRecords]
    BY <1>3, <2>1
  <2>3. \A s \in Streams : Len(stream'[s].pending) <= Limit
    BY <1>1, <1>5 DEF TypeOK
  <2> QED
    BY <1>1, <1>2, <2>2, <2>3 DEF TypeOK
<1>7. LoadOrder'
    BY <1>1, <1>2 DEF LoadOrder
<1>8. LoadLife'
    BY <1>1, <1>2, <1>5, LifeSame DEF LoadLife
<1>9. StreamLife'
  <2>1. ASSUME NEW s \in Streams PROVE LifeOfStream(s)'
    <3>1. LifeOfStream(s)
      BY <1>1 DEF StreamLife
    <3>2. stream[s].pc = "free" => ~stream[s].subscribed
      BY <3>1, NullFacts DEF LifeOfStream
    <3> QED
      BY <1>5, <3>1, <3>2 DEF LifeOfStream
  <2>2. (registered # None => stream[registered].pc # "free")'
    BY <1>1, <1>2, <1>5 DEF StreamLife, TypeOK
  <2> QED
    BY <2>1, <2>2 DEF StreamLife
<1>10. OneOpenStream'
    BY <1>1, <1>2, <1>5 DEF OneOpenStream, IsOpen
<1>11. \A k \in Loads : SameGot(k) /\ (Waits(k)' <=> Waits(k))
    BY <1>2 DEF SameGot, Waits, Answered
<1>12. WaitersWait'
    BY <1>1, <1>2, <1>5, <1>11, WaitingSame DEF WaitersWait
<1>13. Listed'
  <2> SUFFICES ASSUME NEW k \in Loads, Waits(k)'
               PROVE  LET w == stream'[load'[k].stream].waiters IN \E i \in 1 .. Len(w) : w[i] = k
    BY DEF Listed
  <2>1. Waits(k) /\ load[k].stream \in Streams
    BY <1>1, <1>11, LoadFacts DEF LoadLife, LifeOf, Waits
  <2> QED
    BY <1>1, <1>2, <1>5, <2>1 DEF Listed
<1>14. ASSUME NEW s \in Streams, Undisturbed(s)' PROVE Complete(s)'
  <2>1. Undisturbed(s)
    BY <1>2, <1>5, <1>14 DEF Undisturbed, IsOpen
  <2>2. PICK n \in stream[s].first .. published : GotUpTo(s, n) /\ KeptFrom(s, n)
    BY <1>1, <2>1 DEF NoneLost, Complete
  <2>3. stream[s].first \in Nat /\ n \in Int /\ stream[s].events \in Seq(Events)
    BY <1>1, <1>2, StreamFacts, StreamAssumption
  <2>P. PICK p : p = stream[s].pending
    OBVIOUS
  <2>V. PICK v : v = stream[s].events
    OBVIOUS
  <2>X. PICK x : x = Append(v, e)
    OBVIOUS
  <2>4. /\ Len(p) + Len(v) = published - n
        /\ \A i \in 1 .. Len(p) : p[i] = n + i
        /\ \A i \in 1 .. Len(v) : v[i] = n + Len(p) + i
    BY <2>2, <2>V, <2>P DEF KeptFrom
  <2>5. /\ Len(x) = Len(v) + 1 /\ x[Len(v) + 1] = e /\ \A i \in 1 .. Len(v) : x[i] = v[i]
        /\ Len(v) \in Nat /\ Len(p) \in Nat
    BY <1>1, <1>2, <2>3, <2>P, <2>V, <2>X, StreamFacts, AppendProperties, LenProperties
  <2>6. Len(p) + Len(x) = e - n
    <3>1. /\ Len(p) + Len(v) = published - n /\ Len(x) = Len(v) + 1 /\ e = published + 1
          /\ Len(p) \in Nat /\ Len(v) \in Nat /\ published \in Nat /\ n \in Int
      BY <1>2, <1>N, <2>3, <2>4, <2>5
    <3> QED
      BY <3>1
  <2>7. ASSUME NEW i \in 1 .. Len(x) PROVE x[i] = n + Len(p) + i
    <3>1. CASE i \in 1 .. Len(v)
      BY <2>4, <2>5, <3>1
    <3>2. CASE i = Len(v) + 1
      BY <1>2, <1>N, <2>3, <2>4, <2>5, <3>2
    <3> QED
      BY <2>5, <3>1, <3>2
  <2>8. stream'[s].events = x /\ stream'[s].pending = p
    BY <1>5, <2>1, <2>P, <2>V, <2>X DEF Undisturbed
  <2>9. (KeptFrom(s, n))'
    BY <1>2, <2>4, <2>6, <2>7, <2>8 DEF KeptFrom
  <2>10. (GotUpTo(s, n))'
    BY <1>2, <1>5, <2>2 DEF GotUpTo, Got
  <2>11. n \in stream'[s].first .. published'
    BY <1>2, <1>5, <1>N, <2>3
  <2> QED
    BY <2>9, <2>10, <2>11 DEF Complete
<1> QED
    BY <1>6, <1>7, <1>8, <1>9, <1>10, <1>12, <1>13, <1>14 DEF IInv, NoneLost

LEMMA RequestStep ==
    ASSUME IInv, BeginClosing \/ Cancel \/ UNCHANGED vars
    PROVE  IInv'
<1>1. TypeOK /\ LoadOrder /\ LoadLife /\ StreamLife /\ OneOpenStream
      /\ WaitersWait /\ Listed /\ NoneLost
    BY DEF IInv
<1>2. /\ UNCHANGED <<published, registered, stream, load>>
      /\ closing' \in BOOLEAN /\ ctxDone' \in BOOLEAN /\ (~closing' => ~closing)
    BY <1>1 DEF BeginClosing, Cancel, vars, TypeOK
<1>3. TypeOK' /\ LoadOrder' /\ StreamLife' /\ OneOpenStream'
    BY <1>1, <1>2 DEF TypeOK, LoadOrder, StreamLife, LifeOfStream, OneOpenStream, IsOpen
<1>4. LoadLife'
    BY <1>1, <1>2, LifeSame DEF LoadLife
<1>5. \A k \in Loads : SameGot(k) /\ (Waits(k)' <=> Waits(k))
    BY <1>2 DEF SameGot, Waits, Answered
<1>6. WaitersWait'
    BY <1>1, <1>2, <1>5, WaitingSame DEF WaitersWait
<1>7. Listed'
    BY <1>1, <1>2, <1>5 DEF Listed
<1>8. NoneLost'
    BY <1>1, <1>2, <1>5, CompleteSame DEF NoneLost, Undisturbed, IsOpen
<1> QED
    BY <1>3, <1>4, <1>6, <1>7, <1>8 DEF IInv

-----------------------------------------------------------------------------
(* Together *)

LEMMA InitIInv == Init => IInv
<1> SUFFICES ASSUME Init PROVE IInv
    OBVIOUS
<1>1. /\ \A s \in Streams : stream[s] = NoStream
      /\ \A l \in Loads : load[l] = NewLoad
      /\ registered = None
    BY DEF Init
<1>2. 0 \in 0 .. MaxEvents /\ Len(<<>>) = 0
    BY StreamAssumption
<1>3. TypeOK
  <2>1. stream \in [Streams -> StreamRecords] /\ load \in [Loads -> LoadRecords]
    BY NullFacts DEF Init
  <2>2. \A s \in Streams : Len(stream[s].pending) <= Limit
    BY <1>1, <1>2, NullFacts, StreamAssumption
  <2> QED
    BY <1>2, <2>1, <2>2 DEF Init, TypeOK
<1>4. LoadOrder /\ LoadLife
    BY <1>1, NullFacts DEF LoadOrder, LoadLife, LifeOf, OnLoop
<1>5. StreamLife /\ OneOpenStream
    BY <1>1, NullFacts DEF StreamLife, LifeOfStream, OneOpenStream, IsOpen
<1>6. WaitersWait
    BY <1>1, <1>2, NullFacts DEF WaitersWait, Waiting
<1>7. Listed /\ NoneLost
    BY <1>1, NullFacts DEF Listed, Waits, NoneLost, Undisturbed, IsOpen
<1> QED
    BY <1>3, <1>4, <1>5, <1>6, <1>7 DEF IInv

LEMMA NextIInv == IInv /\ [Next]_vars => IInv'
<1> SUFFICES ASSUME IInv, [Next]_vars PROVE IInv'
    OBVIOUS
<1>1. ASSUME NEW l \in Loads, Load(l) PROVE IInv'
  <2>1. HasOpenStream \/ Refused(l) \/ \E s \in Streams : Makes(l, s)
    BY <1>1 DEF Load, Refused, Makes
  <2>2. CASE HasOpenStream \/ Refused(l)
    BY <1>1, <2>2, LoadActions, LoadMovesStep
  <2>3. CASE \E s \in Streams : Makes(l, s)
    BY <1>1, <2>3, MakesStep
  <2> QED
    BY <2>1, <2>2, <2>3
<1>2. ASSUME NEW l \in Loads, Await(l) PROVE IInv'
  <2>1. IsTaking(l) \/ IsOverflow(l) \/ IsRejected(l) \/ IsAwaiting(l)
    BY <1>2 DEF Await, IsTaking, IsOverflow, IsRejected, IsAwaiting
  <2> QED
    BY <1>2, <2>1, TakesStep, OverflowStep, LoadActions, LoadMovesStep, AwaitsStep
<1>3. ASSUME NEW l \in Loads, StartTask(l) \/ Settle(l) PROVE IInv'
    BY <1>3, LoadActions, LoadMovesStep, TakenBackStep
<1>4. ASSUME NEW s \in Streams, TakeEvent(s) PROVE IInv'
  <2>1. stream[s].closed # "open" \/ Hands(s) \/ Keeps(s) \/ Overflows(s)
    BY DEF Hands, Keeps, Overflows
  <2> QED
    BY <1>4, <2>1, SupervisorSteps, QuietStep, HandsStep, KeepsStep, OverflowsStep
<1>5. ASSUME NEW s \in Streams,
             \/ Check(s) \/ Peek(s) \/ SubscriptionEnds(s) \/ Retry(s) \/ NoticeDone(s)
             \/ Unregister(s) \/ BrokerEnds(s)
      PROVE  IInv'
  <2>1. CASE Quiet(s)
    BY <2>1, QuietStep
  <2>2. CASE ~Quiet(s)
    <3>1. Cancels(s) /\ (Check(s) \/ NoticeDone(s))
      BY <1>5, <2>2, SupervisorSteps
    <3>2. stream[s].pc # "free" /\ UNCHANGED <<published, registered, closing, ctxDone>>
      BY <3>1 DEF Check, NoticeDone
    <3> QED
      BY <3>1, <3>2, CancelsStep
  <2> QED
    BY <2>1, <2>2
<1>6. CASE BeginClosing \/ Cancel \/ Publish \/ UNCHANGED vars
    BY <1>6, RequestStep, PublishStep
<1> QED
    BY <1>1, <1>2, <1>3, <1>4, <1>5, <1>6 DEF Next, Script, Supervise

\* The inductive invariant holds in every state the event API of a request reaches:
\* the loads are called in order, the waiters of a stream are its loads that wait, and
\* an undisturbed stream has lost none of its events (host_globals.go:194).
THEOREM Invariance == Spec => []IInv
<1> QED
    BY InitIInv, NextIInv, PTL DEF Spec

\* Type correctness: the streams, loads and the key's entry are what the code's
\* structures can hold, and what a stream keeps for later loads is bounded
\* (host_globals.go:252).
THEOREM TypeCorrect == Spec => []TypeOK
<1>1. IInv => TypeOK
    BY DEF IInv
<1> QED
    BY <1>1, Invariance, PTL

\* A request never has two open streams under one key, and the one it has is the one
\* the key names, whatever supervisors are still on their way out
\* (host_globals.go:277-283).
THEOREM OpenStreamIsRegistered == Spec => []OneOpenStream
<1>1. IInv => OneOpenStream
    BY DEF IInv
<1> QED
    BY <1>1, Invariance, PTL

\* No load waits beside an event kept for it, in a stream that is over, or off the
\* list of those who are handed events (host_globals.go:252, :410).
THEOREM NobodyIsForgotten == Spec => []NobodyWaitsInVain
<1>1. IInv => NobodyWaitsInVain
  <2> SUFFICES ASSUME IInv PROVE NobodyWaitsInVain
    OBVIOUS
  <2>1. TypeOK /\ LoadLife /\ StreamLife /\ Listed
    BY DEF IInv
  <2>2. ASSUME NEW s \in Streams, stream[s].waiters # <<>>
        PROVE  stream[s].pending = <<>> /\ ~stream[s].overflow /\ stream[s].closed = "open"
    BY <2>1, <2>2 DEF StreamLife, LifeOfStream
  <2>3. ASSUME NEW l \in Loads, load[l].pc = "wait", ~Answered(l)
        PROVE  \E i \in DOMAIN stream[load[l].stream].waiters :
                   stream[load[l].stream].waiters[i] = l
    <3>1. load[l].stream \in Streams
      BY <2>1, <2>3, LoadFacts DEF LoadLife, LifeOf
    <3>2. DOMAIN stream[load[l].stream].waiters = 1 .. Len(stream[load[l].stream].waiters)
      BY <2>1, <3>1, StreamFacts, LenProperties
    <3> QED
      BY <2>1, <2>3, <3>2 DEF Listed, Waits
  <2> QED
    BY <2>2, <2>3 DEF NobodyWaitsInVain
<1> QED
    BY <1>1, Invariance, PTL

\* Between them, the loads of an undisturbed stream get every event once and in order,
\* a later load a later event, and what they have not got is kept in order: no event
\* is lost between a load that waits and one that comes late (host_globals.go:252).
THEOREM NoEventIsLost == Spec => []NoBroadcastLost
<1>1. IInv => NoBroadcastLost
  <2> SUFFICES ASSUME IInv, NEW s \in Streams, Undisturbed(s)
               PROVE  \E n \in stream[s].first .. published :
                          /\ {load[l].event : l \in Got(s)} = stream[s].first + 1 .. n
                          /\ \A k, l \in Got(s) : k < l => load[k].event < load[l].event
                          /\ stream[s].pending \o stream[s].events
                                 = [i \in 1 .. published - n |-> n + i]
    BY DEF NoBroadcastLost
  <2>1. PICK n \in stream[s].first .. published : GotUpTo(s, n) /\ KeptFrom(s, n)
    BY DEF IInv, NoneLost, Complete
  <2>2. {load[l].event : l \in Got(s)} = stream[s].first + 1 .. n
    BY <2>1 DEF GotUpTo
  <2>P. PICK p : p = stream[s].pending
    OBVIOUS
  <2>V. PICK v : v = stream[s].events
    OBVIOUS
  <2>3. /\ p \in Seq(Events) /\ v \in Seq(Events) /\ published \in Int /\ n \in Int
        /\ Len(p) \in Nat /\ Len(v) \in Nat
    BY <2>P, <2>V, StreamFacts, StreamAssumption, LenProperties DEF IInv, TypeOK
  <2>4. /\ Len(p) + Len(v) = published - n
        /\ \A i \in 1 .. Len(p) : p[i] = n + i
        /\ \A i \in 1 .. Len(v) : v[i] = n + Len(p) + i
    BY <2>1, <2>P, <2>V DEF KeptFrom
  <2>5. /\ p \o v \in Seq(Events) /\ Len(p \o v) = Len(p) + Len(v)
        /\ \A i \in 1 .. Len(p) + Len(v) :
               (p \o v)[i] = IF i <= Len(p) THEN p[i] ELSE v[i - Len(p)]
    BY <2>3, ConcatProperties
  <2>C. PICK c : c = p \o v
    OBVIOUS
  <2>6. ASSUME NEW i \in 1 .. published - n PROVE c[i] = n + i
    <3>1. i \in 1 .. Len(p) + Len(v) /\ c[i] = IF i <= Len(p) THEN p[i] ELSE v[i - Len(p)]
      BY <2>4, <2>5, <2>C
    <3>2. CASE i <= Len(p)
      BY <2>3, <2>4, <3>1, <3>2
    <3>3. CASE ~(i <= Len(p))
      <4>1. i - Len(p) \in 1 .. Len(v) /\ c[i] = v[i - Len(p)]
        BY <2>3, <3>1, <3>3
      <4>2. c[i] = n + Len(p) + (i - Len(p))
        BY <2>4, <4>1
      <4> QED
        BY <2>3, <3>1, <4>2
    <3> QED
      BY <3>2, <3>3
  <2>7. c \in Seq(Events) /\ Len(c) = published - n
    BY <2>4, <2>5, <2>C
  <2>8. c = [i \in 1 .. published - n |-> c[i]]
    BY <2>7, LenProperties
  <2>9. c = [i \in 1 .. published - n |-> n + i]
    BY <2>6, <2>8
  <2>10. \A k, l \in Got(s) : k < l => load[k].event < load[l].event
    BY <2>1 DEF GotUpTo
  <2> QED
    BY <2>2, <2>9, <2>10, <2>P, <2>V, <2>C
<1> QED
    BY <1>1, Invariance, PTL
=============================================================================
