------------------------ MODULE ProviderCacheProofs -------------------------
(***************************************************************************)
(* Proofs about ProviderCache, for every set of callers, files and         *)
(* directories and every capacity of the two semaphores: the types, the    *)
(* accounts of tokens and slots, and where what is remembered comes from.  *)
(***************************************************************************)
EXTENDS ProviderCache, FiniteSetTheorems, TLAPS

(* The inductive invariant *)

\* What a call holds at each of its places.  A call of the backend has its token,
\* unless it passes the semaphore by; only a call that may store has a slot.
Holds(c) ==
    /\ c.pc \in {"idle", "acquire"} => ~c.token /\ ~c.slot
    /\ c.pc = "backend" => ~c.slot /\ (c.token \/ c.op = "range")

\* A file is opened and a directory is listed, and what is going to be stored is
\* one of the answers, s, that the backend gave for the path of the call: not a part
\* of one, not an error of the call, and not what was said of another path.
Carries(c, s) ==
    /\ c.op = "open" => c.key \in Files
    /\ c.op = "list" => c.key \in Dirs
    /\ c.pc \in {"read", "put"} => c.key \in Keys /\ c.result \in s[c.key]

\* An Open in flight has room for the body it may return.
HasRoom(r) == call[r].op = "open" /\ call[r].pc \in {"acquire", "backend"} => streams[r] < MaxStreams

CallLife == \A r \in Callers : Holds(call[r]) /\ Carries(call[r], said) /\ HasRoom(r)

\* The holders are finitely many, whatever Callers is.
Accounts ==
    /\ IsFiniteSet(HoldToken) /\ IsFiniteSet(HoldSlot) /\ IsFiniteSet(Bodies)
    /\ SlotsAccounted

IInv == TypeOK /\ CallLife /\ Accounts /\ RememberedWasSaid
-----------------------------------------------------------------------------
(* What the actions do to the call, the streams and the semaphores *)

\* What has been said stays said.
Heard == said' \in [Keys -> SUBSET Results] /\ \A k \in Keys : said[k] \subseteq said'[k]

\* Caller r gets on with its call; the other calls stay as they are.
Steps(r) ==
    /\ Heard
    /\ call'[r] \in CallRecords /\ Holds(call'[r]) /\ Carries(call'[r], said')
    /\ call' = [call EXCEPT ![r] = call'[r]]

SameToken(r) == call'[r].token = call[r].token /\ UNCHANGED backendSem
SameSlot(r) == call'[r].slot = call[r].slot /\ UNCHANGED cacheSem

Keeps(r) == SameToken(r) /\ SameSlot(r) /\ UNCHANGED streams
TakesToken(r) ==
    /\ ~call[r].token /\ call'[r].token
    /\ backendSem' = backendSem + 1 /\ backendSem < BackendConcurrent
    /\ SameSlot(r) /\ UNCHANGED streams
GivesToken(r) ==
    /\ call[r].token /\ ~call'[r].token
    /\ backendSem' = backendSem - 1
    /\ SameSlot(r) /\ UNCHANGED streams
TakesSlot(r) ==
    /\ ~call[r].slot /\ call'[r].slot
    /\ cacheSem' = cacheSem + 1 /\ cacheSem < CacheConcurrent
    /\ SameToken(r) /\ UNCHANGED streams
GivesSlot(r) ==
    /\ call[r].slot /\ ~call'[r].slot
    /\ cacheSem' = cacheSem - 1
    /\ SameToken(r) /\ UNCHANGED streams
GivesBody(r) ==
    /\ call[r].token /\ ~call'[r].token /\ UNCHANGED backendSem
    /\ call'[r].op # "open"
    /\ SameSlot(r)
    /\ streams[r] < MaxStreams /\ streams' = [streams EXCEPT ![r] = @ + 1]

Effects(r) == \/ Keeps(r) \/ TakesToken(r) \/ GivesToken(r) \/ TakesSlot(r) \/ GivesSlot(r)
              \/ GivesBody(r)

\* An Open that has not been answered has room for one more body.
RoomKept(r) ==
    call'[r].op = "open" /\ call'[r].pc \in {"acquire", "backend"} =>
        \/ streams[r] < MaxStreams
        \/ call[r].op = "open" /\ call[r].pc \in {"acquire", "backend"}

LEMMA Records ==
    ASSUME TypeOK, CallLife, NEW r \in Callers
    PROVE  /\ call[r] \in CallRecords
           /\ call[r].op \in Ops /\ call[r].key \in Keys \cup {None} /\ call[r].pc \in PC
           /\ call[r].token \in BOOLEAN /\ call[r].slot \in BOOLEAN /\ call[r].result \in Results
           /\ DOMAIN call = Callers
           /\ Holds(call[r]) /\ Carries(call[r], said) /\ HasRoom(r)
<1>1. call[r] \in CallRecords /\ DOMAIN call = Callers
    BY DEF TypeOK
<1>2. Holds(call[r]) /\ Carries(call[r], said) /\ HasRoom(r)
    BY DEF CallLife
<1> QED
    BY <1>1, <1>2 DEF CallRecords

LEMMA ResultFacts ==
    /\ NotExist \in Results /\ Failed \in Results /\ Listing \in Results
    /\ \A ok \in BOOLEAN, body \in Contents : Response(ok, body) \in Results
    /\ \A answer \in Results : Replayed(answer) \in Results
    BY DEF NotExist, Failed, Listing, Response, Results, Contents, Replayed

\* The history of a step in which the backend says nothing, and of one in which it
\* answers the call of r.
LEMMA QuietStep ==
    ASSUME TypeOK, UNCHANGED said
    PROVE  Heard
    BY DEF TypeOK, Heard

LEMMA HeardStep ==
    ASSUME TypeOK, NEW r \in Callers, NEW answer \in Results, Says(r, answer),
           call[r].key \in Keys
    PROVE  Heard /\ answer \in said'[call[r].key]
<1> DEFINE k == call[r].key
<1>1. said \in [Keys -> SUBSET Results] /\ k \in Keys
    BY DEF TypeOK
<1>2. said' = [said EXCEPT ![k] = @ \cup {answer}]
    BY DEF Says
<1> HIDE DEF k
<1>3. Heard /\ answer \in said'[k]
    BY <1>1, <1>2 DEF Heard
<1> QED
    BY <1>3 DEF k

\* A caller that is given a result, or enters a call, holds nothing.
LEMMA Idle ==
    ASSUME NEW result \in Results, NEW s
    PROVE  LET c == Answered(result) IN
           /\ c \in CallRecords /\ Holds(c) /\ Carries(c, s)
           /\ ~c.token /\ ~c.slot /\ c.op = "meta"
    BY ResultFacts DEF Answered, NoCall, CallRecords, Ops, PC, Holds, Carries

LEMMA AnswerStep ==
    ASSUME TypeOK, CallLife, NEW r \in Callers, NEW result \in Results, Answer(r, result)
    PROVE  Steps(r) /\ Keeps(r) /\ RoomKept(r) /\ UNCHANGED cache
<1> DEFINE c == Answered(result)
<1>1. c \in CallRecords /\ Holds(c) /\ Carries(c, said') /\ ~c.token /\ ~c.slot /\ c.op = "meta"
    BY Idle
<1>2. /\ call[r].pc = "idle" /\ call' = [call EXCEPT ![r] = c]
      /\ UNCHANGED <<cache, streams, backendSem, cacheSem, said>>
    BY DEF Answer
<1>3. ~call[r].token /\ ~call[r].slot /\ DOMAIN call = Callers /\ call[r].token \in BOOLEAN
      /\ call[r].slot \in BOOLEAN
    BY <1>2, Records DEF Holds
<1> HIDE DEF c
<1>4. c.token = FALSE /\ c.slot = FALSE
    BY <1>1 DEF CallRecords
<1>5. call'[r] = c
    BY <1>2, <1>3
<1> QED
    BY <1>1, <1>2, <1>3, <1>4, <1>5, QuietStep DEF Steps, Keeps, SameToken, SameSlot, RoomKept

LEMMA EnterStep ==
    ASSUME TypeOK, CallLife, NEW r \in Callers,
           NEW op \in Ops, NEW k \in Keys \cup {None}, NEW pc \in {"acquire", "backend"},
           op = "open" => k \in Files /\ streams[r] < MaxStreams, op = "list" => k \in Dirs,
           pc = "backend" => op = "range",
           Enter(r, op, k, pc)
    PROVE  Steps(r) /\ Keeps(r) /\ RoomKept(r) /\ UNCHANGED cache
<1> DEFINE c == [NoCall EXCEPT !.op = op, !.key = k, !.pc = pc]
<1>1. c \in CallRecords /\ Holds(c) /\ Carries(c, said') /\ ~c.token /\ ~c.slot /\ c.op = op
    BY ResultFacts DEF NoCall, CallRecords, Ops, PC, Holds, Carries
<1>2. /\ call[r].pc = "idle" /\ call' = [call EXCEPT ![r] = c]
      /\ UNCHANGED <<cache, streams, backendSem, cacheSem, said>>
    BY DEF Enter
<1>3. ~call[r].token /\ ~call[r].slot /\ DOMAIN call = Callers /\ call[r].token \in BOOLEAN
      /\ call[r].slot \in BOOLEAN
    BY <1>2, Records DEF Holds
<1> HIDE DEF c
<1>4. c.token = FALSE /\ c.slot = FALSE
    BY <1>1 DEF CallRecords
<1>5. call'[r] = c
    BY <1>2, <1>3
<1> QED
    BY <1>1, <1>2, <1>3, <1>4, <1>5, QuietStep DEF Steps, Keeps, SameToken, SameSlot, RoomKept

LEMMA BeginStep ==
    ASSUME TypeOK, CallLife, NEW r \in Callers, Begins(r)
    PROVE  Steps(r) /\ Effects(r) /\ RoomKept(r) /\ UNCHANGED cache
<1>1. ASSUME NEW k \in Keys, NEW op \in {"open", "list"}, Lookup(r, op, k),
             op = "open" => k \in Files /\ streams[r] < MaxStreams, op = "list" => k \in Dirs
      PROVE  Steps(r) /\ Keeps(r) /\ RoomKept(r) /\ UNCHANGED cache
  <2>1. CASE Enter(r, op, k, "acquire")
    BY <1>1, <2>1, EnterStep DEF Ops
  <2>2. CASE cache[k] # None /\ Answer(r, cache[k])
    <3>1. cache[k] \in Results
      BY <2>2 DEF TypeOK
    <3> QED
      BY <2>2, <3>1, AnswerStep
  <2>3. CASE Answer(r, Failed)
    BY <2>3, AnswerStep, ResultFacts
  <2> QED
    BY <1>1, <2>1, <2>2, <2>3 DEF Lookup
<1>2. ASSUME NEW k \in Files, Open(r, k)
      PROVE  Steps(r) /\ Keeps(r) /\ RoomKept(r) /\ UNCHANGED cache
    BY <1>1, <1>2 DEF Open, Keys
<1>3. ASSUME NEW k \in Dirs, List(r, k)
      PROVE  Steps(r) /\ Keeps(r) /\ RoomKept(r) /\ UNCHANGED cache
    BY <1>1, <1>3 DEF List, Keys
<1>4. ASSUME NEW k \in Files, OpenRange(r, k)
      PROVE  Steps(r) /\ Keeps(r) /\ RoomKept(r) /\ UNCHANGED cache
    BY <1>4, EnterStep DEF OpenRange, Ops, Keys
<1>5. CASE Meta(r)
    BY <1>5, EnterStep DEF Meta, Ops, Effects
<1> QED
    BY <1>2, <1>3, <1>4, <1>5 DEF Begins, Effects

LEMMA AcquireStep ==
    ASSUME TypeOK, CallLife, NEW r \in Callers, Acquire(r)
    PROVE  Steps(r) /\ Effects(r) /\ RoomKept(r) /\ UNCHANGED cache
<1> DEFINE c == [call[r] EXCEPT !.pc = "backend", !.token = TRUE]
<1>1. /\ call[r].pc = "acquire" /\ call' = [call EXCEPT ![r] = c]
      /\ backendSem' = backendSem + 1 /\ backendSem < BackendConcurrent
      /\ UNCHANGED <<cache, streams, cacheSem, said>>
    BY DEF Acquire, FreeToken
<1>2. /\ call[r] \in CallRecords /\ ~call[r].token /\ ~call[r].slot /\ DOMAIN call = Callers
      /\ Carries(call[r], said)
    BY <1>1, Records DEF Holds
<1>3. /\ c \in CallRecords /\ c.op = call[r].op /\ c.key = call[r].key /\ c.token
      /\ c.slot = call[r].slot /\ c.pc = "backend"
    BY <1>2 DEF CallRecords, PC
<1> HIDE DEF c
<1>4. Holds(c) /\ Carries(c, said')
    BY <1>2, <1>3 DEF Holds, Carries
<1>5. call'[r] = c
    BY <1>1, <1>2
<1> QED
    BY <1>1, <1>2, <1>3, <1>4, <1>5, QuietStep DEF Steps, Effects, TakesToken, SameSlot, RoomKept

LEMMA GiveUpStep ==
    ASSUME TypeOK, CallLife, NEW r \in Callers, GiveUp(r)
    PROVE  Steps(r) /\ Effects(r) /\ RoomKept(r) /\ UNCHANGED cache
<1> DEFINE c == Answered(Failed)
<1>1. c \in CallRecords /\ Holds(c) /\ Carries(c, said') /\ ~c.token /\ ~c.slot /\ c.op = "meta"
    BY Idle, ResultFacts
<1>2. /\ call[r].pc = "acquire" /\ call' = [call EXCEPT ![r] = c]
      /\ UNCHANGED <<cache, streams, backendSem, cacheSem, said>>
    BY DEF GiveUp
<1>3. ~call[r].token /\ ~call[r].slot /\ DOMAIN call = Callers /\ call[r].token \in BOOLEAN
      /\ call[r].slot \in BOOLEAN
    BY <1>2, Records DEF Holds
<1> HIDE DEF c
<1>4. c.token = FALSE /\ c.slot = FALSE
    BY <1>1 DEF CallRecords
<1>5. call'[r] = c
    BY <1>2, <1>3
<1> QED
    BY <1>1, <1>2, <1>3, <1>4, <1>5, QuietStep DEF Steps, Effects, Keeps, SameToken, SameSlot, RoomKept

LEMMA PassThroughStep ==
    ASSUME TypeOK, CallLife, NEW r \in Callers, PassThrough(r)
    PROVE  Steps(r) /\ Effects(r) /\ RoomKept(r) /\ UNCHANGED cache
<1>1. PICK result \in {Response(TRUE, "file"), NotExist, Failed} :
          call' = [call EXCEPT ![r].pc = "return", ![r].result = result]
    BY DEF PassThrough
<1> DEFINE c == [call[r] EXCEPT !.pc = "return", !.result = result]
<1>2. call' = [call EXCEPT ![r] = c] /\ UNCHANGED <<cache, streams, backendSem, cacheSem, said>>
    BY <1>1 DEF PassThrough
<1>3. call[r] \in CallRecords /\ DOMAIN call = Callers /\ Carries(call[r], said) /\ result \in Results
    BY Records, ResultFacts DEF Contents
<1>4. /\ c \in CallRecords /\ c.op = call[r].op /\ c.key = call[r].key /\ c.pc = "return"
      /\ c.token = call[r].token /\ c.slot = call[r].slot
    BY <1>3 DEF CallRecords, PC
<1> HIDE DEF c
<1>5. Holds(c) /\ Carries(c, said') /\ call'[r] = c
    BY <1>2, <1>3, <1>4 DEF Holds, Carries
<1> QED
    BY <1>2, <1>4, <1>5, QuietStep DEF Steps, Effects, Keeps, SameToken, SameSlot, RoomKept

LEMMA BackendFailsStep ==
    ASSUME TypeOK, CallLife, NEW r \in Callers, BackendFails(r)
    PROVE  Steps(r) /\ Effects(r) /\ RoomKept(r) /\ UNCHANGED cache
<1> DEFINE c == [call[r] EXCEPT !.pc = "return", !.result = Failed]
<1>2. call' = [call EXCEPT ![r] = c] /\ UNCHANGED <<cache, streams, backendSem, cacheSem, said>>
    BY DEF BackendFails
<1>3. call[r] \in CallRecords /\ DOMAIN call = Callers /\ Carries(call[r], said)
    BY Records
<1>4. /\ c \in CallRecords /\ c.op = call[r].op /\ c.key = call[r].key /\ c.pc = "return"
      /\ c.token = call[r].token /\ c.slot = call[r].slot
    BY <1>3, ResultFacts DEF CallRecords, PC
<1> HIDE DEF c
<1>5. Holds(c) /\ Carries(c, said') /\ call'[r] = c
    BY <1>2, <1>3, <1>4 DEF Holds, Carries
<1> QED
    BY <1>2, <1>4, <1>5, QuietStep DEF Steps, Effects, Keeps, SameToken, SameSlot, RoomKept

\* What is going to be stored as absent has been said to be.
LEMMA BackendSaysAbsentStep ==
    ASSUME TypeOK, CallLife, NEW r \in Callers, BackendSaysAbsent(r)
    PROVE  Steps(r) /\ Effects(r) /\ RoomKept(r) /\ UNCHANGED cache
<1>1. /\ call[r].pc = "backend" /\ call[r].op \in {"open", "list"} /\ Says(r, NotExist)
      /\ UNCHANGED <<cache, streams, cacheSem>>
    BY DEF BackendSaysAbsent
<1>2. /\ call[r] \in CallRecords /\ DOMAIN call = Callers /\ Carries(call[r], said)
      /\ call[r].token = TRUE /\ call[r].slot = FALSE
    BY <1>1, Records DEF Holds
<1>3. call[r].key \in Keys
    BY <1>1, <1>2 DEF Carries, Keys
<1>6. Heard /\ NotExist \in said'[call[r].key]
    BY <1>1, <1>3, HeardStep, ResultFacts
<1>4. CASE call' = [call EXCEPT ![r].pc = "put", ![r].result = NotExist] /\ UNCHANGED backendSem
  <2> DEFINE c == [call[r] EXCEPT !.pc = "put", !.result = NotExist]
  <2>1. /\ c \in CallRecords /\ c.op = call[r].op /\ c.key = call[r].key /\ c.pc = "put"
        /\ c.token = call[r].token /\ c.slot = call[r].slot /\ c.result = NotExist
    BY <1>2, ResultFacts DEF CallRecords, PC
  <2>2. call' = [call EXCEPT ![r] = c]
    BY <1>4
  <2> HIDE DEF c
  <2>3. Holds(c) /\ Carries(c, said') /\ call'[r] = c
    BY <1>2, <1>3, <1>6, <2>1, <2>2 DEF Holds, Carries
  <2> QED
    BY <1>1, <1>4, <1>6, <2>1, <2>2, <2>3 DEF Steps, Effects, Keeps, SameToken, SameSlot, RoomKept
<1>5. CASE /\ call' = [call EXCEPT ![r].pc = "put", ![r].result = NotExist, ![r].token = FALSE]
           /\ backendSem' = backendSem - 1
  <2> DEFINE c == [call[r] EXCEPT !.pc = "put", !.result = NotExist, !.token = FALSE]
  <2>1. /\ c \in CallRecords /\ c.op = call[r].op /\ c.key = call[r].key /\ c.pc = "put"
        /\ c.token = FALSE /\ c.slot = call[r].slot /\ c.result = NotExist
    BY <1>2, ResultFacts DEF CallRecords, PC
  <2>2. call' = [call EXCEPT ![r] = c]
    BY <1>5
  <2> HIDE DEF c
  <2>3. Holds(c) /\ Carries(c, said') /\ call'[r] = c
    BY <1>2, <1>3, <1>6, <2>1, <2>2 DEF Holds, Carries
  <2> QED
    BY <1>1, <1>2, <1>5, <1>6, <2>1, <2>2, <2>3 DEF Steps, Effects, GivesToken, SameSlot, RoomKept
<1> QED
    BY <1>4, <1>5 DEF BackendSaysAbsent

LEMMA StreamStep ==
    ASSUME TypeOK, CallLife, NEW r \in Callers, NEW answer \in Results,
           call[r].pc = "backend", call[r].op = "open", Says(r, answer), Stream(r, answer)
    PROVE  Steps(r) /\ Effects(r) /\ RoomKept(r) /\ UNCHANGED cache
<1> DEFINE c == Answered(answer)
<1>1. c \in CallRecords /\ Holds(c) /\ Carries(c, said') /\ ~c.token /\ ~c.slot /\ c.op = "meta"
    BY Idle, ResultFacts
<1>2. /\ call' = [call EXCEPT ![r] = c] /\ streams' = [streams EXCEPT ![r] = @ + 1]
      /\ UNCHANGED <<cache, backendSem, cacheSem>>
    BY DEF Stream
<1>3. /\ call[r].token = TRUE /\ call[r].slot = FALSE /\ DOMAIN call = Callers
      /\ streams[r] < MaxStreams
    BY Records DEF Holds, HasRoom
<1>6. Heard
    BY Records, HeardStep DEF Carries, Keys
<1> HIDE DEF c
<1>4. c.token = FALSE /\ c.slot = FALSE
    BY <1>1 DEF CallRecords
<1>5. call'[r] = c
    BY <1>2, <1>3
<1> QED
    BY <1>1, <1>2, <1>3, <1>4, <1>5, <1>6 DEF Steps, Effects, GivesBody, SameSlot, RoomKept

LEMMA SlotStep ==
    ASSUME TypeOK, CallLife, NEW r \in Callers, NEW answer \in Results, NEW pc \in {"read", "put"},
           call[r].pc = "backend", call[r].op \in {"open", "list"}, Says(r, answer),
           TakeSlot(r, answer, pc)
    PROVE  Steps(r) /\ Effects(r) /\ RoomKept(r) /\ UNCHANGED cache
<1> DEFINE c == [call[r] EXCEPT !.pc = pc, !.slot = TRUE, !.result = answer]
<1>1. /\ call' = [call EXCEPT ![r] = c] /\ cacheSem' = cacheSem + 1 /\ cacheSem < CacheConcurrent
      /\ UNCHANGED <<cache, streams, backendSem>>
    BY DEF TakeSlot
<1>2. /\ call[r] \in CallRecords /\ DOMAIN call = Callers /\ Carries(call[r], said)
      /\ call[r].token = TRUE /\ call[r].slot = FALSE
    BY Records DEF Holds
<1>3. /\ c \in CallRecords /\ c.op = call[r].op /\ c.key = call[r].key /\ c.pc = pc
      /\ c.token = call[r].token /\ c.slot = TRUE /\ c.result = answer
    BY <1>2 DEF CallRecords, PC
<1>5. call[r].key \in Keys
    BY <1>2 DEF Carries, Keys
<1>6. Heard /\ answer \in said'[call[r].key]
    BY <1>5, HeardStep
<1> HIDE DEF c
<1>4. Holds(c) /\ Carries(c, said') /\ call'[r] = c
    BY <1>1, <1>2, <1>3, <1>5, <1>6 DEF Holds, Carries
<1> QED
    BY <1>1, <1>2, <1>3, <1>4, <1>6 DEF Steps, Effects, TakesSlot, SameToken, RoomKept

LEMMA ListsStep ==
    ASSUME TypeOK, CallLife, NEW r \in Callers, BackendLists(r)
    PROVE  Steps(r) /\ Effects(r) /\ RoomKept(r) /\ UNCHANGED cache
<1>1. CASE TakeSlot(r, Listing, "put")
    BY <1>1, SlotStep, ResultFacts DEF BackendLists
<1>2. CASE /\ call' = [call EXCEPT ![r].pc = "return", ![r].result = Listing]
           /\ UNCHANGED <<cache, streams, backendSem, cacheSem>>
  <2> DEFINE c == [call[r] EXCEPT !.pc = "return", !.result = Listing]
  <2>1. call' = [call EXCEPT ![r] = c]
    BY <1>2
  <2>2. call[r] \in CallRecords /\ DOMAIN call = Callers /\ Carries(call[r], said)
    BY Records
  <2>3. /\ c \in CallRecords /\ c.op = call[r].op /\ c.key = call[r].key /\ c.pc = "return"
        /\ c.token = call[r].token /\ c.slot = call[r].slot
    BY <2>2, ResultFacts DEF CallRecords, PC
  <2>5. Heard
    BY <2>2, HeardStep, ResultFacts DEF BackendLists, Carries, Keys
  <2> HIDE DEF c
  <2>4. Holds(c) /\ Carries(c, said') /\ call'[r] = c
    BY <2>1, <2>2, <2>3 DEF Holds, Carries
  <2> QED
    BY <1>2, <2>1, <2>3, <2>4, <2>5 DEF Steps, Effects, Keeps, SameToken, SameSlot, RoomKept
<1> QED
    BY <1>1, <1>2 DEF BackendLists

LEMMA BackendStep ==
    ASSUME TypeOK, CallLife, NEW r \in Callers, Backend(r)
    PROVE  Steps(r) /\ Effects(r) /\ RoomKept(r) /\ UNCHANGED cache
<1>1. ASSUME BackendResponds(r)
      PROVE  Steps(r) /\ Effects(r) /\ RoomKept(r) /\ UNCHANGED cache
  <2>1. PICK ok \in BOOLEAN, body \in {"file", "error"} :
            /\ Says(r, Response(ok, body))
            /\ Stream(r, Response(ok, body)) \/ TakeSlot(r, Response(ok, body), "read")
    BY <1>1 DEF BackendResponds
  <2>2. Response(ok, body) \in Results
    BY ResultFacts DEF Contents
  <2> QED
    BY <1>1, <2>1, <2>2, StreamStep, SlotStep DEF BackendResponds
<1> QED
    BY <1>1, PassThroughStep, BackendFailsStep, BackendSaysAbsentStep, ListsStep DEF Backend

LEMMA ReadStep ==
    ASSUME TypeOK, CallLife, NEW r \in Callers, ReadBody(r)
    PROVE  Steps(r) /\ Effects(r) /\ RoomKept(r) /\ UNCHANGED cache
<1>1. /\ call[r] \in CallRecords /\ DOMAIN call = Callers /\ Carries(call[r], said)
      /\ call[r].pc = "read"
    BY Records DEF ReadBody
<1>2. CASE call' = [call EXCEPT ![r].pc = "put"]
  <2> DEFINE c == [call[r] EXCEPT !.pc = "put"]
  <2>1. call' = [call EXCEPT ![r] = c]
    BY <1>2
  <2>2. /\ c \in CallRecords /\ c.op = call[r].op /\ c.key = call[r].key /\ c.pc = "put"
        /\ c.token = call[r].token /\ c.slot = call[r].slot /\ c.result = call[r].result
    BY <1>1 DEF CallRecords, PC
  <2> HIDE DEF c
  <2>4. UNCHANGED said
    BY DEF ReadBody
  <2>3. Holds(c) /\ Carries(c, said') /\ call'[r] = c
    BY <1>1, <2>1, <2>2, <2>4 DEF Holds, Carries
  <2> QED
    BY <2>1, <2>2, <2>3, QuietStep DEF ReadBody, Steps, Effects, Keeps, SameToken, SameSlot, RoomKept
<1>3. CASE call' = [call EXCEPT ![r].pc = "return", ![r].result = Failed]
  <2> DEFINE c == [call[r] EXCEPT !.pc = "return", !.result = Failed]
  <2>1. call' = [call EXCEPT ![r] = c]
    BY <1>3
  <2>2. /\ c \in CallRecords /\ c.op = call[r].op /\ c.key = call[r].key /\ c.pc = "return"
        /\ c.token = call[r].token /\ c.slot = call[r].slot
    BY <1>1, ResultFacts DEF CallRecords, PC
  <2> HIDE DEF c
  <2>4. UNCHANGED said
    BY DEF ReadBody
  <2>3. Holds(c) /\ Carries(c, said') /\ call'[r] = c
    BY <1>1, <2>1, <2>2, <2>4 DEF Holds, Carries
  <2> QED
    BY <2>1, <2>2, <2>3, QuietStep DEF ReadBody, Steps, Effects, Keeps, SameToken, SameSlot, RoomKept
<1> QED
    BY <1>2, <1>3 DEF ReadBody, AfterReadError

LEMMA PutStep ==
    ASSUME TypeOK, CallLife, NEW r \in Callers, Put(r)
    PROVE  Steps(r) /\ Effects(r) /\ RoomKept(r)
<1> DEFINE c == [call[r] EXCEPT !.pc = "return"]
<1>1. call' = [call EXCEPT ![r] = c] /\ UNCHANGED <<streams, backendSem, cacheSem, said>>
    BY DEF Put
<1>2. call[r] \in CallRecords /\ DOMAIN call = Callers /\ Carries(call[r], said)
    BY Records
<1>3. /\ c \in CallRecords /\ c.op = call[r].op /\ c.key = call[r].key /\ c.pc = "return"
      /\ c.token = call[r].token /\ c.slot = call[r].slot
    BY <1>2 DEF CallRecords, PC
<1> HIDE DEF c
<1>4. Holds(c) /\ Carries(c, said') /\ call'[r] = c
    BY <1>1, <1>2, <1>3 DEF Holds, Carries
<1> QED
    BY <1>1, <1>3, <1>4, QuietStep DEF Steps, Effects, Keeps, SameToken, SameSlot, RoomKept

LEMMA ReleaseTokenStep ==
    ASSUME TypeOK, CallLife, NEW r \in Callers, ReleaseToken(r)
    PROVE  Steps(r) /\ Effects(r) /\ RoomKept(r) /\ UNCHANGED cache
<1> DEFINE c == [call[r] EXCEPT !.token = FALSE]
<1>1. /\ call[r].pc = "return" /\ call[r].token
      /\ call' = [call EXCEPT ![r] = c] /\ backendSem' = backendSem - 1
      /\ UNCHANGED <<cache, streams, cacheSem, said>>
    BY DEF ReleaseToken, TokenBack
<1>2. call[r] \in CallRecords /\ DOMAIN call = Callers /\ Carries(call[r], said)
    BY Records
<1>3. /\ c \in CallRecords /\ c.op = call[r].op /\ c.key = call[r].key /\ c.pc = call[r].pc
      /\ ~c.token /\ c.slot = call[r].slot
    BY <1>2 DEF CallRecords
<1> HIDE DEF c
<1>4. Holds(c) /\ Carries(c, said') /\ call'[r] = c
    BY <1>1, <1>2, <1>3 DEF Holds, Carries
<1> QED
    BY <1>1, <1>3, <1>4, QuietStep DEF Steps, Effects, GivesToken, SameSlot, RoomKept

LEMMA ReleaseSlotStep ==
    ASSUME TypeOK, CallLife, NEW r \in Callers, ReleaseSlot(r)
    PROVE  Steps(r) /\ Effects(r) /\ RoomKept(r) /\ UNCHANGED cache
<1> DEFINE c == [call[r] EXCEPT !.slot = FALSE]
<1>1. /\ call[r].pc = "return" /\ call[r].slot
      /\ call' = [call EXCEPT ![r] = c] /\ cacheSem' = cacheSem - 1
      /\ UNCHANGED <<cache, streams, backendSem, said>>
    BY DEF ReleaseSlot, SlotBack
<1>2. call[r] \in CallRecords /\ DOMAIN call = Callers /\ Carries(call[r], said)
    BY Records
<1>3. /\ c \in CallRecords /\ c.op = call[r].op /\ c.key = call[r].key /\ c.pc = call[r].pc
      /\ ~c.slot /\ c.token = call[r].token
    BY <1>2 DEF CallRecords
<1> HIDE DEF c
<1>4. Holds(c) /\ Carries(c, said') /\ call'[r] = c
    BY <1>1, <1>2, <1>3 DEF Holds, Carries
<1> QED
    BY <1>1, <1>3, <1>4, QuietStep DEF Steps, Effects, GivesSlot, SameToken, RoomKept

LEMMA ReturnStep ==
    ASSUME TypeOK, CallLife, NEW r \in Callers, Return(r)
    PROVE  Steps(r) /\ Effects(r) /\ RoomKept(r) /\ UNCHANGED cache
<1> DEFINE c == Answered(call[r].result)
<1>1. /\ call[r].token = FALSE /\ call[r].slot = FALSE /\ DOMAIN call = Callers
      /\ call[r].result \in Results
    BY Records DEF Return
<1>2. c \in CallRecords /\ Holds(c) /\ Carries(c, said') /\ ~c.token /\ ~c.slot /\ c.op = "meta"
    BY <1>1, Idle
<1>3. call' = [call EXCEPT ![r] = c] /\ UNCHANGED <<cache, streams, backendSem, cacheSem, said>>
    BY DEF Return
<1> HIDE DEF c
<1>4. c.token = FALSE /\ c.slot = FALSE
    BY <1>2 DEF CallRecords
<1>5. call'[r] = c
    BY <1>1, <1>3
<1> QED
    BY <1>1, <1>2, <1>3, <1>4, <1>5, QuietStep DEF Steps, Effects, Keeps, SameToken, SameSlot, RoomKept

\* Every step is one of a call, the closing of a body, or an expiry.
LEMMA NextCases ==
    ASSUME TypeOK, CallLife, [Next]_vars
    PROVE  \/ UNCHANGED vars
           \/ \E r \in Callers : Steps(r) /\ Effects(r) /\ RoomKept(r)
                                 /\ (UNCHANGED cache \/ Put(r))
           \/ \E r \in Callers : CloseStream(r)
           \/ \E k \in Keys : Expire(k)
<1>1. ASSUME NEW r \in Callers, Begins(r) \/ Acquire(r) \/ GiveUp(r) \/ Continues(r)
      PROVE  Steps(r) /\ Effects(r) /\ RoomKept(r) /\ (UNCHANGED cache \/ Put(r))
  <2>1. CASE Begins(r) \/ Acquire(r) \/ GiveUp(r)
    BY <2>1, BeginStep, AcquireStep, GiveUpStep
  <2>2. CASE Continues(r)
    BY <2>2, BackendStep, ReadStep, PutStep, ReleaseTokenStep, ReleaseSlotStep, ReturnStep
       DEF Continues
  <2> QED
    BY <1>1, <2>1, <2>2
<1> QED
    BY <1>1 DEF Next
-----------------------------------------------------------------------------
(* The conjuncts of the invariant *)

LEMMA CallsStep ==
    ASSUME TypeOK, CallLife, NEW r \in Callers, Steps(r), Effects(r), RoomKept(r)
    PROVE  call' \in [Callers -> CallRecords] /\ CallLife'
<1>1. /\ call \in [Callers -> CallRecords] /\ streams \in [Callers -> 0 .. MaxStreams]
      /\ DOMAIN call = Callers
    BY DEF TypeOK
<1>2. /\ call' \in [Callers -> CallRecords]
      /\ \A q \in Callers \ {r} : call'[q] = call[q]
    BY <1>1 DEF Steps
<1>3. /\ \A q \in Callers \ {r} : streams'[q] = streams[q]
      /\ \/ streams'[r] = streams[r]
         \/ call'[r].op # "open"
    BY <1>1 DEF Effects, Keeps, TakesToken, GivesToken, TakesSlot, GivesSlot, GivesBody
<1>4. ASSUME NEW q \in Callers PROVE (Holds(call[q]) /\ Carries(call[q], said))'
  <2>1. CASE q = r
    BY <2>1 DEF Steps
  <2>2. CASE q # r
    BY <1>2, <2>2 DEF CallLife, Steps, Heard, Holds, Carries
  <2> QED
    BY <2>1, <2>2
<1>5. ASSUME NEW q \in Callers PROVE HasRoom(q)'
  <2>1. CASE q # r
    BY <1>2, <1>3, <1>5, <2>1 DEF CallLife, HasRoom
  <2>2. CASE q = r
    <3>1. CASE streams'[r] = streams[r]
      BY <1>1, <2>2, <3>1 DEF RoomKept, HasRoom, CallLife
    <3>2. CASE call'[r].op # "open"
      BY <2>2, <3>2 DEF HasRoom
    <3> QED
      BY <1>3, <3>1, <3>2
  <2> QED
    BY <2>1, <2>2
<1> QED
    BY <1>2, <1>4, <1>5 DEF CallLife

LEMMA HoldersStep ==
    ASSUME TypeOK, NEW r \in Callers, Steps(r)
    PROVE  /\ call'[r].token = call[r].token => HoldToken' = HoldToken
           /\ call'[r].slot = call[r].slot => HoldSlot' = HoldSlot
           /\ call'[r].token => HoldToken' = HoldToken \cup {r}
           /\ ~call'[r].token => HoldToken' = HoldToken \ {r}
           /\ call'[r].slot => HoldSlot' = HoldSlot \cup {r}
           /\ ~call'[r].slot => HoldSlot' = HoldSlot \ {r}
           /\ r \in HoldToken <=> call[r].token
           /\ r \in HoldSlot <=> call[r].slot
<1>1. \A q \in Callers \ {r} : call'[q] = call[q]
    BY DEF Steps, TypeOK
<1>2. /\ call'[r].token = call[r].token => HoldToken' = HoldToken
      /\ call'[r].slot = call[r].slot => HoldSlot' = HoldSlot
    BY <1>1 DEF HoldToken, HoldSlot
<1>3. /\ call'[r].token => HoldToken' = HoldToken \cup {r}
      /\ ~call'[r].token => HoldToken' = HoldToken \ {r}
    BY <1>1 DEF HoldToken
<1>4. /\ call'[r].slot => HoldSlot' = HoldSlot \cup {r}
      /\ ~call'[r].slot => HoldSlot' = HoldSlot \ {r}
    BY <1>1 DEF HoldSlot
<1> QED
    BY <1>2, <1>3, <1>4 DEF HoldToken, HoldSlot

\* A body that is handed out or closed is the last one of its caller.
LEMMA BodiesStep ==
    ASSUME TypeOK, NEW r \in Callers
    PROVE  /\ streams[r] < MaxStreams /\ streams' = [streams EXCEPT ![r] = @ + 1] =>
                 /\ Bodies' = Bodies \cup {<<r, streams[r] + 1>>}
                 /\ <<r, streams[r] + 1>> \notin Bodies
           /\ streams[r] > 0 /\ streams' = [streams EXCEPT ![r] = @ - 1] =>
                 /\ Bodies' = Bodies \ {<<r, streams[r]>>}
                 /\ <<r, streams[r]>> \in Bodies
<1>1. streams \in [Callers -> 0 .. MaxStreams] /\ streams[r] \in Int /\ MaxStreams \in Nat
    BY CacheAssumption DEF TypeOK
<1>2. ASSUME streams[r] < MaxStreams, streams' = [streams EXCEPT ![r] = @ + 1]
      PROVE  /\ Bodies' = Bodies \cup {<<r, streams[r] + 1>>}
             /\ <<r, streams[r] + 1>> \notin Bodies
  <2>1. ASSUME NEW q \in Callers, NEW i \in 1 .. MaxStreams
        PROVE  i <= streams'[q] <=> i <= streams[q] \/ (q = r /\ i = streams[r] + 1)
    BY <1>1, <1>2, <2>1
  <2>2. streams[r] + 1 \in 1 .. MaxStreams /\ ~(streams[r] + 1 <= streams[r])
    BY <1>1, <1>2
  <2> QED
    BY <2>1, <2>2 DEF Bodies
<1>3. ASSUME streams[r] > 0, streams' = [streams EXCEPT ![r] = @ - 1]
      PROVE  /\ Bodies' = Bodies \ {<<r, streams[r]>>}
             /\ <<r, streams[r]>> \in Bodies
  <2>1. ASSUME NEW q \in Callers, NEW i \in 1 .. MaxStreams
        PROVE  i <= streams'[q] <=> i <= streams[q] /\ ~(q = r /\ i = streams[r])
    BY <1>1, <1>3, <2>1
  <2>2. streams[r] \in 1 .. MaxStreams
    BY <1>1, <1>3
  <2> QED
    BY <2>1, <2>2 DEF Bodies
<1> QED
    BY <1>2, <1>3

\* The accounts, and the types of the semaphores that follow from them.
Semaphores == backendSem \in 0 .. BackendConcurrent /\ cacheSem \in 0 .. CacheConcurrent

LEMMA AccountsBound ==
    ASSUME IsFiniteSet(HoldToken), IsFiniteSet(HoldSlot), IsFiniteSet(Bodies)
    PROVE  Cardinality(HoldToken) \in Nat /\ Cardinality(HoldSlot) \in Nat /\ Cardinality(Bodies) \in Nat
    BY FS_CardinalityType

LEMMA TokenCount ==
    ASSUME TypeOK, NEW r \in Callers, Steps(r), IsFiniteSet(HoldToken)
    PROVE  /\ IsFiniteSet(HoldToken')
           /\ call'[r].token = call[r].token => Cardinality(HoldToken') = Cardinality(HoldToken)
           /\ ~call[r].token /\ call'[r].token =>
                 Cardinality(HoldToken') = Cardinality(HoldToken) + 1
           /\ call[r].token /\ ~call'[r].token =>
                 Cardinality(HoldToken') = Cardinality(HoldToken) - 1
<1>1. CASE call'[r].token /\ ~call[r].token
  <2>1. HoldToken' = HoldToken \cup {r} /\ r \notin HoldToken
    BY <1>1, HoldersStep
  <2> QED
    BY <1>1, <2>1, FS_AddElement
<1>2. CASE ~call'[r].token /\ call[r].token
  <2>1. HoldToken' = HoldToken \ {r} /\ r \in HoldToken
    BY <1>2, HoldersStep
  <2> QED
    BY <1>2, <2>1, FS_RemoveElement
<1>3. CASE call'[r].token = call[r].token
    BY <1>3, HoldersStep
<1>4. call[r].token \in BOOLEAN /\ call'[r].token \in BOOLEAN
    BY DEF TypeOK, Steps, CallRecords
<1> QED
    BY <1>1, <1>2, <1>3, <1>4

LEMMA SlotCount ==
    ASSUME TypeOK, NEW r \in Callers, Steps(r), IsFiniteSet(HoldSlot)
    PROVE  /\ IsFiniteSet(HoldSlot')
           /\ call'[r].slot = call[r].slot => Cardinality(HoldSlot') = Cardinality(HoldSlot)
           /\ ~call[r].slot /\ call'[r].slot =>
                 Cardinality(HoldSlot') = Cardinality(HoldSlot) + 1
           /\ call[r].slot /\ ~call'[r].slot =>
                 Cardinality(HoldSlot') = Cardinality(HoldSlot) - 1
<1>1. CASE call'[r].slot /\ ~call[r].slot
  <2>1. HoldSlot' = HoldSlot \cup {r} /\ r \notin HoldSlot
    BY <1>1, HoldersStep
  <2> QED
    BY <1>1, <2>1, FS_AddElement
<1>2. CASE ~call'[r].slot /\ call[r].slot
  <2>1. HoldSlot' = HoldSlot \ {r} /\ r \in HoldSlot
    BY <1>2, HoldersStep
  <2> QED
    BY <1>2, <2>1, FS_RemoveElement
<1>3. CASE call'[r].slot = call[r].slot
    BY <1>3, HoldersStep
<1>4. call[r].slot \in BOOLEAN /\ call'[r].slot \in BOOLEAN
    BY DEF TypeOK, Steps, CallRecords
<1> QED
    BY <1>1, <1>2, <1>3, <1>4

LEMMA AccountsStep ==
    ASSUME TypeOK, Accounts, NEW r \in Callers, Steps(r), Effects(r)
    PROVE  Accounts' /\ Semaphores' /\ streams' \in [Callers -> 0 .. MaxStreams]
<1> DEFINE t == Cardinality(HoldToken)
           s == Cardinality(HoldSlot)
           b == Cardinality(Bodies)
           t1 == Cardinality(HoldToken')
           s1 == Cardinality(HoldSlot')
           b1 == Cardinality(Bodies')
<1>1. /\ IsFiniteSet(HoldToken) /\ IsFiniteSet(HoldSlot) /\ IsFiniteSet(Bodies)
      /\ backendSem = t + b /\ cacheSem = s
    BY DEF Accounts, SlotsAccounted
<1>2. t \in Nat /\ s \in Nat /\ b \in Nat
    BY <1>1, AccountsBound
<1>3. /\ IsFiniteSet(HoldToken') /\ IsFiniteSet(HoldSlot')
      /\ call'[r].token = call[r].token => t1 = t
      /\ ~call[r].token /\ call'[r].token => t1 = t + 1
      /\ call[r].token /\ ~call'[r].token => t1 = t - 1
      /\ call'[r].slot = call[r].slot => s1 = s
      /\ ~call[r].slot /\ call'[r].slot => s1 = s + 1
      /\ call[r].slot /\ ~call'[r].slot => s1 = s - 1
    BY <1>1, TokenCount, SlotCount
<1>4. UNCHANGED streams => Bodies' = Bodies /\ b1 = b
    BY DEF Bodies
<1>5. CASE GivesBody(r)
  <2>1. Bodies' = Bodies \cup {<<r, streams[r] + 1>>} /\ <<r, streams[r] + 1>> \notin Bodies
    BY <1>5, BodiesStep DEF GivesBody
  <2>2. IsFiniteSet(Bodies') /\ b1 = b + 1
    BY <1>1, <2>1, FS_AddElement
  <2>3. streams' \in [Callers -> 0 .. MaxStreams]
    <3>1. streams \in [Callers -> 0 .. MaxStreams] /\ MaxStreams \in Nat
      BY CacheAssumption DEF TypeOK
    <3>2. streams[r] + 1 \in 0 .. MaxStreams
      BY <1>5, <3>1 DEF GivesBody
    <3> QED
      BY <1>5, <3>1, <3>2 DEF GivesBody
  <2>4. t1 = t - 1 /\ backendSem' = backendSem /\ (s1 = s /\ cacheSem' = cacheSem)
    BY <1>3, <1>5 DEF GivesBody, SameSlot
  <2>5. backendSem' = t1 + b1 /\ cacheSem' = s1 /\ Semaphores'
    <3> HIDE DEF t, s, b, t1, s1, b1
    <3> QED
      BY <1>1, <1>2, <2>2, <2>4 DEF TypeOK, Semaphores
  <2> QED
    BY <1>3, <2>2, <2>3, <2>5 DEF Accounts, SlotsAccounted
<1>6. CASE ~GivesBody(r)
  <2>1. UNCHANGED streams
    BY <1>6 DEF Effects, Keeps, TakesToken, GivesToken, TakesSlot, GivesSlot
  <2>2. \/ t1 = t /\ backendSem' = backendSem
        \/ t1 = t + 1 /\ backendSem' = backendSem + 1 /\ backendSem < BackendConcurrent
        \/ t1 = t - 1 /\ backendSem' = backendSem - 1
    <3> HIDE DEF t, t1
    <3> QED
      BY <1>3, <1>6 DEF Effects, Keeps, TakesToken, GivesToken, TakesSlot, GivesSlot, SameToken
  <2>3. \/ s1 = s /\ cacheSem' = cacheSem
        \/ s1 = s + 1 /\ cacheSem' = cacheSem + 1 /\ cacheSem < CacheConcurrent
        \/ s1 = s - 1 /\ cacheSem' = cacheSem - 1
    <3> HIDE DEF s, s1
    <3> QED
      BY <1>3, <1>6 DEF Effects, Keeps, TakesToken, GivesToken, TakesSlot, GivesSlot, SameSlot
  <2>4. t1 \in Nat /\ s1 \in Nat
    BY <1>3, FS_CardinalityType
  <2>5. IsFiniteSet(Bodies') /\ b1 = b
    BY <1>1, <1>4, <2>1
  <2>6. backendSem' = t1 + b1 /\ cacheSem' = s1 /\ Semaphores'
    <3> HIDE DEF t, s, b, t1, s1, b1
    <3> QED
      BY <1>1, <1>2, <2>2, <2>3, <2>4, <2>5, CacheAssumption DEF TypeOK, Semaphores
  <2> QED
    BY <1>3, <2>1, <2>5, <2>6 DEF Accounts, SlotsAccounted, TypeOK
<1> QED
    BY <1>5, <1>6

LEMMA CloseStep ==
    ASSUME IInv, NEW r \in Callers, CloseStream(r)
    PROVE  IInv'
<1>1. /\ call[r].pc = "idle" /\ streams[r] > 0
      /\ streams' = [streams EXCEPT ![r] = @ - 1] /\ backendSem' = backendSem - 1
      /\ UNCHANGED <<cache, call, cacheSem, said>>
    BY DEF CloseStream, TokenBack
<1>2. TypeOK /\ CallLife /\ Accounts /\ RememberedWasSaid
    BY DEF IInv
<1>3. streams \in [Callers -> 0 .. MaxStreams] /\ MaxStreams \in Nat /\ streams[r] \in Int
    BY <1>2, CacheAssumption DEF TypeOK
<1>4. streams[r] - 1 \in 0 .. MaxStreams
    BY <1>1, <1>3
<1>5. /\ streams' \in [Callers -> 0 .. MaxStreams]
      /\ \A q \in Callers : streams'[q] <= streams[q]
    BY <1>1, <1>3, <1>4
<1>6. CallLife'
  <2>1. ASSUME NEW q \in Callers PROVE HasRoom(q)'
    <3>1. streams[q] \in Int /\ streams'[q] \in Int /\ streams'[q] <= streams[q]
      BY <1>3, <1>5
    <3> QED
      BY <1>1, <1>2, <1>3, <3>1 DEF CallLife, HasRoom
  <2>2. ASSUME NEW q \in Callers PROVE (Holds(call[q]) /\ Carries(call[q], said))'
    BY <1>1, <1>2 DEF CallLife, Holds, Carries
  <2> QED
    BY <2>1, <2>2 DEF CallLife
<1>7. Bodies' = Bodies \ {<<r, streams[r]>>} /\ <<r, streams[r]>> \in Bodies
    BY <1>1, <1>2, BodiesStep
<1>8. /\ IsFiniteSet(HoldToken) /\ IsFiniteSet(HoldSlot) /\ IsFiniteSet(Bodies)
      /\ backendSem = Cardinality(HoldToken) + Cardinality(Bodies)
      /\ cacheSem = Cardinality(HoldSlot)
    BY <1>2 DEF Accounts, SlotsAccounted
<1>9. IsFiniteSet(Bodies') /\ Cardinality(Bodies') = Cardinality(Bodies) - 1
    BY <1>7, <1>8, FS_RemoveElement
<1>10. HoldToken' = HoldToken /\ HoldSlot' = HoldSlot
    BY <1>1 DEF HoldToken, HoldSlot
<1>11. Cardinality(Bodies') \in Nat /\ Cardinality(HoldToken) \in Nat
    BY <1>8, <1>9, FS_CardinalityType
<1>12. /\ backendSem' = Cardinality(HoldToken) + Cardinality(Bodies')
       /\ backendSem' \in 0 .. BackendConcurrent
  <2> DEFINE t == Cardinality(HoldToken)
             b == Cardinality(Bodies)
             b1 == Cardinality(Bodies')
  <2>1. /\ backendSem = t + b /\ b1 = b - 1 /\ b1 \in Nat /\ t \in Nat
        /\ Cardinality(Bodies) \in Nat
    BY <1>8, <1>9, <1>11, FS_CardinalityType
  <2>2. backendSem \in 0 .. BackendConcurrent
    BY <1>2 DEF TypeOK
  <2>3. b \in Nat
    BY <2>1
  <2> HIDE DEF t, b, b1
  <2>4. backendSem' = t + b1 /\ backendSem' \in 0 .. BackendConcurrent
    BY <1>1, <2>1, <2>2, <2>3, CacheAssumption
  <2> QED
    BY <2>4 DEF t, b1
<1> QED
    BY <1>1, <1>2, <1>5, <1>6, <1>8, <1>9, <1>10, <1>12
       DEF IInv, TypeOK, Accounts, SlotsAccounted, RememberedWasSaid

\* The cache changes only when a call stores what has been said to it.
LEMMA CacheStep ==
    ASSUME IInv, NEW r \in Callers, Heard, UNCHANGED cache \/ Put(r)
    PROVE  cache' \in [Keys -> Results \cup {None}] /\ RememberedWasSaid'
<1>1. TypeOK /\ CallLife /\ RememberedWasSaid
    BY DEF IInv
<1>2. cache \in [Keys -> Results \cup {None}]
    BY <1>1 DEF TypeOK
<1>3. CASE UNCHANGED cache
    BY <1>1, <1>2, <1>3 DEF RememberedWasSaid, Heard
<1>4. CASE call[r].pc = "put" /\ cache' = [cache EXCEPT ![call[r].key] = Replayed(call[r].result)]
  <2>1. call[r].key \in Keys /\ call[r].result \in said[call[r].key] /\ call[r].result \in Results
    BY <1>1, <1>4, Records DEF Carries
  <2>2. Replayed(call[r].result) \in Results
    BY <2>1, ResultFacts
  <2>3. /\ cache'[call[r].key] = Replayed(call[r].result)
        /\ \A k \in Keys : k # call[r].key => cache'[k] = cache[k]
        /\ cache' \in [Keys -> Results \cup {None}]
    BY <1>2, <1>4, <2>1, <2>2
  <2>4. ASSUME NEW k \in Keys, cache'[k] # None
        PROVE  \E answer \in said'[k] : cache'[k] = Replayed(answer)
    <3>1. CASE k = call[r].key
      BY <2>1, <2>3, <3>1 DEF Heard
    <3>2. CASE k # call[r].key
      BY <1>1, <2>3, <2>4, <3>2 DEF RememberedWasSaid, Heard
    <3> QED
      BY <3>1, <3>2
  <2> QED
    BY <2>3, <2>4 DEF RememberedWasSaid
<1> QED
    BY <1>3, <1>4 DEF Put

LEMMA ExpireStep ==
    ASSUME IInv, NEW k \in Keys, Expire(k)
    PROVE  IInv'
<1>1. cache' = [cache EXCEPT ![k] = None] /\ UNCHANGED <<call, streams, backendSem, cacheSem, said>>
    BY DEF Expire
<1>2. TypeOK /\ CallLife /\ Accounts /\ RememberedWasSaid
    BY DEF IInv
<1>3. cache' \in [Keys -> Results \cup {None}] /\ RememberedWasSaid'
    BY <1>1, <1>2 DEF TypeOK, RememberedWasSaid
<1>4. CallLife'
    BY <1>1, <1>2 DEF CallLife, Holds, Carries, HasRoom
<1>5. Accounts'
  <2>1. HoldToken' = HoldToken /\ HoldSlot' = HoldSlot /\ Bodies' = Bodies
    BY <1>1 DEF HoldToken, HoldSlot, Bodies
  <2> QED
    BY <1>1, <1>2, <2>1 DEF Accounts, SlotsAccounted
<1> QED
    BY <1>1, <1>2, <1>3, <1>4, <1>5 DEF IInv, TypeOK
-----------------------------------------------------------------------------
(* The theorems *)

LEMMA InitIInv == Init => IInv
<1> SUFFICES ASSUME Init PROVE IInv
    OBVIOUS
<1>1. NoCall \in CallRecords /\ Holds(NoCall) /\ Carries(NoCall, said)
      /\ ~NoCall.token /\ ~NoCall.slot /\ NoCall.op = "meta"
    BY ResultFacts DEF NoCall, CallRecords, Ops, PC, Holds, Carries
<1>2. TypeOK
    BY <1>1, CacheAssumption DEF Init, TypeOK
<1>3. CallLife
    BY <1>1 DEF Init, CallLife, HasRoom
<1>4. HoldToken = {} /\ HoldSlot = {} /\ Bodies = {}
    BY <1>1 DEF Init, HoldToken, HoldSlot, Bodies
<1>5. Accounts
    BY <1>4, FS_EmptySet DEF Init, Accounts, SlotsAccounted
<1>6. RememberedWasSaid
    BY DEF Init, RememberedWasSaid
<1> QED
    BY <1>2, <1>3, <1>5, <1>6 DEF IInv

LEMMA NextIInv == IInv /\ [Next]_vars => IInv'
<1> SUFFICES ASSUME IInv, [Next]_vars PROVE IInv'
    OBVIOUS
<1>1. TypeOK /\ CallLife /\ Accounts /\ RememberedWasSaid
    BY DEF IInv
<1>2. CASE UNCHANGED vars
  <2>1. TypeOK'
    BY <1>1, <1>2 DEF vars, TypeOK
  <2>2. CallLife'
    BY <1>1, <1>2 DEF vars, CallLife, Holds, Carries, HasRoom
  <2>3. HoldToken' = HoldToken /\ HoldSlot' = HoldSlot /\ Bodies' = Bodies
    BY <1>2 DEF vars, HoldToken, HoldSlot, Bodies
  <2>4. Accounts'
    BY <1>1, <1>2, <2>3 DEF vars, Accounts, SlotsAccounted
  <2>5. RememberedWasSaid'
    BY <1>1, <1>2 DEF vars, RememberedWasSaid
  <2> QED
    BY <2>1, <2>2, <2>4, <2>5 DEF IInv
<1>3. ASSUME NEW r \in Callers, Steps(r), Effects(r), RoomKept(r), UNCHANGED cache \/ Put(r)
      PROVE  IInv'
  <2>1. call' \in [Callers -> CallRecords] /\ CallLife'
    BY <1>1, <1>3, CallsStep
  <2>2. Accounts' /\ Semaphores' /\ streams' \in [Callers -> 0 .. MaxStreams]
    BY <1>1, <1>3, AccountsStep
  <2>3. cache' \in [Keys -> Results \cup {None}] /\ RememberedWasSaid'
    BY <1>3, CacheStep DEF Steps
  <2>4. TypeOK'
    BY <1>3, <2>1, <2>2, <2>3 DEF TypeOK, Semaphores, Steps, Heard
  <2> QED
    BY <2>1, <2>2, <2>3, <2>4 DEF IInv
<1> QED
    BY <1>1, <1>2, <1>3, NextCases, CloseStep, ExpireStep

\* The inductive invariant holds of every state of a run.
THEOREM Invariance == Spec => []IInv
    BY InitIInv, NextIInv, PTL DEF Spec

\* The variables keep their types: neither semaphore is ever taken more often than
\* it has tokens, nor given back more often than it was taken (cache.go:200-207,
\* :275-286).
THEOREM TypeCorrect == Spec => []TypeOK
<1>1. IInv => TypeOK
    BY DEF IInv
<1> QED
    BY <1>1, Invariance, PTL

\* Every token belongs to a call in flight or an open body and every slot to a call
\* that stores, however a call ends (cache.go:122-128, :223-249, :308-313).
THEOREM NoSlotIsLost == Spec => []SlotsAccounted
<1>1. IInv => SlotsAccounted
    BY DEF IInv, Accounts
<1> QED
    BY <1>1, Invariance, PTL

\* What the cache holds of a path is one of the backend's answers for this path, all
\* of it: not the rest of a broken read, not the error of a call, not the answer to
\* another path or to nobody (cache.go:209-238, :288-313).
THEOREM MemoryWasSaid == Spec => []RememberedWasSaid
<1>1. IInv => RememberedWasSaid
    BY DEF IInv
<1> QED
    BY <1>1, Invariance, PTL
=============================================================================
