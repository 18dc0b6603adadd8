---------------------------- MODULE ProviderCache ----------------------------
(***************************************************************************)
(* The cache in front of a git backend (pkg/core/cache.go).  Meta, List    *)
(* and Open take a token of backendSem for a call of the backend; an Open  *)
(* whose response is streamed keeps its token until the caller closes the  *)
(* body.  Files that fit and directory listings are stored under a slot of *)
(* cacheSem, taken only when one is free; absent ones are stored as such.  *)
(*                                                                         *)
(* A path belongs to one commit, so what the backend holds under it does   *)
(* not change; whether and how the backend answers does.                   *)
(***************************************************************************)
EXTENDS Naturals, FiniteSets

CONSTANTS Callers, Files, Dirs,
          Present,            \* the files and directories the commit has
          BackendConcurrent,  \* capacity of backendSem
          CacheConcurrent,    \* capacity of cacheSem
          MaxStreams,         \* bound on the bodies a caller has open at once
          None

Keys == Files \cup Dirs

ASSUME CacheAssumption ==
    /\ Present \subseteq Keys
    /\ Files \cap Dirs = {}
    /\ BackendConcurrent \in Nat \ {0}
    /\ CacheConcurrent \in Nat \ {0}
    /\ MaxStreams \in Nat \ {0}
    /\ None \notin Keys

VARIABLES
    cache,       \* the shared blob cache
    call,        \* the call each caller is in; once idle, the result of the last
    streams,     \* bodies a caller has open that hold a token
    backendSem,  \* tokens taken
    cacheSem,    \* slots taken
    said         \* history: what the backend has answered of a path, in full

vars == <<cache, call, streams, backendSem, cacheSem, said>>

\* What a call returns and the cache stores: a response (or a listing) of status
\* 200 or another and its body; os.ErrNotExist; an error.
Contents == {"file", "part", "error", "none"}
Response(ok, body) == [kind |-> "response", ok |-> ok, body |-> body]
NotExist == [kind |-> "notExist", ok |-> FALSE, body |-> "none"]
Failed == [kind |-> "failed", ok |-> FALSE, body |-> "none"]
Results == [kind : {"response", "notExist", "failed"}, ok : BOOLEAN, body : Contents]

Ops == {"open", "range", "list", "meta"}
PC == {"idle", "acquire", "backend", "read", "put", "return"}
CallRecords == [op : Ops, key : Keys \cup {None}, pc : PC, token : BOOLEAN,
                slot : BOOLEAN, result : Results]

TypeOK ==
    /\ cache \in [Keys -> Results \cup {None}]
    /\ call \in [Callers -> CallRecords]
    /\ streams \in [Callers -> 0 .. MaxStreams]
    /\ backendSem \in 0 .. BackendConcurrent
    /\ cacheSem \in 0 .. CacheConcurrent
    /\ said \in [Keys -> SUBSET Results]

NoCall == [op |-> "meta", key |-> None, pc |-> "idle", token |-> FALSE, slot |-> FALSE,
           result |-> Failed]

Init ==
    /\ cache = [k \in Keys |-> None]
    /\ call = [r \in Callers |-> NoCall]
    /\ streams = [r \in Callers |-> 0]
    /\ backendSem = 0
    /\ cacheSem = 0
    /\ said = [k \in Keys |-> {}]
-----------------------------------------------------------------------------
(* Entering a call *)

Enter(r, op, k, pc) ==
    /\ call[r].pc = "idle"
    /\ call' = [call EXCEPT ![r] = [NoCall EXCEPT !.op = op, !.key = k, !.pc = pc]]
    /\ UNCHANGED <<cache, streams, backendSem, cacheSem, said>>

Answered(result) == [NoCall EXCEPT !.result = result]

\* The caller is answered at once.
Answer(r, result) ==
    /\ call[r].pc = "idle"
    /\ call' = [call EXCEPT ![r] = Answered(result)]
    /\ UNCHANGED <<cache, streams, backendSem, cacheSem, said>>

\* loadCachedResponse, loadCachedDirEntries: an error of the cache other than a
\* miss ends the call.
Lookup(r, op, k) ==
    \/ cache[k] = None /\ Enter(r, op, k, "acquire")
    \/ cache[k] # None /\ Answer(r, cache[k])
    \/ Answer(r, Failed)

\* A caller has at most MaxStreams bodies open, whether they hold a token or not.
Open(r, k)  == streams[r] < MaxStreams /\ Lookup(r, "open", k)
List(r, k)  == Lookup(r, "list", k)
Meta(r)     == Enter(r, "meta", None, "acquire")

\* A request with a Range header goes to the backend past cache and semaphore.
OpenRange(r, k) == Enter(r, "range", k, "backend")

FreeToken == backendSem < BackendConcurrent

\* acquireBackend takes a token ...
Acquire(r) ==
    /\ call[r].pc = "acquire"
    /\ FreeToken
    /\ backendSem' = backendSem + 1
    /\ call' = [call EXCEPT ![r].pc = "backend", ![r].token = TRUE]
    /\ UNCHANGED <<cache, streams, cacheSem, said>>

\* ... or the caller's context ends first.
GiveUp(r) ==
    /\ call[r].pc = "acquire"
    /\ call' = [call EXCEPT ![r] = Answered(Failed)]
    /\ UNCHANGED <<cache, streams, backendSem, cacheSem, said>>
-----------------------------------------------------------------------------
(* The call of the backend *)

\* parent.Meta and parent.Open with a Range header: nothing is stored.
PassThrough(r) ==
    /\ call[r].pc = "backend"
    /\ call[r].op \in {"meta", "range"}
    /\ \E result \in {Response(TRUE, "file"), NotExist, Failed} :
           call' = [call EXCEPT ![r].pc = "return", ![r].result = result]
    /\ UNCHANGED <<cache, streams, backendSem, cacheSem, said>>

\* An error that is no absence gives the token back.
BackendFails(r) ==
    /\ call[r].pc = "backend"
    /\ call[r].op \in {"open", "list"}
    /\ call' = [call EXCEPT ![r].pc = "return", ![r].result = Failed]
    /\ UNCHANGED <<cache, streams, backendSem, cacheSem, said>>

\* The backend has answered the call of r in full.
Says(r, answer) == said' = [said EXCEPT ![call[r].key] = @ \cup {answer}]

\* The backend may say of any path that there is nothing: a response 404, and
\* os.ErrNotExist, which the local provider joins to every error and Gitea's List
\* to every 4xx.  Open gives its token back before it stores an os.ErrNotExist and
\* after it has stored a response 404; List returns its token last.
BackendSaysAbsent(r) ==
    /\ call[r].pc = "backend"
    /\ call[r].op \in {"open", "list"}
    /\ Says(r, NotExist)
    /\ \/ /\ call' = [call EXCEPT ![r].pc = "put", ![r].result = NotExist]
          /\ UNCHANGED backendSem
       \/ /\ call[r].op = "open"
          /\ call' = [call EXCEPT ![r].pc = "put", ![r].result = NotExist, ![r].token = FALSE]
          /\ backendSem' = backendSem - 1
    /\ UNCHANGED <<cache, streams, cacheSem>>

\* The response has no usable Content-Length, is above the limit, or finds no
\* free slot: the caller gets the body, and the token with it.
Stream(r, answer) ==
    /\ call' = [call EXCEPT ![r] = Answered(answer)]
    /\ streams' = [streams EXCEPT ![r] = @ + 1]
    /\ UNCHANGED <<cache, backendSem, cacheSem>>

\* The response fits and tryAcquireCacheSlot finds a slot.
TakeSlot(r, answer, pc) ==
    /\ cacheSem < CacheConcurrent
    /\ cacheSem' = cacheSem + 1
    /\ call' = [call EXCEPT ![r].pc = pc, ![r].slot = TRUE, ![r].result = answer]
    /\ UNCHANGED <<cache, streams, backendSem>>

\* handleBackendResponse.  Responses of every status but 404 are treated alike,
\* those that carry an error included: gitea.go returns client.Do as it is.
BackendResponds(r) ==
    /\ call[r].pc = "backend"
    /\ call[r].op = "open"
    /\ \E ok \in BOOLEAN :
           LET answer == Response(ok, IF ok THEN "file" ELSE "error") IN
           /\ ok => call[r].key \in Present
           /\ Says(r, answer)
           /\ Stream(r, answer) \/ TakeSlot(r, answer, "read")

Listing == Response(TRUE, "file")

\* cacheDirEntries: without a free slot the listing is returned unstored.
BackendLists(r) ==
    /\ call[r].pc = "backend"
    /\ call[r].op = "list"
    /\ call[r].key \in Present
    /\ Says(r, Listing)
    /\ \/ TakeSlot(r, Listing, "put")
       \/ /\ cacheSem = CacheConcurrent
          /\ call' = [call EXCEPT ![r].pc = "return", ![r].result = Listing]
          /\ UNCHANGED <<cache, streams, backendSem, cacheSem>>

\* Mutant: what was read before the error is stored.
StoresTorso(r) == [call EXCEPT ![r].pc = "put", ![r].result.body = "part"]

\* A read error ends cacheResponse before the Put.
AfterReadError(r) == [call EXCEPT ![r].pc = "return", ![r].result = Failed]

\* io.ReadAll in cacheResponse.
ReadBody(r) ==
    /\ call[r].pc = "read"
    /\ \/ call' = [call EXCEPT ![r].pc = "put"]
       \/ call' = AfterReadError(r)
    /\ UNCHANGED <<cache, streams, backendSem, cacheSem, said>>

\* A response is stored without its status, and loadCachedResponse makes a 200 of it.
Replayed(answer) == IF answer.kind = "response" THEN [answer EXCEPT !.ok = TRUE] ELSE answer

\* cacheBlob.Put of the response, the listing or the absence; a failure is logged.
Put(r) ==
    /\ call[r].pc = "put"
    /\ \/ cache' = [cache EXCEPT ![call[r].key] = Replayed(call[r].result)]
       \/ UNCHANGED cache
    /\ call' = [call EXCEPT ![r].pc = "return"]
    /\ UNCHANGED <<streams, backendSem, cacheSem, said>>
-----------------------------------------------------------------------------
(* Leaving a call *)

\* Mutant: a call that failed keeps its token.
TokenLeaks(r) == IF call[r].result = Failed THEN backendSem ELSE backendSem - 1

TokenBack(r) == backendSem - 1

\* The token comes back: before the slot for Open, after it for List.
ReleaseToken(r) ==
    /\ call[r].pc = "return"
    /\ call[r].token
    /\ call[r].op = "list" => ~call[r].slot
    /\ backendSem' = TokenBack(r)
    /\ call' = [call EXCEPT ![r].token = FALSE]
    /\ UNCHANGED <<cache, streams, cacheSem, said>>

\* Mutant: the slot of a response that was not read to its end is not released.
SlotLeaks(r) == IF call[r].result = Failed THEN cacheSem ELSE cacheSem - 1

SlotBack(r) == cacheSem - 1

ReleaseSlot(r) ==
    /\ call[r].pc = "return"
    /\ call[r].slot
    /\ call[r].op = "open" => ~call[r].token
    /\ cacheSem' = SlotBack(r)
    /\ call' = [call EXCEPT ![r].slot = FALSE]
    /\ UNCHANGED <<cache, streams, backendSem, said>>

Return(r) ==
    /\ call[r].pc = "return"
    /\ ~call[r].token
    /\ ~call[r].slot
    /\ call' = [call EXCEPT ![r] = Answered(call[r].result)]
    /\ UNCHANGED <<cache, streams, backendSem, cacheSem, said>>

\* The caller closes a streamed body: CloserWrapper.Close gives the token back.
CloseStream(r) ==
    /\ call[r].pc = "idle"
    /\ streams[r] > 0
    /\ streams' = [streams EXCEPT ![r] = @ - 1]
    /\ backendSem' = TokenBack(r)
    /\ UNCHANGED <<cache, call, cacheSem, said>>

\* The TTL of an entry runs out.
Expire(k) ==
    /\ cache[k] # None
    /\ cache' = [cache EXCEPT ![k] = None]
    /\ UNCHANGED <<call, streams, backendSem, cacheSem, said>>
-----------------------------------------------------------------------------
Begins(r) == \/ \E k \in Files : Open(r, k) \/ OpenRange(r, k)
             \/ \E k \in Dirs : List(r, k)
             \/ Meta(r)

Backend(r) == \/ PassThrough(r) \/ BackendFails(r) \/ BackendSaysAbsent(r)
              \/ BackendResponds(r) \/ BackendLists(r)

Continues(r) == \/ Backend(r) \/ ReadBody(r) \/ Put(r)
                \/ ReleaseToken(r) \/ ReleaseSlot(r) \/ Return(r)

Next == \/ \E r \in Callers : Begins(r) \/ Acquire(r) \/ GiveUp(r)
                              \/ Continues(r) \/ CloseStream(r)
        \/ \E k \in Keys : Expire(k)

Spec == Init /\ [][Next]_vars

\* A backend call ends, a caller that is not waiting for a token closes the
\* bodies it has open, and a channel serves its blocked senders in order.
Fairness ==
    \A r \in Callers : WF_vars(Continues(r)) /\ SF_vars(CloseStream(r)) /\ SF_vars(Acquire(r))

FairSpec == Spec /\ Fairness
-----------------------------------------------------------------------------
(* Properties *)

\* Who holds what: the calls in flight, and the bodies a caller has open.
HoldToken == {r \in Callers : call[r].token}
HoldSlot == {r \in Callers : call[r].slot}
Bodies == {b \in Callers \X (1 .. MaxStreams) : b[2] <= streams[b[1]]}

\* Every token taken from backendSem belongs to a call in flight or to a body
\* that is still open, and every slot taken from cacheSem to a call that is
\* storing: none is lost on an error, a 404, a full cache or a read that breaks
\* off, and none is returned twice (cache.go:122-128, :223-249, :308-313).
SlotsAccounted ==
    /\ backendSem = Cardinality(HoldToken) + Cardinality(Bodies)
    /\ cacheSem = Cardinality(HoldSlot)

\* The cache holds of a path only what the backend has said of this path, and all
\* of it: calls that were given up, errors that are no absence and bodies that
\* broke off leave no trace, nor does what another caller has under way
\* (cache.go:209-238, :288-313).  That what the backend said is true of the commit
\* is not promised: an error may read as absence, and one that came as a response
\* comes back as a 200.
RememberedWasSaid ==
    \A k \in Keys : cache[k] # None => \E answer \in said[k] : cache[k] = Replayed(answer)

\* Each token is held by an open body of a caller that waits for one more.
HoldAndWait ==
    /\ Cardinality(Bodies) = BackendConcurrent
    /\ \A r \in Callers : streams[r] > 0 => call[r].pc = "acquire"

\* No call waits for a token for ever, unless all tokens are held by bodies
\* of callers that wait for another: only a caller with several bodies open (a
\* script with fs.openReadable) can bring the server to a halt.
WaitersGetOn == \A r \in Callers : []<>(call[r].pc # "acquire" \/ HoldAndWait)
=============================================================================
