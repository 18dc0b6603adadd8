------------------------------ MODULE ServerMeta ------------------------------
(***************************************************************************)
(* The page metadata cache (pkg/core/meta.go): GetMeta answers from a      *)
(* shared key-value cache, refreshes a stale entry in the background under *)
(* a semaphore, and lets every request that finds no entry wait for the    *)
(* one update its server runs for the repository.                          *)
(*                                                                         *)
(* Several servers share the cache and the backend; updates and refreshSem *)
(* belong to a server.  A repository's contents are its head commit, a     *)
(* number that only grows; Kind says what a commit's files make of it.     *)
(***************************************************************************)
EXTENDS Integers, FiniteSets

CONSTANTS Servers, Repos, Requests,
          Updates,            \* metaUpdate objects alive at a time
          MaxCommit,          \* bound on the commits pushed to a repository
          Kind,               \* Kind[repo][commit]: what refreshMeta finds there
          Refresh,            \* s.refresh: 0 makes a request wait on a stale entry
          RefreshConcurrent,  \* capacity of refreshSem
          None                \* no cache entry, no update, no server

Commits == 0 .. MaxCommit

\* "gone": the backend knows no such repository.  "plain": neither index.html
\* nor .pages.yaml.  "index": no .pages.yaml.  "config": a .pages.yaml that
\* parses.  "broken": one that does not.
Kinds == {"gone", "plain", "index", "config", "broken"}

\* A stored PageMetaContent: the commit it was built from, IsPage, whose
\* settings it carries (those of .pages.yaml or the defaults), a non-empty
\* ErrorMsg, and whether RefreshAt is still ahead.
Entries == [commit : Commits, isPage : BOOLEAN, config : {"own", "default"},
            errorMsg : BOOLEAN, fresh : BOOLEAN]

ASSUME MetaAssumption ==
    /\ MaxCommit \in Nat
    /\ Kind \in [Repos -> [Commits -> Kinds]]
    /\ Refresh \in Nat
    /\ RefreshConcurrent \in Nat \ {0}
    /\ IsFiniteSet(Updates) /\ IsFiniteSet(Servers)
    /\ None \notin Servers \cup Repos \cup Updates
    /\ None \notin Entries

VARIABLES
    head,        \* the commit the backend reports for a repository
    cache,       \* the shared KVCache[PageMetaContent]
    newest,      \* history: the newest commit ever stored for a repository
    updates,     \* ServerMeta.updates of each server
    upd,         \* the metaUpdate objects and the goroutines that run them
    refreshSem,  \* tokens taken from refreshSem
    req          \* the callers of GetMeta

vars == <<head, cache, newest, updates, upd, refreshSem, req>>

\* What GetMeta returns: the content, os.ErrNotExist, any other error.
Answers == {"page", "notExist", "error"}

UpdatePC == {"free", "recheck", "meta", "files", "store", "publish", "finish", "release"}
UpdateRecords == [pc : UpdatePC, server : Servers \cup {None}, repo : Repos \cup {None},
                  token : BOOLEAN, entry : Entries \cup {None}, err : Answers]

ReqPhases == {"idle", "trigger", "join", "wait", "answered", "left"}
ReqRecords == [phase : ReqPhases, server : Servers \cup {None}, repo : Repos \cup {None},
               upd : Updates \cup {None}, entry : Entries \cup {None}, err : Answers,
               floor : {-1} \cup Commits]

TypeOK ==
    /\ head \in [Repos -> Commits]
    /\ cache \in [Repos -> Entries \cup {None}]
    /\ newest \in [Repos -> {-1} \cup Commits]
    /\ updates \in [Servers -> [Repos -> Updates \cup {None}]]
    /\ upd \in [Updates -> UpdateRecords]
    /\ refreshSem \in [Servers -> 0 .. RefreshConcurrent]
    /\ req \in [Requests -> ReqRecords]

FreeUpdate == [pc |-> "free", server |-> None, repo |-> None, token |-> FALSE,
               entry |-> None, err |-> "error"]
IdleRequest == [phase |-> "idle", server |-> None, repo |-> None, upd |-> None,
                entry |-> None, err |-> "error", floor |-> -1]

Init ==
    /\ head = [p \in Repos |-> 0]
    /\ cache = [p \in Repos |-> None]
    /\ newest = [p \in Repos |-> -1]
    /\ updates = [s \in Servers |-> [p \in Repos |-> None]]
    /\ upd = [u \in Updates |-> FreeUpdate]
    /\ refreshSem = [s \in Servers |-> 0]
    /\ req = [r \in Requests |-> IdleRequest]

\* A Load of the cache: an error of the store reads as a miss.
Loads(p) == {cache[p], None}

\* What a stored entry makes of a request or of a rechecking update.
Outcome(entry) == IF entry.isPage THEN "page" ELSE "notExist"
-----------------------------------------------------------------------------
(* The world: pushes, the refresh interval, the TTL of the cache *)

Push(p) ==
    /\ head[p] < MaxCommit
    /\ head' = [head EXCEPT ![p] = @ + 1]
    /\ UNCHANGED <<cache, newest, updates, upd, refreshSem, req>>

RefreshDue(p) ==
    /\ cache[p] # None
    /\ cache[p].fresh
    /\ cache' = [cache EXCEPT ![p].fresh = FALSE]
    /\ UNCHANGED <<head, newest, updates, upd, refreshSem, req>>

Expire(p) ==
    /\ cache[p] # None
    /\ cache' = [cache EXCEPT ![p] = None]
    /\ UNCHANGED <<head, newest, updates, upd, refreshSem, req>>
-----------------------------------------------------------------------------
(* GetMeta *)

\* The request loads the entry of repository p on server s.
Request(r, s, p) == [IdleRequest EXCEPT !.server = s, !.repo = p, !.floor = newest[p]]

GetMeta(r, s, p) ==
    /\ req[r].phase \in {"idle", "answered", "left"}
    /\ \E entry \in Loads(p) :
           req' = [req EXCEPT ![r] =
               IF entry = None
               THEN [Request(r, s, p) EXCEPT !.phase = "join"]
               ELSE IF entry.fresh
               THEN [Request(r, s, p) EXCEPT !.phase = "answered", !.entry = entry,
                                             !.err = Outcome(entry)]
               ELSE IF Refresh = 0
               THEN [Request(r, s, p) EXCEPT !.phase = "join"]
               ELSE [Request(r, s, p) EXCEPT !.phase = "trigger", !.entry = entry]]
    /\ UNCHANGED <<head, cache, newest, updates, upd, refreshSem>>

\* Mutant: every update gives a token back when it ends.
StartReleasing(u, s, p, token) ==
    /\ upd[u].pc = "free"
    /\ updates' = [updates EXCEPT ![s][p] = u]
    /\ upd' = [upd EXCEPT ![u] = [FreeUpdate EXCEPT !.pc = "recheck", !.server = s,
                                                    !.repo = p, !.token = TRUE]]

\* updates[key] = &metaUpdate{}, and its goroutine starts.
StartUpdate(u, s, p, token) ==
    /\ upd[u].pc = "free"
    /\ updates' = [updates EXCEPT ![s][p] = u]
    /\ upd' = [upd EXCEPT ![u] = [FreeUpdate EXCEPT !.pc = "recheck", !.server = s,
                                                    !.repo = p, !.token = token]]

\* Mutant: the update is started although one is registered.
NeverPending(s, p) == FALSE

Pending(s, p) == updates[s][p] # None

SemFull(s) == refreshSem[s] = RefreshConcurrent

\* triggerMetaRefresh, under updatesMu, then the answer from the stale entry.
TriggerMetaRefresh(r) ==
    LET s == req[r].server
        p == req[r].repo
    IN
    /\ req[r].phase = "trigger"
    /\ IF Pending(s, p) \/ SemFull(s)
       THEN UNCHANGED <<updates, upd, refreshSem>>
       ELSE /\ \E u \in Updates : StartUpdate(u, s, p, TRUE)
            /\ refreshSem' = [refreshSem EXCEPT ![s] = @ + 1]
    /\ req' = [req EXCEPT ![r].phase = "answered", ![r].err = Outcome(req[r].entry)]
    /\ UNCHANGED <<head, cache, newest>>

\* getOrStartMetaUpdate: the request waits for the update it found or started.
GetOrStartMetaUpdate(r) ==
    LET s == req[r].server
        p == req[r].repo
    IN
    /\ req[r].phase = "join"
    /\ IF Pending(s, p)
       THEN /\ req' = [req EXCEPT ![r].phase = "wait", ![r].upd = updates[s][p]]
            /\ UNCHANGED <<updates, upd>>
       ELSE \E u \in Updates :
                /\ StartUpdate(u, s, p, FALSE)
                /\ req' = [req EXCEPT ![r].phase = "wait", ![r].upd = u]
    /\ UNCHANGED <<head, cache, newest, refreshSem>>

\* waitForMetaUpdate takes <-ctx.Done().
Leave(r) ==
    /\ req[r].phase = "wait"
    /\ req' = [req EXCEPT ![r].phase = "left", ![r].upd = None]
    /\ UNCHANGED <<head, cache, newest, updates, upd, refreshSem>>
-----------------------------------------------------------------------------
(* runMetaUpdate and refreshMeta: one goroutine per update *)

Moves(u, to) == upd' = [upd EXCEPT ![u].pc = to]

\* The update ends with the error err (or "page") and the entry it returns.
Returns(u, err, entry) ==
    upd' = [upd EXCEPT ![u].pc = "finish", ![u].err = err, ![u].entry = entry]

\* The entry may have been renewed since the request looked.
Recheck(u) ==
    /\ upd[u].pc = "recheck"
    /\ \E entry \in Loads(upd[u].repo) :
           IF entry # None /\ entry.fresh
           THEN Returns(u, Outcome(entry), entry)
           ELSE Moves(u, "meta")
    /\ UNCHANGED <<head, cache, newest, updates, refreshSem, req>>

Builds(u, commit, isPage, config, errorMsg) ==
    [commit |-> commit, isPage |-> isPage, config |-> config, errorMsg |-> errorMsg,
     fresh |-> TRUE]

\* The entry under construction, the answer once it is stored, the next step.
Holds(u, entry, err, to) ==
    upd' = [upd EXCEPT ![u].entry = entry, ![u].err = err, ![u].pc = to]

\* Backend.Meta: the head commit, or os.ErrNotExist, which is stored as well.
ReadMeta(u) ==
    LET n == head[upd[u].repo]
        gone == Kind[upd[u].repo][n] = "gone"
    IN
    /\ upd[u].pc = "meta"
    /\ Holds(u, Builds(u, n, FALSE, "default", FALSE), "notExist",
             IF gone THEN "store" ELSE "files")
    /\ UNCHANGED <<head, cache, newest, updates, refreshSem, req>>

\* What Exists, Exists and parsePageConfig can make of a commit.  A read that
\* fails counts as a missing file: of both probes, and of .pages.yaml, which
\* then leaves the default settings in place.
ReadsOf(kind) ==
    {[isPage |-> FALSE, config |-> "default", errorMsg |-> FALSE]} \cup
    (IF kind \in {"index", "config", "broken"}
     THEN {[isPage |-> TRUE, config |-> "default", errorMsg |-> FALSE]} ELSE {}) \cup
    (IF kind = "config"
     THEN {[isPage |-> TRUE, config |-> "own", errorMsg |-> FALSE]} ELSE {}) \cup
    (IF kind = "broken"
     THEN {[isPage |-> FALSE, config |-> "default", errorMsg |-> TRUE]} ELSE {})

ReadFiles(u) ==
    LET n == upd[u].entry.commit IN
    /\ upd[u].pc = "files"
    /\ \E x \in ReadsOf(Kind[upd[u].repo][n]) :
           Holds(u, Builds(u, n, x.isPage, x.config, x.errorMsg),
                 IF x.isPage THEN "page" ELSE IF x.errorMsg THEN "error" ELSE "notExist",
                 "store")
    /\ UNCHANGED <<head, cache, newest, updates, refreshSem, req>>

\* cache.Store, whose error is ignored.  For a page the call of DomainAlias.Bind
\* comes first (its failure is Fails) and the publication follows.
StoreMeta(u) ==
    LET p == upd[u].repo IN
    /\ upd[u].pc = "store"
    /\ \/ /\ cache' = [cache EXCEPT ![p] = upd[u].entry]
          /\ newest' = [newest EXCEPT ![p] =
                 IF upd[u].entry.commit > @ THEN upd[u].entry.commit ELSE @]
       \/ UNCHANGED <<cache, newest>>
    /\ Moves(u, IF upd[u].entry.isPage THEN "publish" ELSE "finish")
    /\ UNCHANGED <<head, updates, refreshSem, req>>

\* updateHub.PublishUpdate, whose error is ignored.
PublishUpdate(u) ==
    /\ upd[u].pc = "publish"
    /\ Moves(u, "finish")
    /\ UNCHANGED <<head, cache, newest, updates, refreshSem, req>>

\* Any call of refreshMeta fails, runs into the minute's timeout or panics:
\* the update ends with that error, keeping what it has stored.
Fails(u) ==
    /\ upd[u].pc \in {"meta", "files", "store", "publish"}
    /\ Returns(u, "error", None)
    /\ UNCHANGED <<head, cache, newest, updates, refreshSem, req>>

\* Mutant: done is closed and the entry of updates is left behind.
StaysRegistered(u) == updates

Unregistered(u) == [updates EXCEPT ![upd[u].server][upd[u].repo] = None]

\* The deferred function: leave updates, close done.  Whoever waits has the
\* result, which no one changes any more.
Finish(u) ==
    /\ upd[u].pc = "finish"
    /\ updates' = Unregistered(u)
    /\ req' = [r \in Requests |->
                  IF req[r].phase = "wait" /\ req[r].upd = u
                  THEN [req[r] EXCEPT !.phase = "answered", !.upd = None,
                                      !.err = upd[u].err, !.entry = upd[u].entry]
                  ELSE req[r]]
    /\ upd' = [upd EXCEPT ![u] = IF upd[u].token
                                 THEN [FreeUpdate EXCEPT !.pc = "release", !.token = TRUE,
                                                         !.server = upd[u].server]
                                 ELSE FreeUpdate]
    /\ UNCHANGED <<head, cache, newest, refreshSem>>

\* The goroutine of triggerMetaRefresh gives its token back.
ReleaseToken(u) ==
    /\ upd[u].pc = "release"
    /\ refreshSem' = [refreshSem EXCEPT ![upd[u].server] = @ - 1]
    /\ upd' = [upd EXCEPT ![u] = FreeUpdate]
    /\ UNCHANGED <<head, cache, newest, updates, req>>
-----------------------------------------------------------------------------
World == \E p \in Repos : Push(p) \/ RefreshDue(p) \/ Expire(p)

Caller(r) == \/ \E s \in Servers, p \in Repos : GetMeta(r, s, p)
             \/ TriggerMetaRefresh(r)
             \/ GetOrStartMetaUpdate(r)
             \/ Leave(r)

RunMetaUpdate(u) == \/ Recheck(u) \/ ReadMeta(u) \/ ReadFiles(u) \/ StoreMeta(u)
                    \/ PublishUpdate(u) \/ Fails(u) \/ Finish(u) \/ ReleaseToken(u)

Next == \/ World
        \/ \E r \in Requests : Caller(r)
        \/ \E u \in Updates : RunMetaUpdate(u)

Spec == Init /\ [][Next]_vars

\* Goroutines and callers that are not blocked keep running.
Fairness ==
    /\ \A u \in Updates : WF_vars(RunMetaUpdate(u))
    /\ \A r \in Requests : WF_vars(TriggerMetaRefresh(r)) /\ WF_vars(GetOrStartMetaUpdate(r))

FairSpec == Spec /\ Fairness
-----------------------------------------------------------------------------
(* Properties *)

Running(s, p) ==
    {u \in Updates : /\ upd[u].pc \notin {"free", "release"}
                     /\ upd[u].server = s
                     /\ upd[u].repo = p}

\* A server runs one update per repository, the one its updates map names, and
\* an entry of the map has its goroutine: nobody waits for an update that no one
\* runs, no two updates of a server interleave, and every caller that waits,
\* waits for one that is still to close done (meta.go:153-218).
SingleFlight ==
    /\ \A s \in Servers, p \in Repos : Running(s, p) = {updates[s][p]} \ {None}
    /\ \A r \in Requests : req[r].phase = "wait" =>
           req[r].upd \in Running(req[r].server, req[r].repo)

\* refreshSem holds exactly the tokens of the background updates in flight: an
\* update that waits for callers takes none, an update that fails or panics
\* returns its own (meta.go:168-181).
TokensAccounted ==
    \A s \in Servers :
        refreshSem[s] = Cardinality({u \in Updates : upd[u].token /\ upd[u].server = s})

\* On one server no caller is answered from a commit older than one the cache
\* already held when it asked, whatever expires, fails or is refreshed
\* meanwhile.  (Two servers can: each runs an update of its own, and the slower
\* one stores what it read first.)
NoRollback ==
    Cardinality(Servers) = 1 =>
        \A r \in Requests : req[r].phase = "answered" /\ req[r].entry # None =>
            req[r].entry.commit >= req[r].floor

\* The .pages.yaml of a commit governs the page made of it: meta.go:306 lets
\* only a missing file ("配置文件不存在不是错误", a configuration file that does
\* not exist is no error) leave the default settings in place.
ConfigIsApplied ==
    \A p \in Repos : cache[p] # None /\ cache[p].isPage =>
        (cache[p].config = "own" <=> Kind[p][cache[p].commit] = "config")

\* Every caller is answered or has left: done is closed whatever becomes of the
\* update, and nobody waits for the semaphore.
CallersAreAnswered ==
    \A r \in Requests :
        req[r].phase \in {"trigger", "join", "wait"} ~> req[r].phase \in {"answered", "left"}
=============================================================================
