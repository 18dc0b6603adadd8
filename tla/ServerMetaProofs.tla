--------------------------- MODULE ServerMetaProofs ---------------------------
(***************************************************************************)
(* Single flight, the tokens of the background refreshes and the age of an *)
(* answer, for any number of servers, repositories, callers and commits.   *)
(* A server's updates map is followed together with the goroutines that    *)
(* run its updates; for one server, the entry an update carries is at      *)
(* least as new as anything stored before it.                              *)
(*                                                                         *)
(* After them, DomainAlias: the alias table that every refresh brings up   *)
(* to date, for any number of binders, repositories and domains.           *)
(***************************************************************************)
EXTENDS ServerMeta, DomainAlias, FiniteSetTheorems, TLAPS

WorkPC == UpdatePC \ {"free", "release"}

Works(u) == upd[u].pc \in WorkPC

\* What is set in the record of an update at its stations.
Life(x) ==
    /\ x.pc = "free" => ~x.token
    /\ x.pc # "free" => x.server \in Servers
    /\ x.pc = "release" => x.token
    /\ x.pc \in WorkPC => x.repo \in Repos
    /\ x.pc \in {"files", "store"} => x.entry \in Entries

UpdateLife == \A u \in Updates : Life(upd[u])

\* A caller under way asks a server for a repository.
Asks(r) == req[r].phase \in {"trigger", "join", "wait"}

RequestLife == \A r \in Requests : Asks(r) => req[r].server \in Servers /\ req[r].repo \in Repos

\* The updates at work on a repository of a server are the one its map names.
WorksFor(u, s, p) == Works(u) /\ upd[u].server = s /\ upd[u].repo = p

Flight ==
    \A s \in Servers, p \in Repos, u \in Updates : WorksFor(u, s, p) <=> updates[s][p] = u

Waits ==
    \A r \in Requests : req[r].phase = "wait" =>
        req[r].upd \in Updates /\ WorksFor(req[r].upd, req[r].server, req[r].repo)

\* On one server: what is stored is the newest ever stored, an update that works
\* on a repository carries nothing older, and no caller asked for anything newer.
StoredIsNewest ==
    \A p \in Repos : /\ newest[p] <= head[p]
                     /\ cache[p] # None => cache[p].commit = newest[p]

CarriesNewest ==
    \A u \in Updates : Works(u) /\ upd[u].entry # None =>
        upd[u].entry.commit \in newest[upd[u].repo] .. head[upd[u].repo]

AsksForStored ==
    \A r \in Requests :
        /\ Asks(r) => req[r].floor <= newest[req[r].repo]
        /\ req[r].phase \in {"trigger", "answered"} /\ req[r].entry # None =>
               req[r].entry.commit >= req[r].floor

Newest == Cardinality(Servers) = 1 => StoredIsNewest /\ CarriesNewest /\ AsksForStored

IInv == TypeOK /\ UpdateLife /\ RequestLife /\ Flight /\ Waits /\ TokensAccounted /\ Newest
-----------------------------------------------------------------------------
(* The records of updates *)

\* The record put in the place of an update's.
LEMMA PutUpdate ==
    ASSUME TypeOK, UpdateLife, NEW u \in Updates, NEW x \in UpdateRecords, Life(x),
           upd' = [upd EXCEPT ![u] = x]
    PROVE  /\ upd' \in [Updates -> UpdateRecords] /\ UpdateLife'
           /\ upd'[u] = x /\ \A v \in Updates \ {u} : upd'[v] = upd[v]
<1>1. upd \in [Updates -> UpdateRecords]
    BY DEF TypeOK
<1>2. /\ upd' \in [Updates -> UpdateRecords]
      /\ upd'[u] = x /\ \A v \in Updates \ {u} : upd'[v] = upd[v]
    BY <1>1
<1>3. UpdateLife'
    BY <1>2 DEF UpdateLife, Life
<1> QED
    BY <1>2, <1>3

\* Entries as refreshMeta builds them, and the record of no update.
LEMMA BuildsType ==
    ASSUME NEW u, NEW n \in Commits, NEW isPage \in BOOLEAN, NEW config \in {"own", "default"},
           NEW errorMsg \in BOOLEAN
    PROVE  /\ Builds(u, n, isPage, config, errorMsg) \in Entries
           /\ Builds(u, n, isPage, config, errorMsg).commit = n
    BY DEF Builds, Entries

LEMMA FreeType == FreeUpdate \in UpdateRecords /\ Life(FreeUpdate)
    BY DEF FreeUpdate, UpdateRecords, UpdatePC, Answers, Life, WorkPC

\* An update that goes on stays that of its server and repository: its record
\* changes in its station, its answer and its entry.
Carries(u, pc, err, entry) ==
    /\ pc \in WorkPC /\ err \in Answers /\ entry \in Entries \cup {None}
    /\ pc \in {"files", "store"} => entry \in Entries
    /\ upd' = [upd EXCEPT ![u] = [upd[u] EXCEPT !.pc = pc, !.err = err, !.entry = entry]]

LEMMA MovesCarry ==
    ASSUME TypeOK, NEW u \in Updates, NEW to \in WorkPC, Moves(u, to),
           to \in {"files", "store"} => upd[u].entry \in Entries
    PROVE  Carries(u, to, upd[u].err, upd[u].entry)
<1>1. upd \in [Updates -> UpdateRecords] /\ upd[u] \in UpdateRecords
    BY DEF TypeOK
<1>2. upd[u].err \in Answers /\ upd[u].entry \in Entries \cup {None}
    BY <1>1 DEF UpdateRecords
<1>3. [upd[u] EXCEPT !.pc = to]
          = [upd[u] EXCEPT !.pc = to, !.err = upd[u].err, !.entry = upd[u].entry]
    BY <1>1 DEF UpdateRecords
<1>4. upd' = [upd EXCEPT ![u] = [upd[u] EXCEPT !.pc = to]]
    BY <1>1 DEF Moves
<1> QED
    BY <1>2, <1>3, <1>4 DEF Carries

LEMMA ReturnsCarry ==
    ASSUME TypeOK, NEW u \in Updates, NEW err \in Answers, NEW entry \in Entries \cup {None},
           Returns(u, err, entry)
    PROVE  Carries(u, "finish", err, entry)
<1>1. upd \in [Updates -> UpdateRecords] /\ "finish" \in WorkPC
    BY DEF TypeOK, WorkPC, UpdatePC
<1>2. upd' = [upd EXCEPT ![u] = [upd[u] EXCEPT !.pc = "finish", !.err = err, !.entry = entry]]
    BY <1>1 DEF Returns
<1> QED
    BY <1>1, <1>2 DEF Carries

LEMMA HoldsCarry ==
    ASSUME TypeOK, NEW u \in Updates, NEW err \in Answers, NEW entry \in Entries,
           NEW to \in WorkPC, Holds(u, entry, err, to)
    PROVE  Carries(u, to, err, entry)
<1>1. upd \in [Updates -> UpdateRecords] /\ upd[u] \in UpdateRecords
    BY DEF TypeOK
<1>2. upd' = [upd EXCEPT ![u] = [upd[u] EXCEPT !.entry = entry, !.err = err, !.pc = to]]
    BY <1>1 DEF Holds
<1>3. [upd[u] EXCEPT !.entry = entry, !.err = err, !.pc = to]
          = [upd[u] EXCEPT !.pc = to, !.err = err, !.entry = entry]
    BY <1>1 DEF UpdateRecords
<1> QED
    BY <1>2, <1>3 DEF Carries

\* Where the entry comes from that an update carries on: the cache, the head
\* commit or what it already carried.
Source(u, entry) ==
    \/ entry = None
    \/ entry = cache[upd[u].repo]
    \/ entry.commit = head[upd[u].repo]
    \/ upd[u].entry # None /\ entry.commit = upd[u].entry.commit

\* The steps of an update before its end.
GoesOn(u) == Recheck(u) \/ ReadMeta(u) \/ ReadFiles(u) \/ StoreMeta(u) \/ PublishUpdate(u) \/ Fails(u)

LEMMA RecheckCarries ==
    ASSUME TypeOK, UpdateLife, NEW u \in Updates, Recheck(u)
    PROVE  \E pc, err, entry : Carries(u, pc, err, entry) /\ Source(u, entry)
<1>1. PICK entry \in Loads(upd[u].repo) :
          \/ entry # None /\ Returns(u, Outcome(entry), entry)
          \/ Moves(u, "meta")
    BY DEF Recheck
<1>2. upd[u].repo \in Repos /\ "recheck" \in WorkPC /\ "meta" \in WorkPC
    BY DEF Recheck, UpdateLife, Life, WorkPC, UpdatePC
<1>3. entry \in Entries \cup {None} /\ Outcome(entry) \in Answers
    BY <1>1, <1>2 DEF Loads, TypeOK, Outcome, Answers
<1>4. CASE entry # None /\ Returns(u, Outcome(entry), entry)
  <2>1. entry = cache[upd[u].repo]
    BY <1>1, <1>4 DEF Loads
  <2> QED
    BY <1>3, <1>4, <2>1, ReturnsCarry DEF Source
<1>5. CASE Moves(u, "meta")
    BY <1>2, <1>5, MovesCarry DEF Source
<1> QED
    BY <1>1, <1>4, <1>5

LEMMA ReadMetaCarries ==
    ASSUME TypeOK, UpdateLife, NEW u \in Updates, ReadMeta(u)
    PROVE  \E pc, err, entry : Carries(u, pc, err, entry) /\ Source(u, entry)
<1>1. upd[u].repo \in Repos /\ "store" \in WorkPC /\ "files" \in WorkPC
    BY DEF ReadMeta, UpdateLife, Life, WorkPC, UpdatePC
<1> DEFINE n == head[upd[u].repo]
           entry == Builds(u, n, FALSE, "default", FALSE)
<1>2. n \in Commits
    BY <1>1 DEF TypeOK
<1>3. entry \in Entries /\ entry.commit = n
    BY <1>2, BuildsType
<1>4. PICK to \in WorkPC : Holds(u, entry, "notExist", to)
    BY <1>1 DEF ReadMeta
<1>5. Carries(u, to, "notExist", entry)
    BY <1>3, <1>4, HoldsCarry DEF Answers
<1> QED
    BY <1>3, <1>5 DEF Source

LEMMA ReadFilesCarries ==
    ASSUME TypeOK, UpdateLife, NEW u \in Updates, ReadFiles(u)
    PROVE  \E pc, err, entry : Carries(u, pc, err, entry) /\ Source(u, entry)
<1> DEFINE n == upd[u].entry.commit
<1>1. upd[u].entry \in Entries /\ upd[u].entry # None /\ n \in Commits
    BY MetaAssumption DEF ReadFiles, UpdateLife, Life, Entries
<1>2. PICK x \in ReadsOf(Kind[upd[u].repo][n]), err \in Answers :
          Holds(u, Builds(u, n, x.isPage, x.config, x.errorMsg), err, "store")
    BY DEF ReadFiles, Answers
<1>3. x.isPage \in BOOLEAN /\ x.config \in {"own", "default"} /\ x.errorMsg \in BOOLEAN
  <2>1. x \in {[isPage |-> FALSE, config |-> "default", errorMsg |-> FALSE],
               [isPage |-> TRUE, config |-> "default", errorMsg |-> FALSE],
               [isPage |-> TRUE, config |-> "own", errorMsg |-> FALSE],
               [isPage |-> FALSE, config |-> "default", errorMsg |-> TRUE]}
    BY <1>2 DEF ReadsOf
  <2>2. ASSUME NEW i \in BOOLEAN, NEW c \in {"own", "default"}, NEW e \in BOOLEAN,
               x = [isPage |-> i, config |-> c, errorMsg |-> e]
        PROVE  x.isPage \in BOOLEAN /\ x.config \in {"own", "default"} /\ x.errorMsg \in BOOLEAN
    BY <2>2
  <2> QED
    BY <2>1, <2>2
<1>4. /\ Builds(u, n, x.isPage, x.config, x.errorMsg) \in Entries
      /\ Builds(u, n, x.isPage, x.config, x.errorMsg).commit = n
    BY <1>1, <1>3, BuildsType
<1>5. Carries(u, "store", err, Builds(u, n, x.isPage, x.config, x.errorMsg))
    BY <1>2, <1>4, HoldsCarry DEF WorkPC, UpdatePC
<1> QED
    BY <1>1, <1>4, <1>5 DEF Source

LEMMA StepsCarry ==
    ASSUME TypeOK, UpdateLife, NEW u \in Updates, GoesOn(u)
    PROVE  /\ Works(u) /\ UNCHANGED <<updates, refreshSem, req>>
           /\ \E pc, err, entry : Carries(u, pc, err, entry) /\ Source(u, entry)
<1>1. Works(u)
    BY DEF GoesOn, Recheck, ReadMeta, ReadFiles, StoreMeta, PublishUpdate, Fails, Works, WorkPC,
           UpdatePC
<1>2. UNCHANGED <<updates, refreshSem, req>>
    BY DEF GoesOn, Recheck, ReadMeta, ReadFiles, StoreMeta, PublishUpdate, Fails
<1>3. {"finish", "publish"} \subseteq WorkPC /\ "error" \in Answers
    BY DEF WorkPC, UpdatePC, Answers
<1>4. \/ upd[u].entry = None
      \/ upd[u].entry # None /\ upd[u].entry.commit = upd[u].entry.commit
    OBVIOUS
<1>5. CASE StoreMeta(u)
  <2>1. PICK to \in {"finish", "publish"} : Moves(u, to)
    BY <1>5 DEF StoreMeta
  <2> QED
    BY <1>1, <1>2, <1>3, <1>4, <2>1, MovesCarry DEF Source
<1>6. CASE PublishUpdate(u)
    BY <1>1, <1>2, <1>3, <1>4, <1>6, MovesCarry DEF PublishUpdate, Source
<1>7. CASE Fails(u)
    BY <1>1, <1>2, <1>3, <1>7, ReturnsCarry DEF Fails, Source
<1> QED
    BY <1>1, <1>2, <1>5, <1>6, <1>7, RecheckCarries, ReadMetaCarries, ReadFilesCarries DEF GoesOn

\* What such a step makes of the records.
LEMMA CarriesKeeps ==
    ASSUME TypeOK, UpdateLife, NEW u \in Updates, Works(u), NEW pc, NEW err, NEW entry,
           Carries(u, pc, err, entry)
    PROVE  /\ upd' \in [Updates -> UpdateRecords] /\ UpdateLife'
           /\ \A v \in Updates \ {u} : upd'[v] = upd[v]
           /\ upd'[u].pc \in WorkPC /\ upd'[u].entry = entry
           /\ upd'[u].server = upd[u].server /\ upd'[u].repo = upd[u].repo
           /\ upd'[u].token = upd[u].token
<1> DEFINE x == [upd[u] EXCEPT !.pc = pc, !.err = err, !.entry = entry]
<1>1. /\ upd[u] \in UpdateRecords /\ pc \in UpdatePC /\ pc \notin {"free", "release"}
      /\ err \in Answers /\ entry \in Entries \cup {None}
    BY DEF TypeOK, Carries, WorkPC
<1>2. /\ x \in UpdateRecords /\ x.pc = pc /\ x.entry = entry
      /\ x.server = upd[u].server /\ x.repo = upd[u].repo /\ x.token = upd[u].token
    BY <1>1 DEF UpdateRecords
<1>3. Life(x)
  <2>1. upd[u].pc \in WorkPC /\ upd[u].pc # "free" /\ Life(upd[u])
    BY DEF Works, UpdateLife, WorkPC
  <2> QED
    BY <1>1, <1>2, <2>1 DEF Life, Carries
<1>4. upd' = [upd EXCEPT ![u] = x]
    BY DEF Carries
<1> HIDE DEF x
<1> QED
    BY <1>2, <1>3, <1>4, PutUpdate DEF Carries

\* An update starts for a repository of which its server knows none.
LEMMA StartEffect ==
    ASSUME TypeOK, UpdateLife, NEW u \in Updates, NEW s \in Servers, NEW p \in Repos,
           NEW token \in BOOLEAN, StartUpdate(u, s, p, token)
    PROVE  /\ upd[u].pc = "free" /\ UpdateLife'
           /\ upd' \in [Updates -> UpdateRecords] /\ \A v \in Updates \ {u} : upd'[v] = upd[v]
           /\ upd'[u].pc = "recheck" /\ upd'[u].server = s /\ upd'[u].repo = p
           /\ upd'[u].token = token /\ upd'[u].entry = None
           /\ updates' \in [Servers -> [Repos -> Updates \cup {None}]] /\ updates'[s][p] = u
           /\ \A s2 \in Servers, p2 \in Repos :
                  <<s2, p2>> # <<s, p>> => updates'[s2][p2] = updates[s2][p2]
<1> DEFINE x == [FreeUpdate EXCEPT !.pc = "recheck", !.server = s, !.repo = p, !.token = token]
<1>1. x \in UpdateRecords /\ Life(x)
    BY DEF FreeUpdate, UpdateRecords, UpdatePC, Answers, Life, WorkPC
<1>2. x.pc = "recheck" /\ x.server = s /\ x.repo = p /\ x.token = token /\ x.entry = None
    BY DEF FreeUpdate
<1>3. upd' = [upd EXCEPT ![u] = x] /\ upd[u].pc = "free"
      /\ updates' = [updates EXCEPT ![s][p] = u]
    BY DEF StartUpdate
<1> HIDE DEF x
<1>4. /\ updates' \in [Servers -> [Repos -> Updates \cup {None}]] /\ updates'[s][p] = u
      /\ \A s2 \in Servers, p2 \in Repos :
             <<s2, p2>> # <<s, p>> => updates'[s2][p2] = updates[s2][p2]
    BY <1>3 DEF TypeOK
<1> QED
    BY <1>1, <1>2, <1>3, <1>4, PutUpdate

\* An update ends: its server forgets it, and the background one still has its token.
LEMMA FinishEffect ==
    ASSUME TypeOK, UpdateLife, NEW u \in Updates, Finish(u)
    PROVE  LET s == upd[u].server
               p == upd[u].repo
           IN  /\ Works(u) /\ s \in Servers /\ p \in Repos /\ UpdateLife'
               /\ upd' \in [Updates -> UpdateRecords]
               /\ \A v \in Updates \ {u} : upd'[v] = upd[v]
               /\ upd'[u].pc \in {"free", "release"} /\ upd'[u].token = upd[u].token
               /\ upd[u].token => upd'[u].server = s
               /\ updates' \in [Servers -> [Repos -> Updates \cup {None}]]
               /\ updates'[s][p] = None
               /\ \A s2 \in Servers, p2 \in Repos :
                      <<s2, p2>> # <<s, p>> => updates'[s2][p2] = updates[s2][p2]
<1> DEFINE s == upd[u].server
           p == upd[u].repo
<1>1. Works(u) /\ s \in Servers /\ p \in Repos /\ upd[u].token \in BOOLEAN
  <2>1. upd[u].pc = "finish" /\ "finish" \in WorkPC /\ upd[u] \in UpdateRecords
    BY DEF Finish, WorkPC, UpdatePC, TypeOK
  <2> QED
    BY <2>1 DEF Works, UpdateLife, Life, UpdateRecords
<1>2. PICK x \in {FreeUpdate, [FreeUpdate EXCEPT !.pc = "release", !.token = TRUE, !.server = s]} :
          /\ upd' = [upd EXCEPT ![u] = x]
          /\ x = FreeUpdate <=> ~upd[u].token
  <2>1. FreeUpdate.pc = "free"
        /\ [FreeUpdate EXCEPT !.pc = "release", !.token = TRUE, !.server = s].pc = "release"
    BY DEF FreeUpdate
  <2> QED
    BY <1>1, <2>1 DEF Finish
<1>3. /\ x \in UpdateRecords /\ Life(x) /\ x.pc \in {"free", "release"}
      /\ x.token = upd[u].token
      /\ upd[u].token => x.server = s
  <2>1. CASE x = FreeUpdate
    BY <1>1, <1>2, <2>1, FreeType DEF FreeUpdate
  <2>2. CASE x = [FreeUpdate EXCEPT !.pc = "release", !.token = TRUE, !.server = s]
    <3>1. /\ x.pc = "release" /\ x.token = TRUE /\ x.server = s /\ x # FreeUpdate
          /\ x \in UpdateRecords
      BY <1>1, <2>2 DEF FreeUpdate, UpdateRecords, UpdatePC, Answers
    <3> QED
      BY <1>1, <1>2, <3>1 DEF Life, WorkPC
  <2> QED
    BY <1>2, <2>1, <2>2
<1>4. /\ updates' \in [Servers -> [Repos -> Updates \cup {None}]] /\ updates'[s][p] = None
      /\ \A s2 \in Servers, p2 \in Repos :
             <<s2, p2>> # <<s, p>> => updates'[s2][p2] = updates[s2][p2]
    BY <1>1 DEF TypeOK, Finish, Unregistered
<1> QED
    BY <1>1, <1>2, <1>3, <1>4, PutUpdate

\* The goroutine of a background update ends with its token.
LEMMA ReleaseEffect ==
    ASSUME TypeOK, UpdateLife, NEW u \in Updates, ReleaseToken(u)
    PROVE  /\ upd[u].pc = "release" /\ upd[u].token /\ upd[u].server \in Servers /\ UpdateLife'
           /\ upd' \in [Updates -> UpdateRecords] /\ \A v \in Updates \ {u} : upd'[v] = upd[v]
           /\ upd'[u].pc = "free" /\ ~upd'[u].token
           /\ refreshSem' = [refreshSem EXCEPT ![upd[u].server] = refreshSem[upd[u].server] - 1]
<1>1. upd' = [upd EXCEPT ![u] = FreeUpdate] /\ upd[u].pc = "release"
    BY DEF ReleaseToken
<1>2. FreeUpdate.pc = "free" /\ ~FreeUpdate.token
    BY DEF FreeUpdate
<1> QED
    BY <1>1, <1>2, FreeType, PutUpdate DEF UpdateLife, Life, ReleaseToken
-----------------------------------------------------------------------------
(* The records of callers *)

LEMMA PutRequest ==
    ASSUME TypeOK, NEW r \in Requests, NEW x \in ReqRecords, req' = [req EXCEPT ![r] = x]
    PROVE  /\ req' \in [Requests -> ReqRecords]
           /\ req'[r] = x /\ \A q \in Requests \ {r} : req'[q] = req[q]
    BY DEF TypeOK

\* GetMeta's caller as the cache answers it, or does not.
Asked(r, s, p, phase, entry, err) ==
    [Request(r, s, p) EXCEPT !.phase = phase, !.entry = entry, !.err = err]

LEMMA RequestType ==
    ASSUME TypeOK, NEW r, NEW s \in Servers, NEW p \in Repos
    PROVE  /\ Request(r, s, p) \in ReqRecords
           /\ Request(r, s, p).server = s /\ Request(r, s, p).repo = p
           /\ Request(r, s, p).floor = newest[p]
           /\ Request(r, s, p).entry = None /\ Request(r, s, p).err = "error"
<1>1. newest[p] \in {-1} \cup Commits
    BY DEF TypeOK
<1>2. /\ IdleRequest \in ReqRecords
      /\ IdleRequest.entry = None /\ IdleRequest.err = "error"
    BY DEF IdleRequest, ReqRecords, ReqPhases, Answers
<1> QED
    BY <1>1, <1>2 DEF Request, ReqRecords

LEMMA AskedType ==
    ASSUME TypeOK, NEW r, NEW s \in Servers, NEW p \in Repos,
           NEW phase \in ReqPhases, NEW entry \in Entries \cup {None}, NEW err \in Answers
    PROVE  /\ Asked(r, s, p, phase, entry, err) \in ReqRecords
           /\ Asked(r, s, p, phase, entry, err).phase = phase
           /\ Asked(r, s, p, phase, entry, err).entry = entry
           /\ Asked(r, s, p, phase, entry, err).server = s
           /\ Asked(r, s, p, phase, entry, err).repo = p
           /\ Asked(r, s, p, phase, entry, err).floor = newest[p]
<1>1. /\ Request(r, s, p) \in ReqRecords
      /\ Request(r, s, p).server = s /\ Request(r, s, p).repo = p
      /\ Request(r, s, p).floor = newest[p]
    BY RequestType
<1> QED
    BY <1>1 DEF Asked, ReqRecords

LEMMA AskEffect ==
    ASSUME TypeOK, NEW r \in Requests, NEW s \in Servers, NEW p \in Repos, GetMeta(r, s, p)
    PROVE  /\ req' \in [Requests -> ReqRecords] /\ \A q \in Requests \ {r} : req'[q] = req[q]
           /\ req'[r].phase \in {"join", "trigger", "answered"}
           /\ req'[r].server = s /\ req'[r].repo = p /\ req'[r].floor = newest[p]
           /\ req'[r].entry \in {None, cache[p]}
<1>1. PICK entry \in {None, cache[p]} :
          \/ req' = [req EXCEPT ![r] = [Request(r, s, p) EXCEPT !.phase = "join"]]
          \/ req' = [req EXCEPT ![r] = [Request(r, s, p) EXCEPT !.phase = "answered",
                                           !.entry = entry, !.err = Outcome(entry)]]
          \/ req' = [req EXCEPT ![r] = [Request(r, s, p) EXCEPT !.phase = "trigger",
                                           !.entry = entry]]
    BY DEF GetMeta, Loads
<1>2. entry \in Entries \cup {None} /\ Outcome(entry) \in Answers /\ "error" \in Answers
    BY <1>1 DEF TypeOK, Answers, Outcome
<1>3. /\ [Request(r, s, p) EXCEPT !.phase = "join"] = Asked(r, s, p, "join", None, "error")
      /\ [Request(r, s, p) EXCEPT !.phase = "trigger", !.entry = entry]
             = Asked(r, s, p, "trigger", entry, "error")
  <2>1. /\ Request(r, s, p) \in ReqRecords
        /\ Request(r, s, p).entry = None /\ Request(r, s, p).err = "error"
    BY RequestType
  <2> QED
    BY <2>1 DEF Asked, ReqRecords
<1>4. ASSUME NEW phase \in {"join", "trigger", "answered"}, NEW e \in {None, entry},
             NEW err \in Answers, req' = [req EXCEPT ![r] = Asked(r, s, p, phase, e, err)]
      PROVE  /\ req' \in [Requests -> ReqRecords] /\ \A q \in Requests \ {r} : req'[q] = req[q]
             /\ req'[r].phase = phase /\ req'[r].entry = e
             /\ req'[r].server = s /\ req'[r].repo = p /\ req'[r].floor = newest[p]
  <2>1. phase \in ReqPhases /\ e \in Entries \cup {None}
    BY <1>2 DEF ReqPhases
  <2> DEFINE x == Asked(r, s, p, phase, e, err)
  <2>2. /\ x \in ReqRecords /\ x.phase = phase /\ x.entry = e
        /\ x.server = s /\ x.repo = p /\ x.floor = newest[p]
    BY <2>1, AskedType
  <2>3. req' = [req EXCEPT ![r] = x]
    BY <1>4
  <2> HIDE DEF x
  <2> QED
    BY <2>2, <2>3, PutRequest
<1>5. CASE req' = [req EXCEPT ![r] = [Request(r, s, p) EXCEPT !.phase = "join"]]
    BY <1>2, <1>3, <1>4, <1>5
<1>6. CASE req' = [req EXCEPT ![r] = [Request(r, s, p) EXCEPT !.phase = "trigger",
                                           !.entry = entry]]
    BY <1>1, <1>2, <1>3, <1>4, <1>6
<1>7. CASE req' = [req EXCEPT ![r] = [Request(r, s, p) EXCEPT !.phase = "answered",
                                           !.entry = entry, !.err = Outcome(entry)]]
  <2>1. req' = [req EXCEPT ![r] = Asked(r, s, p, "answered", entry, Outcome(entry))]
    BY <1>7 DEF Asked
  <2> QED
    BY <1>1, <1>2, <1>4, <2>1
<1> QED
    BY <1>1, <1>5, <1>6, <1>7

\* A caller that stays at its repository changes its phase.
Stays(r) ==
    /\ req' \in [Requests -> ReqRecords] /\ \A q \in Requests \ {r} : req'[q] = req[q]
    /\ req'[r].server = req[r].server /\ req'[r].repo = req[r].repo
    /\ req'[r].floor = req[r].floor /\ req'[r].entry = req[r].entry

\* The caller answered from a stale entry starts an update if it may.
LEMMA TriggerEffect ==
    ASSUME TypeOK, RequestLife, NEW r \in Requests, TriggerMetaRefresh(r)
    PROVE  LET s == req[r].server
               p == req[r].repo
           IN  /\ s \in Servers /\ p \in Repos /\ Stays(r)
               /\ req[r].phase = "trigger" /\ req'[r].phase = "answered"
               /\ \/ UNCHANGED <<updates, upd, refreshSem>>
                  \/ /\ \E u \in Updates : StartUpdate(u, s, p, TRUE)
                     /\ updates[s][p] = None /\ refreshSem[s] # RefreshConcurrent
                     /\ refreshSem' = [refreshSem EXCEPT ![s] = refreshSem[s] + 1]
<1> DEFINE s == req[r].server
           p == req[r].repo
           x == [req[r] EXCEPT !.phase = "answered", !.err = Outcome(req[r].entry)]
<1>1. req[r].phase = "trigger" /\ s \in Servers /\ p \in Repos
    BY DEF TriggerMetaRefresh, RequestLife, Asks
<1>2. /\ req[r] \in ReqRecords /\ "answered" \in ReqPhases
      /\ Outcome(req[r].entry) \in Answers
    BY DEF TypeOK, ReqPhases, Outcome, Answers
<1>3. /\ x \in ReqRecords /\ x.phase = "answered" /\ x.server = s /\ x.repo = p
      /\ x.floor = req[r].floor /\ x.entry = req[r].entry
    BY <1>2 DEF ReqRecords
<1>4. req' = [req EXCEPT ![r] = x]
    BY DEF TriggerMetaRefresh, TypeOK
<1>5. Stays(r) /\ req'[r].phase = "answered"
  <2> HIDE DEF x
  <2> QED
    BY <1>3, <1>4, PutRequest DEF Stays
<1>6. \/ UNCHANGED <<updates, upd, refreshSem>>
      \/ /\ \E u \in Updates : StartUpdate(u, s, p, TRUE)
         /\ updates[s][p] = None /\ refreshSem[s] # RefreshConcurrent
         /\ refreshSem' = [refreshSem EXCEPT ![s] = refreshSem[s] + 1]
    BY DEF TriggerMetaRefresh, Pending, SemFull
<1> QED
    BY <1>1, <1>5, <1>6

\* The caller without an entry waits for the update there is, or starts one.
LEMMA JoinEffect ==
    ASSUME TypeOK, RequestLife, NEW r \in Requests, GetOrStartMetaUpdate(r)
    PROVE  LET s == req[r].server
               p == req[r].repo
           IN  /\ s \in Servers /\ p \in Repos /\ Stays(r)
               /\ req[r].phase = "join" /\ req'[r].phase = "wait"
               /\ \/ /\ UNCHANGED <<updates, upd>> /\ updates[s][p] # None
                     /\ req'[r].upd = updates[s][p]
                  \/ \E u \in Updates : /\ StartUpdate(u, s, p, FALSE) /\ updates[s][p] = None
                                        /\ req'[r].upd = u
<1> DEFINE s == req[r].server
           p == req[r].repo
<1>1. req[r].phase = "join" /\ s \in Servers /\ p \in Repos
    BY DEF GetOrStartMetaUpdate, RequestLife, Asks
<1>2. req[r] \in ReqRecords /\ "wait" \in ReqPhases /\ updates[s][p] \in Updates \cup {None}
    BY <1>1 DEF TypeOK, ReqPhases
<1>3. PICK u \in Updates \cup {None} :
          /\ req' = [req EXCEPT ![r].phase = "wait", ![r].upd = u]
          /\ \/ UNCHANGED <<updates, upd>> /\ updates[s][p] # None /\ u = updates[s][p]
             \/ u \in Updates /\ StartUpdate(u, s, p, FALSE) /\ updates[s][p] = None
    BY <1>2 DEF GetOrStartMetaUpdate, Pending
<1> DEFINE x == [req[r] EXCEPT !.phase = "wait", !.upd = u]
<1>4. /\ x \in ReqRecords /\ x.phase = "wait" /\ x.upd = u /\ x.server = s /\ x.repo = p
      /\ x.floor = req[r].floor /\ x.entry = req[r].entry
    BY <1>2 DEF ReqRecords
<1>5. req' = [req EXCEPT ![r] = x]
    BY <1>3 DEF TypeOK
<1>6. Stays(r) /\ req'[r].phase = "wait" /\ req'[r].upd = u
  <2> HIDE DEF x
  <2> QED
    BY <1>4, <1>5, PutRequest DEF Stays
<1> QED
    BY <1>1, <1>3, <1>6

LEMMA LeaveEffect ==
    ASSUME TypeOK, NEW r \in Requests, Leave(r)
    PROVE  Stays(r) /\ req'[r].phase = "left"
<1> DEFINE x == [req[r] EXCEPT !.phase = "left", !.upd = None]
<1>1. req[r] \in ReqRecords /\ "left" \in ReqPhases
    BY DEF TypeOK, ReqPhases
<1>2. /\ x \in ReqRecords /\ x.phase = "left" /\ x.server = req[r].server /\ x.repo = req[r].repo
      /\ x.floor = req[r].floor /\ x.entry = req[r].entry
    BY <1>1 DEF ReqRecords
<1>3. req' = [req EXCEPT ![r] = x]
    BY DEF Leave, TypeOK
<1> HIDE DEF x
<1> QED
    BY <1>2, <1>3, PutRequest DEF Stays

\* Whoever waits for an update that ends has its entry.
LEMMA AnswerEffect ==
    ASSUME TypeOK, NEW u \in Updates, Finish(u), NEW r \in Requests
    PROVE  /\ req'[r] \in ReqRecords
           /\ \/ req'[r] = req[r] /\ ~(req[r].phase = "wait" /\ req[r].upd = u)
              \/ /\ req[r].phase = "wait" /\ req[r].upd = u
                 /\ req'[r].phase = "answered" /\ req'[r].entry = upd[u].entry
                 /\ req'[r].repo = req[r].repo /\ req'[r].floor = req[r].floor
<1> DEFINE x == [req[r] EXCEPT !.phase = "answered", !.upd = None,
                               !.err = upd[u].err, !.entry = upd[u].entry]
<1>1. /\ req[r] \in ReqRecords /\ "answered" \in ReqPhases
      /\ upd[u].err \in Answers /\ upd[u].entry \in Entries \cup {None}
  <2>1. upd[u] \in UpdateRecords /\ req[r] \in ReqRecords
    BY DEF TypeOK
  <2> QED
    BY <2>1 DEF UpdateRecords, ReqPhases
<1>2. /\ x \in ReqRecords /\ x.phase = "answered" /\ x.entry = upd[u].entry
      /\ x.repo = req[r].repo /\ x.floor = req[r].floor
    BY <1>1 DEF ReqRecords
<1>3. req'[r] = IF req[r].phase = "wait" /\ req[r].upd = u THEN x ELSE req[r]
    BY DEF Finish
<1> HIDE DEF x
<1> QED
    BY <1>1, <1>2, <1>3

LEMMA AnswerType ==
    ASSUME TypeOK, NEW u \in Updates, Finish(u)
    PROVE  req' \in [Requests -> ReqRecords]
<1>1. req' = [r \in Requests |-> req'[r]]
    BY DEF Finish
<1> QED
    BY <1>1, AnswerEffect
-----------------------------------------------------------------------------
(* The invariant, step by step *)

\* Everything but the world's steps is a step of an update or of a caller.
LEMMA Steps ==
    ASSUME [Next]_vars
    PROVE  \/ UNCHANGED <<updates, upd, refreshSem, req>>
           \/ \E u \in Updates : GoesOn(u) \/ Finish(u) \/ ReleaseToken(u)
           \/ \E r \in Requests : \/ \E s \in Servers, p \in Repos : GetMeta(r, s, p)
                                  \/ TriggerMetaRefresh(r) \/ GetOrStartMetaUpdate(r) \/ Leave(r)
<1>1. CASE UNCHANGED vars
    BY <1>1 DEF vars
<1>2. CASE World
    BY <1>2 DEF World, Push, RefreshDue, Expire
<1>3. CASE \E r \in Requests : Caller(r)
    BY <1>3 DEF Caller
<1>4. CASE \E u \in Updates : RunMetaUpdate(u)
    BY <1>4 DEF RunMetaUpdate, GoesOn
<1> QED
    BY <1>1, <1>2, <1>3, <1>4 DEF Next

\* An update starts where none is pending, in the background with a token.
Starts(u, s, p, token) ==
    /\ StartUpdate(u, s, p, token)
    /\ updates[s][p] = None
    /\ IF token THEN /\ refreshSem[s] # RefreshConcurrent
                     /\ refreshSem' = [refreshSem EXCEPT ![s] = refreshSem[s] + 1]
                ELSE UNCHANGED refreshSem

\* The steps that change updates.
LEMMA UpdateSteps ==
    ASSUME TypeOK, RequestLife, [Next]_vars
    PROVE  \/ UNCHANGED <<updates, upd, refreshSem>>
           \/ \E u \in Updates : GoesOn(u) \/ Finish(u) \/ ReleaseToken(u)
           \/ \E u \in Updates, s \in Servers, p \in Repos, token \in BOOLEAN :
                  Starts(u, s, p, token)
<1>1. ASSUME NEW r \in Requests, NEW s \in Servers, NEW p \in Repos, GetMeta(r, s, p)
      PROVE  UNCHANGED <<updates, upd, refreshSem>>
    BY <1>1 DEF GetMeta
<1>2. ASSUME NEW r \in Requests, TriggerMetaRefresh(r)
      PROVE  \/ UNCHANGED <<updates, upd, refreshSem>>
             \/ \E u \in Updates, s \in Servers, p \in Repos, token \in BOOLEAN :
                    Starts(u, s, p, token)
    BY <1>2, TriggerEffect DEF Starts
<1>3. ASSUME NEW r \in Requests, GetOrStartMetaUpdate(r)
      PROVE  \/ UNCHANGED <<updates, upd, refreshSem>>
             \/ \E u \in Updates, s \in Servers, p \in Repos, token \in BOOLEAN :
                    Starts(u, s, p, token)
  <2>1. UNCHANGED refreshSem
    BY <1>3 DEF GetOrStartMetaUpdate
  <2> QED
    BY <1>3, <2>1, JoinEffect DEF Starts
<1>4. ASSUME NEW r \in Requests, Leave(r) PROVE UNCHANGED <<updates, upd, refreshSem>>
    BY <1>4 DEF Leave
<1> QED
    BY <1>1, <1>2, <1>3, <1>4, Steps

\* The records of updates keep their type and what is set in them.
LEMMA UpdatesStep ==
    ASSUME TypeOK, UpdateLife, RequestLife, [Next]_vars
    PROVE  /\ upd' \in [Updates -> UpdateRecords] /\ UpdateLife'
           /\ updates' \in [Servers -> [Repos -> Updates \cup {None}]]
<1> DEFINE Kept == /\ upd' \in [Updates -> UpdateRecords] /\ UpdateLife'
                   /\ updates' \in [Servers -> [Repos -> Updates \cup {None}]]
<1>1. ASSUME UNCHANGED <<updates, upd, refreshSem>> PROVE Kept
    BY <1>1 DEF TypeOK, UpdateLife, Life
<1>2. ASSUME NEW u \in Updates, GoesOn(u) PROVE Kept
  <2>1. UNCHANGED updates /\ Works(u)
    BY <1>2, StepsCarry
  <2>2. PICK pc, err, entry : Carries(u, pc, err, entry)
    BY <1>2, StepsCarry
  <2> QED
    BY <2>1, <2>2, CarriesKeeps DEF TypeOK
<1>3. ASSUME NEW u \in Updates, Finish(u) PROVE Kept
    BY <1>3, FinishEffect
<1>4. ASSUME NEW u \in Updates, ReleaseToken(u) PROVE Kept
  <2>1. UNCHANGED updates
    BY <1>4 DEF ReleaseToken
  <2> QED
    BY <1>4, <2>1, ReleaseEffect DEF TypeOK
<1>5. ASSUME NEW u \in Updates, NEW s \in Servers, NEW p \in Repos, NEW token \in BOOLEAN,
             Starts(u, s, p, token)
      PROVE  Kept
    BY <1>5, StartEffect DEF Starts
<1> HIDE DEF Kept
<1>6. Kept
    BY <1>2, <1>3, <1>4, <1>5, <1>1, UpdateSteps
<1> QED
    BY <1>6 DEF Kept

\* An update stays at its repository until it ends.
LEMMA WorkLasts ==
    ASSUME TypeOK, UpdateLife, RequestLife, [Next]_vars,
           NEW v \in Updates, NEW s, NEW p, WorksFor(v, s, p)
    PROVE  WorksFor(v, s, p)' \/ Finish(v)
<1>1. ASSUME UNCHANGED <<updates, upd, refreshSem>> PROVE WorksFor(v, s, p)'
    BY <1>1 DEF WorksFor, Works
<1>2. ASSUME NEW u \in Updates, GoesOn(u) PROVE WorksFor(v, s, p)'
  <2>1. Works(u)
    BY <1>2, StepsCarry
  <2>2. PICK pc, err, entry : Carries(u, pc, err, entry)
    BY <1>2, StepsCarry
  <2>3. /\ \A w \in Updates \ {u} : upd'[w] = upd[w]
        /\ upd'[u].pc \in WorkPC
        /\ upd'[u].server = upd[u].server /\ upd'[u].repo = upd[u].repo
    BY <2>1, <2>2, CarriesKeeps
  <2> QED
    BY <2>3 DEF WorksFor, Works
<1>3. ASSUME NEW u \in Updates, Finish(u), u # v PROVE WorksFor(v, s, p)'
    BY <1>3, FinishEffect DEF WorksFor, Works
<1>4. ASSUME NEW u \in Updates, ReleaseToken(u) PROVE WorksFor(v, s, p)'
  <2>1. upd[u].pc = "release" /\ \A w \in Updates \ {u} : upd'[w] = upd[w]
    BY <1>4, ReleaseEffect
  <2> QED
    BY <2>1 DEF WorksFor, Works, WorkPC
<1>5. ASSUME NEW u \in Updates, NEW s2 \in Servers, NEW p2 \in Repos, NEW token \in BOOLEAN,
             Starts(u, s2, p2, token)
      PROVE  WorksFor(v, s, p)'
  <2>1. upd[u].pc = "free" /\ \A w \in Updates \ {u} : upd'[w] = upd[w]
    BY <1>5, StartEffect DEF Starts
  <2> QED
    BY <2>1 DEF WorksFor, Works, WorkPC
<1> QED
    BY <1>1, <1>2, <1>3, <1>4, <1>5, UpdateSteps

\* One update per repository of a server, the one that its map names.
LEMMA FlightStep ==
    ASSUME TypeOK, UpdateLife, RequestLife, Flight, [Next]_vars
    PROVE  Flight'
<1> SUFFICES ASSUME NEW s \in Servers, NEW p \in Repos, NEW v \in Updates
             PROVE  WorksFor(v, s, p)' <=> updates'[s][p] = v
    BY DEF Flight
<1>1. WorksFor(v, s, p) <=> updates[s][p] = v
    BY DEF Flight
<1>2. ASSUME UNCHANGED <<updates, upd, refreshSem>> PROVE WorksFor(v, s, p)' <=> updates'[s][p] = v
    BY <1>1, <1>2 DEF WorksFor, Works
<1>3. ASSUME NEW u \in Updates, GoesOn(u) PROVE WorksFor(v, s, p)' <=> updates'[s][p] = v
  <2>1. Works(u) /\ UNCHANGED updates
    BY <1>3, StepsCarry
  <2>2. PICK pc, err, entry : Carries(u, pc, err, entry)
    BY <1>3, StepsCarry
  <2>3. /\ \A w \in Updates \ {u} : upd'[w] = upd[w]
        /\ upd'[u].pc \in WorkPC
        /\ upd'[u].server = upd[u].server /\ upd'[u].repo = upd[u].repo
    BY <2>1, <2>2, CarriesKeeps
  <2> QED
    BY <1>1, <2>1, <2>3 DEF WorksFor, Works
<1>4. ASSUME NEW u \in Updates, Finish(u) PROVE WorksFor(v, s, p)' <=> updates'[s][p] = v
  <2> DEFINE s0 == upd[u].server
             p0 == upd[u].repo
  <2>1. /\ Works(u) /\ s0 \in Servers /\ p0 \in Repos
        /\ \A w \in Updates \ {u} : upd'[w] = upd[w]
        /\ upd'[u].pc \notin WorkPC /\ updates'[s0][p0] = None
        /\ \A s2 \in Servers, p2 \in Repos :
               <<s2, p2>> # <<s0, p0>> => updates'[s2][p2] = updates[s2][p2]
    BY <1>4, FinishEffect DEF WorkPC
  <2>2. updates[s0][p0] = u
    BY <2>1 DEF Flight, WorksFor
  <2>3. CASE v = u
    <3>1. ~WorksFor(v, s, p)'
      BY <2>1, <2>3 DEF WorksFor, Works
    <3>2. updates[s][p] = v => s = s0 /\ p = p0
      BY <1>1, <2>3 DEF WorksFor
    <3> QED
      BY <2>1, <3>1, <3>2, MetaAssumption
  <2>4. CASE v # u
    <3>1. WorksFor(v, s, p)' <=> WorksFor(v, s, p)
      BY <2>1, <2>4 DEF WorksFor, Works
    <3> QED
      BY <1>1, <2>1, <2>2, <2>4, <3>1, MetaAssumption
  <2> QED
    BY <2>3, <2>4
<1>5. ASSUME NEW u \in Updates, ReleaseToken(u) PROVE WorksFor(v, s, p)' <=> updates'[s][p] = v
  <2>1. /\ upd[u].pc \notin WorkPC /\ upd'[u].pc \notin WorkPC
        /\ \A w \in Updates \ {u} : upd'[w] = upd[w]
    BY <1>5, ReleaseEffect DEF WorkPC
  <2>2. UNCHANGED updates
    BY <1>5 DEF ReleaseToken
  <2> QED
    BY <1>1, <2>1, <2>2 DEF WorksFor, Works
<1>6. ASSUME NEW u \in Updates, NEW s0 \in Servers, NEW p0 \in Repos, NEW token \in BOOLEAN,
             Starts(u, s0, p0, token)
      PROVE  WorksFor(v, s, p)' <=> updates'[s][p] = v
  <2>1. /\ upd[u].pc \notin WorkPC /\ \A w \in Updates \ {u} : upd'[w] = upd[w]
        /\ upd'[u].pc = "recheck" /\ upd'[u].server = s0 /\ upd'[u].repo = p0
        /\ updates[s0][p0] = None /\ updates'[s0][p0] = u
        /\ \A s2 \in Servers, p2 \in Repos :
               <<s2, p2>> # <<s0, p0>> => updates'[s2][p2] = updates[s2][p2]
    BY <1>6, StartEffect DEF Starts, WorkPC
  <2>2. "recheck" \in WorkPC
    BY DEF WorkPC, UpdatePC
  <2>3. CASE v = u
    <3>1. WorksFor(v, s, p)' <=> s = s0 /\ p = p0
      BY <2>1, <2>2, <2>3 DEF WorksFor, Works
    <3>2. updates[s][p] # v
      BY <1>1, <2>1, <2>3 DEF WorksFor, Works
    <3> QED
      BY <2>1, <2>3, <3>1, <3>2
  <2>4. CASE v # u
    <3>1. WorksFor(v, s, p)' <=> WorksFor(v, s, p)
      BY <2>1, <2>4 DEF WorksFor, Works
    <3> QED
      BY <1>1, <2>1, <2>4, <3>1, MetaAssumption
  <2> QED
    BY <2>3, <2>4
<1> QED
    BY <1>2, <1>3, <1>4, <1>5, <1>6, UpdateSteps

\* The steps that change callers.
LEMMA RequestSteps ==
    ASSUME TypeOK, RequestLife, [Next]_vars
    PROVE  \/ UNCHANGED req
           \/ \E u \in Updates : Finish(u)
           \/ \E r \in Requests : \/ \E s \in Servers, p \in Repos : GetMeta(r, s, p)
                                  \/ TriggerMetaRefresh(r) \/ GetOrStartMetaUpdate(r) \/ Leave(r)
<1>1. ASSUME NEW u \in Updates, GoesOn(u) \/ ReleaseToken(u) PROVE UNCHANGED req
    BY <1>1 DEF GoesOn, Recheck, ReadMeta, ReadFiles, StoreMeta, PublishUpdate, Fails, ReleaseToken
<1> QED
    BY <1>1, Steps

\* No update ends in the step of a caller.
LEMMA CallersDontFinish ==
    ASSUME TypeOK, UpdateLife, RequestLife, NEW r \in Requests,
           \/ \E s \in Servers, p \in Repos : GetMeta(r, s, p)
           \/ TriggerMetaRefresh(r) \/ GetOrStartMetaUpdate(r) \/ Leave(r),
           NEW u \in Updates
    PROVE  ~Finish(u)
<1>1. SUFFICES upd'[u].pc \notin {"free", "release"} \/ upd'[u] = upd[u]
  <2>1. Finish(u) => Works(u) /\ upd'[u].pc \in {"free", "release"}
    BY FinishEffect
  <2> QED
    BY <2>1 DEF Works, WorkPC
<1>2. CASE UNCHANGED upd
    BY <1>2
<1>3. ASSUME NEW v \in Updates, NEW s \in Servers, NEW p \in Repos, NEW token \in BOOLEAN,
             StartUpdate(v, s, p, token)
      PROVE  upd'[u].pc \notin {"free", "release"} \/ upd'[u] = upd[u]
    BY <1>3, StartEffect
<1>4. CASE TriggerMetaRefresh(r)
    BY <1>2, <1>3, <1>4, TriggerEffect
<1>5. CASE GetOrStartMetaUpdate(r)
    BY <1>2, <1>3, <1>5, JoinEffect
<1> QED
    BY <1>2, <1>4, <1>5 DEF GetMeta, Leave

\* A caller under way is at a repository, and what it waits for is at work on it.
LEMMA RequestsStep ==
    ASSUME TypeOK, UpdateLife, RequestLife, Flight, Waits, [Next]_vars
    PROVE  req' \in [Requests -> ReqRecords] /\ RequestLife' /\ Waits'
<1> DEFINE Fine(r) ==
        /\ req'[r].phase \in {"trigger", "join", "wait"} =>
               req'[r].server \in Servers /\ req'[r].repo \in Repos
        /\ req'[r].phase = "wait" =>
               req'[r].upd \in Updates /\ WorksFor(req[r].upd, req[r].server, req[r].repo)'
           Kept == req' \in [Requests -> ReqRecords] /\ \A r \in Requests : Fine(r)
<1>1. ASSUME NEW r \in Requests, req'[r] = req[r],
             req[r].phase = "wait" => ~Finish(req[r].upd)
      PROVE  Fine(r)
  <2>1. CASE req[r].phase = "wait"
    <3>1. req[r].upd \in Updates /\ WorksFor(req[r].upd, req[r].server, req[r].repo)
      BY <2>1 DEF Waits
    <3>2. WorksFor(req[r].upd, req[r].server, req[r].repo)'
      BY <1>1, <2>1, <3>1, WorkLasts
    <3> QED
      BY <1>1, <2>1, <3>1, <3>2 DEF RequestLife, Asks, WorksFor, Works
  <2>2. CASE req[r].phase # "wait"
    BY <1>1, <2>2 DEF RequestLife, Asks
  <2> QED
    BY <2>1, <2>2
<1>2. ASSUME UNCHANGED req, \A u \in Updates : ~Finish(u) PROVE Kept
    BY <1>1, <1>2 DEF TypeOK, Waits
<1>3. ASSUME NEW u \in Updates, Finish(u) PROVE Kept
  <2>1. ASSUME NEW v \in Updates, Finish(v) PROVE v = u
    BY <1>3, <2>1, FinishEffect DEF Works, WorkPC
  <2> SUFFICES ASSUME NEW r \in Requests PROVE Fine(r)
    BY <1>3, AnswerType
  <2>2. CASE req'[r] = req[r] /\ ~(req[r].phase = "wait" /\ req[r].upd = u)
    BY <1>1, <2>1, <2>2 DEF Waits
  <2>3. CASE req'[r].phase = "answered"
    BY <2>3
  <2> QED
    BY <1>3, <2>2, <2>3, AnswerEffect
<1>4. ASSUME NEW r \in Requests, \A u \in Updates : ~Finish(u),
             req' \in [Requests -> ReqRecords], \A q \in Requests \ {r} : req'[q] = req[q], Fine(r)
      PROVE  Kept
    BY <1>1, <1>4 DEF Waits
<1>5. ASSUME NEW r \in Requests, NEW s \in Servers, NEW p \in Repos, GetMeta(r, s, p) PROVE Kept
    BY <1>4, <1>5, AskEffect, CallersDontFinish
<1>6. ASSUME NEW r \in Requests, TriggerMetaRefresh(r) \/ Leave(r) PROVE Kept
  <2>1. Stays(r) /\ req'[r].phase \in {"answered", "left"}
    BY <1>6, TriggerEffect, LeaveEffect
  <2> QED
    BY <1>4, <1>6, <2>1, CallersDontFinish DEF Stays
<1>7. ASSUME NEW r \in Requests, GetOrStartMetaUpdate(r) PROVE Kept
  <2> DEFINE s == req[r].server
             p == req[r].repo
  <2>1. Stays(r) /\ req'[r].phase = "wait" /\ s \in Servers /\ p \in Repos
    BY <1>7, JoinEffect
  <2>2. req'[r].upd \in Updates /\ updates'[s][p] = req'[r].upd
    <3>1. CASE UNCHANGED <<updates, upd>> /\ updates[s][p] # None /\ req'[r].upd = updates[s][p]
      BY <2>1, <3>1 DEF TypeOK
    <3>2. ASSUME NEW u \in Updates, StartUpdate(u, s, p, FALSE), req'[r].upd = u
          PROVE  req'[r].upd \in Updates /\ updates'[s][p] = req'[r].upd
      BY <2>1, <3>2 DEF StartUpdate, TypeOK
    <3> QED
      BY <1>7, <3>1, <3>2, JoinEffect
  <2>3. WorksFor(req[r].upd, s, p)'
    BY <2>1, <2>2, FlightStep DEF Flight, Stays
  <2> QED
    BY <1>4, <1>7, <2>1, <2>2, <2>3, CallersDontFinish DEF Stays
<1>8. Kept
  <2> HIDE DEF Kept
  <2> QED
    BY <1>2, <1>3, <1>5, <1>6, <1>7, RequestSteps
<1> QED
    BY <1>8 DEF RequestLife, Waits, Asks

\* The tokens of a server that its updates hold.
Taken(s) == {u \in Updates : upd[u].token /\ upd[u].server = s}

LEMMA TakenFinite == ASSUME NEW s PROVE IsFiniteSet(Taken(s)) /\ Cardinality(Taken(s)) \in Nat
<1>1. Taken(s) \in SUBSET Updates
    BY DEF Taken
<1> QED
    BY <1>1, MetaAssumption, FS_Subset, FS_CardinalityType

\* A token is taken by the update it starts and given back by that update only.
LEMMA TokensStep ==
    ASSUME IInv, [Next]_vars
    PROVE  TokensAccounted' /\ refreshSem' \in [Servers -> 0 .. RefreshConcurrent]
<1>1. /\ TypeOK /\ UpdateLife /\ RequestLife
      /\ \A s \in Servers : refreshSem[s] = Cardinality(Taken(s))
      /\ refreshSem \in [Servers -> 0 .. RefreshConcurrent] /\ RefreshConcurrent \in Nat \ {0}
    BY MetaAssumption DEF IInv, TokensAccounted, Taken, TypeOK
<1> DEFINE Kept == /\ \A s \in Servers : refreshSem'[s] = Cardinality(Taken(s)')
                   /\ refreshSem' \in [Servers -> 0 .. RefreshConcurrent]
<1>2. ASSUME UNCHANGED refreshSem, \A s \in Servers : Taken(s)' = Taken(s) PROVE Kept
    BY <1>1, <1>2
<1>3. ASSUME UNCHANGED <<updates, upd, refreshSem>> PROVE Kept
  <2>1. \A s \in Servers : Taken(s)' = Taken(s)
    BY <1>3 DEF Taken
  <2> QED
    BY <1>2, <1>3, <2>1
<1>4. ASSUME NEW u \in Updates, GoesOn(u) PROVE Kept
  <2>1. Works(u) /\ UNCHANGED refreshSem
    BY <1>1, <1>4, StepsCarry
  <2>2. PICK pc, err, entry : Carries(u, pc, err, entry)
    BY <1>1, <1>4, StepsCarry
  <2>3. /\ \A v \in Updates \ {u} : upd'[v] = upd[v]
        /\ upd'[u].server = upd[u].server /\ upd'[u].token = upd[u].token
    BY <1>1, <2>1, <2>2, CarriesKeeps
  <2>4. \A s \in Servers : Taken(s)' = Taken(s)
    BY <2>3 DEF Taken
  <2> QED
    BY <1>2, <2>1, <2>4
<1>5. ASSUME NEW u \in Updates, Finish(u) PROVE Kept
  <2>1. /\ \A v \in Updates \ {u} : upd'[v] = upd[v]
        /\ upd'[u].token = upd[u].token /\ (upd[u].token => upd'[u].server = upd[u].server)
    BY <1>1, <1>5, FinishEffect
  <2>2. \A s \in Servers : Taken(s)' = Taken(s)
    BY <2>1 DEF Taken
  <2>3. UNCHANGED refreshSem
    BY <1>5 DEF Finish
  <2> QED
    BY <1>2, <2>2, <2>3
<1>6. ASSUME NEW u \in Updates, ReleaseToken(u) PROVE Kept
  <2>0. PICK s0 \in Servers : s0 = upd[u].server
    BY <1>1, <1>6, ReleaseEffect
  <2>1. /\ upd[u].token /\ upd[u].server = s0 /\ \A v \in Updates \ {u} : upd'[v] = upd[v]
        /\ ~upd'[u].token /\ refreshSem' = [refreshSem EXCEPT ![s0] = refreshSem[s0] - 1]
    BY <1>1, <1>6, <2>0, ReleaseEffect
  <2>2. u \in Taken(s0) /\ Taken(s0)' = Taken(s0) \ {u}
    BY <2>1 DEF Taken
  <2>3. \A s \in Servers \ {s0} : Taken(s)' = Taken(s)
    BY <2>1 DEF Taken
  <2>4. Cardinality(Taken(s0)') = Cardinality(Taken(s0)) - 1
    BY <2>2, TakenFinite, FS_RemoveElement
  <2>5. Cardinality(Taken(s0)) # 0
    BY <2>2, TakenFinite, FS_EmptySet
  <2>6. refreshSem[s0] - 1 \in 0 .. RefreshConcurrent
    BY <1>1, <2>1, <2>5
  <2>7. refreshSem' \in [Servers -> 0 .. RefreshConcurrent]
    BY <1>1, <2>1, <2>6
  <2>8. ASSUME NEW s \in Servers PROVE refreshSem'[s] = Cardinality(Taken(s)')
    BY <1>1, <2>1, <2>3, <2>4
  <2> QED
    BY <2>7, <2>8
<1>7. ASSUME NEW u \in Updates, NEW s0 \in Servers, NEW p \in Repos, Starts(u, s0, p, FALSE)
      PROVE  Kept
  <2>1. /\ ~upd[u].token /\ ~upd'[u].token /\ \A v \in Updates \ {u} : upd'[v] = upd[v]
    BY <1>1, <1>7, StartEffect DEF Starts, UpdateLife, Life
  <2>2. \A s \in Servers : Taken(s)' = Taken(s)
    BY <2>1 DEF Taken
  <2> QED
    BY <1>2, <1>7, <2>2 DEF Starts
<1>8. ASSUME NEW u \in Updates, NEW s0 \in Servers, NEW p \in Repos, Starts(u, s0, p, TRUE)
      PROVE  Kept
  <2>1. /\ ~upd[u].token /\ upd'[u].token /\ upd'[u].server = s0
        /\ \A v \in Updates \ {u} : upd'[v] = upd[v]
    <3>1. StartUpdate(u, s0, p, TRUE) /\ TRUE \in BOOLEAN
      BY <1>8 DEF Starts
    <3>2. /\ upd[u].pc = "free" /\ upd'[u].token = TRUE /\ upd'[u].server = s0
          /\ \A v \in Updates \ {u} : upd'[v] = upd[v]
      BY <1>1, <3>1, StartEffect
    <3> QED
      BY <1>1, <3>2 DEF UpdateLife, Life
  <2>2. u \notin Taken(s0) /\ Taken(s0)' = Taken(s0) \cup {u}
    BY <2>1 DEF Taken
  <2>3. \A s \in Servers \ {s0} : Taken(s)' = Taken(s)
    BY <2>1 DEF Taken
  <2>4. Cardinality(Taken(s0)') = Cardinality(Taken(s0)) + 1
    BY <2>2, TakenFinite, FS_AddElement
  <2>5. /\ refreshSem[s0] # RefreshConcurrent
        /\ refreshSem' = [refreshSem EXCEPT ![s0] = refreshSem[s0] + 1]
    BY <1>8 DEF Starts
  <2>6. refreshSem[s0] + 1 \in 0 .. RefreshConcurrent
    BY <1>1, <2>5
  <2>7. refreshSem' \in [Servers -> 0 .. RefreshConcurrent]
    BY <1>1, <2>5, <2>6
  <2>8. ASSUME NEW s \in Servers PROVE refreshSem'[s] = Cardinality(Taken(s)')
    BY <1>1, <2>3, <2>4, <2>5
  <2> QED
    BY <2>7, <2>8
<1>9. Kept
  <2> HIDE DEF Kept
  <2> QED
    BY <1>1, <1>3, <1>4, <1>5, <1>6, <1>7, <1>8, UpdateSteps
<1> QED
    BY <1>9 DEF TokensAccounted, Taken

\* The steps that change the store and the head of a repository.
LEMMA StoreSteps ==
    ASSUME [Next]_vars
    PROVE  \/ UNCHANGED <<head, cache, newest>>
           \/ \E p \in Repos : Push(p) \/ RefreshDue(p) \/ Expire(p)
           \/ \E u \in Updates : StoreMeta(u)
<1>1. CASE UNCHANGED vars
    BY <1>1 DEF vars
<1>2. CASE \E r \in Requests : Caller(r)
    BY <1>2 DEF Caller, GetMeta, TriggerMetaRefresh, GetOrStartMetaUpdate, Leave
<1>3. CASE \E u \in Updates : RunMetaUpdate(u)
    BY <1>3 DEF RunMetaUpdate, Recheck, ReadMeta, ReadFiles, PublishUpdate, Fails, Finish, ReleaseToken
<1> QED
    BY <1>1, <1>2, <1>3 DEF Next, World

\* What is stored is the entry of the update, and newest remembers its commit.
LEMMA StoreEffect ==
    ASSUME TypeOK, UpdateLife, NEW u \in Updates, StoreMeta(u)
    PROVE  LET p == upd[u].repo
               e == upd[u].entry
           IN  /\ Works(u) /\ p \in Repos /\ e \in Entries /\ e # None /\ e.commit \in Commits
               /\ UNCHANGED head
               /\ \/ UNCHANGED <<cache, newest>>
                  \/ /\ cache' = [cache EXCEPT ![p] = e]
                     /\ newest' = [newest EXCEPT ![p] = IF e.commit > newest[p] THEN e.commit
                                                        ELSE newest[p]]
<1>1. Works(u) /\ upd[u].repo \in Repos /\ upd[u].entry \in Entries
    BY DEF StoreMeta, UpdateLife, Life, Works, WorkPC, UpdatePC
<1>2. upd[u].entry # None /\ upd[u].entry.commit \in Commits
    BY <1>1, MetaAssumption DEF Entries
<1> QED
    BY <1>1, <1>2 DEF StoreMeta

\* They keep the types of the store.
LEMMA StoreTypes ==
    ASSUME TypeOK, UpdateLife, [Next]_vars
    PROVE  /\ head' \in [Repos -> Commits] /\ cache' \in [Repos -> Entries \cup {None}]
           /\ newest' \in [Repos -> {-1} \cup Commits]
<1>1. CASE UNCHANGED <<head, cache, newest>>
    BY <1>1 DEF TypeOK
<1>2. ASSUME NEW p \in Repos, Push(p)
      PROVE  /\ head' \in [Repos -> Commits] /\ UNCHANGED <<cache, newest>>
  <2>1. head[p] + 1 \in Commits
    BY <1>2, MetaAssumption DEF TypeOK, Push, Commits
  <2> QED
    BY <1>2, <2>1 DEF TypeOK, Push
<1>3. ASSUME NEW p \in Repos, RefreshDue(p)
      PROVE  /\ cache' \in [Repos -> Entries \cup {None}] /\ UNCHANGED <<head, newest>>
  <2>1. cache[p] \in Entries
    BY <1>3 DEF TypeOK, RefreshDue
  <2>2. [cache[p] EXCEPT !.fresh = FALSE] \in Entries
    BY <2>1 DEF Entries
  <2>3. cache' = [cache EXCEPT ![p] = [cache[p] EXCEPT !.fresh = FALSE]]
    BY <1>3 DEF TypeOK, RefreshDue
  <2> QED
    BY <1>3, <2>2, <2>3 DEF TypeOK, RefreshDue
<1>4. ASSUME NEW p \in Repos, Expire(p)
      PROVE  /\ cache' \in [Repos -> Entries \cup {None}] /\ UNCHANGED <<head, newest>>
    BY <1>4 DEF TypeOK, Expire
<1>5. ASSUME NEW u \in Updates, StoreMeta(u)
      PROVE  /\ cache' \in [Repos -> Entries \cup {None}] /\ UNCHANGED head
             /\ newest' \in [Repos -> {-1} \cup Commits]
    BY <1>5, StoreEffect DEF TypeOK
<1> QED
    BY <1>1, <1>2, <1>3, <1>4, <1>5, StoreSteps DEF TypeOK

\* On one server the updates of a repository follow one another.
LEMMA OneAtATime ==
    ASSUME Cardinality(Servers) = 1, UpdateLife, Flight,
           NEW u \in Updates, NEW v \in Updates, Works(u), Works(v), upd[u].repo = upd[v].repo
    PROVE  u = v
<1>1. PICK s : Servers = {s}
    BY MetaAssumption, FS_Singleton
<1>2. ASSUME NEW w \in Updates, Works(w)
      PROVE  upd[w].server = s /\ upd[w].repo \in Repos
    BY <1>1, <1>2 DEF UpdateLife, Life, Works, WorkPC
<1>3. WorksFor(u, s, upd[u].repo) /\ WorksFor(v, s, upd[u].repo)
    BY <1>2 DEF WorksFor
<1> QED
    BY <1>1, <1>2, <1>3 DEF Flight

\* The heads only grow, and so does what is remembered of the store.
LEMMA StoreGrows ==
    ASSUME TypeOK, UpdateLife, [Next]_vars, NEW p \in Repos
    PROVE  head[p] <= head'[p] /\ newest[p] <= newest'[p]
<1>1. head[p] \in Int /\ newest[p] \in Int
    BY MetaAssumption DEF TypeOK, Commits
<1>2. CASE UNCHANGED <<head, cache, newest>>
    BY <1>1, <1>2
<1>3. ASSUME NEW q \in Repos, Push(q) \/ RefreshDue(q) \/ Expire(q)
      PROVE  head[p] <= head'[p] /\ newest[p] <= newest'[p]
    BY <1>1, <1>3 DEF TypeOK, Push, RefreshDue, Expire
<1>4. ASSUME NEW u \in Updates, StoreMeta(u)
      PROVE  head[p] <= head'[p] /\ newest[p] <= newest'[p]
  <2> DEFINE c == upd[u].entry.commit
             q == upd[u].repo
  <2>1. /\ UNCHANGED head /\ c \in Int /\ q \in Repos
        /\ \/ UNCHANGED newest
           \/ newest' = [newest EXCEPT ![q] = IF c > newest[q] THEN c ELSE newest[q]]
    BY <1>4, StoreEffect, MetaAssumption DEF Commits
  <2> HIDE DEF c, q
  <2> QED
    BY <1>1, <2>1 DEF TypeOK
<1> QED
    BY <1>2, <1>3, <1>4, StoreSteps

\* What is stored is the newest ever stored.
LEMMA StoredStep ==
    ASSUME IInv, Cardinality(Servers) = 1, [Next]_vars
    PROVE  StoredIsNewest'
<1>1. TypeOK /\ UpdateLife /\ StoredIsNewest /\ CarriesNewest
    BY DEF IInv, Newest
<1>2. CASE UNCHANGED <<head, cache, newest>>
    BY <1>1, <1>2 DEF StoredIsNewest
<1>3. ASSUME NEW q \in Repos, Push(q) PROVE StoredIsNewest'
  <2>1. \A p \in Repos : head[p] <= head'[p] /\ head[p] \in Int /\ head'[p] \in Int /\ newest[p] \in Int
    BY <1>1, StoreGrows, StoreTypes, MetaAssumption DEF TypeOK, Commits
  <2> QED
    BY <1>1, <1>3, <2>1 DEF StoredIsNewest, Push
<1>4. ASSUME NEW q \in Repos, RefreshDue(q) \/ Expire(q) PROVE StoredIsNewest'
  <2>1. \A p \in Repos : cache'[p] # None => cache[p] # None /\ cache'[p].commit = cache[p].commit
    <3>1. CASE Expire(q)
      BY <1>1, <3>1 DEF TypeOK, Expire
    <3>2. CASE RefreshDue(q)
      <4>1. cache[q] \in Entries /\ cache[q] # None
        BY <1>1, <3>2 DEF TypeOK, RefreshDue
      <4>2. [cache[q] EXCEPT !.fresh = FALSE].commit = cache[q].commit
        BY <4>1 DEF Entries
      <4>3. cache' = [cache EXCEPT ![q] = [cache[q] EXCEPT !.fresh = FALSE]]
        BY <1>1, <3>2 DEF TypeOK, RefreshDue
      <4> QED
        BY <1>1, <4>1, <4>2, <4>3 DEF TypeOK
    <3> QED
      BY <1>4, <3>1, <3>2
  <2> QED
    BY <1>1, <1>4, <2>1 DEF StoredIsNewest, RefreshDue, Expire
<1>5. ASSUME NEW u \in Updates, StoreMeta(u) PROVE StoredIsNewest'
  <2> DEFINE e == upd[u].entry
             q == upd[u].repo
  <2>1. /\ Works(u) /\ q \in Repos /\ e # None /\ e.commit \in Int /\ UNCHANGED head
        /\ \/ UNCHANGED <<cache, newest>>
           \/ /\ cache' = [cache EXCEPT ![q] = e]
              /\ newest' = [newest EXCEPT ![q] = IF e.commit > newest[q] THEN e.commit
                                                 ELSE newest[q]]
    BY <1>1, <1>5, StoreEffect, MetaAssumption DEF Commits
  <2>2. e.commit \in newest[q] .. head[q] /\ newest[q] \in Int /\ head[q] \in Int
    BY <1>1, <2>1, MetaAssumption DEF CarriesNewest, TypeOK, Commits
  <2> HIDE DEF e, q
  <2>3. (IF e.commit > newest[q] THEN e.commit ELSE newest[q]) = e.commit /\ e.commit <= head[q]
    BY <2>1, <2>2
  <2> QED
    BY <1>1, <2>1, <2>3 DEF StoredIsNewest, TypeOK
<1> QED
    BY <1>2, <1>3, <1>4, <1>5, StoreSteps

\* The numbers that are compared.
LEMMA Numbers ==
    ASSUME TypeOK
    PROVE  /\ \A p \in Repos : head[p] \in Int /\ newest[p] \in Int
           /\ \A e \in Entries : e.commit \in Int
           /\ \A r \in Requests : req[r].floor \in Int
<1>1. Commits \subseteq Int /\ {-1} \cup Commits \subseteq Int
    BY MetaAssumption DEF Commits
<1>2. \A e \in Entries : e.commit \in Int
  <2>1. \A e \in Entries : e.commit \in Commits
    BY DEF Entries
  <2> QED
    BY <1>1, <2>1
<1>3. \A r \in Requests : req[r].floor \in Int
  <2>1. \A r \in Requests : req[r] \in ReqRecords
    BY DEF TypeOK
  <2>2. \A x \in ReqRecords : x.floor \in {-1} \cup Commits
    BY DEF ReqRecords
  <2> QED
    BY <1>1, <2>1, <2>2
<1>4. \A p \in Repos : head[p] \in Int /\ newest[p] \in Int
  <2>1. head \in [Repos -> Commits] /\ newest \in [Repos -> {-1} \cup Commits]
    BY DEF TypeOK
  <2> QED
    BY <1>1, <2>1
<1> QED
    BY <1>2, <1>3, <1>4

\* An update that stores goes on.
LEMMA StoreMoves ==
    ASSUME TypeOK, NEW u \in Updates, StoreMeta(u)
    PROVE  upd[u].pc = "store" /\ upd'[u].pc \in {"publish", "finish"}
    BY DEF StoreMeta, Moves, TypeOK, UpdateRecords

\* A repository that no update stores for keeps what is remembered of it.
LEMMA StoredElsewhere ==
    ASSUME TypeOK, UpdateLife, [Next]_vars, NEW p \in Repos,
           \A u \in Updates : StoreMeta(u) => upd[u].repo # p
    PROVE  newest'[p] = newest[p]
<1>1. ASSUME NEW u \in Updates, StoreMeta(u) PROVE newest'[p] = newest[p]
  <2>1. upd[u].repo # p
    BY <1>1
  <2>2. \/ UNCHANGED newest
        \/ newest' = [newest EXCEPT ![upd[u].repo] =
                          IF upd[u].entry.commit > newest[upd[u].repo] THEN upd[u].entry.commit
                          ELSE newest[upd[u].repo]]
    BY <1>1, StoreEffect
  <2> QED
    BY <2>1, <2>2 DEF TypeOK
<1> QED
    BY <1>1, StoreSteps DEF Push, RefreshDue, Expire

\* An update carries nothing older than what is stored.
LEMMA CarriesStep ==
    ASSUME IInv, Cardinality(Servers) = 1, [Next]_vars
    PROVE  CarriesNewest'
<1>1. TypeOK /\ UpdateLife /\ RequestLife /\ Flight /\ StoredIsNewest /\ CarriesNewest
    BY DEF IInv, Newest
<1>2. upd' \in [Updates -> UpdateRecords] /\ UpdateLife' /\ \A v \in Updates : Life(upd[v])
    BY <1>1, UpdatesStep DEF UpdateLife
<1> DEFINE Fine(v) == Works(v)' /\ upd'[v].entry # None =>
               upd'[v].entry.commit \in newest'[upd'[v].repo] .. head'[upd'[v].repo]
<1>3. ASSUME NEW v \in Updates, upd'[v] = upd[v],
             \A u \in Updates : StoreMeta(u) => u # v
      PROVE  Fine(v)
  <2> SUFFICES ASSUME Works(v), upd[v].entry # None
               PROVE  upd[v].entry.commit \in newest'[upd[v].repo] .. head'[upd[v].repo]
    BY <1>3 DEF Works
  <2>1. upd[v].repo \in Repos
    BY <1>2 DEF Life, Works
  <2>2. \A u \in Updates : StoreMeta(u) => upd[u].repo # upd[v].repo
    BY <1>1, <1>3, OneAtATime, StoreEffect
  <2>3. newest'[upd[v].repo] = newest[upd[v].repo] /\ head[upd[v].repo] <= head'[upd[v].repo]
    BY <1>1, <2>1, <2>2, StoredElsewhere, StoreGrows
  <2>4. upd[v].entry.commit \in newest[upd[v].repo] .. head[upd[v].repo]
    BY <1>1 DEF CarriesNewest
  <2>5. head[upd[v].repo] \in Int /\ newest[upd[v].repo] \in Int /\ head'[upd[v].repo] \in Int
    BY <1>1, <2>1, Numbers, StoreTypes, MetaAssumption DEF Commits
  <2> QED
    BY <2>3, <2>4, <2>5
<1>4. ASSUME UNCHANGED upd, \A u \in Updates : ~StoreMeta(u) PROVE CarriesNewest'
    BY <1>3, <1>4 DEF CarriesNewest
<1>5. ASSUME NEW u \in Updates, GoesOn(u), ~StoreMeta(u) PROVE CarriesNewest'
  <2>1. Works(u) /\ upd[u].repo \in Repos
    BY <1>1, <1>2, <1>5, StepsCarry DEF Life, Works
  <2>2. PICK pc, err, entry : Carries(u, pc, err, entry) /\ Source(u, entry)
    BY <1>1, <1>5, StepsCarry
  <2>3. /\ \A v \in Updates \ {u} : upd'[v] = upd[v]
        /\ upd'[u].repo = upd[u].repo /\ upd'[u].entry = entry
    BY <1>1, <2>1, <2>2, CarriesKeeps
  <2>4. UNCHANGED <<head, cache, newest>>
    BY <1>5 DEF GoesOn, Recheck, ReadMeta, ReadFiles, PublishUpdate, Fails
  <2>5. newest[upd[u].repo] <= head[upd[u].repo] /\ newest[upd[u].repo] \in Int
        /\ head[upd[u].repo] \in Int
    BY <1>1, <2>1, Numbers DEF StoredIsNewest
  <2>6. entry # None => entry.commit \in newest[upd[u].repo] .. head[upd[u].repo]
    <3>1. CASE entry = cache[upd[u].repo]
      BY <1>1, <2>1, <2>5, <3>1 DEF StoredIsNewest
    <3>2. CASE entry.commit = head[upd[u].repo]
      BY <2>5, <3>2
    <3>3. CASE upd[u].entry # None /\ entry.commit = upd[u].entry.commit
      BY <1>1, <2>1, <3>3 DEF CarriesNewest
    <3> QED
      BY <2>2, <3>1, <3>2, <3>3 DEF Source
  <2>7. Fine(u)
    BY <2>3, <2>4, <2>6
  <2>8. ASSUME NEW v \in Updates \ {u} PROVE Fine(v)
    BY <1>1, <2>1, <2>3, <2>4, <2>8 DEF CarriesNewest, Works
  <2> QED
    BY <2>7, <2>8 DEF CarriesNewest
<1>6. ASSUME NEW u \in Updates, StoreMeta(u) PROVE CarriesNewest'
  <2> DEFINE e == upd[u].entry
             q == upd[u].repo
  <2>1. /\ Works(u) /\ q \in Repos /\ e # None /\ e.commit \in Int /\ UNCHANGED head
        /\ \/ UNCHANGED newest
           \/ newest' = [newest EXCEPT ![q] = IF e.commit > newest[q] THEN e.commit
                                              ELSE newest[q]]
    BY <1>1, <1>6, StoreEffect, MetaAssumption DEF Commits
  <2>2. e.commit \in newest[q] .. head[q] /\ newest[q] \in Int /\ head[q] \in Int
    BY <1>1, <2>1, Numbers DEF CarriesNewest
  <2>3. PICK to : Moves(u, to)
    BY <1>6 DEF StoreMeta
  <2>4. /\ \A v \in Updates \ {u} : upd'[v] = upd[v]
        /\ upd'[u].repo = q /\ upd'[u].entry = e
    <3>1. upd[u] \in UpdateRecords
      BY <1>1 DEF TypeOK
    <3> QED
      BY <1>1, <2>3, <3>1 DEF Moves, TypeOK, UpdateRecords
  <2>5. Fine(u)
    <3> HIDE DEF e, q
    <3>1. newest'[q] <= e.commit /\ newest'[q] \in Int
      BY <1>1, <2>1, <2>2 DEF TypeOK
    <3> QED
      BY <2>1, <2>2, <2>4, <3>1
  <2>6. \A w \in Updates : StoreMeta(w) => w = u
    BY <1>1, <2>4, StoreMoves
  <2>7. ASSUME NEW v \in Updates \ {u} PROVE Fine(v)
    BY <1>3, <2>4, <2>6, <2>7
  <2> QED
    BY <2>5, <2>7 DEF CarriesNewest
<1>7. ASSUME NEW u \in Updates, \A v \in Updates \ {u} : upd'[v] = upd[v],
             ~Works(u)' \/ upd'[u].entry = None, \A v \in Updates : ~StoreMeta(v)
      PROVE  CarriesNewest'
    BY <1>3, <1>7 DEF CarriesNewest
<1>8. ASSUME NEW u \in Updates, Finish(u) \/ ReleaseToken(u) PROVE CarriesNewest'
  <2>1. /\ \A v \in Updates \ {u} : upd'[v] = upd[v]
        /\ upd'[u].pc \in {"free", "release"}
    BY <1>1, <1>8, FinishEffect, ReleaseEffect
  <2>2. UNCHANGED <<head, newest>>
    BY <1>8 DEF Finish, ReleaseToken
  <2> QED
    BY <1>1, <2>1, <2>2 DEF CarriesNewest, Works, WorkPC
<1>9. ASSUME NEW u \in Updates, NEW s \in Servers, NEW p \in Repos, NEW token \in BOOLEAN,
             Starts(u, s, p, token)
      PROVE  CarriesNewest'
  <2>1. /\ \A v \in Updates \ {u} : upd'[v] = upd[v]
        /\ upd[u].pc = "free" /\ upd'[u].pc = "recheck" /\ upd'[u].entry = None
    BY <1>1, <1>9, StartEffect DEF Starts
  <2>2. \A v \in Updates : ~StoreMeta(v)
    BY <1>1, <2>1, StoreMoves
  <2> QED
    BY <1>7, <2>1, <2>2
<1>10. ASSUME UNCHANGED upd PROVE \A u \in Updates : ~StoreMeta(u)
    BY <1>1, <1>10, StoreMoves
<1> QED
    BY <1>1, <1>4, <1>5, <1>6, <1>8, <1>9, <1>10, UpdateSteps

\* No caller asks for anything newer than what is stored.
LEMMA AsksStep ==
    ASSUME IInv, Cardinality(Servers) = 1, [Next]_vars
    PROVE  AsksForStored'
<1>1. /\ TypeOK /\ UpdateLife /\ RequestLife /\ Waits
      /\ StoredIsNewest /\ CarriesNewest /\ AsksForStored
    BY DEF IInv, Newest
<1>2. req' \in [Requests -> ReqRecords] /\ \A e \in Entries : e.commit \in Int
    BY <1>1, RequestsStep, Numbers DEF IInv
<1> DEFINE Fine(r) ==
        /\ req'[r].phase \in {"trigger", "join", "wait"} => req'[r].floor <= newest'[req'[r].repo]
        /\ req'[r].phase \in {"trigger", "answered"} /\ req'[r].entry # None =>
               req'[r].entry.commit >= req'[r].floor
<1>3. ASSUME NEW p \in Repos PROVE newest[p] <= newest'[p] /\ newest[p] \in Int /\ newest'[p] \in Int
    BY <1>1, <1>3, StoreGrows, StoreTypes, Numbers, MetaAssumption DEF Commits
<1>4. ASSUME NEW r \in Requests,
             req'[r].phase = req[r].phase \/ (req'[r].phase = "wait" /\ req[r].phase = "join")
                 \/ req'[r].phase = "left" \/ (req'[r].phase = "answered" /\ req[r].phase = "trigger"),
             req'[r].repo = req[r].repo, req'[r].floor = req[r].floor, req'[r].entry = req[r].entry
      PROVE  Fine(r)
  <2>1. Asks(r) => /\ req[r].repo \in Repos /\ req[r].floor \in Int
                   /\ req[r].floor <= newest[req[r].repo]
    BY <1>1, Numbers DEF RequestLife, AsksForStored
  <2>2. req[r].phase \in {"trigger", "answered"} /\ req[r].entry # None =>
            req[r].entry.commit >= req[r].floor
    BY <1>1 DEF AsksForStored
  <2>3. req'[r].phase \in {"trigger", "join", "wait"} => Asks(r)
    BY <1>4 DEF Asks
  <2>4. req'[r].phase \in {"trigger", "join", "wait"} => req[r].floor <= newest'[req[r].repo]
    BY <1>3, <2>1, <2>3
  <2> QED
    BY <1>4, <2>2, <2>4
<1>5. CASE UNCHANGED req
    BY <1>4, <1>5 DEF AsksForStored, Asks
<1>6. ASSUME NEW u \in Updates, Finish(u), NEW r \in Requests PROVE Fine(r)
  <2>1. CASE req'[r] = req[r]
    BY <1>4, <2>1
  <2>2. CASE /\ req[r].phase = "wait" /\ req[r].upd = u
             /\ req'[r].phase = "answered" /\ req'[r].entry = upd[u].entry
             /\ req'[r].repo = req[r].repo /\ req'[r].floor = req[r].floor
    <3>1. /\ Works(u) /\ upd[u].repo = req[r].repo /\ req[r].repo \in Repos
          /\ req[r].floor <= newest[req[r].repo]
      BY <1>1, <2>2 DEF Waits, WorksFor, RequestLife, AsksForStored, Asks
    <3>2. upd[u].entry # None => upd[u].entry.commit >= newest[req[r].repo]
                                 /\ upd[u].entry.commit \in Int
      BY <1>1, <3>1, Numbers DEF CarriesNewest
    <3>3. newest[req[r].repo] \in Int /\ req[r].floor \in Int
      BY <1>1, <3>1, Numbers
    <3> QED
      BY <2>2, <3>1, <3>2, <3>3
  <2> QED
    BY <1>1, <1>6, <2>1, <2>2, AnswerEffect
<1>7. ASSUME NEW r \in Requests, \A q \in Requests \ {r} : req'[q] = req[q], Fine(r)
      PROVE  AsksForStored'
    BY <1>4, <1>7 DEF AsksForStored, Asks
<1>8. ASSUME NEW r \in Requests, NEW s \in Servers, NEW p \in Repos, GetMeta(r, s, p)
      PROVE  AsksForStored'
  <2>1. /\ \A q \in Requests \ {r} : req'[q] = req[q]
        /\ req'[r].repo = p /\ req'[r].floor = newest[p] /\ req'[r].entry \in {None, cache[p]}
    BY <1>1, <1>8, AskEffect
  <2>2. cache[p] # None => cache[p].commit = newest[p]
    BY <1>1 DEF StoredIsNewest
  <2>3. Fine(r)
    BY <1>3, <2>1, <2>2
  <2> QED
    BY <1>7, <2>1, <2>3
<1>9. ASSUME NEW r \in Requests, TriggerMetaRefresh(r) \/ GetOrStartMetaUpdate(r) \/ Leave(r)
      PROVE  AsksForStored'
  <2>1. /\ Stays(r)
        /\ \/ req'[r].phase = "answered" /\ req[r].phase = "trigger"
           \/ req'[r].phase = "wait" /\ req[r].phase = "join"
           \/ req'[r].phase = "left"
    BY <1>1, <1>9, TriggerEffect, JoinEffect, LeaveEffect
  <2>2. Fine(r)
    BY <1>4, <2>1 DEF Stays
  <2> QED
    BY <1>7, <2>1, <2>2 DEF Stays
<1> QED
    BY <1>1, <1>5, <1>6, <1>8, <1>9, RequestSteps DEF AsksForStored, Asks
-----------------------------------------------------------------------------
\* Initially nothing is stored, no update is at work and nobody asks.
LEMMA InitIInv == Init => IInv
<1> SUFFICES ASSUME Init PROVE IInv
    OBVIOUS
<1>1. /\ IdleRequest \in ReqRecords /\ IdleRequest.phase = "idle"
      /\ FreeUpdate.pc = "free" /\ FreeUpdate.token = FALSE
    BY DEF IdleRequest, FreeUpdate, ReqRecords, ReqPhases, Answers
<1>2. 0 \in Commits /\ 0 \in 0 .. RefreshConcurrent
    BY MetaAssumption DEF Commits
<1>3. TypeOK
    BY <1>1, <1>2, FreeType DEF Init, TypeOK
<1>4. UpdateLife /\ RequestLife /\ Waits
    BY <1>1, FreeType DEF Init, UpdateLife, RequestLife, Asks, Waits
<1>5. Flight
    BY <1>1, MetaAssumption DEF Init, Flight, WorksFor, Works, WorkPC
<1>6. TokensAccounted
  <2>1. \A s \in Servers : Taken(s) = {}
    BY <1>1 DEF Init, Taken
  <2> QED
    BY <2>1, FS_EmptySet DEF Init, TokensAccounted, Taken
<1>7. StoredIsNewest /\ CarriesNewest /\ AsksForStored
  <2>1. StoredIsNewest
    BY DEF Init, StoredIsNewest
  <2>2. CarriesNewest
    BY <1>1 DEF Init, CarriesNewest, Works, WorkPC
  <2>3. AsksForStored
    BY <1>1 DEF Init, AsksForStored, Asks
  <2> QED
    BY <2>1, <2>2, <2>3
<1> QED
    BY <1>3, <1>4, <1>5, <1>6, <1>7 DEF IInv, Newest

LEMMA NextIInv == IInv /\ [Next]_vars => IInv'
<1> SUFFICES ASSUME IInv, [Next]_vars PROVE IInv'
    OBVIOUS
<1>1. TypeOK /\ UpdateLife /\ RequestLife /\ Flight /\ Waits
    BY DEF IInv
<1>2. TypeOK' /\ UpdateLife'
    BY <1>1, UpdatesStep, StoreTypes, TokensStep, RequestsStep DEF TypeOK
<1>3. RequestLife' /\ Flight' /\ Waits' /\ TokensAccounted'
    BY <1>1, RequestsStep, FlightStep, TokensStep
<1>4. Newest'
    BY StoredStep, CarriesStep, AsksStep DEF Newest
<1> QED
    BY <1>2, <1>3, <1>4 DEF IInv

\* The inductive invariant holds of every state of a run.
THEOREM Invariance == Spec => []IInv
    BY InitIInv, NextIInv, PTL DEF Spec

\* Every variable keeps its type; in particular refreshSem never holds more
\* tokens than it has, nor fewer than none (meta.go:168-181).
THEOREM TypeCorrect == Spec => []TypeOK
<1>1. IInv => TypeOK
    BY DEF IInv
<1> QED
    BY <1>1, Invariance, PTL

\* A server runs at most one update per repository, which its updates map names
\* as long as it runs, and who waits, waits for one that runs (meta.go:153-218).
THEOREM OneUpdateAtATime == Spec => []SingleFlight
<1>1. IInv => SingleFlight
  <2> SUFFICES ASSUME IInv PROVE SingleFlight
      OBVIOUS
  <2>1. /\ \A u \in Updates : upd[u].pc \in UpdatePC
        /\ \A s \in Servers, p \in Repos : updates[s][p] \in Updates \cup {None}
      BY DEF IInv, TypeOK, UpdateRecords
  <2>2. ASSUME NEW s, NEW p, NEW u
        PROVE  u \in Running(s, p) <=> u \in Updates /\ WorksFor(u, s, p)
      BY <2>1 DEF Running, WorksFor, Works, WorkPC
  <2>3. ASSUME NEW s \in Servers, NEW p \in Repos PROVE Running(s, p) = {updates[s][p]} \ {None}
      BY <2>1, <2>2, MetaAssumption DEF IInv, Flight
  <2>4. \A r \in Requests : req[r].phase = "wait" =>
            req[r].upd \in Running(req[r].server, req[r].repo)
      BY <2>2 DEF IInv, Waits
  <2> QED
      BY <2>3, <2>4 DEF SingleFlight
<1> QED
    BY <1>1, Invariance, PTL

\* The semaphore holds one token for each background update in flight, and for
\* nothing else (meta.go:168-181).
THEOREM NoTokenIsLost == Spec => []TokensAccounted
<1>1. IInv => TokensAccounted
    BY DEF IInv
<1> QED
    BY <1>1, Invariance, PTL

\* On one server a caller is never answered from a commit older than what the
\* cache had held when it asked, whatever the bounds of the instance.
THEOREM AnswersDontAge == Spec => []NoRollback
<1>1. IInv => NoRollback
    BY DEF IInv, Newest, AsksForStored, NoRollback
<1> QED
    BY <1>1, Invariance, PTL
-----------------------------------------------------------------------------
(* DomainAlias *)

Stored(b) == bind[b].pc \in {"unbind", "put"}

\* What a binder holds at its stations.
BindLife ==
    \A b \in Binders :
        LET r == RepoOf[b]
            x == bind[b]
        IN /\ x.pc \in {"read", "swap"} => domainsOf[r] # NoEntry
           /\ x.pc = "swap" => \A d \in x.old : r \in claimed[d]
           /\ Stored(b) => \A d \in x.domains \cup x.todo : r \in claimed[d]
           /\ x.pc = "unbind" => x.todo \cap x.domains = {}
           /\ x.pc = "put" => x.todo \subseteq x.domains

\* A repository that lists a domain, or is served by it, has claimed it, for
\* which it has stored a list.
Claims ==
    \A r \in Repositories, d \in Domains :
        /\ domainsOf[r] # NoEntry /\ d \in domainsOf[r] => r \in claimed[d]
        /\ aliasOf[d] = r => r \in claimed[d]
        /\ r \in claimed[d] => domainsOf[r] # NoEntry

\* Binder b of repository r has still to put d.
WillPut(r, d) ==
    \E b \in Binders : /\ RepoOf[b] = r
                       /\ Stored(b)
                       /\ d \in bind[b].domains
                       /\ bind[b].pc = "put" => d \in bind[b].todo

ListedIsPut ==
    \A r \in Repositories \ disturbed, d \in Domains :
        domainsOf[r] # NoEntry /\ d \in domainsOf[r] /\ claimed[d] = {r} =>
            aliasOf[d] = r \/ WillPut(r, d)

AliasInv == AliasTypeOK /\ BindLife /\ Claims /\ DroppedDomainIsUnbound /\ ListedIsPut
-----------------------------------------------------------------------------
\* A step that changes the record of binder b alone, to x.
Only(b, x) == bind' = [bind EXCEPT ![b] = x]

\* What a binder does on its own, the store as it is, keeps the invariant when it
\* keeps what it holds.
LEMMA QuietStep ==
    ASSUME AliasInv, NEW b \in Binders, NEW x \in BindRecords, Only(b, x),
           UNCHANGED <<domainsOf, aliasOf, claimed>>,
           NEW r, r = RepoOf[b],
           disturbed' = disturbed \/ disturbed' = disturbed \cup {r},
           x.pc \in {"read", "swap"} => domainsOf[r] # NoEntry,
           x.pc = "swap" => \A d \in x.old : r \in claimed[d],
           x.pc \in {"unbind", "put"} =>
               Stored(b) /\ x.domains = bind[b].domains /\ x.todo \subseteq x.domains,
           x.pc # "unbind",
           r \notin disturbed' =>
               /\ bind[b].pc = "unbind" => bind[b].todo = {} /\ x.pc = "put"
               /\ \A d \in bind[b].domains :
                      Stored(b) /\ (bind[b].pc = "put" => d \in bind[b].todo) =>
                          x.pc = "put" /\ d \in x.todo
    PROVE  AliasInv'
<1> USE AliasAssumption
<1>1. /\ bind'[b] = x /\ bind' \in [Binders -> BindRecords]
      /\ \A c \in Binders \ {b} : bind'[c] = bind[c]
    BY DEF AliasInv, AliasTypeOK, Only
<1>2. r \in Repositories
    BY DEF AliasAssumption
<1>3. AliasTypeOK'
    BY <1>1, <1>2 DEF AliasInv, AliasTypeOK
<1>4. BindLife'
    BY <1>1 DEF AliasInv, BindLife, Stored
<1>5. Claims'
    BY DEF AliasInv, Claims
<1>6. DroppedDomainIsUnbound'
  <2>1. ASSUME NEW p \in Repositories \ disturbed', NEW d \in Domains, WillUnbind(p, d)
        PROVE  WillUnbind(p, d)'
    BY <1>1, <2>1 DEF WillUnbind, Stored
  <2> QED
    BY <2>1 DEF AliasInv, DroppedDomainIsUnbound
<1>7. ListedIsPut'
  <2>1. ASSUME NEW p \in Repositories \ disturbed', NEW d \in Domains, WillPut(p, d)
        PROVE  WillPut(p, d)'
    BY <1>1, <2>1 DEF WillPut, Stored
  <2> QED
    BY <2>1 DEF AliasInv, ListedIsPut
<1> QED
    BY <1>3, <1>4, <1>5, <1>6, <1>7 DEF AliasInv

\* What a binder does between its calls for the domains.
LEMMA QuietSteps ==
    ASSUME AliasInv, NEW b \in Binders,
           \/ \E domains \in Lists[RepoOf[b]] : Bind(b, domains)
           \/ Create(b) /\ domainsOf[RepoOf[b]] # NoEntry
           \/ Read(b)
           \/ Swap(b) /\ ~Unchanged(b)
           \/ Unbound(b) \/ Return(b) \/ Fail(b) \/ Crash(b)
    PROVE  AliasInv'
<1> USE AliasAssumption
<1> DEFINE r == RepoOf[b]
           Moved(pc) == [bind[b] EXCEPT !.pc = pc]
<1>1. bind[b] \in BindRecords /\ NoBind \in BindRecords /\ r \in Repositories
    BY DEF AliasInv, AliasTypeOK, BindRecords, NoBind, PC, AliasAssumption
<1>2. ASSUME NEW domains \in Lists[RepoOf[b]], Bind(b, domains) PROVE AliasInv'
  <2> DEFINE x == [NoBind EXCEPT !.pc = "create", !.domains = domains]
  <2>1. x \in BindRecords /\ x.pc = "create"
    BY <1>1 DEF AliasAssumption, BindRecords, NoBind, PC
  <2>2. Only(b, x) /\ UNCHANGED <<domainsOf, aliasOf, claimed>> /\ disturbed' = disturbed
        /\ ~Stored(b)
    BY <1>2 DEF Bind, Only, Stored
  <2> QED
    BY <2>1, <2>2, QuietStep DEF Stored
<1>3. ASSUME Create(b), domainsOf[r] # NoEntry PROVE AliasInv'
  <2>1. Moved("read") \in BindRecords /\ Moved("read").pc = "read"
    BY <1>1 DEF BindRecords, PC
  <2>2. Only(b, Moved("read")) /\ UNCHANGED <<domainsOf, aliasOf, claimed>>
        /\ disturbed' = disturbed /\ ~Stored(b)
    BY <1>1, <1>3 DEF Create, Only, Stored, BindRecords
  <2> HIDE DEF Moved
  <2> QED
    BY <1>3, <2>1, <2>2, QuietStep DEF Stored
<1>4. ASSUME Read(b) PROVE AliasInv'
  <2> DEFINE x == [bind[b] EXCEPT !.pc = "swap", !.old = domainsOf[r]]
  <2>1. domainsOf[r] # NoEntry /\ domainsOf[r] \in SUBSET Domains
        /\ \A d \in domainsOf[r] : r \in claimed[d]
    BY <1>1, <1>4 DEF AliasInv, AliasTypeOK, BindLife, Claims, Read
  <2>2. /\ x \in BindRecords /\ x.pc = "swap" /\ x.old = domainsOf[r]
        /\ Moved("create") \in BindRecords /\ Moved("create").pc = "create"
    BY <1>1, <2>1 DEF BindRecords, PC
  <2>3. UNCHANGED <<domainsOf, aliasOf, claimed>> /\ disturbed' = disturbed /\ ~Stored(b)
    BY <1>4 DEF Read, Stored
  <2>4. Only(b, x) \/ Only(b, Moved("create"))
    <3>1. \/ bind' = [bind EXCEPT ![b].pc = "swap", ![b].old = domainsOf[r]]
          \/ bind' = [bind EXCEPT ![b].pc = "create"]
      BY <1>4 DEF Read
    <3> QED
      BY <3>1, <1>1 DEF Only, AliasInv, AliasTypeOK
  <2> HIDE DEF x, Moved
  <2> QED
    BY <2>1, <2>2, <2>3, <2>4, QuietStep DEF Stored
<1>5. ASSUME Swap(b), ~Unchanged(b) PROVE AliasInv'
  <2>1. Moved("create") \in BindRecords /\ Moved("create").pc = "create"
    BY <1>1 DEF BindRecords, PC
  <2>2. Only(b, Moved("create")) /\ UNCHANGED <<domainsOf, aliasOf, claimed>>
        /\ disturbed' = disturbed /\ ~Stored(b)
    BY <1>1, <1>5 DEF Swap, Only, Stored, BindRecords
  <2> QED
    BY <2>1, <2>2, QuietStep DEF Stored
<1>6. ASSUME Unbound(b) PROVE AliasInv'
  <2> DEFINE x == [bind[b] EXCEPT !.pc = "put", !.todo = bind[b].domains]
  <2>1. /\ x \in BindRecords /\ x.pc = "put" /\ x.todo = bind[b].domains
        /\ x.domains = bind[b].domains
    BY <1>1 DEF BindRecords, PC
  <2>2. UNCHANGED <<domainsOf, aliasOf, claimed>> /\ disturbed' = disturbed
        /\ Stored(b) /\ bind[b].pc = "unbind" /\ bind[b].todo = {}
    BY <1>6 DEF Unbound, Stored
  <2>3. Only(b, x)
    <3>1. bind' = [bind EXCEPT ![b].pc = "put", ![b].todo = bind[b].domains]
      BY <1>6 DEF Unbound, ToPut
    <3> QED
      BY <3>1, <1>1 DEF Only, AliasInv, AliasTypeOK
  <2> HIDE DEF x
  <2> QED
    BY <2>1, <2>2, <2>3, QuietStep DEF Stored
<1>7. ASSUME Return(b) PROVE AliasInv'
  <2>1. Only(b, NoBind) /\ UNCHANGED <<domainsOf, aliasOf, claimed>> /\ disturbed' = disturbed
        /\ Stored(b) /\ bind[b].pc = "put" /\ bind[b].todo = {}
    BY <1>7 DEF Return, Only, Stored
  <2> QED
    BY <1>1, <2>1, QuietStep DEF NoBind
<1>8. ASSUME Fail(b) PROVE AliasInv'
  <2>1. Only(b, NoBind) /\ UNCHANGED <<domainsOf, aliasOf, claimed>> /\ disturbed' = disturbed
        /\ ~Stored(b)
    BY <1>8 DEF Fail, Only, Stored
  <2> QED
    BY <1>1, <2>1, QuietStep DEF NoBind, Stored
<1>9. ASSUME Crash(b) PROVE AliasInv'
  <2>1. Only(b, NoBind) /\ UNCHANGED <<domainsOf, aliasOf, claimed>>
        /\ disturbed' = disturbed \cup {r}
    BY <1>9 DEF Crash, Only
  <2> QED
    BY <1>1, <2>1, QuietStep DEF NoBind
<1> QED
    BY <1>2, <1>3, <1>4, <1>5, <1>6, <1>7, <1>8, <1>9

\* The list of a repository is replaced by that of b, which has the old one in hand.
LEMMA SwappedStep ==
    ASSUME AliasInv, NEW b \in Binders, NEW old \in SUBSET Domains,
           Swapped(b, old), ~Stored(b),
           \A d \in Domains : d \in old <=>
               domainsOf[RepoOf[b]] # NoEntry /\ d \in domainsOf[RepoOf[b]]
    PROVE  AliasInv'
<1> USE AliasAssumption
<1> DEFINE r == RepoOf[b]
           new == bind[b].domains
           x == [bind[b] EXCEPT !.pc = "unbind", !.old = old, !.todo = old \ new]
<1>1. bind[b] \in BindRecords /\ r \in Repositories /\ new \in SUBSET Domains
    BY DEF AliasInv, AliasTypeOK, BindRecords, AliasAssumption
<1>2. /\ x \in BindRecords /\ x.pc = "unbind" /\ x.old = old /\ x.todo = old \ new
      /\ x.domains = new
    BY <1>1 DEF BindRecords, PC
<1>3. bind' = [bind EXCEPT ![b] = x]
    BY <1>1 DEF Swapped, BindRecords
<1>4. /\ domainsOf' = [domainsOf EXCEPT ![r] = new]
      /\ \A d \in Domains : claimed'[d] = IF d \in new THEN claimed[d] \cup {r} ELSE claimed[d]
      /\ claimed' \in [Domains -> SUBSET Repositories]
      /\ aliasOf' = aliasOf /\ disturbed' = disturbed
    BY <1>1 DEF Swapped, AliasInv, AliasTypeOK
<1> HIDE DEF x
<1>5. /\ bind'[b] = x /\ bind' \in [Binders -> BindRecords]
      /\ \A c \in Binders \ {b} : bind'[c] = bind[c]
    BY <1>2, <1>3 DEF AliasInv, AliasTypeOK
<1>6. AliasTypeOK'
    BY <1>1, <1>4, <1>5 DEF AliasInv, AliasTypeOK
<1> HIDE DEF new
<1>7. \A d \in old : r \in claimed[d]
    BY <1>1 DEF AliasInv, Claims
<1>8. BindLife'
  <2>1. ASSUME NEW c \in Binders
        PROVE  LET p == RepoOf[c]
                   y == bind'[c]
               IN /\ y.pc \in {"read", "swap"} => domainsOf'[p] # NoEntry
                  /\ y.pc = "swap" => \A d \in y.old : p \in claimed'[d]
                  /\ y.pc \in {"unbind", "put"} => \A d \in y.domains \cup y.todo : p \in claimed'[d]
                  /\ y.pc = "unbind" => y.todo \cap y.domains = {}
                  /\ y.pc = "put" => y.todo \subseteq y.domains
    <3>1. CASE c = b
      BY <1>1, <1>2, <1>4, <1>5, <1>7, <3>1
    <3>2. CASE c # b
      <4>1. bind'[c] = bind[c] /\ bind[c] \in BindRecords /\ RepoOf[c] \in Repositories
        BY <1>5, <3>2 DEF AliasInv, AliasTypeOK, AliasAssumption
      <4>2. domainsOf[RepoOf[c]] # NoEntry => domainsOf'[RepoOf[c]] # NoEntry
        BY <1>1, <1>4, <4>1 DEF AliasAssumption, AliasInv, AliasTypeOK
      <4>3. \A d \in Domains : RepoOf[c] \in claimed[d] => RepoOf[c] \in claimed'[d]
        BY <1>4
      <4> QED
        BY <4>1, <4>2, <4>3 DEF AliasInv, BindLife, Stored, BindRecords
    <3> QED
      BY <3>1, <3>2
  <2> QED
    BY <2>1 DEF BindLife, Stored
<1>9. Claims'
  <2>1. ASSUME NEW p \in Repositories, NEW d \in Domains
        PROVE  /\ domainsOf'[p] # NoEntry /\ d \in domainsOf'[p] => p \in claimed'[d]
               /\ aliasOf'[d] = p => p \in claimed'[d]
               /\ p \in claimed'[d] => domainsOf'[p] # NoEntry
    BY <1>1, <1>4 DEF AliasInv, Claims, AliasTypeOK, AliasAssumption
  <2> QED
    BY <2>1 DEF Claims
<1>10. DroppedDomainIsUnbound'
  <2>1. ASSUME NEW p \in Repositories \ disturbed', NEW d \in Domains, aliasOf'[d] = p
        PROVE  d \in domainsOf'[p] \/ WillUnbind(p, d)'
    <3>1. CASE p = r
      <4>1. domainsOf[r] # NoEntry
        BY <1>4, <2>1, <3>1 DEF AliasInv, Claims
      <4>2. d \in domainsOf[r] \/ WillUnbind(r, d)
        BY <1>4, <2>1, <3>1 DEF AliasInv, DroppedDomainIsUnbound
      <4>3. CASE d \in domainsOf[r]
        BY <1>1, <1>2, <1>4, <1>5, <3>1, <4>1, <4>3 DEF WillUnbind, AliasInv, AliasTypeOK
      <4>4. CASE WillUnbind(r, d)
        BY <1>5, <3>1, <4>4 DEF WillUnbind, Stored
      <4> QED
        BY <4>2, <4>3, <4>4
    <3>2. CASE p # r
      BY <1>4, <1>5, <2>1, <3>2 DEF AliasInv, DroppedDomainIsUnbound, WillUnbind, Stored, AliasTypeOK
    <3> QED
      BY <3>1, <3>2
  <2> QED
    BY <2>1 DEF DroppedDomainIsUnbound
<1>11. ListedIsPut'
  <2>1. ASSUME NEW p \in Repositories \ disturbed', NEW d \in Domains,
               domainsOf'[p] # NoEntry, d \in domainsOf'[p], claimed'[d] = {p}
        PROVE  aliasOf'[d] = p \/ WillPut(p, d)'
    <3>1. CASE p = r
      BY <1>1, <1>2, <1>4, <1>5, <2>1, <3>1 DEF WillPut, Stored, AliasInv, AliasTypeOK
    <3>2. CASE p # r
      <4>1. d \notin new /\ claimed[d] = {p} /\ domainsOf'[p] = domainsOf[p]
        BY <1>1, <1>4, <2>1, <3>2 DEF AliasInv, AliasTypeOK
      <4> QED
        BY <1>4, <1>5, <2>1, <3>2, <4>1 DEF AliasInv, ListedIsPut, WillPut, Stored
    <3> QED
      BY <3>1, <3>2
  <2> QED
    BY <2>1 DEF ListedIsPut
<1> QED
    BY <1>6, <1>8, <1>9, <1>10, <1>11 DEF AliasInv

\* The calls that store a list.
LEMMA SwapSteps ==
    ASSUME AliasInv, NEW b \in Binders,
           \/ Create(b) /\ domainsOf[RepoOf[b]] = NoEntry
           \/ Swap(b) /\ Unchanged(b)
    PROVE  AliasInv'
<1> USE AliasAssumption
<1>1. CASE Create(b) /\ domainsOf[RepoOf[b]] = NoEntry
  <2>1. Swapped(b, {}) /\ ~Stored(b)
    BY <1>1 DEF Create, Stored
  <2> QED
    BY <1>1, <2>1, SwappedStep
<1>2. CASE Swap(b) /\ Unchanged(b)
  <2>1. Swapped(b, bind[b].old) /\ ~Stored(b) /\ bind[b].old = domainsOf[RepoOf[b]]
    BY <1>2 DEF Swap, Stored, Unchanged
  <2>2. domainsOf[RepoOf[b]] # NoEntry /\ bind[b].old \in SUBSET Domains
    BY <1>2 DEF Swap, AliasInv, BindLife, AliasTypeOK, BindRecords
  <2> QED
    BY <2>1, <2>2, SwappedStep
<1> QED
    BY <1>1, <1>2

\* A call of the store for a domain: d gets its entry (or loses it), or the call
\* fails; b is through with d.
LEMMA EntryStep ==
    ASSUME AliasInv, NEW b \in Binders, NEW d \in Domains,
           Unbind(b, d) \/ PutAlias(b, d)
    PROVE  AliasInv'
<1> USE AliasAssumption
<1> DEFINE r == RepoOf[b]
           x == [bind[b] EXCEPT !.todo = bind[b].todo \ {d}]
           put == bind[b].pc = "put"
<1>1. bind[b] \in BindRecords /\ r \in Repositories /\ Stored(b) /\ d \in bind[b].todo
    BY DEF AliasInv, AliasTypeOK, AliasAssumption, Unbind, PutAlias, Stored
<1>2. /\ x \in BindRecords /\ x.pc = bind[b].pc /\ x.old = bind[b].old
      /\ x.todo = bind[b].todo \ {d} /\ x.domains = bind[b].domains
    BY <1>1 DEF BindRecords
<1>3. /\ bind' = [bind EXCEPT ![b] = x] /\ domainsOf' = domainsOf /\ claimed' = claimed
      /\ \/ /\ aliasOf' = [aliasOf EXCEPT ![d] = IF put THEN r ELSE NoEntry]
            /\ disturbed' = disturbed \cup Late(b)
         \/ aliasOf' = aliasOf /\ disturbed' = disturbed \cup {r}
    BY <1>1 DEF Unbind, PutAlias, AliasMeta, BindRecords
<1> HIDE DEF x
<1>4. /\ bind'[b] = x /\ bind' \in [Binders -> BindRecords]
      /\ \A c \in Binders \ {b} : bind'[c] = bind[c]
    BY <1>2, <1>3 DEF AliasInv, AliasTypeOK
<1>5. /\ \A e \in Domains \ {d} : aliasOf'[e] = aliasOf[e]
      /\ aliasOf'[d] \in {aliasOf[d], IF put THEN r ELSE NoEntry}
      /\ r \notin disturbed' =>
             /\ aliasOf'[d] = IF put THEN r ELSE NoEntry
             /\ domainsOf[r] = bind[b].domains
      /\ disturbed \subseteq disturbed'
    BY <1>1, <1>3 DEF Late, AliasInv, AliasTypeOK
<1>6. r \in claimed[d]
    BY <1>1 DEF AliasInv, BindLife
<1>7. AliasTypeOK'
    BY <1>1, <1>3, <1>4 DEF AliasInv, AliasTypeOK, Late
<1>8. BindLife'
    BY <1>1, <1>2, <1>3, <1>4 DEF AliasInv, BindLife, Stored
<1>9. Claims'
    BY <1>3, <1>5, <1>6 DEF AliasInv, Claims, AliasAssumption
<1>10. DroppedDomainIsUnbound'
  <2>1. ASSUME NEW p \in Repositories \ disturbed', NEW e \in Domains, aliasOf'[e] = p
        PROVE  e \in domainsOf'[p] \/ WillUnbind(p, e)'
    <3>1. CASE aliasOf[e] = p /\ (e # d \/ p # r)
      BY <1>2, <1>3, <1>4, <1>5, <2>1, <3>1 DEF AliasInv, DroppedDomainIsUnbound, WillUnbind
    <3>2. CASE e = d /\ (aliasOf[e] # p \/ p = r)
      <4>1. put /\ p = r
        BY <1>5, <2>1, <3>2 DEF AliasAssumption
      <4> QED
        BY <1>1, <1>3, <1>5, <2>1, <3>2, <4>1 DEF AliasInv, BindLife
    <3> QED
      BY <1>5, <2>1, <3>1, <3>2
  <2> QED
    BY <2>1 DEF DroppedDomainIsUnbound
<1>11. ListedIsPut'
  <2>1. ASSUME NEW p \in Repositories \ disturbed', NEW e \in Domains,
               domainsOf'[p] # NoEntry, e \in domainsOf'[p], claimed'[e] = {p}
        PROVE  aliasOf'[e] = p \/ WillPut(p, e)'
    <3>1. CASE e = d
      <4>1. p = r
        BY <1>3, <1>6, <2>1, <3>1
      <4>2. bind[b].pc = "unbind" => d \notin bind[b].domains
        BY <1>1 DEF AliasInv, BindLife
      <4> QED
        BY <1>1, <1>3, <1>5, <2>1, <3>1, <4>1, <4>2 DEF Stored
    <3>2. CASE e # d
      <4>1. aliasOf[e] = p \/ WillPut(p, e)
        BY <1>3, <1>5, <2>1 DEF AliasInv, ListedIsPut
      <4> QED
        BY <1>2, <1>4, <1>5, <3>2, <4>1 DEF WillPut, Stored
    <3> QED
      BY <3>1, <3>2
  <2> QED
    BY <2>1 DEF ListedIsPut
<1> QED
    BY <1>7, <1>8, <1>9, <1>10, <1>11 DEF AliasInv
-----------------------------------------------------------------------------
\* The inductive invariant of the alias table holds of every state of a run.
THEOREM AliasInvariance == AliasSpec => []AliasInv
<1>1. AliasInit => AliasInv
  <2> SUFFICES ASSUME AliasInit PROVE AliasInv
    OBVIOUS
  <2>1. AliasTypeOK
    BY AliasAssumption DEF AliasInit, AliasTypeOK, NoBind, BindRecords, PC, AliasAssumption
  <2>2. BindLife /\ Claims
    BY AliasAssumption DEF AliasInit, BindLife, Claims, NoBind, Stored, AliasAssumption
  <2>3. DroppedDomainIsUnbound /\ ListedIsPut
    BY AliasAssumption DEF AliasInit, DroppedDomainIsUnbound, ListedIsPut, AliasAssumption
  <2> QED
    BY <2>1, <2>2, <2>3 DEF AliasInv
<1>2. AliasInv /\ [AliasNext]_aliasVars => AliasInv'
  <2> SUFFICES ASSUME AliasInv, [AliasNext]_aliasVars PROVE AliasInv'
    OBVIOUS
  <2>1. CASE UNCHANGED aliasVars
    BY <2>1 DEF aliasVars, AliasInv, AliasTypeOK, BindLife, Claims, DroppedDomainIsUnbound, ListedIsPut,
                Stored, WillPut, WillUnbind
  <2>2. ASSUME NEW b \in Binders, NEW domains \in Lists[RepoOf[b]], Bind(b, domains) PROVE AliasInv'
    BY <2>2, AliasAssumption, QuietSteps
  <2>3. ASSUME NEW b \in Binders,
               \/ Create(b) \/ Read(b) \/ Swap(b) \/ Unbound(b) \/ Return(b)
               \/ Fail(b) \/ Crash(b)
        PROVE  AliasInv'
    BY <2>3, AliasAssumption, QuietSteps, SwapSteps
  <2>4. ASSUME NEW b \in Binders, NEW d \in Domains, Unbind(b, d) \/ PutAlias(b, d) PROVE AliasInv'
    BY <2>4, AliasAssumption, EntryStep
  <2> QED
    BY <2>1, <2>2, <2>3, <2>4 DEF AliasNext
<1> QED
    BY <1>1, <1>2, PTL DEF AliasSpec

\* The store of the alias table holds lists and repositories, and each Bind in flight
\* is at one of its stations (alias.go:30-79).
THEOREM AliasTypeCorrect == AliasSpec => []AliasTypeOK
<1>1. AliasInv => AliasTypeOK
    BY DEF AliasInv
<1> QED
    BY <1>1, AliasInvariance, PTL

\* A domain that a repository has dropped does not go on serving it, however many
\* Binds of however many servers run at once, up to a step that fails, is cut short
\* or comes late (alias.go:44-77).
THEOREM DroppedIsUnbound == AliasSpec => []DroppedDomainIsUnbound
<1>1. AliasInv => DroppedDomainIsUnbound
    BY DEF AliasInv
<1> QED
    BY <1>1, AliasInvariance, PTL

\* A domain that one repository alone has listed serves it, once no Bind of the
\* repository is on its way, up to the same steps (alias.go:30-79).
THEOREM ListedServes == AliasSpec => []ListedDomainServes
<1>1. AliasInv => ListedDomainServes
    BY DEF AliasInv, ListedIsPut, WillPut, ListedDomainServes, Between, Stored
<1> QED
    BY <1>1, AliasInvariance, PTL
=============================================================================
