--------------------------- MODULE RequestPipeline ---------------------------
(***************************************************************************)
(* What a server does with a request (pkg/server.go): it looks the page up *)
(* (pkg/core/domain.go), enforces the page's security settings, asks the   *)
(* auth service, attaches to the update hub and runs the page's filters    *)
(* (pkg/filters), while servers refresh the page's metadata and the hub    *)
(* kills the requests of outdated commits.                                 *)
(*                                                                         *)
(* There is one page: the owner's other repositories do not exist.  The    *)
(* hub is RepoUpdateHub, whose variables are declared here under their     *)
(* names and whose actions the actions below take part in; its broker      *)
(* delivers every event and ends no subscription here.                     *)
(*                                                                         *)
(* Metadata: the refreshes that read, store and publish a commit are those *)
(* of ServerMeta, of which only the last two steps remain; binding the     *)
(* aliases is part of the store.  Commits are numbered in their order.     *)
(***************************************************************************)
EXTENDS PageSecurity, FiniteSets, SequencesExt

CONSTANTS Groups, Requests, Commits, NoGroup, NoCommit, MaxPending, \* of the hub
          Site,        \* the CNAME and .pages.yaml of each commit
          Hostnames,   \* the names that AliasCheck accepts
          Enabled,     \* the filter types of the server
          Base,        \* the owner's domain under the base domain
          Setups,      \* pairs: the page's repository, whether auth is configured
          Visits,      \* what each request may be
          Absent       \* there is no such file

\* Every request has a set of cookies, of which applyRequestSecurity may leave none.
ASSUME PipelineAssumption ==
    /\ NoGroup \notin Groups /\ NoCommit \notin Commits /\ MaxPending \in Nat
    /\ Commits \cup {NoCommit} \subseteq Int /\ \A c \in Commits : c > NoCommit
    /\ \A r \in Requests : \A v \in Visits[r] : "cookies" \in DOMAIN v

VARIABLES
    current, used, closed, done, watchers, lastSeen, victims, loop, chans,
    ended, queue, phase, home, commit, seenAtAttach, killed, \* of the hub
    page,        \* the name of the page's repository
    auth,        \* whether an auth provider is configured
    stored,      \* the commit in the metadata cache
    unpublished, \* commits that a refresh has stored and will publish next
    announced,   \* history: the commit published last
    req          \* what became of each request

hubVars == <<current, used, closed, done, watchers, lastSeen, victims, loop, chans,
             ended, queue, phase, home, commit, seenAtAttach, killed>>
metaVars == <<stored, unpublished, announced>>
vars == <<hubVars, page, auth, metaVars, req>>

Hub == INSTANCE RepoUpdateHub

NoAnswer == [by |-> {}, wrote |-> FALSE, policy |-> FALSE, interim |-> FALSE, hijacked |-> FALSE]

Init ==
    /\ Hub!Init
    /\ \E s \in Setups : page = s[1] /\ auth = s[2]
    /\ stored = NoCommit
    /\ unpublished = {}
    /\ announced = NoCommit
    /\ req = [r \in Requests |->
                 [pc |-> "new", visit |-> Absent, meta |-> NoCommit, path |-> Absent,
                  since |-> NoCommit, at |-> 0, err |-> "none", res |-> NoAnswer]]
-----------------------------------------------------------------------------
(* The page's settings: parsePageConfig *)

Route(path, type, targets) == [path |-> path, type |-> type, targets |-> targets]
All == {"**"}

\* A pattern is the set of the files that it matches.
Matches(filter, path) == filter.path = All \/ path \in filter.path

DefaultFilters == <<Route(All, "404", {}), Route({".git", ".pages.yaml"}, "block", {})>>
Direct == Route(All, "direct", {})

parsePageConfig(c) ==
    LET cname == Site[c].cname \cap Hostnames
        cfg == Site[c].yaml
        alias == IF cfg = Absent THEN cname ELSE cname \cup cfg.alias
        redirect == IF alias = {} THEN <<>> ELSE <<Route(All, "redirect", alias)>>
        routes == IF cfg = Absent THEN <<>> ELSE cfg.routes
    IN [ok |-> cfg # Absent =>
                   cfg.alias \subseteq Hostnames /\ \A f \in ToSet(routes) : f.type \in Enabled,
        alias |-> alias,
        private |-> cfg # Absent /\ cfg.private,
        security |-> IF cfg = Absent THEN DefaultPageSecurity
                     ELSE ApplyPageSecurityDefaults(cfg.security),
        filters |-> DefaultFilters \o redirect \o routes \o <<Direct>>]

Page == [c \in Commits |-> parsePageConfig(c)]

\* A refresh, of this or another server, stores a newer commit.  A page whose
\* settings are broken is stored as an error and not published.
RefreshStores ==
    /\ \E c \in Commits :
           /\ c > stored
           /\ stored' = c
           /\ unpublished' = IF Page[c].ok THEN unpublished \cup {c} ELSE unpublished
    /\ UNCHANGED <<hubVars, page, auth, announced, req>>

\* It then publishes it; two servers may do so in either order.
RefreshPublishes ==
    /\ \E c \in unpublished :
           /\ unpublished' = unpublished \ {c}
           /\ announced' = c
           /\ LET S == {g \in Hub!Subscribed : loop[g] # "stopped"} IN
              IF S = {} THEN UNCHANGED hubVars
              ELSE Hub!Publish(c) /\ \A g \in S : queue'[g] # queue[g]
    /\ UNCHANGED <<page, auth, stored, req>>
-----------------------------------------------------------------------------
(* Looking the page up: ParseDomainMeta *)

\* The file asked for; a directory stands for its index.
FileOf(segments) ==
    IF segments = <<>> \/ Last(segments) = "" THEN "index.html" ELSE Last(segments)

Found(err, path) == [err |-> err, path |-> path]

\* GetMeta of a repository: its page, none, or an error at any time.  The update
\* that finds the page in error reports that; the cache answers as if it were none.
returnMeta(repo, segments) ==
    {Found("error", Absent),
     IF repo = page /\ stored # NoCommit /\ Page[stored].ok
     THEN Found("none", FileOf(segments)) ELSE Found("notExist", Absent)}

\* The repository that the path names, then the owner's default one; or the one
\* that the domain is an alias of.
ParseDomainMeta(v) ==
    IF v.host # Base
    THEN IF stored # NoCommit /\ v.host \in Page[stored].alias
         THEN returnMeta(page, v.path) ELSE {Found("error", Absent), Found("notExist", Absent)}
    ELSE LET first == IF Head(v.path) = "" THEN returnMeta(Base, v.path)
                      ELSE returnMeta(Head(v.path), Tail(v.path))
         IN UNION {IF f.err = "notExist" THEN returnMeta(Base, v.path) ELSE {f} : f \in first}
-----------------------------------------------------------------------------
(* The response writers *)

\* A write around securityResponseWriter, and one through it.
RawBy(res, author) == [res EXCEPT !.by = @ \cup {author}]
WriteBy(res, author) ==
    [res EXCEPT !.by = @ \cup {author}, !.policy = @ \/ ~res.wrote, !.wrote = TRUE]

\* ReverseProxy passes a 1xx response on and then clears all headers.
InterimBy(res) == [res EXCEPT !.wrote = TRUE, !.policy = FALSE, !.interim = TRUE]

\* Mutant: whether something was written is asked of the wrong writer.
NeverWritten(res) == FALSE

IsWritten(res) == res.by # {} \/ res.interim \/ res.hijacked
-----------------------------------------------------------------------------
(* ServeHTTP *)

Settings(c) == IF c = NoCommit THEN DefaultPageSecurity ELSE Page[c].security
SecurityOf(v, c) == BuildSecurityResult(v, v.info, Settings(c))
Security(r) == SecurityOf(req[r].visit, req[r].meta)

\* The request after applyRequestSecurity has a session.
Session(r) == "session" \in applyRequestSecurity(req[r].visit, Security(r)).cookies

Becomes(r, x) == req' = [req EXCEPT ![r] = x]

\* The end of a request, of which only visit, commit and response are kept.
Answer(x, res) ==
    [x EXCEPT !.pc = "over", !.res = res, !.path = Absent, !.at = 0, !.err = "none"]

ServeHTTP(r) ==
    /\ req[r].pc = "new"
    /\ \E v \in Visits[r] :
       \E found \in IF v.reserved THEN {Found("none", Absent)} ELSE ParseDomainMeta(v) :
           LET c == IF v.reserved THEN NoCommit ELSE stored
               x == [req[r] EXCEPT !.visit = v, !.meta = c]
               verdict == enforceRequestSecurity(v, SecurityOf(v, c))
           IN Becomes(r,
                 IF found.err # "none" THEN Answer(req[r], RawBy(NoAnswer, "error"))
                 ELSE CASE verdict = "forbidden" -> Answer(x, RawBy(NoAnswer, "server"))
                        [] verdict = "preflight" -> Answer(x, WriteBy(NoAnswer, "server"))
                        [] OTHER -> [x EXCEPT !.pc = "access", !.path = found.path])
    /\ UNCHANGED <<hubVars, page, auth, metaVars>>

Goes(r, pc) == [req[r] EXCEPT !.pc = pc]
Fails(r, err) == [req[r] EXCEPT !.pc = "report", !.err = err]
Answers(r, author) == [req[r] EXCEPT !.pc = "report", !.res = WriteBy(@, author)]

\* servePage until it attaches: the auth service.  A session that the request has
\* is valid; whether its user has access is told by the visit.
Access(r) ==
    LET v == req[r].visit
        private == req[r].meta # NoCommit /\ Page[req[r].meta].private
    IN
    /\ req[r].pc = "access"
    /\ \/ /\ v.reserved
          /\ \/ Becomes(r, Answers(r, IF auth THEN "auth" ELSE "server"))
             \/ auth /\ Becomes(r, Fails(r, "error"))
       \/ /\ ~v.reserved
          /\ IF auth THEN Session(r) ELSE private
          /\ Becomes(r, Fails(r, "error"))
       \/ /\ ~v.reserved
          /\ ~private
          /\ Becomes(r, Goes(r, "attach"))
       \/ /\ private /\ auth
          /\ Becomes(r, IF ~Session(r) THEN Answers(r, "login")
                        ELSE IF ~v.access THEN Answers(r, "auth") ELSE Goes(r, "attach"))
    /\ UNCHANGED <<hubVars, page, auth, metaVars>>

\* Mutant: the request attaches under the commit that is current by then.
AttachesUnderStored(r) == stored

AttachedCommit(r) == req[r].meta

Attach(r) ==
    /\ req[r].pc = "attach"
    /\ \/ /\ \/ Hub!AttachJoin(r, AttachedCommit(r))
             \/ /\ Groups \ used # {}
                /\ Hub!AttachNewGroup(r, AttachedCommit(r), CHOOSE g \in Groups \ used : TRUE)
          /\ Becomes(r, [Goes(r, "start") EXCEPT !.since = announced])
       \/ Hub!AttachFails(r) /\ Becomes(r, Fails(r, "error"))
    /\ UNCHANGED <<page, auth, metaVars>>
-----------------------------------------------------------------------------
(* The filters: each may call the next one, the innermost next does not exist *)

ChainOf(c, path) == SelectSeq(Page[c].filters, LAMBDA f : Matches(f, path))
Chain(r) == ChainOf(req[r].meta, req[r].path)

\* Those that call the next one first and then make up for a file that is missing.
Recovering == {"404", "direct", "failback"}
Working == {"template", "js", "reverse_proxy"}

PassesOn(r, f) ==
    \/ f.type \in Recovering
    \/ f.type = "redirect" /\ req[r].visit.host \in Page[req[r].meta].alias

\* On the way in: the first filter that does not pass the request on.
Reached(r) == SelectInSeq(Chain(r), LAMBDA f : ~PassesOn(r, f))

\* Mutant: the request is released where the filters have succeeded.
ReleasedOnSuccess(err) == IF err = "none" THEN "release" ELSE "report"

\* The release is deferred: it comes after an error and a panic as well.
AfterFilters(err) == "release"

\* A filter returns, having left res as the response; the recovering ones before
\* it act on a missing file only.
Returns(r, err, res) ==
    Becomes(r, [req[r] EXCEPT !.err = err, !.res = res,
                    !.pc = IF err = "notExist" THEN "missing" ELSE AfterFilters(err)])

\* After the attach: the storage of the repository may fail, or a filter be gone.
Start(r) ==
    LET k == Reached(r)
        res == req[r].res IN
    /\ req[r].pc = "start"
    /\ \/ Returns(r, "error", res)
       \/ k = 0 /\ Becomes(r, [Goes(r, "missing") EXCEPT !.err = "notExist",
                                                          !.at = Len(Chain(r)) + 1])
       \/ k > 0 /\ Chain(r)[k].type \in {"block", "redirect"}
                /\ Returns(r, "none", WriteBy(res, Chain(r)[k].type))
       \/ k > 0 /\ Chain(r)[k].type \in Working /\ Becomes(r, [Goes(r, "work") EXCEPT !.at = k])
    /\ UNCHANGED <<hubVars, page, auth, metaVars>>

Worker(r) == Chain(r)[req[r].at].type

\* What a filter may return: without a response, or after it has begun one.
Empty(f) == IF f \in {"js", "template"} THEN {"notExist", "error"} ELSE {"error"}
Begun(f) == CASE f \in {"js", "direct", "failback"} -> {"none", "error"}
              [] f \in {"template", "404"} -> {"none"}
              [] f = "reverse_proxy" -> {"none", "panic"}

\* The worker ends.  It may have made the connection a websocket's.
WorkEnds(r) ==
    LET f == Worker(r)
        res == req[r].res IN
    /\ req[r].pc = "work"
    /\ \/ ~res.interim /\ \E err \in Empty(f) : Returns(r, err, res)
       \/ \E err \in Begun(f) : Returns(r, err, WriteBy(res, f))
       \/ /\ f \in {"js", "reverse_proxy"} /\ req[r].visit.upgrade
          /\ \E err \in {"none", "error"} :
                 Returns(r, err, [RawBy(res, f) EXCEPT !.hijacked = TRUE])
    /\ UNCHANGED <<hubVars, page, auth, metaVars>>

\* The upstream of a reverse_proxy sends a 1xx response.
Interim(r) ==
    /\ req[r].pc = "work" /\ Worker(r) = "reverse_proxy"
    /\ ~req[r].res.interim
    /\ Becomes(r, [req[r] EXCEPT !.res = InterimBy(@)])
    /\ UNCHANGED <<hubVars, page, auth, metaVars>>

\* On the way out: the next filter that recovers.
Recoverer(r) ==
    SelectLastInSubSeq(Chain(r), 1, req[r].at - 1, LAMBDA f : f.type \in Recovering)

\* It opens its file: another error ends the request, as does a file.  direct
\* serves some methods only and redirects to a directory that has an index.
Recover(r) ==
    LET k == Recoverer(r)
        f == Chain(r)[k].type
        res == req[r].res IN
    /\ req[r].pc = "missing"
    /\ \/ k = 0 /\ Becomes(r, Goes(r, AfterFilters("notExist")))
       \/ k > 0 /\ f = "direct" /\ req[r].visit.method \notin {"GET", "HEAD"}
                /\ Returns(r, "none", WriteBy(res, f))
       \/ k > 0 /\ (f = "direct" => req[r].visit.method \in {"GET", "HEAD"})
                /\ \/ Returns(r, "error", res)
                   \/ Becomes(r, [req[r] EXCEPT !.at = k])
                   \/ f = "direct" /\ Becomes(r, [Goes(r, "work") EXCEPT !.at = k])
                   \/ f = "direct" /\ Returns(r, "none", WriteBy(res, f))
                   \/ /\ f \in {"404", "failback"}
                      /\ \E err \in Begun(f) : Returns(r, err, WriteBy(res, f))
    /\ UNCHANGED <<hubVars, page, auth, metaVars>>
-----------------------------------------------------------------------------
(* The end of servePage and of ServeHTTP *)

Release(r) ==
    /\ req[r].pc = "release"
    /\ Hub!Detach(r)
    /\ Becomes(r, [Goes(r, "report") EXCEPT !.since = NoCommit, !.at = 0])
    /\ UNCHANGED <<page, auth, metaVars>>

ReleaseCloses(r) ==
    /\ Hub!DetachClose(r)
    /\ UNCHANGED <<page, auth, metaVars, req>>

\* Mutant: the error handler is given the writer below the policy.
ReportRaw(res) == RawBy(res, "error")

ReportTo(res) == WriteBy(res, "error")

\* handleRequestError and the recovery from a panic: unless something is written.
Report(r) ==
    LET res == req[r].res IN
    /\ req[r].pc = "report"
    /\ phase[r] # "closing"
    /\ Becomes(r, Answer(req[r], IF req[r].err = "none" \/ IsWritten(res) THEN res
                                 ELSE ReportTo(res)))
    /\ UNCHANGED <<hubVars, page, auth, metaVars>>

\* runGroup, whose subscription the broker does not end.
HubRuns(g) ==
    /\ Hub!LoopDone(g) \/ Hub!LoopEvent(g) \/ \E r \in Requests : Hub!LoopKill(g, r)
    /\ UNCHANGED <<page, auth, metaVars, req>>

Serves(r) ==
    \/ ServeHTTP(r) \/ Access(r) \/ Attach(r) \/ Start(r) \/ WorkEnds(r)
    \/ Recover(r) \/ Release(r) \/ ReleaseCloses(r) \/ Report(r)

Next ==
    \/ RefreshStores \/ RefreshPublishes
    \/ \E r \in Requests : Serves(r) \/ Interim(r)
    \/ \E g \in Groups : HubRuns(g)

Spec == Init /\ [][Next]_vars
-----------------------------------------------------------------------------
(* Properties *)

Quiet == unpublished = {} /\ \A g \in Groups : queue[g] = <<>> /\ victims[g] = {}

\* The hub is told of one commit, the page is read from another place, and a request
\* attaches some time after it has read it (server.go:323): nevertheless, once
\* everything published has arrived, a request that serves another commit than the
\* one announced last has been killed, unless nothing was announced since it
\* attached.  That is also so if two servers announce their commits in the wrong
\* order (update_hub.go:157).
StaleOnlyByLateAttach ==
    Quiet => \A r \in Requests :
        phase[r] = "attached" /\ r \notin killed /\ req[r].meta # announced
            => req[r].since = announced

\* Every request is answered, and by one author: neither a filter further out, nor
\* the error handler, nor the recovery from a panic adds to what a filter that then
\* failed has written (server.go:276, :292; the filters that recover, on a missing
\* file only).
ResponseIsNotMixed ==
    \A r \in Requests :
        /\ Cardinality(req[r].res.by) <= 1
        /\ req[r].pc = "over" => req[r].res.by # {}

Refused(r) ==
    \/ req[r].visit = Absent
    \/ enforceRequestSecurity(req[r].visit, Security(r)) = "forbidden"

\* Whoever writes the response of a page that was found, errors included, it has the
\* headers of the page's policy (pkg/security.go:77).  Not so the refusals of the
\* server itself, a connection that became a websocket's, and a response after a
\* 1xx one that reverse_proxy passed on: that was taken for the response.
PolicyIsApplied ==
    \A r \in Requests :
        LET res == req[r].res IN
        res.by # {} => res.policy \/ res.hijacked \/ res.interim \/ Refused(r)

\* What a filter makes of a private page goes to a visitor with a session that has
\* access, and only where the page's cookie policy let the session through; with a
\* session, a visitor is sent to log in only by that policy (pkg/security.go:18).
PrivateNeedsCookies ==
    \A r \in Requests :
        LET v == req[r].visit IN
        req[r].meta # NoCommit /\ Page[req[r].meta].private =>
            /\ phase[r] # "new" => /\ "session" \in v.cookies /\ v.access
                                  /\ Security(r).allowRequestCookies
            /\ "login" \in req[r].res.by /\ "session" \in v.cookies =>
                   ~Security(r).allowRequestCookies
-----------------------------------------------------------------------------
(* Liveness *)

\* What reads from the backend or an upstream under the request's own context, which
\* a kill does not cancel (filters/direct.go:31, filters/proxy.go:78).
DeafToKill(r) == req[r].pc = "work" /\ Worker(r) \in {"direct", "reverse_proxy"}

\* A script ends once its context has (ScriptRuntime's EndsWithContext).
ScriptEnds(r) == WorkEnds(r) /\ Worker(r) = "js" /\ r \in killed

\* The handler goes on, except that work may take as long as it likes: only a
\* template's does not.  The hub as in RepoUpdateHub.
Fairness ==
    /\ \A r \in Requests :
        /\ WF_vars(Access(r) \/ Attach(r) \/ Start(r) \/ Recover(r) \/ Release(r) \/ Report(r))
        /\ WF_vars(ReleaseCloses(r))
        /\ WF_vars(WorkEnds(r) /\ Worker(r) = "template")
        /\ WF_vars(ScriptEnds(r))
    /\ \A g \in Groups : WF_vars(HubRuns(g))

FairSpec == Spec /\ Fairness

\* A request killed by an update leaves the hub, whatever its filters return, or is
\* at what the kill does not reach (server.go:330).
KilledRequestsLeave ==
    \A r \in Requests : r \in killed ~> phase[r] = "released" \/ DeafToKill(r)
=============================================================================
