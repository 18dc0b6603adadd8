------------------------ MODULE RequestPipelineProofs ------------------------
(***************************************************************************)
(* Proofs about RequestPipeline, for every page, set of visits, requests   *)
(* and commits: who writes a response, with which headers, and who sees a  *)
(* private page, for which only the phases of the hub matter; then that    *)
(* the pipeline is a behaviour of the hub, so that what is proved of the   *)
(* hub alone holds here, and with it whom an update leaves behind.         *)
(***************************************************************************)
EXTENDS RequestPipeline, FiniteSetTheorems, TLAPS

Fields == {"pc", "visit", "meta", "path", "since", "at", "err", "res"}

Shape ==
    /\ DOMAIN req = Requests /\ DOMAIN phase = Requests
    /\ \A r \in Requests : DOMAIN req[r] = Fields

\* A response of which nothing is written, and one with an author.
Untouched(res) == res = NoAnswer
ByOne(res) == \E author : res.by = {author}

\* The visit is known from ServeHTTP on; only a page that was found has a commit.
Known(r) ==
    /\ req[r].pc = "new" => req[r].visit = Absent /\ req[r].meta = NoCommit
    /\ req[r].meta # NoCommit => req[r].visit \in Visits[r]
    /\ req[r].pc \in {"new", "access", "attach"} => phase[r] = "new"

\* Before a filter works nothing is written; a filter that works has written at most a
\* 1xx response; afterwards there is one author, or an error and still nothing.
Written(r) ==
    LET x == req[r] IN
    /\ x.pc \in {"new", "access", "attach", "start", "missing", "work", "release", "report",
                 "over"}
    /\ x.pc \in {"new", "access", "attach", "start", "missing"} => Untouched(x.res)
    /\ x.pc = "missing" => x.err = "notExist"
    /\ x.pc = "work" =>
           /\ Worker(r) \in Working \cup {"direct"}
           /\ Untouched(x.res) \/ x.res = InterimBy(NoAnswer)
    /\ x.pc \in {"release", "report"} => ByOne(x.res) \/ (Untouched(x.res) /\ x.err # "none")
    /\ x.pc = "over" => ByOne(x.res)

\* Whoever has written has done so under the policy, or is excused.
Covered(r) ==
    LET res == req[r].res IN
    res.by # {} => res.policy \/ res.hijacked \/ res.interim \/ Refused(r)

\* A private page's request attaches, and is at the hub, for a visitor who may see it.
MaySee(r) == /\ "session" \in req[r].visit.cookies /\ req[r].visit.access
             /\ Security(r).allowRequestCookies

Guarded(r) ==
    req[r].meta # NoCommit /\ Page[req[r].meta].private =>
        /\ req[r].pc = "attach" \/ phase[r] # "new" => MaySee(r)
        /\ "login" \in req[r].res.by /\ "session" \in req[r].visit.cookies =>
               ~Security(r).allowRequestCookies

Life(r) == Known(r) /\ Written(r) /\ Covered(r) /\ Guarded(r)

IInv == Shape /\ \A r \in Requests : Life(r)
-----------------------------------------------------------------------------
(* Responses *)

\* What a write makes of a response that has no author yet.
LEMMA ResponseFacts ==
    ASSUME NEW author
    PROVE  /\ NoAnswer.by = {} /\ ~NoAnswer.wrote /\ ~NoAnswer.interim /\ ~NoAnswer.hijacked
           /\ RawBy(NoAnswer, author).by = {author}
           /\ WriteBy(NoAnswer, author).by = {author} /\ WriteBy(NoAnswer, author).policy
           /\ WriteBy(InterimBy(NoAnswer), author).by = {author}
           /\ WriteBy(InterimBy(NoAnswer), author).interim
           /\ InterimBy(NoAnswer).by = {} /\ InterimBy(NoAnswer).interim
           /\ [RawBy(NoAnswer, author) EXCEPT !.hijacked = TRUE].by = {author}
           /\ [RawBy(NoAnswer, author) EXCEPT !.hijacked = TRUE].hijacked
           /\ [RawBy(InterimBy(NoAnswer), author) EXCEPT !.hijacked = TRUE].by = {author}
           /\ [RawBy(InterimBy(NoAnswer), author) EXCEPT !.hijacked = TRUE].hijacked
    BY DEF NoAnswer, RawBy, WriteBy, InterimBy

(* The phases of the hub *)

\* Only request r may become known to the hub.
PhaseKept(r) ==
    /\ DOMAIN phase' = DOMAIN phase
    /\ \A q \in Requests \ {r} : phase'[q] = phase[q]

\* The steps of the hub that concern a request, and the others.
LEMMA HubFacts ==
    ASSUME Shape
    PROVE  /\ \A r \in Requests : \A c :
                  Hub!AttachJoin(r, c) => PhaseKept(r) /\ phase'[r] # "new"
           /\ \A r \in Requests : \A c, g :
                  Hub!AttachNewGroup(r, c, g) => PhaseKept(r) /\ phase'[r] # "new"
           /\ \A r \in Requests : Hub!AttachFails(r) => PhaseKept(r) /\ phase'[r] # "new"
           /\ \A r \in Requests :
                  Hub!Detach(r) => PhaseKept(r) /\ phase[r] # "new" /\ phase'[r] # "new"
           /\ \A r \in Requests :
                  Hub!DetachClose(r) => PhaseKept(r) /\ phase[r] # "new" /\ phase'[r] # "new"
           /\ \A g \in Groups : Hub!LoopDone(g) \/ Hub!LoopEvent(g) => phase' = phase
           /\ \A g \in Groups, r \in Requests : Hub!LoopKill(g, r) => phase' = phase
           /\ \A c : Hub!Publish(c) => phase' = phase
<1>1. DOMAIN phase = Requests
    BY DEF Shape
<1>2. ASSUME NEW r \in Requests, NEW c, Hub!AttachJoin(r, c)
      PROVE  PhaseKept(r) /\ phase'[r] # "new"
    BY <1>1, <1>2 DEF Hub!AttachJoin, Hub!Watch, PhaseKept
<1>3. ASSUME NEW r \in Requests, NEW c, NEW g, Hub!AttachNewGroup(r, c, g)
      PROVE  PhaseKept(r) /\ phase'[r] # "new"
    BY <1>1, <1>3 DEF Hub!AttachNewGroup, Hub!Watch, PhaseKept
<1>4. ASSUME NEW r \in Requests, Hub!AttachFails(r)
      PROVE  PhaseKept(r) /\ phase'[r] # "new"
    BY <1>1, <1>4 DEF Hub!AttachFails, PhaseKept
<1>5. ASSUME NEW r \in Requests, Hub!Detach(r)
      PROVE  PhaseKept(r) /\ phase[r] # "new" /\ phase'[r] # "new"
    BY <1>1, <1>5 DEF Hub!Detach, PhaseKept
<1>6. ASSUME NEW r \in Requests, Hub!DetachClose(r)
      PROVE  PhaseKept(r) /\ phase[r] # "new" /\ phase'[r] # "new"
    BY <1>1, <1>6 DEF Hub!DetachClose, PhaseKept
<1>7. ASSUME NEW g \in Groups, Hub!LoopDone(g) \/ Hub!LoopEvent(g) PROVE phase' = phase
    BY <1>7 DEF Hub!LoopDone, Hub!LoopEvent, Hub!reqVars
<1>8. ASSUME NEW g \in Groups, NEW r \in Requests, Hub!LoopKill(g, r) PROVE phase' = phase
    BY <1>8 DEF Hub!LoopKill, Hub!reqVars
<1>9. ASSUME NEW c, Hub!Publish(c) PROVE phase' = phase
    BY <1>9 DEF Hub!Publish, Hub!reqVars
<1> QED
    BY <1>2, <1>3, <1>4, <1>5, <1>6, <1>7, <1>8, <1>9

-----------------------------------------------------------------------------
(* What a step leaves as it is *)

\* What is true of a request stays so while its record does and the hub knows it or not.
LEMMA LifeSame ==
    ASSUME NEW r \in Requests, Life(r), req'[r] = req[r], phase'[r] = "new" <=> phase[r] = "new"
    PROVE  Life(r)'
    BY DEF Life, Known, Written, Covered, Guarded, MaySee, Refused, Security, Worker, Chain

\* A step that leaves the requests as they are.
LEMMA IdleStep ==
    ASSUME IInv, req' = req, DOMAIN phase' = Requests,
           \A r \in Requests : phase'[r] = "new" <=> phase[r] = "new"
    PROVE  IInv'
    BY LifeSame DEF IInv, Shape

\* Request r goes on, with the visit and the commit it has: x is its record.
Advances(r, x) ==
    /\ Becomes(r, x) /\ DOMAIN x = Fields /\ PhaseKept(r)
    /\ req[r].pc # "new" /\ x.visit = req[r].visit /\ x.meta = req[r].meta
    /\ x.pc \in {"attach", "start", "missing", "work", "release", "report", "over"}
    /\ x.pc = "attach" => phase'[r] = "new"
    /\ x.pc \in {"attach", "start", "missing"} => Untouched(x.res)
    /\ x.pc = "missing" => x.err = "notExist"
    /\ x.pc = "work" =>
           /\ ChainOf(x.meta, x.path)[x.at].type \in Working \cup {"direct"}
           /\ Untouched(x.res) \/ x.res = InterimBy(NoAnswer)
    /\ x.pc \in {"release", "report"} => ByOne(x.res) \/ (Untouched(x.res) /\ x.err # "none")
    /\ x.pc = "over" => ByOne(x.res)
    /\ \/ x.res = req[r].res \/ x.res.by = {}
       \/ x.res.policy \/ x.res.hijacked \/ x.res.interim
    /\ req[r].meta # NoCommit /\ Page[req[r].meta].private =>
           /\ x.pc = "attach" \/ phase'[r] # "new" =>
                  req[r].pc = "attach" \/ phase[r] # "new" \/ MaySee(r)
           /\ "login" \in x.res.by /\ "session" \in req[r].visit.cookies =>
                  "login" \in req[r].res.by \/ ~Security(r).allowRequestCookies

\* A step that advances one request keeps the invariant.
LEMMA AdvancesStep ==
    ASSUME IInv, NEW r \in Requests, NEW x, Advances(r, x)
    PROVE  IInv'
<1>1. /\ DOMAIN req = Requests /\ DOMAIN phase = Requests
      /\ \A q \in Requests : DOMAIN req[q] = Fields /\ Life(q)
    BY DEF IInv, Shape
<1>2. /\ req'[r] = x /\ DOMAIN req' = Requests /\ DOMAIN phase' = Requests
      /\ \A q \in Requests \ {r} : req'[q] = req[q] /\ phase'[q] = phase[q]
    BY <1>1 DEF Advances, Becomes, PhaseKept
<1>3. Shape'
    BY <1>1, <1>2 DEF Shape, Advances
<1>4. ASSUME NEW q \in Requests, q # r PROVE Life(q)'
    BY <1>1, <1>2, <1>4, LifeSame
<1>5. Known(r)'
    BY <1>1, <1>2 DEF Advances, Life, Known
<1>6. Written(r)'
    BY <1>2 DEF Advances, Written, Worker, Chain
<1>7. Security(r)' = Security(r) /\ Refused(r)' = Refused(r) /\ MaySee(r)' = MaySee(r)
    BY <1>2 DEF Advances, Security, Refused, MaySee
<1>8. Covered(r)'
    BY <1>1, <1>2, <1>7 DEF Advances, Life, Covered
<1>9. Guarded(r)'
    BY <1>1, <1>2, <1>7 DEF Advances, Life, Guarded
<1> QED
    BY <1>3, <1>4, <1>5, <1>6, <1>8, <1>9 DEF IInv, Life

-----------------------------------------------------------------------------
(* The steps of a handler *)

\* ServeHTTP up to servePage: the lookup and the security settings.
LEMMA ServeStep ==
    ASSUME IInv, NEW r \in Requests, ServeHTTP(r)
    PROVE  IInv'
<1>1. /\ DOMAIN req = Requests /\ DOMAIN phase = Requests
      /\ \A q \in Requests : DOMAIN req[q] = Fields /\ Life(q)
    BY DEF IInv, Shape
<1>2. PICK v, path, err :
      /\ v \in Visits[r]
      /\ LET c == IF v.reserved THEN NoCommit ELSE stored
             x == [req[r] EXCEPT !.visit = v, !.meta = c]
             verdict == enforceRequestSecurity(v, SecurityOf(v, c))
         IN Becomes(r,
               IF err # "none" THEN Answer(req[r], RawBy(NoAnswer, "error"))
               ELSE CASE verdict = "forbidden" -> Answer(x, RawBy(NoAnswer, "server"))
                      [] verdict = "preflight" -> Answer(x, WriteBy(NoAnswer, "server"))
                      [] OTHER -> [x EXCEPT !.pc = "access", !.path = path])
    BY DEF ServeHTTP
<1>V. v \in Visits[r]
    BY <1>2
<1>3. /\ req[r].pc = "new" /\ req[r].visit = Absent /\ req[r].meta = NoCommit
      /\ req[r].res = NoAnswer /\ phase[r] = "new" /\ phase' = phase
    BY <1>1 DEF ServeHTTP, hubVars, Life, Known, Written, Untouched
<1>C. PICK c : c = IF v.reserved THEN NoCommit ELSE stored
    OBVIOUS
<1>A. PICK a : a = Answer(req[r], RawBy(NoAnswer, "error"))
    OBVIOUS
<1> DEFINE x == [req[r] EXCEPT !.visit = v, !.meta = c]
           f == Answer(x, RawBy(NoAnswer, "server"))
           p == Answer(x, WriteBy(NoAnswer, "server"))
           n == [x EXCEPT !.pc = "access", !.path = path]
           forbidden == enforceRequestSecurity(v, SecurityOf(v, c)) = "forbidden"
<1>4. \/ Becomes(r, a)
      \/ Becomes(r, f) /\ forbidden
      \/ Becomes(r, p)
      \/ Becomes(r, n)
    BY <1>2, <1>C, <1>A
<1>5. /\ DOMAIN a = Fields /\ a.pc = "over" /\ a.visit = Absent /\ a.meta = NoCommit
      /\ a.res = RawBy(NoAnswer, "error")
    BY <1>1, <1>3, <1>A DEF Answer, Fields
<1>6. DOMAIN x = Fields /\ x.visit = v /\ x.meta = c /\ x.res = NoAnswer
    BY <1>1, <1>3 DEF Fields
<1> HIDE DEF x
<1>7. /\ DOMAIN f = Fields /\ f.pc = "over" /\ f.visit = v /\ f.meta = c
      /\ f.res = RawBy(NoAnswer, "server")
    BY <1>6 DEF Answer, Fields
<1>8. /\ DOMAIN p = Fields /\ p.pc = "over" /\ p.visit = v /\ p.meta = c
      /\ p.res = WriteBy(NoAnswer, "server")
    BY <1>6 DEF Answer, Fields
<1>9. /\ DOMAIN n = Fields /\ n.pc = "access" /\ n.visit = v /\ n.meta = c /\ n.res = NoAnswer
    BY <1>6 DEF Fields
<1> HIDE DEF f, p, n
<1>10. ASSUME NEW y, Becomes(r, y), DOMAIN y = Fields, y.pc \in {"access", "over"},
              y.visit = v \/ y.meta = NoCommit,
              y.pc = "access" => Untouched(y.res), y.pc = "over" => ByOne(y.res),
              "login" \notin y.res.by,
              \/ y.res.by = {} \/ y.res.policy \/ y.visit = Absent
              \/ enforceRequestSecurity(y.visit, SecurityOf(y.visit, y.meta)) = "forbidden"
       PROVE  IInv'
  <2>1. /\ req'[r] = y /\ DOMAIN req' = Requests /\ DOMAIN phase' = Requests
        /\ \A q \in Requests \ {r} : req'[q] = req[q] /\ phase'[q] = phase[q]
    BY <1>1, <1>3, <1>10 DEF Becomes
  <2>2. Shape'
    BY <1>1, <1>10, <2>1 DEF Shape
  <2>3. ASSUME NEW q \in Requests, q # r PROVE Life(q)'
    BY <1>1, <2>1, <2>3, LifeSame
  <2>4. Known(r)' /\ Written(r)'
    BY <1>3, <1>V, <1>10, <2>1 DEF Known, Written
  <2>5. Covered(r)'
    BY <1>10, <2>1 DEF Covered, Refused, Security
  <2>6. Guarded(r)'
    BY <1>3, <1>10, <2>1 DEF Guarded
  <2> QED
    BY <2>2, <2>3, <2>4, <2>5, <2>6 DEF IInv, Life
<1>11. CASE Becomes(r, a)
  <2>1. a.res.by = {"error"}
    BY <1>5, ResponseFacts
  <2> QED
    BY <1>5, <1>10, <1>11, <2>1 DEF ByOne
<1>12. CASE Becomes(r, f) /\ forbidden
  <2>1. f.res.by = {"server"}
    BY <1>7, ResponseFacts
  <2> QED
    BY <1>7, <1>10, <1>12, <2>1 DEF ByOne
<1>13. CASE Becomes(r, p)
  <2>1. p.res.by = {"server"} /\ p.res.policy
    BY <1>8, ResponseFacts
  <2> QED
    BY <1>8, <1>10, <1>13, <2>1 DEF ByOne
<1>14. CASE Becomes(r, n)
  <2>1. n.res.by = {}
    BY <1>9, ResponseFacts
  <2> QED
    BY <1>9, <1>10, <1>14, <2>1 DEF Untouched
<1> QED
    BY <1>4, <1>11, <1>12, <1>13, <1>14

\* Someone answers, or the request fails, before its filters run.
LEMMA AnswersFacts ==
    ASSUME IInv, NEW r \in Requests, NEW author, req[r].pc \in {"access", "attach"}
    PROVE  /\ DOMAIN Answers(r, author) = Fields /\ Answers(r, author).pc = "report"
           /\ Answers(r, author).visit = req[r].visit /\ Answers(r, author).meta = req[r].meta
           /\ Answers(r, author).res.by = {author} /\ Answers(r, author).res.policy
           /\ DOMAIN Fails(r, "error") = Fields /\ Fails(r, "error").pc = "report"
           /\ Fails(r, "error").visit = req[r].visit /\ Fails(r, "error").meta = req[r].meta
           /\ Fails(r, "error").res = NoAnswer /\ Fails(r, "error").err = "error"
           /\ DOMAIN Goes(r, "attach") = Fields /\ Goes(r, "attach").pc = "attach"
           /\ Goes(r, "attach").visit = req[r].visit /\ Goes(r, "attach").meta = req[r].meta
           /\ Goes(r, "attach").res = NoAnswer
<1>1. DOMAIN req[r] = Fields /\ req[r].res = NoAnswer
    BY DEF IInv, Shape, Life, Written, Untouched
<1>2. /\ Answers(r, author).res = WriteBy(NoAnswer, author)
      /\ DOMAIN Answers(r, author) = Fields /\ Answers(r, author).pc = "report"
      /\ Answers(r, author).visit = req[r].visit /\ Answers(r, author).meta = req[r].meta
    BY <1>1 DEF Answers, Fields
<1>3. Answers(r, author).res.by = {author} /\ Answers(r, author).res.policy
    BY <1>2, ResponseFacts
<1> QED
    BY <1>1, <1>2, <1>3 DEF Fails, Goes, Fields

\* servePage up to the attach: the auth service.
LEMMA AccessStep ==
    ASSUME IInv, NEW r \in Requests, Access(r)
    PROVE  IInv'
<1>1. /\ Shape /\ Known(r) /\ Written(r) /\ Covered(r) /\ Guarded(r)
      /\ req[r].pc = "access" /\ phase[r] = "new" /\ phase' = phase /\ PhaseKept(r)
    BY DEF IInv, Life, Known, Access, hubVars, PhaseKept
<1>D. PICK private : private = (req[r].meta # NoCommit /\ Page[req[r].meta].private)
    OBVIOUS
<1>V. PICK v : v = req[r].visit
    OBVIOUS
<1>2. private => v \in Visits[r]
    BY <1>1, <1>D, <1>V DEF Known
\* The session that a visitor of a private page has was let through.
<1>3. ASSUME private, Session(r) PROVE "session" \in v.cookies /\ Security(r).allowRequestCookies
  <2>1. "cookies" \in DOMAIN v
    BY <1>2, <1>3, PipelineAssumption
  <2>2. [v EXCEPT !.cookies = {}].cookies = {}
    BY <2>1
  <2>3. "session" \in (IF Security(r).allowRequestCookies THEN v
                       ELSE [v EXCEPT !.cookies = {}]).cookies
    BY <1>3, <1>V DEF Session, applyRequestSecurity
  <2> QED
    BY <2>2, <2>3
<1>4. ~Session(r) /\ "session" \in v.cookies => ~Security(r).allowRequestCookies
    BY <1>V DEF Session, applyRequestSecurity
<1>5. \/ Becomes(r, Fails(r, "error"))
      \/ \E author \in {"auth", "server"} : Becomes(r, Answers(r, author))
      \/ Becomes(r, Answers(r, "login")) /\ ~Session(r)
      \/ Becomes(r, Goes(r, "attach")) /\ (private => Session(r) /\ v.access)
    BY <1>D, <1>V DEF Access
<1>6. CASE Becomes(r, Fails(r, "error"))
  <2>1. Fails(r, "error").res.by = {}
    BY <1>1, AnswersFacts, ResponseFacts
  <2>2. Advances(r, Fails(r, "error"))
    BY <1>1, <1>6, <2>1, AnswersFacts DEF Advances, Untouched
  <2> QED
    BY <2>2, AdvancesStep
<1>7. ASSUME NEW author \in {"auth", "server"}, Becomes(r, Answers(r, author)) PROVE IInv'
  <2>Y. PICK y : y = Answers(r, author)
    OBVIOUS
  <2>1. /\ DOMAIN y = Fields /\ y.pc = "report" /\ y.visit = req[r].visit /\ y.meta = req[r].meta
        /\ y.res.by = {author} /\ y.res.policy
    BY <1>1, <2>Y, AnswersFacts
  <2>2. "login" \notin y.res.by
    BY <1>7, <2>1
  <2>3. Advances(r, y)
    BY <1>1, <1>7, <2>Y, <2>1, <2>2 DEF Advances, ByOne
  <2> QED
    BY <2>3, AdvancesStep
<1>8. ASSUME Becomes(r, Answers(r, "login")), ~Session(r) PROVE IInv'
  <2>Y. PICK y : y = Answers(r, "login")
    OBVIOUS
  <2>1. /\ DOMAIN y = Fields /\ y.pc = "report" /\ y.visit = req[r].visit /\ y.meta = req[r].meta
        /\ y.res.by = {"login"} /\ y.res.policy
    BY <1>1, <2>Y, AnswersFacts
  <2>2. "session" \in req[r].visit.cookies => ~Security(r).allowRequestCookies
    BY <1>4, <1>8, <1>V
  <2>3. Advances(r, y)
    BY <1>1, <1>8, <2>Y, <2>1, <2>2 DEF Advances, ByOne
  <2> QED
    BY <2>3, AdvancesStep
<1>9. ASSUME Becomes(r, Goes(r, "attach")), private => Session(r) /\ v.access PROVE IInv'
  <2>1. Goes(r, "attach").res.by = {}
    BY <1>1, AnswersFacts, ResponseFacts
  <2>2. private => MaySee(r)
    BY <1>3, <1>9, <1>V DEF MaySee
  <2>3. Advances(r, Goes(r, "attach"))
    BY <1>1, <1>9, <1>D, <2>1, <2>2, AnswersFacts DEF Advances, Untouched
  <2> QED
    BY <2>3, AdvancesStep
<1> QED
    BY <1>5, <1>6, <1>7, <1>8, <1>9

\* The request attaches, or cannot subscribe.
LEMMA AttachStep ==
    ASSUME IInv, NEW r \in Requests, Attach(r)
    PROVE  IInv'
<1>1. /\ Shape /\ DOMAIN req[r] = Fields /\ req[r].res = NoAnswer /\ req[r].pc = "attach"
    BY DEF IInv, Shape, Life, Written, Untouched, Attach
<1> DEFINE y == [Goes(r, "start") EXCEPT !.since = announced]
<1>2. PhaseKept(r) /\ (Becomes(r, y) \/ Becomes(r, Fails(r, "error")))
    BY <1>1, HubFacts DEF Attach
<1>3. /\ DOMAIN y = Fields /\ y.pc = "start" /\ y.visit = req[r].visit /\ y.meta = req[r].meta
      /\ y.res = NoAnswer
    BY <1>1 DEF Goes, Fields
<1> HIDE DEF y
<1>4. CASE Becomes(r, y)
  <2>1. y.res.by = {}
    BY <1>3, ResponseFacts
  <2>2. Advances(r, y)
    BY <1>1, <1>2, <1>3, <1>4, <2>1 DEF Advances, Untouched
  <2> QED
    BY <2>2, AdvancesStep
<1>5. CASE Becomes(r, Fails(r, "error"))
  <2>1. Fails(r, "error").res.by = {}
    BY <1>1, AnswersFacts, ResponseFacts
  <2>2. Advances(r, Fails(r, "error"))
    BY <1>1, <1>2, <1>5, <2>1, AnswersFacts DEF Advances, Untouched
  <2> QED
    BY <2>2, AdvancesStep
<1> QED
    BY <1>2, <1>4, <1>5

-----------------------------------------------------------------------------
(* The steps of the filters *)

\* A filter returns: with the response of its own, or with an error and none.
LEMMA ReturnsStep ==
    ASSUME IInv, NEW r \in Requests, NEW err, NEW res, Returns(r, err, res), phase' = phase,
           req[r].pc \in {"start", "missing", "work"},
           \/ /\ ByOne(res) /\ "login" \notin res.by /\ err # "notExist"
              /\ res.policy \/ res.hijacked \/ res.interim
           \/ Untouched(res) /\ err # "none"
    PROVE  IInv'
<1>1. DOMAIN req[r] = Fields /\ PhaseKept(r) /\ phase'[r] = phase[r]
    BY DEF IInv, Shape, PhaseKept
<1>2. NoAnswer.by = {}
    BY ResponseFacts
<1>Y. PICK y : y = [req[r] EXCEPT !.err = err, !.res = res,
                        !.pc = IF err = "notExist" THEN "missing" ELSE AfterFilters(err)]
    OBVIOUS
<1>3. /\ DOMAIN y = Fields /\ y.visit = req[r].visit /\ y.meta = req[r].meta
      /\ y.err = err /\ y.res = res
      /\ y.pc = IF err = "notExist" THEN "missing" ELSE "release"
    BY <1>1, <1>Y DEF Fields, AfterFilters
<1>4. Becomes(r, y)
    BY <1>Y DEF Returns
<1>5. Advances(r, y)
    BY <1>1, <1>2, <1>3, <1>4 DEF Advances, Untouched
<1> QED
    BY <1>5, AdvancesStep

\* The chain on the way in.
LEMMA StartStep ==
    ASSUME IInv, NEW r \in Requests, Start(r)
    PROVE  IInv'
<1>1. /\ req[r].pc = "start" /\ DOMAIN req[r] = Fields /\ req[r].res = NoAnswer
      /\ phase' = phase /\ PhaseKept(r)
    BY DEF IInv, Shape, Life, Written, Untouched, Start, hubVars, PhaseKept
<1>2. NoAnswer.by = {}
    BY ResponseFacts
<1>K. PICK k : k = Reached(r)
    OBVIOUS
<1>F. PICK f : f = Chain(r)[k].type
    OBVIOUS
<1> DEFINE m == [Goes(r, "missing") EXCEPT !.err = "notExist", !.at = Len(Chain(r)) + 1]
           w == [Goes(r, "work") EXCEPT !.at = k]
<1>3. \/ Returns(r, "error", NoAnswer)
      \/ Becomes(r, m)
      \/ f \in {"block", "redirect"} /\ Returns(r, "none", WriteBy(NoAnswer, f))
      \/ f \in Working /\ Becomes(r, w)
    BY <1>1, <1>K, <1>F DEF Start
<1>4. /\ DOMAIN m = Fields /\ m.pc = "missing" /\ m.visit = req[r].visit /\ m.meta = req[r].meta
      /\ m.res = NoAnswer /\ m.err = "notExist"
    BY <1>1 DEF Goes, Fields
<1>5. /\ DOMAIN w = Fields /\ w.pc = "work" /\ w.visit = req[r].visit /\ w.meta = req[r].meta
      /\ w.res = NoAnswer /\ w.path = req[r].path /\ w.at = k
    BY <1>1 DEF Goes, Fields
<1> HIDE DEF m, w
<1>6. CASE Returns(r, "error", NoAnswer)
    BY <1>1, <1>6, ReturnsStep DEF Untouched
<1>7. CASE Becomes(r, m)
  <2>1. Advances(r, m)
    BY <1>1, <1>2, <1>4, <1>7 DEF Advances, Untouched
  <2> QED
    BY <2>1, AdvancesStep
<1>8. ASSUME f \in {"block", "redirect"}, Returns(r, "none", WriteBy(NoAnswer, f)) PROVE IInv'
  <2>R. PICK res : res = WriteBy(NoAnswer, f)
    OBVIOUS
  <2>1. res.by = {f} /\ res.policy
    BY <2>R, ResponseFacts
  <2> QED
    BY <1>1, <1>8, <2>R, <2>1, ReturnsStep DEF ByOne
<1>9. ASSUME f \in Working, Becomes(r, w) PROVE IInv'
  <2>1. ChainOf(w.meta, w.path)[w.at].type \in Working
    BY <1>5, <1>9, <1>F DEF Chain
  <2>2. Advances(r, w)
    BY <1>1, <1>2, <1>5, <1>9, <2>1 DEF Advances, Untouched
  <2> QED
    BY <2>2, AdvancesStep
<1> QED
    BY <1>3, <1>6, <1>7, <1>8, <1>9

\* A filter that works returns, with or without a response.
LEMMA WorkEndsStep ==
    ASSUME IInv, NEW r \in Requests, WorkEnds(r)
    PROVE  IInv'
<1>F. PICK f : f = Worker(r)
    OBVIOUS
<1>R. PICK res : res = req[r].res
    OBVIOUS
<1>1. /\ req[r].pc = "work" /\ phase' = phase /\ f \in Working \cup {"direct"}
      /\ res = NoAnswer \/ res = InterimBy(NoAnswer)
    BY <1>F, <1>R DEF IInv, Life, Written, Untouched, WorkEnds, hubVars
<1>2. f \in {"template", "js", "reverse_proxy", "direct"}
    BY <1>1 DEF Working
<1>3. Empty(f) \subseteq {"notExist", "error"} /\ Begun(f) \subseteq {"none", "error", "panic"}
    BY <1>2 DEF Empty, Begun
<1>4. \/ ~res.interim /\ \E err \in Empty(f) : Returns(r, err, res)
      \/ \E err \in Begun(f) : Returns(r, err, WriteBy(res, f))
      \/ \E err \in {"none", "error"} : Returns(r, err, [RawBy(res, f) EXCEPT !.hijacked = TRUE])
    BY <1>F, <1>R DEF WorkEnds
<1>5. ASSUME ~res.interim, NEW err \in Empty(f), Returns(r, err, res) PROVE IInv'
  <2>1. res = NoAnswer
    BY <1>1, <1>5, ResponseFacts
  <2>2. err # "none"
    BY <1>3, <1>5
  <2> QED
    BY <1>1, <1>5, <2>1, <2>2, ReturnsStep DEF Untouched
<1>6. ASSUME NEW err \in Begun(f), Returns(r, err, WriteBy(res, f)) PROVE IInv'
  <2>W. PICK w : w = WriteBy(res, f)
    OBVIOUS
  <2>1. w.by = {f} /\ (w.policy \/ w.interim)
    BY <1>1, <2>W, ResponseFacts
  <2>2. err # "notExist" /\ "login" \notin w.by
    BY <1>2, <1>3, <1>6, <2>1
  <2> QED
    BY <1>1, <1>6, <2>W, <2>1, <2>2, ReturnsStep DEF ByOne
<1>7. ASSUME NEW err \in {"none", "error"},
             Returns(r, err, [RawBy(res, f) EXCEPT !.hijacked = TRUE])
      PROVE  IInv'
  <2>W. PICK w : w = [RawBy(res, f) EXCEPT !.hijacked = TRUE]
    OBVIOUS
  <2>1. w.by = {f} /\ w.hijacked
    BY <1>1, <2>W, ResponseFacts
  <2>2. err # "notExist" /\ "login" \notin w.by
    BY <1>2, <1>7, <2>1
  <2> QED
    BY <1>1, <1>7, <2>W, <2>1, <2>2, ReturnsStep DEF ByOne
<1> QED
    BY <1>4, <1>5, <1>6, <1>7

\* A 1xx response passed on.
LEMMA InterimStep ==
    ASSUME IInv, NEW r \in Requests, Interim(r)
    PROVE  IInv'
<1>1. /\ req[r].pc = "work" /\ DOMAIN req[r] = Fields /\ phase' = phase /\ PhaseKept(r)
      /\ Worker(r) \in Working \cup {"direct"} /\ ~req[r].res.interim
      /\ req[r].res = NoAnswer \/ req[r].res = InterimBy(NoAnswer)
    BY DEF IInv, Shape, Life, Written, Untouched, Interim, hubVars, PhaseKept
<1>2. req[r].res = NoAnswer
    BY <1>1, ResponseFacts
<1>Y. PICK y : y = [req[r] EXCEPT !.res = InterimBy(@)]
    OBVIOUS
<1>3. /\ DOMAIN y = Fields /\ y.pc = "work" /\ y.visit = req[r].visit /\ y.meta = req[r].meta
      /\ y.path = req[r].path /\ y.at = req[r].at /\ y.res = InterimBy(NoAnswer)
    BY <1>1, <1>2, <1>Y DEF Fields
<1>4. y.res.by = {}
    BY <1>3, ResponseFacts
<1>5. ChainOf(y.meta, y.path)[y.at].type \in Working \cup {"direct"}
    BY <1>1, <1>3 DEF Worker, Chain
<1>6. Becomes(r, y)
    BY <1>Y DEF Interim
<1>7. Advances(r, y)
    BY <1>1, <1>3, <1>4, <1>5, <1>6 DEF Advances
<1> QED
    BY <1>7, AdvancesStep

\* The chain on the way out.
LEMMA RecoverStep ==
    ASSUME IInv, NEW r \in Requests, Recover(r)
    PROVE  IInv'
<1>1. /\ req[r].pc = "missing" /\ DOMAIN req[r] = Fields /\ req[r].res = NoAnswer
      /\ req[r].err = "notExist" /\ phase' = phase /\ PhaseKept(r)
    BY DEF IInv, Shape, Life, Written, Untouched, Recover, hubVars, PhaseKept
<1>2. NoAnswer.by = {}
    BY ResponseFacts
<1>K. PICK k : k = Recoverer(r)
    OBVIOUS
<1>F. PICK f : f = Chain(r)[k].type
    OBVIOUS
<1> DEFINE l == Goes(r, AfterFilters("notExist"))
           m == [req[r] EXCEPT !.at = k]
           w == [Goes(r, "work") EXCEPT !.at = k]
<1>3. \/ Becomes(r, l)
      \/ Becomes(r, m)
      \/ f = "direct" /\ Becomes(r, w)
      \/ Returns(r, "error", NoAnswer)
      \/ f = "direct" /\ Returns(r, "none", WriteBy(NoAnswer, f))
      \/ /\ f \in {"404", "failback"}
         /\ \E err \in Begun(f) : Returns(r, err, WriteBy(NoAnswer, f))
    BY <1>1, <1>K, <1>F DEF Recover
<1>4. /\ DOMAIN l = Fields /\ l.pc = "release" /\ l.visit = req[r].visit /\ l.meta = req[r].meta
      /\ l.res = NoAnswer /\ l.err = "notExist"
    BY <1>1 DEF Goes, Fields, AfterFilters
<1>5. /\ DOMAIN m = Fields /\ m.pc = "missing" /\ m.visit = req[r].visit /\ m.meta = req[r].meta
      /\ m.res = NoAnswer /\ m.err = "notExist"
    BY <1>1 DEF Fields
<1>6. /\ DOMAIN w = Fields /\ w.pc = "work" /\ w.visit = req[r].visit /\ w.meta = req[r].meta
      /\ w.res = NoAnswer /\ w.path = req[r].path /\ w.at = k
    BY <1>1 DEF Goes, Fields
<1> HIDE DEF l, m, w
<1>7. CASE Becomes(r, l)
  <2>1. Advances(r, l)
    BY <1>1, <1>2, <1>4, <1>7 DEF Advances, Untouched
  <2> QED
    BY <2>1, AdvancesStep
<1>8. CASE Becomes(r, m)
  <2>1. Advances(r, m)
    BY <1>1, <1>2, <1>5, <1>8 DEF Advances, Untouched
  <2> QED
    BY <2>1, AdvancesStep
<1>9. ASSUME f = "direct", Becomes(r, w) PROVE IInv'
  <2>1. ChainOf(w.meta, w.path)[w.at].type = "direct"
    BY <1>6, <1>9, <1>F DEF Chain
  <2>2. Advances(r, w)
    BY <1>1, <1>2, <1>6, <1>9, <2>1 DEF Advances, Untouched
  <2> QED
    BY <2>2, AdvancesStep
<1>10. CASE Returns(r, "error", NoAnswer)
    BY <1>1, <1>10, ReturnsStep DEF Untouched
<1>11. ASSUME f \in {"404", "direct", "failback"}, NEW err \in {"none", "error"},
              Returns(r, err, WriteBy(NoAnswer, f))
       PROVE  IInv'
  <2>W. PICK res : res = WriteBy(NoAnswer, f)
    OBVIOUS
  <2>1. res.by = {f} /\ res.policy
    BY <2>W, ResponseFacts
  <2> QED
    BY <1>1, <1>11, <2>W, <2>1, ReturnsStep DEF ByOne
<1>12. f \in {"404", "failback"} => Begun(f) \subseteq {"none", "error"}
    BY DEF Begun
<1> QED
    BY <1>3, <1>7, <1>8, <1>9, <1>10, <1>11, <1>12

-----------------------------------------------------------------------------
(* The steps at the end, and those of the hub and of the refreshes *)

\* The deferred release.
LEMMA ReleaseStep ==
    ASSUME IInv, NEW r \in Requests, Release(r)
    PROVE  IInv'
<1>1. /\ Shape /\ req[r].pc = "release" /\ DOMAIN req[r] = Fields
      /\ ByOne(req[r].res) \/ (Untouched(req[r].res) /\ req[r].err # "none")
    BY DEF IInv, Shape, Life, Written, Release
<1>2. PhaseKept(r) /\ phase[r] # "new"
    BY <1>1, HubFacts DEF Release
<1>Y. PICK y : y = [Goes(r, "report") EXCEPT !.since = NoCommit, !.at = 0]
    OBVIOUS
<1>3. /\ DOMAIN y = Fields /\ y.pc = "report" /\ y.visit = req[r].visit /\ y.meta = req[r].meta
      /\ y.res = req[r].res /\ y.err = req[r].err
    BY <1>1, <1>Y DEF Goes, Fields
<1>4. Becomes(r, y)
    BY <1>Y DEF Release
<1>5. Advances(r, y)
    BY <1>1, <1>2, <1>3, <1>4 DEF Advances
<1> QED
    BY <1>5, AdvancesStep

\* The error handler, or nothing.
LEMMA ReportStep ==
    ASSUME IInv, NEW r \in Requests, Report(r)
    PROVE  IInv'
<1>R. PICK res : res = req[r].res
    OBVIOUS
<1>1. /\ req[r].pc = "report" /\ DOMAIN req[r] = Fields /\ phase' = phase /\ PhaseKept(r)
      /\ ByOne(res) \/ (res = NoAnswer /\ req[r].err # "none")
    BY <1>R DEF IInv, Shape, Life, Written, Untouched, Report, hubVars, PhaseKept
<1>W. PICK w : w = IF req[r].err = "none" \/ IsWritten(res) THEN res ELSE ReportTo(res)
    OBVIOUS
\* The error handler writes where nobody has.
<1>2. \/ w = res /\ ByOne(w)
      \/ w.by = {"error"} /\ w.policy
  <2>1. ByOne(res) => IsWritten(res)
    BY DEF ByOne, IsWritten
  <2>2. ~IsWritten(NoAnswer)
    BY ResponseFacts DEF IsWritten
  <2>3. ReportTo(NoAnswer).by = {"error"} /\ ReportTo(NoAnswer).policy
    BY ResponseFacts DEF ReportTo
  <2> QED
    BY <1>1, <1>W, <2>1, <2>2, <2>3
<1>Y. PICK y : y = Answer(req[r], w)
    OBVIOUS
<1>3. /\ DOMAIN y = Fields /\ y.pc = "over" /\ y.visit = req[r].visit /\ y.meta = req[r].meta
      /\ y.res = w
    BY <1>1, <1>Y DEF Answer, Fields
<1>4. Becomes(r, y)
    BY <1>R, <1>W, <1>Y DEF Report
<1>5. Advances(r, y)
  <2>1. CASE w = res /\ ByOne(w)
    BY <1>1, <1>R, <1>3, <1>4, <2>1 DEF Advances
  <2>2. CASE w.by = {"error"} /\ w.policy
    BY <1>1, <1>3, <1>4, <2>2 DEF Advances, ByOne
  <2> QED
    BY <1>2, <2>1, <2>2
<1> QED
    BY <1>5, AdvancesStep

\* What happens at the hub and in the cache changes no request.
LEMMA OtherStep ==
    ASSUME IInv,
           \/ RefreshStores \/ RefreshPublishes
           \/ \E r \in Requests : ReleaseCloses(r)
           \/ \E g \in Groups : HubRuns(g)
    PROVE  IInv'
<1>1. Shape /\ DOMAIN phase = Requests
    BY DEF IInv, Shape
<1>2. ASSUME req' = req, phase' = phase PROVE IInv'
    BY <1>1, <1>2, IdleStep
<1>3. CASE RefreshStores
    BY <1>2, <1>3 DEF RefreshStores, hubVars
<1>4. CASE RefreshPublishes
  <2>1. req' = req /\ (UNCHANGED hubVars \/ \E c : Hub!Publish(c))
    BY <1>4 DEF RefreshPublishes
  <2>2. phase' = phase
    BY <1>1, <2>1, HubFacts DEF hubVars
  <2> QED
    BY <1>2, <2>1, <2>2
<1>5. ASSUME NEW r \in Requests, ReleaseCloses(r) PROVE IInv'
  <2>1. req' = req /\ Hub!DetachClose(r)
    BY <1>5 DEF ReleaseCloses
  <2>2. PhaseKept(r) /\ phase[r] # "new" /\ phase'[r] # "new"
    BY <1>1, <2>1, HubFacts
  <2> QED
    BY <1>1, <2>1, <2>2, IdleStep DEF PhaseKept
<1>6. ASSUME NEW g \in Groups, HubRuns(g) PROVE IInv'
  <2>1. req' = req /\ phase' = phase
    BY <1>1, <1>6, HubFacts DEF HubRuns
  <2> QED
    BY <1>2, <2>1
<1> QED
    BY <1>3, <1>4, <1>5, <1>6

-----------------------------------------------------------------------------
(* The invariant and what follows from it *)

\* Before any request.
LEMMA InitIInv == Init => IInv
<1> SUFFICES ASSUME Init PROVE IInv
    OBVIOUS
<1>1. phase = [r \in Requests |-> "new"]
    BY DEF Init, Hub!Init
<1>2. /\ DOMAIN req = Requests
      /\ \A r \in Requests :
             /\ DOMAIN req[r] = Fields
             /\ req[r].pc = "new" /\ req[r].visit = Absent /\ req[r].meta = NoCommit
             /\ req[r].res = NoAnswer
    BY DEF Init, Fields
<1>3. NoAnswer.by = {}
    BY ResponseFacts
<1>4. Shape
    BY <1>1, <1>2 DEF Shape
<1>5. ASSUME NEW r \in Requests PROVE Life(r)
    BY <1>1, <1>2, <1>3 DEF Life, Known, Written, Untouched, Covered, Guarded
<1> QED
    BY <1>4, <1>5 DEF IInv

\* Every step keeps the invariant.
LEMMA NextIInv == IInv /\ [Next]_vars => IInv'
<1> SUFFICES ASSUME IInv, [Next]_vars PROVE IInv'
    OBVIOUS
<1>1. ASSUME NEW r \in Requests, Serves(r) PROVE IInv'
    BY <1>1, ServeStep, AccessStep, AttachStep, StartStep, WorkEndsStep, RecoverStep,
       ReleaseStep, ReportStep, OtherStep DEF Serves
<1>2. ASSUME UNCHANGED vars PROVE IInv'
  <2>1. req' = req /\ phase' = phase
    BY <1>2 DEF vars, hubVars
  <2>2. DOMAIN phase = Requests
    BY DEF IInv, Shape
  <2> QED
    BY <2>1, <2>2, IdleStep
<1> QED
    BY <1>1, <1>2, InterimStep, OtherStep DEF Next

\* IInv holds in every reachable state: what ServeHTTP (server.go:246) has read of the
\* visit and the page decides, up to the end of the request, who writes and who sees it.
THEOREM Invariance == Spec => []IInv
<1> QED
    BY InitIInv, NextIInv, PTL DEF Spec

\* Every request is answered, and by one author (server.go:276, :292): the filters that
\* recover act on a missing file only, and the error handler and the recovery from a
\* panic on a response that nobody has begun.
THEOREM OneAuthor == Spec => []ResponseIsNotMixed
<1>1. IInv => ResponseIsNotMixed
  <2> SUFFICES ASSUME IInv, NEW r \in Requests
               PROVE  /\ Cardinality(req[r].res.by) <= 1
                      /\ req[r].pc = "over" => req[r].res.by # {}
    BY DEF ResponseIsNotMixed
  <2>1. /\ ByOne(req[r].res) \/ req[r].res.by = {}
        /\ req[r].pc = "over" => ByOne(req[r].res)
    BY ResponseFacts DEF IInv, Life, Written, Untouched
  <2>2. CASE ByOne(req[r].res)
    <3>1. PICK author : req[r].res.by = {author}
        BY <2>2 DEF ByOne
    <3>2. Cardinality(req[r].res.by) = 1
        BY <3>1, FS_Singleton
    <3> QED
        BY <3>1, <3>2
  <2>3. CASE req[r].res.by = {}
    BY <2>1, <2>3, FS_EmptySet DEF ByOne
  <2> QED
    BY <2>1, <2>2, <2>3
<1> QED
    BY <1>1, Invariance, PTL

\* Whoever writes the response of a page that was found, it has the headers of the
\* page's policy (pkg/security.go:77), except after a 1xx response, on a websocket's
\* connection and where the server refuses the visit.
THEOREM PolicyHolds == Spec => []PolicyIsApplied
<1>1. IInv => PolicyIsApplied
    BY DEF IInv, Life, Covered, PolicyIsApplied
<1> QED
    BY <1>1, Invariance, PTL

\* A private page's request is at the hub, and so at its filters, for a visitor with a
\* session and access only, and a session counts only where the page's policy lets it
\* through (pkg/security.go:18, server.go:298).
THEOREM PrivateIsGuarded == Spec => []PrivateNeedsCookies
<1>1. IInv => PrivateNeedsCookies
    BY DEF IInv, Life, Guarded, MaySee, PrivateNeedsCookies
<1> QED
    BY <1>1, Invariance, PTL

-----------------------------------------------------------------------------
(* The hub: the pipeline takes its steps *)

HubProofs == INSTANCE RepoUpdateHubProofs

\* A refresh stores before it publishes.
Refreshed ==
    /\ stored \in Commits \cup {NoCommit}
    /\ unpublished \subseteq {c \in Commits : c <= stored}

\* Only the requests for a page reach the hub.
Sought(r) ==
    /\ req[r].pc = "access" =>
           req[r].meta \in Commits \/ (req[r].visit.reserved /\ req[r].meta = NoCommit)
    /\ req[r].pc = "attach" => req[r].meta \in Commits

Looked == Refreshed /\ ended = {} /\ \A r \in Requests : Sought(r)

\* What a handler does to its request after it has attached.
Moves(r) ==
    /\ DOMAIN req' = Requests /\ \A q \in Requests \ {r} : req'[q] = req[q]
    /\ req[r].pc \notin {"new", "access", "attach"}
    /\ req'[r].pc \notin {"new", "access", "attach"} /\ req'[r].meta = req[r].meta

\* From the attach on, a handler keeps the commit, and until the release since.
LEMMA MovesFacts ==
    ASSUME IInv, NEW r \in Requests
    PROVE  /\ Start(r) \/ WorkEnds(r) \/ Interim(r) \/ Recover(r) \/ Report(r) =>
                  Moves(r) /\ req'[r].since = req[r].since
           /\ Release(r) => Moves(r)
<1>1. DOMAIN req = Requests /\ DOMAIN req[r] = Fields
    BY DEF IInv, Shape
<1>2. ASSUME NEW x, Becomes(r, x) PROVE
          req'[r] = x /\ DOMAIN req' = Requests /\ \A q \in Requests \ {r} : req'[q] = req[q]
    BY <1>1, <1>2 DEF Becomes
<1>3. ASSUME NEW err, NEW res, Returns(r, err, res),
             req[r].pc \notin {"new", "access", "attach"}
      PROVE  Moves(r) /\ req'[r].since = req[r].since
  <2>Y. PICK y : y = [req[r] EXCEPT !.err = err, !.res = res,
                          !.pc = IF err = "notExist" THEN "missing" ELSE AfterFilters(err)]
    OBVIOUS
  <2>1. /\ y.meta = req[r].meta /\ y.since = req[r].since
        /\ y.pc \notin {"new", "access", "attach"}
    BY <1>1, <2>Y DEF Fields, AfterFilters
  <2>2. Becomes(r, y)
    BY <1>3, <2>Y DEF Returns
  <2> QED
    BY <1>2, <1>3, <2>1, <2>2 DEF Moves
<1> DEFINE Same(y, pc) == y.meta = req[r].meta /\ y.since = req[r].since /\ y.pc = pc
<1>4. ASSUME NEW y, NEW pc, Becomes(r, y), Same(y, pc),
             pc \notin {"new", "access", "attach"}, req[r].pc \notin {"new", "access", "attach"}
      PROVE  Moves(r) /\ req'[r].since = req[r].since
    BY <1>2, <1>4 DEF Moves
<1>5. ASSUME NEW k
      PROVE  /\ Same([req[r] EXCEPT !.at = k], req[r].pc)
             /\ Same([req[r] EXCEPT !.res = k], req[r].pc)
             /\ Same(Goes(r, AfterFilters("notExist")), "release")
             /\ Same(Answer(req[r], k), "over")
    BY <1>1 DEF Goes, Answer, AfterFilters, Fields
<1> HIDE DEF Same
<1>6. ASSUME Start(r) PROVE Moves(r) /\ req'[r].since = req[r].since
  <2>1. /\ req[r].pc = "start"
        /\ \/ \E err, res : Returns(r, err, res)
           \/ \E k : Becomes(r, [Goes(r, "missing") EXCEPT !.err = "notExist", !.at = k])
           \/ \E k : Becomes(r, [Goes(r, "work") EXCEPT !.at = k])
    BY <1>6 DEF Start
  <2>2. ASSUME NEW k, Becomes(r, [Goes(r, "missing") EXCEPT !.err = "notExist", !.at = k])
        PROVE  Moves(r) /\ req'[r].since = req[r].since
    <3>Y. PICK y : y = [Goes(r, "missing") EXCEPT !.err = "notExist", !.at = k]
      OBVIOUS
    <3>1. Same(y, "missing")
      BY <1>1, <3>Y DEF Same, Goes, Fields
    <3>2. Becomes(r, y) /\ req[r].pc \notin {"new", "access", "attach"}
      BY <2>1, <2>2, <3>Y
    <3> QED
      BY <1>4, <3>1, <3>2
  <2>3. ASSUME NEW k, Becomes(r, [Goes(r, "work") EXCEPT !.at = k])
        PROVE  Moves(r) /\ req'[r].since = req[r].since
    <3>Y. PICK y : y = [Goes(r, "work") EXCEPT !.at = k]
      OBVIOUS
    <3>1. Same(y, "work")
      BY <1>1, <3>Y DEF Same, Goes, Fields
    <3>2. Becomes(r, y) /\ req[r].pc \notin {"new", "access", "attach"}
      BY <2>1, <2>3, <3>Y
    <3> QED
      BY <1>4, <3>1, <3>2
  <2> QED
    BY <1>3, <2>1, <2>2, <2>3
<1>7. ASSUME WorkEnds(r) PROVE Moves(r) /\ req'[r].since = req[r].since
    BY <1>3, <1>7 DEF WorkEnds
<1>8. ASSUME Interim(r) PROVE Moves(r) /\ req'[r].since = req[r].since
    BY <1>4, <1>5, <1>8 DEF Interim
<1>9. ASSUME Recover(r) PROVE Moves(r) /\ req'[r].since = req[r].since
  <2>1. /\ req[r].pc = "missing"
        /\ \/ \E err, res : Returns(r, err, res)
           \/ \E k : Becomes(r, [req[r] EXCEPT !.at = k])
           \/ \E k : Becomes(r, [Goes(r, "work") EXCEPT !.at = k])
           \/ Becomes(r, Goes(r, AfterFilters("notExist")))
    BY <1>9 DEF Recover
  <2>2. ASSUME NEW k, Becomes(r, [req[r] EXCEPT !.at = k])
        PROVE  Moves(r) /\ req'[r].since = req[r].since
    BY <1>4, <1>5, <2>1, <2>2
  <2>3. ASSUME NEW k, Becomes(r, [Goes(r, "work") EXCEPT !.at = k])
        PROVE  Moves(r) /\ req'[r].since = req[r].since
    <3>Y. PICK y : y = [Goes(r, "work") EXCEPT !.at = k]
      OBVIOUS
    <3>1. Same(y, "work")
      BY <1>1, <3>Y DEF Same, Goes, Fields
    <3>2. Becomes(r, y) /\ req[r].pc \notin {"new", "access", "attach"}
      BY <2>1, <2>3, <3>Y
    <3> QED
      BY <1>4, <3>1, <3>2
  <2>4. ASSUME Becomes(r, Goes(r, AfterFilters("notExist")))
        PROVE  Moves(r) /\ req'[r].since = req[r].since
    BY <1>4, <1>5, <2>1, <2>4
  <2> QED
    BY <1>3, <2>1, <2>2, <2>3, <2>4
<1>10. ASSUME Report(r) PROVE Moves(r) /\ req'[r].since = req[r].since
  <2>1. req[r].pc = "report" /\ \E res : Becomes(r, Answer(req[r], res))
    BY <1>10 DEF Report
  <2> QED
    BY <1>4, <1>5, <2>1
<1>11. ASSUME Release(r) PROVE Moves(r)
  <2>Y. PICK y : y = [Goes(r, "report") EXCEPT !.since = NoCommit, !.at = 0]
    OBVIOUS
  <2>1. y.meta = req[r].meta /\ y.pc = "report"
    BY <1>1, <2>Y DEF Goes, Fields
  <2>2. Becomes(r, y) /\ req[r].pc = "release"
    BY <1>11, <2>Y DEF Release
  <2> QED
    BY <1>2, <2>1, <2>2 DEF Moves
<1> QED
    BY <1>6, <1>7, <1>8, <1>9, <1>10, <1>11

\* The lookup finds a page only where one is stored.
LEMMA LookupFacts ==
    ASSUME NEW v, NEW found \in ParseDomainMeta(v), found.err = "none"
    PROVE  stored # NoCommit
<1>1. ASSUME NEW repo, NEW segments, NEW f \in returnMeta(repo, segments), f.err = "none"
      PROVE  stored # NoCommit
    BY <1>1 DEF returnMeta, Found
<1>2. CASE v.host # Base
    BY <1>1, <1>2 DEF ParseDomainMeta, Found
<1>3. CASE v.host = Base
  <2>P. PICK first : first = IF Head(v.path) = "" THEN returnMeta(Base, v.path)
                             ELSE returnMeta(Head(v.path), Tail(v.path))
    OBVIOUS
  <2>1. PICK f \in first : found \in IF f.err = "notExist" THEN returnMeta(Base, v.path) ELSE {f}
    BY <1>3, <2>P DEF ParseDomainMeta
  <2> QED
    BY <1>1, <2>P, <2>1
<1> QED
    BY <1>2, <1>3

\* What a handler does before its request has attached.
LEMMA EarlyFacts ==
    ASSUME IInv, Refreshed, NEW r \in Requests, Sought(r)
    PROVE  /\ ServeHTTP(r) =>
                  /\ DOMAIN req' = Requests /\ \A q \in Requests \ {r} : req'[q] = req[q]
                  /\ req[r].pc = "new" /\ req'[r].pc \in {"access", "over"}
                  /\ req'[r].pc = "access" =>
                         \/ req'[r].meta \in Commits
                         \/ req'[r].visit.reserved /\ req'[r].meta = NoCommit
           /\ Access(r) =>
                  /\ DOMAIN req' = Requests /\ \A q \in Requests \ {r} : req'[q] = req[q]
                  /\ req[r].pc = "access" /\ req'[r].pc \in {"report", "attach"}
                  /\ req'[r].pc = "attach" => req'[r].meta \in Commits
           /\ Attach(r) =>
                  /\ DOMAIN req' = Requests /\ \A q \in Requests \ {r} : req'[q] = req[q]
                  /\ req[r].pc = "attach" /\ req'[r].meta = req[r].meta
                  /\ \/ req'[r].pc = "report" /\ Hub!AttachFails(r)
                     \/ /\ req'[r].pc = "start" /\ req'[r].since = announced
                        /\ \/ Hub!AttachJoin(r, req[r].meta)
                           \/ \E g \in Groups : Hub!AttachNewGroup(r, req[r].meta, g)
<1>1. DOMAIN req = Requests /\ DOMAIN req[r] = Fields
    BY DEF IInv, Shape
<1>2. ASSUME NEW x, Becomes(r, x) PROVE
          req'[r] = x /\ DOMAIN req' = Requests /\ \A q \in Requests \ {r} : req'[q] = req[q]
    BY <1>1, <1>2 DEF Becomes
<1>3. ASSUME ServeHTTP(r)
      PROVE  /\ DOMAIN req' = Requests /\ \A q \in Requests \ {r} : req'[q] = req[q]
             /\ req[r].pc = "new" /\ req'[r].pc \in {"access", "over"}
             /\ req'[r].pc = "access" =>
                    \/ req'[r].meta \in Commits
                    \/ req'[r].visit.reserved /\ req'[r].meta = NoCommit
  <2>1. PICK v, found :
           /\ found \in IF v.reserved THEN {Found("none", Absent)} ELSE ParseDomainMeta(v)
           /\ LET c == IF v.reserved THEN NoCommit ELSE stored
                  x == [req[r] EXCEPT !.visit = v, !.meta = c]
                  verdict == enforceRequestSecurity(v, SecurityOf(v, c))
              IN Becomes(r,
                    IF found.err # "none" THEN Answer(req[r], RawBy(NoAnswer, "error"))
                    ELSE CASE verdict = "forbidden" -> Answer(x, RawBy(NoAnswer, "server"))
                           [] verdict = "preflight" -> Answer(x, WriteBy(NoAnswer, "server"))
                           [] OTHER -> [x EXCEPT !.pc = "access", !.path = found.path])
    BY <1>3 DEF ServeHTTP
  <2>C. PICK c : c = IF v.reserved THEN NoCommit ELSE stored
    OBVIOUS
  <2>2. found.err = "none" => c \in Commits \/ (v.reserved /\ c = NoCommit)
    BY <2>1, <2>C, LookupFacts DEF Refreshed
  <2> DEFINE x == [req[r] EXCEPT !.visit = v, !.meta = c]
             n == [x EXCEPT !.pc = "access", !.path = found.path]
  <2>3. \/ \E y, res : Becomes(r, Answer(y, res)) /\ DOMAIN y = Fields
        \/ found.err = "none" /\ Becomes(r, n)
    <3>1. DOMAIN x = Fields
      BY <1>1 DEF Fields
    <3> QED
      BY <1>1, <2>1, <2>C, <3>1
  <2>4. n.pc = "access" /\ n.visit = v /\ n.meta = c
    BY <1>1 DEF Fields
  <2>5. ASSUME NEW y, NEW res, DOMAIN y = Fields PROVE Answer(y, res).pc = "over"
    BY <2>5 DEF Answer, Fields
  <2> HIDE DEF n
  <2>6. req[r].pc = "new"
    BY <1>3 DEF ServeHTTP
  <2> QED
    BY <1>2, <2>2, <2>3, <2>4, <2>5, <2>6
<1>4. ASSUME Access(r)
      PROVE  /\ DOMAIN req' = Requests /\ \A q \in Requests \ {r} : req'[q] = req[q]
             /\ req[r].pc = "access" /\ req'[r].pc \in {"report", "attach"}
             /\ req'[r].pc = "attach" => req'[r].meta \in Commits
  <2>1. /\ Fails(r, "error").pc = "report" /\ \A author : Answers(r, author).pc = "report"
        /\ Goes(r, "attach").pc = "attach" /\ Goes(r, "attach").meta = req[r].meta
    BY <1>1 DEF Fails, Answers, Goes, Fields
  <2>2. req[r].pc = "access"
    BY <1>4 DEF Access
  <2>3. \/ Becomes(r, Fails(r, "error"))
        \/ \E author : Becomes(r, Answers(r, author))
        \/ /\ Becomes(r, Goes(r, "attach"))
           /\ ~req[r].visit.reserved \/ req[r].meta # NoCommit
    BY <1>4 DEF Access
  <2> QED
    BY <1>2, <2>1, <2>2, <2>3 DEF Sought
<1>5. ASSUME Attach(r)
      PROVE  /\ DOMAIN req' = Requests /\ \A q \in Requests \ {r} : req'[q] = req[q]
             /\ req[r].pc = "attach" /\ req'[r].meta = req[r].meta
             /\ \/ req'[r].pc = "report" /\ Hub!AttachFails(r)
                \/ /\ req'[r].pc = "start" /\ req'[r].since = announced
                   /\ \/ Hub!AttachJoin(r, req[r].meta)
                      \/ \E g \in Groups : Hub!AttachNewGroup(r, req[r].meta, g)
  <2> DEFINE y == [Goes(r, "start") EXCEPT !.since = announced]
  <2>1. /\ y.pc = "start" /\ y.since = announced /\ y.meta = req[r].meta
        /\ Fails(r, "error").pc = "report" /\ Fails(r, "error").meta = req[r].meta
    BY <1>1 DEF Fails, Goes, Fields
  <2>2. Groups \ used # {} => (CHOOSE g \in Groups \ used : TRUE) \in Groups
    OBVIOUS
  <2>3. /\ req[r].pc = "attach"
        /\ \/ Hub!AttachFails(r) /\ Becomes(r, Fails(r, "error"))
           \/ /\ Becomes(r, y)
              /\ \/ Hub!AttachJoin(r, req[r].meta)
                 \/ /\ Groups \ used # {}
                    /\ Hub!AttachNewGroup(r, req[r].meta, CHOOSE g \in Groups \ used : TRUE)
    BY <1>5 DEF Attach, AttachedCommit
  <2> HIDE DEF y
  <2> QED
    BY <1>2, <2>1, <2>2, <2>3
<1> QED
    BY <1>3, <1>4, <1>5

\* The refreshes store newer and newer commits, and publish what they have stored.
LEMMA RefreshedStep ==
    ASSUME Refreshed, [Next]_vars
    PROVE  Refreshed'
<1>1. CASE RefreshStores
  <2>1. PICK c \in Commits :
            c > stored /\ stored' = c /\ unpublished' \subseteq unpublished \cup {c}
    BY <1>1 DEF RefreshStores
  <2>2. \A d \in unpublished : d \in Commits /\ d <= c
    BY <2>1, PipelineAssumption DEF Refreshed
  <2>3. c <= c
    BY PipelineAssumption
  <2> QED
    BY <2>1, <2>2, <2>3 DEF Refreshed
<1>2. CASE RefreshPublishes
    BY <1>2 DEF RefreshPublishes, Refreshed
<1>3. CASE UNCHANGED metaVars
    BY <1>3 DEF metaVars, Refreshed
<1>4. RefreshStores \/ RefreshPublishes \/ UNCHANGED metaVars
    BY DEF Next, vars, Serves, ServeHTTP, Access, Attach, Start, WorkEnds, Interim, Recover,
           Release, ReleaseCloses, Report, HubRuns
<1> QED
    BY <1>1, <1>2, <1>3, <1>4

\* What reaches the hub is the page of a commit; no subscription ends.
LEMMA LookedStep ==
    ASSUME IInv, Looked, [Next]_vars
    PROVE  Looked'
<1>1. Refreshed'
    BY RefreshedStep DEF Looked
<1>2. ended' = ended
  <2>1. ASSUME NEW r \in Requests, Attach(r) \/ Release(r) \/ ReleaseCloses(r) PROVE ended' = ended
      BY <2>1 DEF Attach, Hub!AttachJoin, Hub!AttachNewGroup, Hub!AttachFails, Release,
                  Hub!Detach, ReleaseCloses, Hub!DetachClose, Hub!brokerVars
  <2>2. ASSUME NEW g \in Groups, HubRuns(g) PROVE ended' = ended
      BY <2>2 DEF HubRuns, Hub!LoopDone, Hub!LoopEvent, Hub!LoopKill, Hub!brokerVars
  <2>3. CASE RefreshPublishes
      BY <2>3 DEF RefreshPublishes, Hub!Publish, hubVars
  <2>4. CASE UNCHANGED hubVars
      BY <2>4 DEF hubVars
  <2> QED
      BY <2>1, <2>2, <2>3, <2>4
         DEF Next, vars, Serves, RefreshStores, ServeHTTP, Access, Start, WorkEnds, Interim,
             Recover, Report
<1>3. ASSUME NEW q \in Requests PROVE Sought(q)'
  <2>1. ASSUME req'[q] = req[q] PROVE Sought(q)'
    BY <2>1, <1>3 DEF Looked, Sought
  <2>2. ASSUME NEW r \in Requests, Moves(r) PROVE Sought(q)'
    BY <2>1, <2>2 DEF Moves, Sought
  <2>3. ASSUME NEW r \in Requests, ServeHTTP(r) \/ Access(r) \/ Attach(r) PROVE Sought(q)'
    BY <2>1, <2>3, EarlyFacts DEF Looked, Sought
  <2>4. CASE req' = req
    BY <2>1, <2>4
  <2> QED
    BY <2>2, <2>3, <2>4, MovesFacts
       DEF Next, vars, Serves, RefreshStores, RefreshPublishes, ReleaseCloses, HubRuns
<1> QED
    BY <1>1, <1>2, <1>3 DEF Looked

\* Every step of the pipeline is one of the hub, or leaves the hub as it is.
LEMMA HubStep ==
    ASSUME IInv, Looked, [Next]_vars
    PROVE  [Hub!Next]_(Hub!vars)
<1>1. ASSUME UNCHANGED hubVars PROVE UNCHANGED Hub!vars
    BY <1>1 DEF hubVars, Hub!vars, Hub!groupVars, Hub!loopVars, Hub!brokerVars, Hub!reqVars
<1>2. CASE RefreshPublishes
    BY <1>1, <1>2 DEF RefreshPublishes, Looked, Refreshed, Hub!Next, Hub!Broker
<1>3. ASSUME NEW r \in Requests, Attach(r) PROVE Hub!Next
  <2>1. req[r].meta \in Commits
    BY <1>3 DEF Attach, Looked, Sought
  <2>2. Hub!Attach(r)
    BY <1>3, <2>1, EarlyFacts DEF Looked, Hub!Attach
  <2> QED
    BY <2>2 DEF Hub!Next
<1>4. ASSUME NEW r \in Requests, Release(r) \/ ReleaseCloses(r) PROVE Hub!Next
    BY <1>4 DEF Release, ReleaseCloses, Hub!Next
<1>5. ASSUME NEW g \in Groups, HubRuns(g) PROVE Hub!Next
    BY <1>5 DEF HubRuns, Hub!Next, Hub!runGroup
<1> QED
    BY <1>1, <1>2, <1>3, <1>4, <1>5
       DEF Next, vars, Serves, RefreshStores, ServeHTTP, Access, Start, WorkEnds, Interim,
           Recover, Report

\* What is proved of the hub alone is proved of this instance of it.
LEMMA HubSame == Hub!Spec => []HubProofs!IInv
<1>1. HubProofs!HubAssumption
    BY PipelineAssumption DEF HubProofs!HubAssumption
<1>2. Hub!Init => HubProofs!Init
    BY DEF Hub!Init, HubProofs!Init, Hub!Channels, HubProofs!Channels
<1>3. [Hub!Next]_(Hub!vars) => [HubProofs!Next]_(HubProofs!vars)
  <2> USE DEF Hub!groupVars, Hub!loopVars, Hub!brokerVars, Hub!reqVars, HubProofs!groupVars,
          HubProofs!loopVars, HubProofs!brokerVars, HubProofs!reqVars
  <2>1. UNCHANGED Hub!vars => UNCHANGED HubProofs!vars
    BY DEF Hub!vars, HubProofs!vars
  <2>2. \A r, c : Hub!AttachJoin(r, c) => HubProofs!AttachJoin(r, c)
    BY DEF Hub!AttachJoin, HubProofs!AttachJoin, Hub!Watch, HubProofs!Watch
  <2>3. \A r, c, g : Hub!AttachNewGroup(r, c, g) => HubProofs!AttachNewGroup(r, c, g)
    BY DEF Hub!AttachNewGroup, HubProofs!AttachNewGroup, Hub!Watch, HubProofs!Watch
  <2>4. \A r : Hub!AttachFails(r) => HubProofs!AttachFails(r)
    BY DEF Hub!AttachFails, HubProofs!AttachFails
  <2>5. \A r : Hub!Detach(r) => HubProofs!Detach(r)
    BY DEF Hub!Detach, HubProofs!Detach, Hub!ShouldClose, HubProofs!ShouldClose
  <2>6. \A r : Hub!DetachClose(r) => HubProofs!DetachClose(r)
    BY DEF Hub!DetachClose, HubProofs!DetachClose, Hub!Close, HubProofs!Close
  <2>7. \A g : Hub!LoopDone(g) => HubProofs!LoopDone(g)
    BY DEF Hub!LoopDone, HubProofs!LoopDone
  <2>8. \A g : Hub!LoopEvent(g) => HubProofs!LoopEvent(g)
    BY DEF Hub!LoopEvent, HubProofs!LoopEvent, Hub!EventValue, HubProofs!EventValue,
           Hub!Outdated, HubProofs!Outdated, Hub!DeletedBuckets, HubProofs!DeletedBuckets
  <2>9. \A g, r : Hub!LoopKill(g, r) => HubProofs!LoopKill(g, r)
    BY DEF Hub!LoopKill, HubProofs!LoopKill, Hub!VictimsAfter, HubProofs!VictimsAfter
  <2>10. \A g, ch : Hub!LoopChannelClosed(g, ch) => HubProofs!LoopChannelClosed(g, ch)
    BY DEF Hub!LoopChannelClosed, HubProofs!LoopChannelClosed
  <2>11. \A g : Hub!LoopEnd(g) => HubProofs!LoopEnd(g)
    BY DEF Hub!LoopEnd, HubProofs!LoopEnd, Hub!EntryAfterLoop, HubProofs!EntryAfterLoop,
           Hub!Close, HubProofs!Close
  <2>12. \A c : Hub!Publish(c) => HubProofs!Publish(c)
    BY DEF Hub!Publish, HubProofs!Publish, Hub!Subscribed, HubProofs!Subscribed
  <2>13. \A g : Hub!BrokerEnds(g) => HubProofs!BrokerEnds(g)
    BY DEF Hub!BrokerEnds, HubProofs!BrokerEnds
  <2>14. Hub!Channels = HubProofs!Channels
    BY DEF Hub!Channels, HubProofs!Channels
  <2>15. Hub!Next => HubProofs!Next
    BY <2>2, <2>3, <2>4, <2>5, <2>6, <2>7, <2>8, <2>9, <2>10, <2>11, <2>12, <2>13, <2>14
       DEF Hub!Next, HubProofs!Next, Hub!Attach, HubProofs!Attach, Hub!runGroup,
           HubProofs!runGroup, Hub!Broker, HubProofs!Broker
  <2> QED
    BY <2>1, <2>15
<1>4. Hub!Spec => HubProofs!Spec
    BY <1>2, <1>3, PTL DEF Hub!Spec, HubProofs!Spec
<1> QED
    BY <1>1, <1>4, HubProofs!Invariance, PTL

-----------------------------------------------------------------------------
(* Updates: what an attached request has heard of them *)

\* A request attaches under the commit whose page it serves.
Linked(r) == phase[r] = "attached" => commit[r] = req[r].meta

\* A commit that will not be published any more.
Told(c) == c <= stored /\ c \notin unpublished

\* A group is told of a commit once.
SentOnce(g) ==
    /\ Told(lastSeen[g])
    /\ \A i \in 1..Len(queue[g]) :
           /\ Told(queue[g][i]) /\ queue[g][i] # lastSeen[g]
           /\ \A j \in 1..(i - 1) : queue[g][j] # queue[g][i]

\* A watcher attached after the last announcement, or that waits as the last event in
\* the queue of the group, or it has been handled and is that of the watcher's commit.
Heard(g, r) ==
    \/ req[r].since = announced
    \/ queue[g] # <<>> /\ queue[g][Len(queue[g])] = announced
    \/ commit[r] = announced

Updates ==
    /\ \A r \in Requests : Linked(r)
    /\ \A g \in Groups : SentOnce(g) /\ \A r \in watchers[g] : Heard(g, r)

\* Of the hub: a watcher is an attached request of the group, which listens.
LEMMA WatcherFacts ==
    ASSUME HubProofs!IInv, ended = {}
    PROVE  /\ queue \in [Groups -> Seq(Commits)]
           /\ lastSeen \in [Groups -> Commits \cup {NoCommit}]
           /\ watchers \in [Groups -> SUBSET Requests]
           /\ DOMAIN commit = Requests /\ DOMAIN home = Requests /\ DOMAIN phase = Requests
           /\ \A g \in Groups : \A r \in watchers[g] :
                  /\ phase[r] = "attached" /\ home[r] = g
                  /\ g \in Hub!Subscribed /\ g \notin done /\ loop[g] # "stopped"
           /\ \A r \in Requests : phase[r] = "attached" =>
                  home[r] \in Groups /\ r \in watchers[home[r]] \cup victims[home[r]] \cup killed
<1> USE DEF HubProofs!IInv
<1>1. /\ queue \in [Groups -> Seq(Commits)]
      /\ lastSeen \in [Groups -> Commits \cup {NoCommit}]
      /\ watchers \in [Groups -> SUBSET Requests]
      /\ DOMAIN commit = Requests /\ DOMAIN home = Requests /\ DOMAIN phase = Requests
      /\ home \in [Requests -> Groups \cup {NoGroup}]
    BY DEF HubProofs!TypeOK
<1>2. ASSUME NEW g \in Groups, NEW r \in watchers[g]
      PROVE  /\ phase[r] = "attached" /\ home[r] = g
             /\ g \in Hub!Subscribed /\ g \notin done /\ loop[g] # "stopped"
  <2>1. r \in Requests /\ phase[r] = "attached" /\ home[r] = g
    BY <1>1 DEF HubProofs!WatcherInOnePlace
  <2>2. g \in used
    BY <2>1, PipelineAssumption DEF HubProofs!RequestLife
  <2>3. g \notin closed
    BY DEF HubProofs!StrandedOnlyByBroker
  <2> QED
    BY <2>1, <2>2, <2>3 DEF HubProofs!GroupLife, Hub!Subscribed
<1>3. ASSUME NEW r \in Requests, phase[r] = "attached"
      PROVE  home[r] \in Groups /\ r \in watchers[home[r]] \cup victims[home[r]] \cup killed
    BY <1>1, <1>3 DEF HubProofs!RequestLife, HubProofs!WatcherInOnePlace
<1> QED
    BY <1>1, <1>2, <1>3

\* The hub knows a request under the commit that it serves.
LEMMA LinkedStep ==
    ASSUME IInv, Looked, HubProofs!IInv, Updates, [Next]_vars, NEW q \in Requests
    PROVE  Linked(q)'
<1>1. DOMAIN phase = Requests /\ Linked(q) /\ Known(q)
    BY DEF IInv, Shape, Life, Updates
<1>2. ASSUME phase' = phase, commit' = commit, req'[q].meta = req[q].meta PROVE Linked(q)'
    BY <1>1, <1>2 DEF Linked
<1>3. ASSUME NEW r \in Requests, Start(r) \/ WorkEnds(r) \/ Interim(r) \/ Recover(r) \/ Report(r)
      PROVE  Linked(q)'
  <2>1. UNCHANGED hubVars
    BY <1>3 DEF Start, WorkEnds, Interim, Recover, Report
  <2> QED
    BY <1>2, <1>3, <2>1, MovesFacts DEF Moves, hubVars
<1>4. ASSUME NEW r \in Requests, ServeHTTP(r) \/ Access(r) PROVE Linked(q)'
  <2>1. /\ UNCHANGED hubVars /\ req[r].pc \in {"new", "access"}
        /\ \A p \in Requests \ {r} : req'[p] = req[p]
    BY <1>4, EarlyFacts DEF ServeHTTP, Access, Looked
  <2>2. CASE q = r
    BY <1>1, <2>1, <2>2 DEF Known, Linked, hubVars
  <2> QED
    BY <1>2, <2>1, <2>2 DEF hubVars
<1>5. ASSUME NEW r \in Requests, Attach(r) PROVE Linked(q)'
  <2>1. /\ req'[r].meta = req[r].meta /\ \A p \in Requests \ {r} : req'[p] = req[p]
        /\ \/ Hub!AttachFails(r) \/ Hub!AttachJoin(r, req[r].meta)
           \/ \E g \in Groups : Hub!AttachNewGroup(r, req[r].meta, g)
    BY <1>5, EarlyFacts DEF Looked
  <2>2. CASE Hub!AttachFails(r)
    BY <1>1, <2>1, <2>2 DEF Hub!AttachFails, Linked
  <2>3. ASSUME NEW g, Hub!Watch(r, req[r].meta, g) PROVE Linked(q)'
    <3>1. DOMAIN commit = Requests
      BY WatcherFacts DEF Looked
    <3> QED
      BY <1>1, <2>1, <2>3, <3>1 DEF Hub!Watch, Linked
  <2> QED
    BY <2>1, <2>2, <2>3 DEF Hub!AttachJoin, Hub!AttachNewGroup
<1>6. ASSUME NEW r \in Requests, Release(r) \/ ReleaseCloses(r) PROVE Linked(q)'
  <2>1. CASE Release(r)
    BY <1>1, <2>1, MovesFacts DEF Release, Hub!Detach, Moves, Linked
  <2>2. CASE ReleaseCloses(r)
    BY <1>1, <2>2 DEF ReleaseCloses, Hub!DetachClose, Linked
  <2> QED
    BY <1>6, <2>1, <2>2
<1>7. ASSUME NEW g \in Groups, HubRuns(g) PROVE Linked(q)'
    BY <1>2, <1>7 DEF HubRuns, Hub!LoopDone, Hub!LoopEvent, Hub!LoopKill, Hub!reqVars
<1>8. ASSUME RefreshStores \/ RefreshPublishes PROVE Linked(q)'
    BY <1>2, <1>8 DEF RefreshStores, RefreshPublishes, Hub!Publish, Hub!reqVars, hubVars
<1>9. CASE UNCHANGED vars
    BY <1>2, <1>9 DEF vars, hubVars
<1> QED
    BY <1>3, <1>4, <1>5, <1>6, <1>7, <1>8, <1>9 DEF Next, Serves

\* A commit is stored once, so published once, so an event is never a repetition.
LEMMA SentOnceStep ==
    ASSUME Looked, HubProofs!IInv, Updates, [Next]_vars, NEW g \in Groups
    PROVE  SentOnce(g)'
<1>1. /\ queue \in [Groups -> Seq(Commits)] /\ lastSeen \in [Groups -> Commits \cup {NoCommit}]
      /\ SentOnce(g) /\ Refreshed
    BY WatcherFacts DEF Looked, Updates
<1>Q. PICK q : q = queue[g]
    OBVIOUS
<1>2. q \in Seq(Commits) /\ Len(q) \in Nat /\ \A i \in 1..Len(q) : q[i] \in Commits
    BY <1>1, <1>Q
<1>3. ASSUME queue'[g] = q, lastSeen'[g] = lastSeen[g],
             \A c \in Commits \cup {NoCommit} : Told(c) => Told(c)'
      PROVE  SentOnce(g)'
    BY <1>1, <1>2, <1>3, <1>Q DEF SentOnce
<1>4. ASSUME UNCHANGED <<queue, lastSeen, metaVars>> PROVE SentOnce(g)'
    BY <1>3, <1>4, <1>Q DEF metaVars, Told
<1>5. CASE RefreshStores
  <2>1. PICK c \in Commits :
            c > stored /\ stored' = c /\ unpublished' \subseteq unpublished \cup {c}
    BY <1>5 DEF RefreshStores
  <2>2. ASSUME NEW d \in Commits \cup {NoCommit}, Told(d) PROVE Told(d)'
    <3>1. d <= stored /\ d \notin unpublished
      BY <2>2 DEF Told
    <3>2. c \in Int /\ d \in Int /\ stored \in Int
      BY <1>1, PipelineAssumption DEF Refreshed
    <3>3. d <= c /\ d # c
      BY <2>1, <3>1, <3>2
    <3> QED
      BY <2>1, <3>1, <3>3 DEF Told
  <2> QED
    BY <1>3, <1>5, <1>Q, <2>2 DEF RefreshStores, hubVars
<1>6. CASE RefreshPublishes
  <2>1. PICK c \in unpublished :
            /\ unpublished' = unpublished \ {c} /\ stored' = stored
            /\ UNCHANGED hubVars \/ Hub!Publish(c)
    BY <1>6 DEF RefreshPublishes
  <2>2. \A d : Told(d) => Told(d)' /\ d # c
    BY <2>1 DEF Told
  <2>3. c \in Commits /\ Told(c)'
    BY <1>1, <2>1 DEF Told, Refreshed
  <2>4. lastSeen' = lastSeen /\ (queue'[g] = q \/ queue'[g] = Append(q, c))
    BY <2>1, <1>Q DEF hubVars, Hub!Publish, Hub!groupVars
  <2>5. CASE queue'[g] = Append(q, c)
    <3>A. PICK a : a = Append(q, c)
      OBVIOUS
    <3>1. /\ Len(a) = Len(q) + 1 /\ a[Len(q) + 1] = c
          /\ \A i \in 1..Len(q) : a[i] = q[i]
      BY <1>2, <2>3, <3>A
    <3>2. Told(lastSeen[g])' /\ lastSeen[g] # c
      BY <1>1, <2>2, <2>4 DEF SentOnce
    <3>3. ASSUME NEW i \in 1..Len(a)
          PROVE  /\ Told(a[i])' /\ a[i] # lastSeen[g]
                 /\ \A j \in 1..(i - 1) : a[j] # a[i]
      <4>1. CASE i = Len(q) + 1
        <5>1. \A j \in 1..(i - 1) : j \in 1..Len(q) /\ q[j] # c
          BY <1>1, <1>2, <1>Q, <2>2, <4>1 DEF SentOnce
        <5> QED
          BY <2>3, <3>1, <3>2, <4>1, <5>1
      <4>2. CASE i \in 1..Len(q)
        <5>1. \A j \in 1..(i - 1) : j \in 1..Len(q) /\ q[j] # q[i]
          BY <1>1, <1>2, <1>Q, <4>2 DEF SentOnce
        <5>2. Told(q[i]) /\ q[i] # lastSeen[g]
          BY <1>1, <1>Q, <4>2 DEF SentOnce
        <5> QED
          BY <2>2, <3>1, <4>2, <5>1, <5>2
      <4> QED
        BY <1>2, <3>1, <3>3, <4>1, <4>2
    <3>4. queue'[g] = a /\ lastSeen'[g] = lastSeen[g]
      BY <2>4, <2>5, <3>A
    <3> QED
      BY <3>2, <3>3, <3>4 DEF SentOnce, Told
  <2> QED
    BY <1>3, <2>2, <2>4, <2>5
<1>7. ASSUME NEW x \in Groups, HubRuns(x) PROVE SentOnce(g)'
  <2>1. UNCHANGED metaVars /\ \A d : Told(d) => Told(d)'
    BY <1>7 DEF HubRuns, metaVars, Told
  <2>2. CASE Hub!LoopDone(x)
    <3>1. lastSeen' = lastSeen /\ (queue'[g] = q \/ queue'[g] = <<>>)
      BY <1>1, <1>Q, <2>2 DEF Hub!LoopDone, Hub!groupVars
    <3>2. CASE queue'[g] = <<>>
      BY <1>1, <2>1, <3>1, <3>2 DEF SentOnce
    <3> QED
      BY <1>3, <2>1, <3>1, <3>2
  <2>3. CASE Hub!LoopEvent(x)
    <3>1. CASE x # g
      <4>1. queue'[g] = q /\ lastSeen'[g] = lastSeen[g]
        BY <1>1, <1>Q, <2>3, <3>1 DEF Hub!LoopEvent
      <4> QED
        BY <1>3, <2>1, <4>1
    <3>2. CASE x = g
      <4>1. q # <<>> /\ queue'[g] = Tail(q) /\ lastSeen'[g] = Head(q)
        BY <1>1, <1>Q, <2>3, <3>2 DEF Hub!LoopEvent, Hub!EventValue
      <4>T. PICK t : t = Tail(q)
        OBVIOUS
      <4>2. /\ Len(q) > 0 /\ Head(q) = q[1] /\ Len(t) = Len(q) - 1
            /\ \A i \in 1..Len(t) : t[i] = q[i + 1]
        BY <1>2, <4>1, <4>T
      <4>3. Told(q[1])
        BY <1>1, <1>2, <1>Q, <4>2 DEF SentOnce
      <4>4. ASSUME NEW i \in 1..Len(t)
            PROVE  Told(t[i]) /\ t[i] # q[1] /\ \A j \in 1..(i - 1) : t[j] # t[i]
        <5>1. i + 1 \in 1..Len(q) /\ 1 \in 1..((i + 1) - 1)
          BY <1>2, <4>2, <4>4
        <5>2. Told(q[i + 1]) /\ \A j \in 1..((i + 1) - 1) : q[j] # q[i + 1]
          BY <1>1, <1>Q, <5>1 DEF SentOnce
        <5>3. \A j \in 1..(i - 1) : j \in 1..Len(t) /\ j + 1 \in 1..((i + 1) - 1)
          BY <1>2, <4>2, <4>4
        <5> QED
          BY <4>2, <4>4, <5>1, <5>2, <5>3
      <4>5. queue'[g] = t /\ lastSeen'[g] = q[1]
        BY <4>1, <4>2, <4>T
      <4> QED
        BY <2>1, <4>3, <4>4, <4>5 DEF SentOnce
    <3> QED
      BY <3>1, <3>2
  <2>4. ASSUME NEW r \in Requests, Hub!LoopKill(x, r) PROVE SentOnce(g)'
    BY <1>4, <2>1, <2>4 DEF Hub!LoopKill, Hub!groupVars, Hub!brokerVars
  <2> QED
    BY <1>7, <2>2, <2>3, <2>4 DEF HubRuns
<1>8. ASSUME NEW r \in Requests, Serves(r) \/ Interim(r)
      PROVE  UNCHANGED <<queue, lastSeen, metaVars>>
  <2> USE DEF hubVars
  <2>1. CASE Attach(r)
    BY <2>1 DEF Attach, Hub!AttachJoin, Hub!AttachNewGroup, Hub!AttachFails, Hub!brokerVars,
                Hub!groupVars
  <2>2. CASE Release(r) \/ ReleaseCloses(r)
    BY <2>2 DEF Release, ReleaseCloses, Hub!Detach, Hub!DetachClose, Hub!brokerVars
  <2> QED
    BY <1>8, <2>1, <2>2
       DEF Serves, ServeHTTP, Access, Start, WorkEnds, Interim, Recover, Report
<1>9. CASE UNCHANGED vars
    BY <1>4, <1>9 DEF vars, hubVars
<1> QED
    BY <1>4, <1>5, <1>6, <1>7, <1>8, <1>9 DEF Next

\* An event takes every watcher of another commit, as it is never a repetition.
LEMMA HeardStep ==
    ASSUME IInv, Looked, HubProofs!IInv, Updates, [Next]_vars,
           NEW g \in Groups, NEW r \in watchers'[g]
    PROVE  Heard(g, r)'
<1>1. /\ queue \in [Groups -> Seq(Commits)] /\ lastSeen \in [Groups -> Commits \cup {NoCommit}]
      /\ watchers \in [Groups -> SUBSET Requests] /\ DOMAIN commit = Requests
      /\ \A x \in Groups : \A p \in watchers[x] :
             /\ p \in Requests /\ phase[p] = "attached" /\ home[p] = x
             /\ x \in Hub!Subscribed /\ x \notin done /\ loop[x] # "stopped"
    BY WatcherFacts DEF Looked
<1>2. \A p \in watchers[g] : Heard(g, p)
    BY DEF Updates
<1>3. ASSUME r \in watchers[g], queue'[g] = queue[g], commit'[r] = commit[r],
             announced' = announced, req'[r].since = req[r].since
      PROVE  Heard(g, r)'
    BY <1>2, <1>3 DEF Heard
<1>4. ASSUME NEW p \in Requests,
             Start(p) \/ WorkEnds(p) \/ Interim(p) \/ Recover(p) \/ Report(p)
      PROVE  Heard(g, r)'
  <2>1. UNCHANGED hubVars /\ announced' = announced
    BY <1>4 DEF Start, WorkEnds, Interim, Recover, Report, metaVars
  <2>2. r \in watchers[g] /\ r \in Requests
    BY <1>1, <2>1 DEF hubVars
  <2>3. req'[r].since = req[r].since
    BY <1>4, <2>2, MovesFacts DEF Moves
  <2> QED
    BY <1>3, <2>1, <2>2, <2>3 DEF hubVars
<1>5. ASSUME NEW p \in Requests, ServeHTTP(p) \/ Access(p) PROVE Heard(g, r)'
  <2>1. /\ UNCHANGED hubVars /\ announced' = announced /\ req[p].pc \in {"new", "access"}
        /\ \A q \in Requests \ {p} : req'[q] = req[q]
    BY <1>5, EarlyFacts DEF ServeHTTP, Access, Looked, metaVars
  <2>2. phase[p] = "new"
    BY <2>1 DEF IInv, Life, Known
  <2>3. r \in watchers[g] /\ r # p /\ r \in Requests
    BY <1>1, <2>1, <2>2 DEF hubVars
  <2> QED
    BY <1>3, <2>1, <2>3 DEF hubVars
<1>6. ASSUME NEW p \in Requests, Attach(p) PROVE Heard(g, r)'
  <2>1. /\ announced' = announced /\ \A q \in Requests \ {p} : req'[q] = req[q]
        /\ \/ Hub!AttachFails(p)
           \/ /\ req'[p].since = announced
              /\ \/ Hub!AttachJoin(p, req[p].meta)
                 \/ \E x \in Groups : Hub!AttachNewGroup(p, req[p].meta, x)
    BY <1>6, EarlyFacts DEF Looked, Attach, metaVars
  <2>2. /\ queue' = queue /\ r \in watchers[g] \cup {p}
        /\ \A q \in Requests \ {p} : commit'[q] = commit[q]
    <3>1. CASE Hub!AttachFails(p)
      BY <3>1 DEF Hub!AttachFails, Hub!groupVars, Hub!brokerVars
    <3>2. ASSUME NEW x, Hub!Watch(p, req[p].meta, x), queue' = queue
          PROVE  r \in watchers[g] \cup {p} /\ \A q \in Requests \ {p} : commit'[q] = commit[q]
      BY <1>1, <3>2 DEF Hub!Watch
    <3>3. ASSUME NEW x, Hub!AttachJoin(p, req[p].meta) \/ Hub!AttachNewGroup(p, req[p].meta, x)
          PROVE  queue' = queue /\ \E y : Hub!Watch(p, req[p].meta, y)
      BY <3>3 DEF Hub!AttachJoin, Hub!AttachNewGroup, Hub!brokerVars
    <3> QED
      BY <2>1, <3>1, <3>2, <3>3
  <2>3. CASE r # p
    BY <1>1, <1>3, <2>1, <2>2, <2>3
  <2>4. CASE r = p
    <3>1. req[p].pc = "attach" /\ phase[p] = "new"
      BY <1>6 DEF Attach, IInv, Life, Known
    <3>2. r \notin watchers[g]
      BY <1>1, <2>4, <3>1
    <3>3. ~Hub!AttachFails(p)
      BY <3>2 DEF Hub!AttachFails, Hub!groupVars
    <3> QED
      BY <2>1, <2>4, <3>3 DEF Heard
  <2> QED
    BY <2>3, <2>4
<1>7. ASSUME NEW p \in Requests, Release(p) PROVE Heard(g, r)'
  <2>1. /\ queue' = queue /\ commit' = commit /\ announced' = announced
        /\ watchers' = [watchers EXCEPT ![home[p]] = @ \ {p}]
        /\ \A q \in Requests \ {p} : req'[q] = req[q]
    BY <1>7, MovesFacts DEF Release, Hub!Detach, Hub!brokerVars, metaVars, Moves
  <2>2. r \in watchers[g]
    BY <1>1, <2>1
  <2>3. r # p
    BY <1>1, <2>1, <2>2
  <2> QED
    BY <1>1, <1>3, <2>1, <2>2, <2>3
<1>8. ASSUME NEW p \in Requests, ReleaseCloses(p) PROVE Heard(g, r)'
    BY <1>3, <1>8 DEF ReleaseCloses, Hub!DetachClose, Hub!brokerVars, metaVars
<1>9. ASSUME NEW x \in Groups, HubRuns(x) PROVE Heard(g, r)'
  <2>1. announced' = announced /\ req' = req
    BY <1>9 DEF HubRuns, metaVars
  <2>2. CASE Hub!LoopDone(x)
    <3>1. /\ x \in done /\ watchers' = watchers /\ commit' = commit
          /\ queue' = [queue EXCEPT ![x] = <<>>]
      BY <2>2 DEF Hub!LoopDone, Hub!groupVars, Hub!reqVars
    <3>2. r \in watchers[g] /\ g # x
      BY <1>1, <3>1
    <3> QED
      BY <1>1, <1>3, <2>1, <3>1, <3>2
  <2>3. CASE Hub!LoopEvent(x)
    <3>1. /\ commit' = commit /\ queue' = [queue EXCEPT ![x] = Tail(@)] /\ queue[x] # <<>>
          /\ watchers' = [watchers EXCEPT ![x] = @ \ Hub!DeletedBuckets(x, Head(queue[x]))]
      BY <2>3 DEF Hub!LoopEvent, Hub!EventValue, Hub!reqVars
    <3>2. r \in watchers[g]
      BY <1>1, <3>1
    <3>3. CASE x # g
      BY <1>1, <1>3, <2>1, <3>1, <3>2, <3>3
    <3>4. CASE x = g
      <4>Q. PICK q : q = queue[g]
        OBVIOUS
      <4>T. PICK t : t = Tail(q)
        OBVIOUS
      <4>1. q \in Seq(Commits) /\ q # <<>> /\ queue'[g] = t /\ Head(q) = q[1]
        BY <1>1, <3>1, <3>4, <4>Q, <4>T
      <4>2. Len(q) \in Nat /\ Len(q) >= 1 /\ 1 \in 1..Len(q)
        BY <4>1
      <4>3. q[1] # lastSeen[g]
        BY <4>2, <4>Q DEF Updates, SentOnce
      <4>4. commit[r] = q[1]
        BY <1>1, <3>1, <3>2, <3>4, <4>1, <4>3, <4>Q DEF Hub!DeletedBuckets, Hub!Outdated
      <4>5. CASE Len(q) = 1
        BY <1>2, <2>1, <3>1, <3>2, <4>4, <4>5, <4>Q DEF Heard
      <4>6. CASE Len(q) # 1
        <5>1. /\ t \in Seq(Commits) /\ Len(t) = Len(q) - 1
              /\ \A i \in 1..Len(t) : t[i] = q[i + 1]
          BY <4>1, <4>2, <4>T
        <5>2. Len(t) \in Nat /\ Len(t) >= 1 /\ Len(t) \in 1..Len(t) /\ Len(t) + 1 = Len(q)
          BY <4>2, <4>6, <5>1
        <5>3. t # <<>> /\ t[Len(t)] = q[Len(q)]
          BY <5>1, <5>2
        <5> QED
          BY <1>2, <2>1, <3>1, <3>2, <4>1, <4>Q, <5>3 DEF Heard
      <4> QED
        BY <4>5, <4>6
    <3> QED
      BY <3>3, <3>4
  <2>4. ASSUME NEW p \in Requests, Hub!LoopKill(x, p) PROVE Heard(g, r)'
    BY <1>3, <2>1, <2>4 DEF Hub!LoopKill, Hub!groupVars, Hub!brokerVars, Hub!reqVars
  <2> QED
    BY <1>9, <2>2, <2>3, <2>4 DEF HubRuns
<1>10. CASE RefreshStores
    BY <1>3, <1>10 DEF RefreshStores, hubVars
\* It reaches the group, which listens as it has a watcher.
<1>11. CASE RefreshPublishes
  <2>1. PICK c \in unpublished :
            /\ announced' = c /\ req' = req
            /\ LET S == {x \in Hub!Subscribed : loop[x] # "stopped"} IN
               IF S = {} THEN UNCHANGED hubVars
               ELSE Hub!Publish(c) /\ \A x \in S : queue'[x] # queue[x]
    BY <1>11 DEF RefreshPublishes
  <2>2. watchers' = watchers
    BY <2>1 DEF hubVars, Hub!Publish, Hub!groupVars
  <2>3. g \in Hub!Subscribed /\ loop[g] # "stopped"
    BY <1>1, <2>2
  <2>4. Hub!Publish(c) /\ queue'[g] # queue[g]
    BY <2>1, <2>3
  <2>5. queue'[g] = Append(queue[g], c)
    BY <2>4 DEF Hub!Publish
  <2>6. c \in Commits /\ queue[g] \in Seq(Commits)
    BY <1>1 DEF Looked, Refreshed
  <2>7. queue'[g] # <<>> /\ queue'[g][Len(queue'[g])] = c
    <3>Q. PICK q : q = queue[g]
      OBVIOUS
    <3>A. PICK a : a = Append(q, c)
      OBVIOUS
    <3>1. a # <<>> /\ a[Len(a)] = c
      BY <2>6, <3>Q, <3>A
    <3> QED
      BY <2>5, <3>1, <3>Q, <3>A
  <2> QED
    BY <2>1, <2>7 DEF Heard
<1>12. CASE UNCHANGED vars
    BY <1>3, <1>12 DEF vars, hubVars, metaVars
<1>13. ASSUME NEW p \in Requests, Serves(p) \/ Interim(p) PROVE Heard(g, r)'
    BY <1>4, <1>5, <1>6, <1>7, <1>8, <1>13 DEF Serves
<1> QED
    BY <1>9, <1>10, <1>11, <1>12, <1>13 DEF Next

-----------------------------------------------------------------------------
\* Every behaviour of the pipeline is one of the hub (pkg/core/update_hub.go): it attaches
\* a request under a commit of the page, releases it once, and delivers what is published.
THEOREM ImplementsHub == Spec => Hub!Spec
<1>1. Init => Hub!Init /\ Looked
  <2> SUFFICES ASSUME Init PROVE Hub!Init /\ Looked
    OBVIOUS
  <2>1. ended = {} /\ \A r \in Requests : req[r].pc = "new"
    BY DEF Init, Hub!Init
  <2> QED
    BY <2>1 DEF Init, Looked, Refreshed, Sought
<1>2. IInv /\ Looked /\ [Next]_vars => Looked' /\ [Hub!Next]_(Hub!vars)
    BY LookedStep, HubStep
<1> QED
    BY <1>1, <1>2, Invariance, PTL DEF Spec, Hub!Spec

\* Once everything published has arrived, a request that serves another commit than the
\* one announced last has been killed, unless nothing was announced since it attached
\* (server.go:323, update_hub.go:157).
THEOREM KilledUnlessLate == Spec => []StaleOnlyByLateAttach
<1>1. Init => Looked /\ Updates
  <2> SUFFICES ASSUME Init PROVE Looked /\ Updates
    OBVIOUS
  <2>1. /\ ended = {} /\ phase = [r \in Requests |-> "new"]
        /\ \A g \in Groups : queue[g] = <<>> /\ lastSeen[g] = NoCommit /\ watchers[g] = {}
        /\ \A r \in Requests : req[r].pc = "new"
        /\ stored = NoCommit /\ unpublished = {}
    BY DEF Init, Hub!Init
  <2>2. Told(NoCommit)
    BY <2>1, PipelineAssumption DEF Told
  <2>3. Looked
    BY <2>1 DEF Looked, Refreshed, Sought
  <2>4. \A g \in Groups : SentOnce(g)
    BY <2>1, <2>2 DEF SentOnce
  <2> QED
    BY <2>1, <2>3, <2>4 DEF Updates, Linked
<1>2. IInv /\ Looked /\ HubProofs!IInv /\ Updates /\ [Next]_vars => Looked' /\ Updates'
  <2> SUFFICES ASSUME IInv, Looked, HubProofs!IInv, Updates, [Next]_vars
               PROVE  Looked' /\ Updates'
    OBVIOUS
  <2>1. \A r \in Requests : Linked(r)'
    BY LinkedStep
  <2>2. \A g \in Groups : SentOnce(g)' /\ \A r \in watchers'[g] : Heard(g, r)'
    BY SentOnceStep, HeardStep
  <2> QED
    BY <2>1, <2>2, LookedStep DEF Updates
<1>3. Looked /\ HubProofs!IInv /\ Updates => StaleOnlyByLateAttach
  <2> SUFFICES ASSUME Looked, HubProofs!IInv, Updates, Quiet, NEW r \in Requests,
                      phase[r] = "attached", r \notin killed, req[r].meta # announced
               PROVE  req[r].since = announced
    BY DEF StaleOnlyByLateAttach
  <2>G. PICK g : g = home[r]
    OBVIOUS
  <2>1. g \in Groups /\ r \in watchers[g]
    BY <2>G, WatcherFacts DEF Looked, Quiet
  <2>2. commit[r] # announced
    BY DEF Updates, Linked
  <2> QED
    BY <2>1, <2>2 DEF Updates, Heard, Quiet
<1> QED
    BY <1>1, <1>2, <1>3, Invariance, ImplementsHub, HubSame, PTL DEF Spec
=============================================================================
