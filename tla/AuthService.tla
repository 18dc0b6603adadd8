----------------------------- MODULE AuthService -----------------------------
(***************************************************************************)
(* Authentication (pkg/core/auth_service.go) as servePage and the browser  *)
(* meet it: a private page sends a tab without a session to the login path *)
(* and on to the provider, whose redirect brings it to the callback; the   *)
(* callback trades the login state for a session and a cookie and sends    *)
(* the tab back to the page, which asks the provider for permission.       *)
(* Login states, sessions and answers about permissions live in a store    *)
(* that all servers share.                                                 *)
(*                                                                         *)
(* A tab stands for the request it has open.  Each call of the store or of *)
(* the provider is an action, and so is the arrival of the response, which *)
(* alone touches the browser's cookies: the tabs of one browser interleave *)
(* between any two of them.  Requests come over https and from the page's  *)
(* own origin; the session cookie passes where the page's policy lets      *)
(* cookies pass.                                                           *)
(***************************************************************************)
EXTENDS Naturals, FiniteSets

CONSTANTS Browsers, Tabs,
          BrowserOf,    \* the browser of a tab: its tabs share the cookie
          Accounts,     \* subjects at the provider
          Pages,        \* pages, each with a repository of its own
          Private,      \* the pages with "private: true"
          CookiePages,  \* the pages whose security.cookies let a request keep its cookies
          SessionIds, StateIds,
          None,         \* no cookie, no entry
          AuthzTTL,     \* ticks an answer about a permission stays in the store
          MaxDelay,     \* bound on the ticks between an answer and its storing
          MaxTroubles   \* bound on failing calls, expired entries and logouts

ASSUME AuthAssumption ==
    /\ BrowserOf \in [Tabs -> Browsers]
    /\ Private \subseteq Pages /\ CookiePages \subseteq Pages
    /\ None \notin SessionIds \cup StateIds \cup Accounts \cup Pages
    /\ SessionIds \cap {"keep", "clear"} = {}
    /\ AuthzTTL \in Nat /\ MaxDelay \in Nat /\ MaxTroubles \in Nat

VARIABLES
    states,    \* s.states: the page a login state returns to
    sessions,  \* s.sessions: the account a session belongs to
    authz,     \* s.authz: the answer stored for account and page, and its age
    perm,      \* at the provider: permission, and the ticks since it changed
    jar,       \* the session cookie a browser holds
    tab,       \* the request each tab has open
    minted,    \* history: states that have given a session
    kept,      \* history: states whose deletion failed
    early,     \* history: callbacks that had loaded their state when another deleted it
    troubles   \* failing calls, expired entries and logouts so far

storeVars == <<states, sessions, authz>>
history == <<minted, kept, early>>
vars == <<storeVars, perm, jar, tab, history, troubles>>

\* How long a decision may lag behind the provider, in ticks.
Grace == AuthzTTL + MaxDelay

\* Answers that end a visit, and redirections.
Ends == {"shown", "forbidden", "unauthorized", "error", "loggedOut"}
Redirects == {"login", "provider", "return"}
PC == {"idle", "attach", "require", "authz", "ask", "store", "callback", "delete", "exchange",
       "mint", "logout", "revoke", "response"} \cup Redirects

Answers == [allowed : BOOLEAN, age : 0..AuthzTTL]
TabRecords == [pc : PC, page : Pages \cup {None}, state : StateIds \cup {None},
               sent : SessionIds \cup {None}, who : Accounts \cup {None}, allowed : BOOLEAN,
               held : 0..MaxDelay, next : {"idle"} \cup Ends \cup Redirects,
               cookie : {"keep", "clear"} \cup SessionIds]

TypeOK ==
    /\ states \in [StateIds -> Pages \cup {None}]
    /\ sessions \in [SessionIds -> Accounts \cup {None}]
    /\ authz \in [Accounts \X Private -> Answers \cup {None}]
    /\ perm \in [Accounts \X Private -> [granted : BOOLEAN, since : 0..(Grace + 1)]]
    /\ jar \in [Browsers -> SessionIds \cup {None}]
    /\ tab \in [Tabs -> TabRecords]
    /\ minted \in SUBSET StateIds /\ kept \in SUBSET StateIds
    /\ early \in SUBSET Tabs
    /\ troubles \in 0..MaxTroubles

Idle == [pc |-> "idle", page |-> None, state |-> None, sent |-> None, who |-> None,
         allowed |-> FALSE, held |-> 0, next |-> "idle", cookie |-> "keep"]

Init ==
    /\ states = [s \in StateIds |-> None]
    /\ sessions = [s \in SessionIds |-> None]
    /\ authz = [k \in Accounts \X Private |-> None]
    /\ perm \in [Accounts \X Private -> [granted : BOOLEAN, since : {Grace + 1}]]
    /\ jar = [b \in Browsers |-> None]
    /\ tab = [t \in Tabs |-> Idle]
    /\ minted = {} /\ kept = {} /\ early = {}
    /\ troubles = 0

Goto(t, pc) == tab' = [tab EXCEPT ![t].pc = pc]

\* The handler returns; what it kept in its frame is gone.
Respond(t, next, cookie) ==
    tab' = [tab EXCEPT ![t] = [Idle EXCEPT !.pc = "response", !.page = tab[t].page,
                                           !.state = tab[t].state,
                                           !.next = next, !.cookie = cookie]]

Trouble == troubles < MaxTroubles /\ troubles' = troubles + 1

\* sessions.Load of the request's cookie: the account, if there is one.
LoadedSession(t) == IF tab[t].sent = None THEN None ELSE sessions[tab[t].sent]
-----------------------------------------------------------------------------
(* A page: ServeHTTP and servePage up to the hub *)

\* applyRequestSecurity: the page's policy may strip the request's cookies.
RequestCookie(t, p) == IF p \in CookiePages THEN jar[BrowserOf[t]] ELSE None

OpenPage(t, p) ==
    /\ tab' = [tab EXCEPT ![t] = [Idle EXCEPT !.pc = "attach", !.page = p,
                                             !.sent = RequestCookie(t, p)]]
    /\ UNCHANGED <<storeVars, perm, jar, history, troubles>>

\* The user opens a page, or the browser follows the redirection to return_to.
Visit(t, p) == tab[t].pc = "idle" /\ OpenPage(t, p)
Return(t) == tab[t].pc = "return" /\ OpenPage(t, tab[t].page)

\* AttachAuth runs for every page; its session only goes into the context.
AttachAuth(t) ==
    /\ tab[t].pc = "attach"
    /\ IF tab[t].page \in Private THEN Goto(t, "require") ELSE Respond(t, "shown", "keep")
    /\ UNCHANGED <<storeVars, perm, jar, history, troubles>>

\* RequireRepoAccess loads the session a second time.  Without one the tab is
\* sent to log in, and a cookie it had is cleared.
RequireSession(t) ==
    /\ tab[t].pc = "require"
    /\ IF LoadedSession(t) = None
       THEN Respond(t, "login", IF tab[t].sent = None THEN "keep" ELSE "clear")
       ELSE tab' = [tab EXCEPT ![t].pc = "authz", ![t].who = LoadedSession(t)]
    /\ UNCHANGED <<storeVars, perm, jar, history, troubles>>

Key(t) == <<tab[t].who, tab[t].page>>

Decide(t, allowed) == Respond(t, IF allowed THEN "shown" ELSE "forbidden", "keep")

\* Mutant: a hit makes the answer last for another TTL.
AuthzRenewed(k) == [authz EXCEPT ![k].age = 0]

\* loadAuthz leaves the entry as it is.
AuthzAfterHit(k) == authz

LoadAuthz(t) ==
    /\ tab[t].pc = "authz"
    /\ IF authz[Key(t)] = None
       THEN Goto(t, "ask") /\ UNCHANGED authz
       ELSE Decide(t, authz[Key(t)].allowed) /\ authz' = AuthzAfterHit(Key(t))
    /\ UNCHANGED <<states, sessions, perm, jar, history, troubles>>

\* AuthorizeRepo: 200 is yes, 403 and 404 are no.
AuthorizeRepo(t) ==
    /\ tab[t].pc = "ask"
    /\ tab' = [tab EXCEPT ![t].pc = "store", ![t].allowed = perm[Key(t)].granted]
    /\ UNCHANGED <<storeVars, perm, jar, history, troubles>>

\* storeAuthz, over whatever was stored meanwhile; a failure is ignored.
StoreAuthz(t) ==
    /\ tab[t].pc = "store"
    /\ Decide(t, tab[t].allowed)
    /\ \/ /\ authz' = [authz EXCEPT ![Key(t)] = [allowed |-> tab[t].allowed, age |-> 0]]
          /\ UNCHANGED troubles
       \/ Trouble /\ UNCHANGED authz
    /\ UNCHANGED <<states, sessions, perm, jar, history>>
-----------------------------------------------------------------------------
(* Login and callback *)

\* A fresh uuid: an id that no cookie, request or response holds.  (An entry
\* under such an id can never be asked for, so the id may stand for a new one.)
FreshSession(s) == \A t \in Tabs : /\ s \notin {tab[t].sent, tab[t].cookie}
                                   /\ s # jar[BrowserOf[t]]
FreshState(s, t) == \A u \in Tabs \ {t} : s # tab[u].state

\* handleLogin stores the state and sends the tab to the provider.
HandleLogin(t) ==
    /\ tab[t].pc = "login"
    /\ \E s \in StateIds : FreshState(s, t)
    /\ LET s == CHOOSE i \in StateIds : FreshState(i, t) IN
       /\ states' = [states EXCEPT ![s] = tab[t].page]
       /\ tab' = [tab EXCEPT ![t] = [Idle EXCEPT !.pc = "response", !.next = "provider",
                                                !.state = s]]
       /\ minted' = minted \ {s} /\ kept' = kept \ {s}
    /\ UNCHANGED <<sessions, authz, perm, jar, early, troubles>>

\* The user signs in at the provider, which redirects to the callback: external.
SignIn(t) ==
    /\ tab[t].pc = "provider"
    /\ Goto(t, "callback")
    /\ UNCHANGED <<storeVars, perm, jar, history, troubles>>

\* The callback is requested once more: reloaded, or opened in another tab.
Repeat(t, u) ==
    /\ tab[t].pc = "idle"
    /\ tab[u].state # None
    /\ tab[u].pc \notin {"provider", "response"}
    /\ tab' = [tab EXCEPT ![t] = [Idle EXCEPT !.pc = "callback", !.state = tab[u].state]]
    /\ UNCHANGED <<storeVars, perm, jar, history, troubles>>

LoadState(t) ==
    /\ tab[t].pc = "callback"
    /\ IF states[tab[t].state] = None
       THEN Respond(t, "unauthorized", "keep") /\ UNCHANGED early
       ELSE /\ tab' = [tab EXCEPT ![t].pc = "delete", ![t].page = states[tab[t].state]]
            /\ early' = early \ {t}
    /\ UNCHANGED <<storeVars, perm, jar, minted, kept, troubles>>

\* The callbacks that have loaded their state, and those that share it with t.
Admitted == {t \in Tabs : tab[t].pc \in {"delete", "exchange", "mint"}}
Rivals(t) == {u \in Admitted \ {t} : tab[u].state = tab[t].state}

\* Mutant: a callback leaves its state in the store.
StateKept(t) == states

StatesAfterCallback(t) == [states EXCEPT ![tab[t].state] = None]

\* A failing Delete is ignored.
DeleteState(t) ==
    /\ tab[t].pc = "delete"
    /\ Goto(t, "exchange")
    /\ \/ /\ states' = StatesAfterCallback(t)
          /\ early' = early \cup Rivals(t)
          /\ UNCHANGED <<kept, troubles>>
       \/ /\ Trouble
          /\ kept' = kept \cup {tab[t].state}
          /\ UNCHANGED <<states, early>>
    /\ UNCHANGED <<sessions, authz, perm, jar, minted>>

\* provider.HandleCallback names the account, or fails; the state is used up.
HandleCallback(t) ==
    /\ tab[t].pc = "exchange"
    /\ \/ /\ \E a \in Accounts : tab' = [tab EXCEPT ![t].pc = "mint", ![t].who = a]
          /\ UNCHANGED troubles
       \/ Trouble /\ Respond(t, "unauthorized", "keep")
    /\ UNCHANGED <<storeVars, perm, jar, history>>

\* Mutant: the redirection goes out without the cookie.
NoCookie(s) == "keep"

\* Set-Cookie of the new session.
SessionCookie(s) == s

StoreSession(t) ==
    /\ tab[t].pc = "mint"
    /\ \E s \in SessionIds : FreshSession(s)
    /\ LET s == CHOOSE i \in SessionIds : FreshSession(i) IN
       /\ sessions' = [sessions EXCEPT ![s] = tab[t].who]
       /\ Respond(t, "return", SessionCookie(s))
    /\ minted' = minted \cup {tab[t].state}
    /\ UNCHANGED <<states, authz, perm, jar, kept, early, troubles>>
-----------------------------------------------------------------------------
(* Logout *)

\* A POST; other methods are refused and change nothing.
Logout(t) ==
    /\ tab[t].pc = "idle"
    /\ Trouble
    /\ tab' = [tab EXCEPT ![t] = [Idle EXCEPT !.pc = "logout", !.sent = jar[BrowserOf[t]]]]
    /\ UNCHANGED <<storeVars, perm, jar, history>>

LogoutSession(t) ==
    /\ tab[t].pc = "logout"
    /\ IF LoadedSession(t) = None THEN Respond(t, "loggedOut", "clear") ELSE Goto(t, "revoke")
    /\ UNCHANGED <<storeVars, perm, jar, history, troubles>>

\* provider.Logout and Delete; the failure of either is ignored.
DeleteSession(t) ==
    /\ tab[t].pc = "revoke"
    /\ Respond(t, "loggedOut", "clear")
    /\ \/ sessions' = [sessions EXCEPT ![tab[t].sent] = None] /\ UNCHANGED troubles
       \/ Trouble /\ UNCHANGED sessions
    /\ UNCHANGED <<states, authz, perm, jar, history>>
-----------------------------------------------------------------------------
(* Failing calls whose error the handler returns; loadSession makes no call
   without a cookie. *)
Fail(t) ==
    /\ \/ tab[t].pc \in {"attach", "require", "logout"} /\ tab[t].sent # None
       \/ tab[t].pc \in {"authz", "ask", "login", "callback", "mint"}
    /\ Trouble
    /\ Respond(t, "error", "keep")
    /\ UNCHANGED <<storeVars, perm, jar, history>>

(* The browser, the store's expiry and the provider's clock: external *)

\* The response arrives: the cookie is stored or cleared, whatever other tabs
\* received since the request went out, and the tab follows a redirection.
Deliver(t) ==
    /\ tab[t].pc = "response"
    /\ LET c == tab[t].cookie
           b == BrowserOf[t]
       IN jar' = CASE c = "keep" -> jar
                   [] c = "clear" -> [jar EXCEPT ![b] = None]
                   [] OTHER -> [jar EXCEPT ![b] = c]
    /\ tab' = [tab EXCEPT ![t] =
                 IF tab[t].next \in Ends
                 THEN [Idle EXCEPT !.state = tab[t].state]
                 ELSE [Idle EXCEPT !.pc = tab[t].next, !.page = tab[t].page,
                                   !.state = tab[t].state]]
    /\ UNCHANGED <<storeVars, perm, history, troubles>>

\* The user gives up before or at the provider.
Leave(t) ==
    /\ tab[t].pc \in {"login", "provider"}
    /\ tab' = [tab EXCEPT ![t] = Idle]
    /\ UNCHANGED <<storeVars, perm, jar, history, troubles>>

\* StateTTL or SessionTTL runs out, in the store and in ExpireAt alike.
Expire ==
    /\ \/ \E s \in StateIds : states[s] # None /\ states' = [states EXCEPT ![s] = None]
          /\ UNCHANGED sessions
       \/ \E s \in SessionIds : sessions[s] # None /\ sessions' = [sessions EXCEPT ![s] = None]
          /\ UNCHANGED states
    /\ Trouble
    /\ UNCHANGED <<authz, perm, jar, tab, history>>

\* The provider gives or takes a permission.
ChangePermission(k) ==
    /\ perm' = [perm EXCEPT ![k] = [granted |-> ~perm[k].granted, since |-> 0]]
    /\ UNCHANGED <<storeVars, jar, tab, history, troubles>>

Older(e) == IF e = None \/ e.age = AuthzTTL THEN None ELSE [e EXCEPT !.age = @ + 1]

\* Time passes.  An answer is stored within MaxDelay.
Tick ==
    /\ \A t \in Tabs : tab[t].pc = "store" => tab[t].held < MaxDelay
    /\ authz' = [k \in DOMAIN authz |-> Older(authz[k])]
    /\ perm' = [k \in DOMAIN perm |->
                  [perm[k] EXCEPT !.since = IF @ <= Grace THEN @ + 1 ELSE @]]
    /\ tab' = [t \in Tabs |-> IF tab[t].pc = "store" THEN [tab[t] EXCEPT !.held = @ + 1]
                                                     ELSE tab[t]]
    /\ UNCHANGED <<states, sessions, jar, history, troubles>>
-----------------------------------------------------------------------------
servePage(t) == \/ AttachAuth(t) \/ RequireSession(t)
                \/ LoadAuthz(t) \/ AuthorizeRepo(t) \/ StoreAuthz(t)
handleCallback(t) == LoadState(t) \/ DeleteState(t) \/ HandleCallback(t) \/ StoreSession(t)
handleLogout(t) == LogoutSession(t) \/ DeleteSession(t)
Handler(t) == servePage(t) \/ HandleLogin(t) \/ handleCallback(t) \/ handleLogout(t) \/ Fail(t)

Next ==
    \/ \E t \in Tabs : \/ Handler(t) \/ Deliver(t) \/ Return(t) \/ SignIn(t)
                       \/ Logout(t) \/ Leave(t)
                       \/ \E p \in Pages : Visit(t, p)
                       \/ \E u \in Tabs : Repeat(t, u)
    \/ \E k \in DOMAIN perm : ChangePermission(k)
    \/ Expire
    \/ Tick

Spec == Init /\ [][Next]_vars

\* A handler runs, its response arrives, the browser follows a redirection and
\* the user signs in.
FairSpec == Spec /\ \A t \in Tabs : WF_vars(Handler(t) \/ Deliver(t) \/ Return(t) \/ SignIn(t))
-----------------------------------------------------------------------------
(* Properties *)

\* The request for a private page is answered with the page or a refusal.
Judged(t) == /\ tab[t].page \in Private
             /\ tab[t].pc # "response" /\ tab'[t].pc = "response"
             /\ tab'[t].next \in {"shown", "forbidden"}

\* Every answer given in a step is the provider's of the last Grace ticks.
JudgedByRecentAnswer ==
    \A t \in Tabs : Judged(t) =>
        \/ perm[Key(t)].granted = (tab'[t].next = "shown")
        \/ perm[Key(t)].since <= Grace

\* What a private page is answered with is what the provider held of this account
\* and repository at some moment in the last AuthzTTL and MaxDelay: a permission
\* taken away serves no longer than that, and one newly given is not refused
\* for longer, however answers, stores and requests of several tabs interleave
\* (auth_service.go:99-114).
DecisionIsRecent == [][JudgedByRecentAnswer]_vars

\* The callback of t ends with a session.
GivesSession(t) == tab[t].pc = "mint" /\ tab'[t].pc = "response" /\ tab'[t].next = "return"

\* A login gives one session.  A callback that is reloaded, or opened in a second
\* tab, gives another one only if it had loaded the state before the first one
\* deleted it, or if a deletion failed: never afterwards, whatever became of the
\* first one (auth_service.go:152-175).
OneSessionPerLogin ==
    [][\A t \in Tabs : GivesSession(t) /\ tab[t].state \in minted =>
           t \in early \/ tab[t].state \in kept]_vars

\* A visit does not go round between page, login and provider for ever: once
\* calls have ceased to fail, entries to expire and users to log out, the tab
\* is shown the page or told why not, also when other tabs of the browser set
\* and clear the same cookie meanwhile (auth_service.go:84-95, :173-187).
VisitEnds == \A t \in Tabs : []<>(tab[t].pc = "idle")
=============================================================================
