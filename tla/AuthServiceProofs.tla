-------------------------- MODULE AuthServiceProofs --------------------------
(***************************************************************************)
(* How old a decision about a page may be, and what becomes of a login     *)
(* state, for any number of tabs, accounts and pages and any TTL and       *)
(* delay.  A decision is as recent as the answer it comes from, so the     *)
(* invariant follows an answer from the provider through the handler that  *)
(* holds it into the store; a login gives a session once, because whoever  *)
(* gives one has deleted the state before or failed to.                    *)
(***************************************************************************)
EXTENDS AuthService, TLAPS

\* What a handler has in hand at its stations.
Station(t) ==
    /\ tab[t].pc = "require" => tab[t].page \in Private
    /\ tab[t].pc \in {"authz", "ask", "store"} => tab[t].who \in Accounts /\ tab[t].page \in Private
    /\ tab[t].pc \in {"provider", "callback", "delete", "exchange", "mint"} =>
           tab[t].state \in StateIds
    /\ tab[t].pc = "response" /\ tab[t].next = "provider" => tab[t].state \in StateIds
    /\ tab[t].pc # "store" => tab[t].held = 0

Stations == \A t \in Tabs : Station(t)

\* A stored answer was the provider's within its age and the delay before it.
StoredIsRecent ==
    \A k \in Accounts \X Private :
        authz[k] # None =>
            \/ perm[k].granted = authz[k].allowed
            \/ perm[k].since <= authz[k].age + MaxDelay

\* An answer in hand was the provider's when it was given.
HeldIsRecent ==
    \A t \in Tabs :
        tab[t].pc = "store" =>
            \/ perm[Key(t)].granted = tab[t].allowed
            \/ perm[Key(t)].since <= tab[t].held

\* A state whose deletion did not fail:
Deleted(s) == s \notin kept

\* Who is past the deletion of a state, in the session's making or with it made,
\* has taken it out of the store, ...
PastIsGone(u) ==
    tab[u].pc \in {"exchange", "mint"} /\ Deleted(tab[u].state) => states[tab[u].state] = None
MintedIsGone == \A s \in minted : Deleted(s) => states[s] = None

\* ... and who holds the state still had loaded it before.
HolderIsEarly(t) ==
    t \in Admitted /\ Deleted(tab[t].state) =>
        t \in early \/ /\ tab[t].state \notin minted
                        /\ \A u \in Tabs \ {t} : tab[u].pc \in {"exchange", "mint"} =>
                                                     tab[u].state # tab[t].state

LoginsInOrder ==
    /\ \A u \in Tabs : PastIsGone(u)
    /\ MintedIsGone
    /\ \A t \in Tabs : HolderIsEarly(t)

IInv ==
    /\ TypeOK
    /\ Stations
    /\ StoredIsRecent
    /\ HeldIsRecent
    /\ LoginsInOrder
-----------------------------------------------------------------------------
\* The records of tabs: one without a request, one put in its place, the one a
\* response leaves and one that goes on.
LEMMA IdleType == Idle \in TabRecords
    BY AuthAssumption DEF Idle, TabRecords, PC

LEMMA FieldTypes ==
    ASSUME NEW r \in TabRecords
    PROVE  /\ r.page \in Pages \cup {None} /\ r.state \in StateIds \cup {None}
           /\ r.sent \in SessionIds \cup {None} /\ r.who \in Accounts \cup {None}
           /\ r.next \in {"idle"} \cup Ends \cup Redirects
           /\ r.cookie \in {"keep", "clear"} \cup SessionIds
    BY DEF TabRecords

LEMMA PcType ==
    ASSUME NEW r \in TabRecords, NEW pc \in PC
    PROVE  [r EXCEPT !.pc = pc] \in TabRecords
    BY DEF TabRecords

LEMMA WhoType ==
    ASSUME NEW r \in TabRecords, NEW pc \in PC, NEW who \in Accounts \cup {None}
    PROVE  [r EXCEPT !.pc = pc, !.who = who] \in TabRecords
    BY DEF TabRecords

LEMMA PageType ==
    ASSUME NEW r \in TabRecords, NEW pc \in PC, NEW page \in Pages \cup {None}
    PROVE  [r EXCEPT !.pc = pc, !.page = page] \in TabRecords
    BY DEF TabRecords

LEMMA AllowedType ==
    ASSUME NEW r \in TabRecords, NEW pc \in PC, NEW allowed \in BOOLEAN
    PROVE  [r EXCEPT !.pc = pc, !.allowed = allowed] \in TabRecords
    BY DEF TabRecords

LEMMA SentType ==
    ASSUME NEW r \in TabRecords, NEW pc \in PC, NEW sent \in SessionIds \cup {None}
    PROVE  [r EXCEPT !.pc = pc, !.sent = sent] \in TabRecords
    BY DEF TabRecords

LEMMA StateType ==
    ASSUME NEW r \in TabRecords, NEW state \in StateIds \cup {None}
    PROVE  [r EXCEPT !.state = state] \in TabRecords
    BY DEF TabRecords

LEMMA ResponseType ==
    ASSUME NEW r \in TabRecords, NEW pc \in PC, NEW page \in Pages \cup {None},
           NEW state \in StateIds \cup {None}, NEW next \in Ends \cup Redirects,
           NEW c \in {"keep", "clear"} \cup SessionIds
    PROVE  [r EXCEPT !.pc = pc, !.page = page, !.state = state, !.next = next, !.cookie = c]
               \in TabRecords
<1>1. next \in {"idle"} \cup Ends \cup Redirects
    OBVIOUS
<1> QED
    BY <1>1 DEF TabRecords

LEMMA PutType ==
    ASSUME TypeOK, NEW t \in Tabs, NEW r \in TabRecords, tab' = [tab EXCEPT ![t] = r]
    PROVE  tab' \in [Tabs -> TabRecords]
    BY DEF TypeOK

LEMMA RespondType ==
    ASSUME TypeOK, NEW t \in Tabs, NEW next \in Ends \cup Redirects,
           NEW c \in {"keep", "clear"} \cup SessionIds, Respond(t, next, c)
    PROVE  tab' \in [Tabs -> TabRecords]
<1>3. tab[t] \in TabRecords /\ "response" \in PC
    BY DEF TypeOK, PC
<1>1. tab[t].page \in Pages \cup {None} /\ tab[t].state \in StateIds \cup {None}
    BY <1>3, FieldTypes
<1>2. [Idle EXCEPT !.pc = "response", !.page = tab[t].page, !.state = tab[t].state,
                   !.next = next, !.cookie = c] \in TabRecords
    BY <1>1, <1>3, IdleType, ResponseType
<1> QED
    BY <1>2, PutType DEF Respond

LEMMA GotoType ==
    ASSUME TypeOK, NEW t \in Tabs, NEW pc \in PC, Goto(t, pc)
    PROVE  tab' \in [Tabs -> TabRecords]
<1>3. tab[t] \in TabRecords
    BY DEF TypeOK
<1>1. [tab[t] EXCEPT !.pc = pc] \in TabRecords
    BY <1>3, PcType
<1>2. tab' = [tab EXCEPT ![t] = [tab[t] EXCEPT !.pc = pc]]
    BY DEF Goto
<1> QED
    BY <1>1, <1>2, PutType

\* Every step keeps the types of the tabs.
LEMMA TabStep ==
    TypeOK /\ Stations /\ [Next]_vars => tab' \in [Tabs -> TabRecords]
<1> SUFFICES ASSUME TypeOK, Stations, [Next]_vars
             PROVE  tab' \in [Tabs -> TabRecords]
    OBVIOUS
<1> DEFINE Typed == tab' \in [Tabs -> TabRecords]
<1>0. ASSUME NEW t \in Tabs
      PROVE  /\ tab[t] \in TabRecords
             /\ tab[t].page \in Pages \cup {None}
             /\ tab[t].state \in StateIds \cup {None}
             /\ tab[t].sent \in SessionIds \cup {None}
             /\ tab[t].who \in Accounts \cup {None}
             /\ tab[t].next \in {"idle"} \cup Ends \cup Redirects
             /\ jar[BrowserOf[t]] \in SessionIds \cup {None}
  <2>1. tab[t] \in TabRecords /\ jar[BrowserOf[t]] \in SessionIds \cup {None}
      BY AuthAssumption DEF TypeOK
  <2> QED
      BY <2>1, FieldTypes
<1>1. ASSUME NEW t \in Tabs, NEW p \in Pages \cup {None}, OpenPage(t, p)
      PROVE  Typed
  <2>1. RequestCookie(t, p) \in SessionIds \cup {None}
      BY <1>0 DEF RequestCookie
  <2>2. [Idle EXCEPT !.pc = "attach", !.page = p, !.sent = RequestCookie(t, p)] \in TabRecords
      BY <2>1, IdleType DEF TabRecords, PC
  <2> QED
      BY <1>1, <2>2, PutType DEF OpenPage
<1>2. ASSUME NEW t \in Tabs, AttachAuth(t)
      PROVE  Typed
    BY <1>2, GotoType, RespondType DEF AttachAuth, PC, Ends
<1>3. ASSUME NEW t \in Tabs, RequireSession(t)
      PROVE  Typed
  <2>1. CASE LoadedSession(t) = None
      BY <1>3, <2>1, RespondType DEF RequireSession, Redirects
  <2>2. CASE LoadedSession(t) # None
    <3>1. LoadedSession(t) \in Accounts \cup {None}
        BY <1>0 DEF LoadedSession, TypeOK
    <3>2. [tab[t] EXCEPT !.pc = "authz", !.who = LoadedSession(t)] \in TabRecords
        BY <1>0, <3>1, WhoType DEF PC
    <3>3. tab' = [tab EXCEPT ![t] = [tab[t] EXCEPT !.pc = "authz", !.who = LoadedSession(t)]]
        BY <1>3, <2>2 DEF RequireSession
    <3> QED
        BY <3>2, <3>3, PutType
  <2> QED
      BY <2>1, <2>2
<1>4. ASSUME NEW t \in Tabs, LoadAuthz(t)
      PROVE  Typed
    BY <1>4, GotoType, RespondType DEF LoadAuthz, Decide, PC, Ends
<1>5. ASSUME NEW t \in Tabs, AuthorizeRepo(t)
      PROVE  Typed
  <2>1. perm[Key(t)].granted \in BOOLEAN
      BY <1>5 DEF AuthorizeRepo, Stations, Station, Key, TypeOK
  <2>2. [tab[t] EXCEPT !.pc = "store", !.allowed = perm[Key(t)].granted] \in TabRecords
      BY <1>0, <2>1, AllowedType DEF PC
  <2>3. tab' = [tab EXCEPT ![t] = [tab[t] EXCEPT !.pc = "store",
                                                 !.allowed = perm[Key(t)].granted]]
      BY <1>5 DEF AuthorizeRepo
  <2> QED
      BY <2>2, <2>3, PutType
<1>6. ASSUME NEW t \in Tabs, StoreAuthz(t)
      PROVE  Typed
    BY <1>6, RespondType DEF StoreAuthz, Decide, Ends
<1>7. ASSUME NEW t \in Tabs, HandleLogin(t)
      PROVE  Typed
  <2> DEFINE s == CHOOSE i \in StateIds : FreshState(i, t)
  <2>1. s \in StateIds
      BY <1>7 DEF HandleLogin
  <2>2. [Idle EXCEPT !.pc = "response", !.next = "provider", !.state = s] \in TabRecords
      BY <2>1, IdleType DEF TabRecords, PC, Redirects
  <2>3. tab' = [tab EXCEPT ![t] = [Idle EXCEPT !.pc = "response", !.next = "provider",
                                               !.state = s]]
      BY <1>7 DEF HandleLogin
  <2> QED
      BY <2>2, <2>3, PutType
<1>8. ASSUME NEW t \in Tabs, SignIn(t)
      PROVE  Typed
    BY <1>8, GotoType DEF SignIn, PC
<1>9. ASSUME NEW t \in Tabs, NEW u \in Tabs, Repeat(t, u)
      PROVE  Typed
  <2>1. [Idle EXCEPT !.pc = "callback"] \in TabRecords
      BY IdleType, PcType DEF PC
  <2>2. [Idle EXCEPT !.pc = "callback", !.state = tab[u].state] \in TabRecords
      BY <1>0, <2>1, StateType
  <2> QED
      BY <1>9, <2>2, PutType DEF Repeat
<1>10. ASSUME NEW t \in Tabs, LoadState(t)
      PROVE  Typed
  <2>1. CASE states[tab[t].state] = None
      BY <1>10, <2>1, RespondType DEF LoadState, Ends
  <2>2. CASE states[tab[t].state] # None
    <3>1. states[tab[t].state] \in Pages \cup {None}
        BY <1>10 DEF LoadState, Stations, Station, TypeOK
    <3>2. [tab[t] EXCEPT !.pc = "delete", !.page = states[tab[t].state]] \in TabRecords
        BY <1>0, <3>1, PageType DEF PC
    <3>3. tab' = [tab EXCEPT ![t] = [tab[t] EXCEPT !.pc = "delete",
                                                   !.page = states[tab[t].state]]]
        BY <1>10, <2>2 DEF LoadState
    <3> QED
        BY <3>2, <3>3, PutType
  <2> QED
      BY <2>1, <2>2
<1>11. ASSUME NEW t \in Tabs, DeleteState(t)
      PROVE  Typed
    BY <1>11, GotoType DEF DeleteState, PC
<1>12. ASSUME NEW t \in Tabs, HandleCallback(t)
      PROVE  Typed
  <2>1. ASSUME NEW a \in Accounts, tab' = [tab EXCEPT ![t].pc = "mint", ![t].who = a]
        PROVE  Typed
    <3>1. [tab[t] EXCEPT !.pc = "mint", !.who = a] \in TabRecords
        BY <1>0, WhoType DEF PC
    <3>2. tab' = [tab EXCEPT ![t] = [tab[t] EXCEPT !.pc = "mint", !.who = a]]
        BY <2>1
    <3> QED
        BY <3>1, <3>2, PutType
  <2> QED
      BY <1>12, <2>1, RespondType DEF HandleCallback, Ends
<1>13. ASSUME NEW t \in Tabs, StoreSession(t)
      PROVE  Typed
  <2> DEFINE s == CHOOSE i \in SessionIds : FreshSession(i)
  <2>1. s \in SessionIds
      BY <1>13 DEF StoreSession
  <2> QED
      BY <1>13, <2>1, RespondType DEF StoreSession, SessionCookie, Redirects
<1>14. ASSUME NEW t \in Tabs, Logout(t)
      PROVE  Typed
  <2>1. [Idle EXCEPT !.pc = "logout", !.sent = jar[BrowserOf[t]]] \in TabRecords
      BY <1>0, IdleType, SentType DEF PC
  <2> QED
      BY <1>14, <2>1, PutType DEF Logout
<1>15. ASSUME NEW t \in Tabs, LogoutSession(t)
      PROVE  Typed
    BY <1>15, GotoType, RespondType DEF LogoutSession, PC, Ends
<1>16. ASSUME NEW t \in Tabs, DeleteSession(t)
      PROVE  Typed
    BY <1>16, RespondType DEF DeleteSession, Ends
<1>17. ASSUME NEW t \in Tabs, Fail(t)
      PROVE  Typed
    BY <1>17, RespondType DEF Fail, Ends
<1>18. ASSUME NEW t \in Tabs, Deliver(t)
      PROVE  Typed
  <2>1. CASE tab[t].next \in Ends
    <3>1. [Idle EXCEPT !.state = tab[t].state] \in TabRecords
        BY <1>0, IdleType, StateType
    <3> QED
        BY <1>18, <2>1, <3>1, PutType DEF Deliver
  <2>2. CASE tab[t].next \notin Ends
    <3>1. [Idle EXCEPT !.pc = tab[t].next, !.page = tab[t].page, !.state = tab[t].state]
              \in TabRecords
        BY <1>0, <2>2, IdleType DEF TabRecords, PC
    <3> QED
        BY <1>18, <2>2, <3>1, PutType DEF Deliver
  <2> QED
      BY <2>1, <2>2
<1>19. ASSUME NEW t \in Tabs, Leave(t)
      PROVE  Typed
    BY <1>19, IdleType, PutType DEF Leave
<1>20. ASSUME Tick
      PROVE  Typed
  <2>1. ASSUME NEW t \in Tabs, tab[t].pc = "store"
        PROVE  [tab[t] EXCEPT !.held = @ + 1] \in TabRecords
    <3>1. tab[t].held \in 0..MaxDelay /\ tab[t].held < MaxDelay
        BY <1>0, <1>20, <2>1 DEF Tick, TabRecords
    <3>2. tab[t].held + 1 \in 0..MaxDelay
        BY <3>1, AuthAssumption
    <3> QED
        BY <1>0, <3>2 DEF TabRecords
  <2> QED
      BY <1>0, <1>20, <2>1 DEF Tick
<1>21. CASE UNCHANGED tab
    BY <1>21 DEF TypeOK
<1> QED
    BY <1>0, <1>1, <1>2, <1>3, <1>4, <1>5, <1>6, <1>7, <1>8, <1>9, <1>10, <1>11, <1>12,
       <1>13, <1>14, <1>15, <1>16, <1>17, <1>18, <1>19, <1>20, <1>21
       DEF Next, Handler, servePage, handleCallback, handleLogout, Visit, Return, Expire,
           ChangePermission, vars
-----------------------------------------------------------------------------
\* Every step keeps the types of the store, the provider and the browsers.
LEMMA TypeStep ==
    TypeOK /\ Stations /\ [Next]_vars => TypeOK'
<1> SUFFICES ASSUME TypeOK, Stations, [Next]_vars
             PROVE  TypeOK'
    OBVIOUS
<1>1. tab' \in [Tabs -> TabRecords]
    BY TabStep
<1>2. ASSUME NEW t \in Tabs
      PROVE  /\ tab[t].allowed \in BOOLEAN
             /\ tab[t].page \in Pages \cup {None}
             /\ tab[t].who \in Accounts \cup {None}
             /\ tab[t].cookie \in {"keep", "clear"} \cup SessionIds
    BY DEF TypeOK, TabRecords
<1>3. states' \in [StateIds -> Pages \cup {None}]
  <2>1. ASSUME NEW t \in Tabs, HandleLogin(t)
        PROVE  states' \in [StateIds -> Pages \cup {None}]
      BY <1>2, <2>1 DEF HandleLogin, TypeOK
  <2>2. ASSUME NEW t \in Tabs, DeleteState(t)
        PROVE  states' \in [StateIds -> Pages \cup {None}]
      BY <2>2 DEF DeleteState, StatesAfterCallback, TypeOK
  <2>3. CASE Expire
      BY <2>3 DEF Expire, TypeOK
  <2>4. CASE UNCHANGED states
      BY <2>4 DEF TypeOK
  <2> QED
      BY <2>1, <2>2, <2>3, <2>4
         DEF Next, Handler, servePage, handleCallback, handleLogout, Visit, Return, OpenPage,
             AttachAuth, RequireSession, LoadAuthz, AuthorizeRepo, StoreAuthz, SignIn, Repeat,
             LoadState, HandleCallback, StoreSession, Logout, LogoutSession, DeleteSession, Fail, Deliver, Leave, ChangePermission, Tick, vars, storeVars
<1>4. sessions' \in [SessionIds -> Accounts \cup {None}]
  <2>1. ASSUME NEW t \in Tabs, StoreSession(t)
        PROVE  sessions' \in [SessionIds -> Accounts \cup {None}]
      BY <1>2, <2>1 DEF StoreSession, TypeOK
  <2>2. ASSUME NEW t \in Tabs, DeleteSession(t)
        PROVE  sessions' \in [SessionIds -> Accounts \cup {None}]
      BY <2>2 DEF DeleteSession, TypeOK
  <2>3. CASE Expire
      BY <2>3 DEF Expire, TypeOK
  <2>4. CASE UNCHANGED sessions
      BY <2>4 DEF TypeOK
  <2> QED
      BY <2>1, <2>2, <2>3, <2>4
         DEF Next, Handler, servePage, handleCallback, handleLogout, Visit, Return, OpenPage,
             AttachAuth, RequireSession, LoadAuthz, AuthorizeRepo, StoreAuthz, SignIn, Repeat,
             LoadState, HandleCallback, HandleLogin, DeleteState, Logout, LogoutSession,
             Fail, Deliver, Leave, ChangePermission, Tick, vars, storeVars
<1>5. authz' \in [Accounts \X Private -> Answers \cup {None}]
  <2>1. ASSUME NEW t \in Tabs, StoreAuthz(t)
        PROVE  authz' \in [Accounts \X Private -> Answers \cup {None}]
    <3>1. [allowed |-> tab[t].allowed, age |-> 0] \in Answers
        BY <1>2, AuthAssumption DEF Answers
    <3> QED
        BY <2>1, <3>1 DEF StoreAuthz, TypeOK
  <2>2. CASE Tick
    <3>1. ASSUME NEW e \in Answers \cup {None}
          PROVE  Older(e) \in Answers \cup {None}
        BY AuthAssumption DEF Older, Answers
    <3> QED
        BY <2>2, <3>1 DEF Tick, TypeOK
  <2>3. CASE UNCHANGED authz
      BY <2>3 DEF TypeOK
  <2> QED
      BY <2>1, <2>2, <2>3
         DEF Next, Handler, servePage, handleCallback, handleLogout, Visit, Return, OpenPage,
             AttachAuth, RequireSession, LoadAuthz, AuthzAfterHit, AuthorizeRepo, SignIn, Repeat,
             LoadState, HandleCallback, HandleLogin, DeleteState, StoreSession, Logout,
             LogoutSession, DeleteSession, Fail, Deliver, Leave, Expire, ChangePermission, vars,
             storeVars
<1>6. perm' \in [Accounts \X Private -> [granted : BOOLEAN, since : 0..(Grace + 1)]]
  <2>0. Grace \in Nat
      BY AuthAssumption DEF Grace
  <2>1. ASSUME NEW k \in DOMAIN perm, ChangePermission(k)
        PROVE  perm' \in [Accounts \X Private -> [granted : BOOLEAN, since : 0..(Grace + 1)]]
      BY <2>0, <2>1 DEF ChangePermission, TypeOK
  <2>2. CASE Tick
    <3>1. ASSUME NEW q \in [granted : BOOLEAN, since : 0..(Grace + 1)]
          PROVE  [q EXCEPT !.since = IF @ <= Grace THEN @ + 1 ELSE @]
                     \in [granted : BOOLEAN, since : 0..(Grace + 1)]
        BY <2>0
    <3> QED
        BY <2>2, <3>1 DEF Tick, TypeOK
  <2>3. CASE UNCHANGED perm
      BY <2>3 DEF TypeOK
  <2> QED
      BY <2>1, <2>2, <2>3
         DEF Next, Handler, servePage, handleCallback, handleLogout, Visit, Return, OpenPage,
             AttachAuth, RequireSession, LoadAuthz, AuthorizeRepo, StoreAuthz, SignIn, Repeat,
             LoadState, HandleCallback, HandleLogin, DeleteState, StoreSession, Logout,
             LogoutSession, DeleteSession, Fail, Deliver, Leave, Expire, vars
<1>7. jar' \in [Browsers -> SessionIds \cup {None}]
  <2>1. ASSUME NEW t \in Tabs, Deliver(t)
        PROVE  jar' \in [Browsers -> SessionIds \cup {None}]
      BY <1>2, <2>1 DEF Deliver, TypeOK
  <2>2. CASE UNCHANGED jar
      BY <2>2 DEF TypeOK
  <2> QED
      BY <2>1, <2>2
         DEF Next, Handler, servePage, handleCallback, handleLogout, Visit, Return, OpenPage,
             AttachAuth, RequireSession, LoadAuthz, AuthorizeRepo, StoreAuthz, SignIn, Repeat,
             LoadState, HandleCallback, HandleLogin, DeleteState, StoreSession, Logout,
             LogoutSession, DeleteSession, Fail, Leave, Expire, ChangePermission, Tick, vars
<1>8. minted' \in SUBSET StateIds /\ kept' \in SUBSET StateIds /\ early' \in SUBSET Tabs
  <2>1. ASSUME NEW t \in Tabs, HandleLogin(t) \/ LoadState(t)
        PROVE  minted' \subseteq minted /\ kept' \subseteq kept /\ early' \subseteq early
      BY <2>1 DEF HandleLogin, LoadState
  <2>2. ASSUME NEW t \in Tabs, DeleteState(t) \/ StoreSession(t)
        PROVE  /\ minted' \subseteq minted \cup {tab[t].state}
               /\ kept' \subseteq kept \cup {tab[t].state}
               /\ early' \subseteq early \cup Tabs
               /\ tab[t].state \in StateIds
      BY <2>2 DEF DeleteState, StoreSession, Rivals, Admitted, Stations, Station
  <2>3. CASE UNCHANGED history
      BY <2>3 DEF history, TypeOK
  <2>4. minted \in SUBSET StateIds /\ kept \in SUBSET StateIds /\ early \in SUBSET Tabs
      BY DEF TypeOK
  <2> QED
      BY <2>1, <2>2, <2>3, <2>4
         DEF Next, Handler, servePage, handleCallback, handleLogout, Visit, Return, OpenPage,
             AttachAuth, RequireSession, LoadAuthz, AuthorizeRepo, StoreAuthz, SignIn, Repeat,
             HandleCallback, Logout, LogoutSession, DeleteSession, Fail,
             Deliver, Leave, Expire, ChangePermission, Tick, vars
<1>9. troubles' \in 0..MaxTroubles
  <2>1. CASE Trouble
      BY <2>1, AuthAssumption DEF Trouble, TypeOK
  <2>2. CASE UNCHANGED troubles
      BY <2>2 DEF TypeOK
  <2> QED
      BY <2>1, <2>2
         DEF Next, Handler, servePage, handleCallback, handleLogout, Visit, Return, OpenPage,
             AttachAuth, RequireSession, LoadAuthz, AuthorizeRepo, StoreAuthz, SignIn, Repeat,
             LoadState, HandleCallback, HandleLogin, DeleteState, StoreSession, Logout,
             LogoutSession, DeleteSession, Fail, Deliver, Leave, Expire, ChangePermission, Tick,
             vars
<1> QED
    BY <1>1, <1>3, <1>4, <1>5, <1>6, <1>7, <1>8, <1>9 DEF TypeOK
-----------------------------------------------------------------------------
\* Only the tab that moves can leave its station.
LEMMA OnlyOneMoves ==
    ASSUME TypeOK, Stations, NEW t \in Tabs, Station(t)',
           \A u \in Tabs \ {t} : tab'[u] = tab[u]
    PROVE  Stations'
    BY DEF Stations, Station

\* A tab that responds holds no answer, and goes to the provider only with a
\* state.
LEMMA RespondStation ==
    ASSUME TypeOK, NEW t \in Tabs, NEW next, NEW c, Respond(t, next, c), next # "provider"
    PROVE  Station(t)' /\ \A u \in Tabs \ {t} : tab'[u] = tab[u]
    BY DEF TypeOK, Respond, Station, Idle

LEMMA StationsStep ==
    TypeOK /\ Stations /\ [Next]_vars => Stations'
<1> SUFFICES ASSUME TypeOK, Stations, [Next]_vars
             PROVE  Stations'
    OBVIOUS
<1> DEFINE Others(t) == \A u \in Tabs \ {t} : tab'[u] = tab[u]
<1>0. ASSUME NEW t \in Tabs
      PROVE  /\ Station(t)
             /\ tab[t] \in TabRecords
             /\ tab[t] = [pc |-> tab[t].pc, page |-> tab[t].page, state |-> tab[t].state,
                         sent |-> tab[t].sent, who |-> tab[t].who,
                         allowed |-> tab[t].allowed, held |-> tab[t].held,
                         next |-> tab[t].next, cookie |-> tab[t].cookie]
             /\ tab[t].state \in StateIds \cup {None}
    BY DEF TypeOK, TabRecords, Stations
<1>1. ASSUME NEW t \in Tabs, NEW p \in Pages \cup {None}, OpenPage(t, p)
      PROVE  Station(t)' /\ Others(t)
    BY <1>1 DEF OpenPage, TypeOK, Station, Idle
<1>2. ASSUME NEW t \in Tabs, AttachAuth(t)
      PROVE  Station(t)' /\ Others(t)
  <2>1. CASE tab[t].page \in Private /\ tab' = [tab EXCEPT ![t].pc = "require"]
      BY <1>0, <1>2, <2>1 DEF AttachAuth, TypeOK, Station
  <2>2. CASE Respond(t, "shown", "keep")
      BY <2>2, RespondStation
  <2> QED
      BY <1>2, <2>1, <2>2 DEF AttachAuth, Goto
<1>3. ASSUME NEW t \in Tabs, RequireSession(t)
      PROVE  Station(t)' /\ Others(t)
  <2>1. CASE LoadedSession(t) = None
      BY <1>3, <2>1, RespondStation DEF RequireSession
  <2>2. CASE LoadedSession(t) # None
    <3>1. LoadedSession(t) \in Accounts
        BY <1>0, <2>2 DEF LoadedSession, TypeOK, TabRecords
    <3> QED
        BY <1>0, <1>3, <2>2, <3>1 DEF RequireSession, TypeOK, Station
  <2> QED
      BY <2>1, <2>2
<1>4. ASSUME NEW t \in Tabs, LoadAuthz(t)
      PROVE  Station(t)' /\ Others(t)
    BY <1>0, <1>4, RespondStation DEF LoadAuthz, Decide, Goto, TypeOK, Station
<1>5. ASSUME NEW t \in Tabs, AuthorizeRepo(t)
      PROVE  Station(t)' /\ Others(t)
    BY <1>0, <1>5 DEF AuthorizeRepo, TypeOK, Station
<1>6. ASSUME NEW t \in Tabs, StoreAuthz(t)
      PROVE  Station(t)' /\ Others(t)
    BY <1>6, RespondStation DEF StoreAuthz, Decide
<1>7. ASSUME NEW t \in Tabs, HandleLogin(t)
      PROVE  Station(t)' /\ Others(t)
  <2> DEFINE s == CHOOSE i \in StateIds : FreshState(i, t)
  <2>1. s \in StateIds
      BY <1>7 DEF HandleLogin
  <2> HIDE DEF s
  <2>2. tab' = [tab EXCEPT ![t] = [Idle EXCEPT !.pc = "response", !.next = "provider",
                                               !.state = s]]
      BY <1>7 DEF HandleLogin, s
  <2>3. tab[t].pc = "login"
      BY <1>7 DEF HandleLogin
  <2> QED
      BY <1>0, <2>1, <2>2, <2>3 DEF TypeOK, Station, Idle
<1>8. ASSUME NEW t \in Tabs, SignIn(t)
      PROVE  Station(t)' /\ Others(t)
    BY <1>0, <1>8 DEF SignIn, Goto, TypeOK, Station
<1>9. ASSUME NEW t \in Tabs, NEW u \in Tabs, Repeat(t, u)
      PROVE  Station(t)' /\ Others(t)
    BY <1>0, <1>9 DEF Repeat, TypeOK, Station, Idle
<1>10. ASSUME NEW t \in Tabs, LoadState(t)
      PROVE  Station(t)' /\ Others(t)
    BY <1>0, <1>10, RespondStation DEF LoadState, TypeOK, Station
<1>11. ASSUME NEW t \in Tabs, DeleteState(t)
      PROVE  Station(t)' /\ Others(t)
    BY <1>0, <1>11 DEF DeleteState, Goto, TypeOK, Station
<1>12. ASSUME NEW t \in Tabs, HandleCallback(t)
      PROVE  Station(t)' /\ Others(t)
    BY <1>0, <1>12, RespondStation DEF HandleCallback, TypeOK, Station
<1>13. ASSUME NEW t \in Tabs, StoreSession(t)
      PROVE  Station(t)' /\ Others(t)
    BY <1>13, RespondStation DEF StoreSession
<1>14. ASSUME NEW t \in Tabs, Logout(t)
      PROVE  Station(t)' /\ Others(t)
    BY <1>14 DEF Logout, TypeOK, Station, Idle
<1>15. ASSUME NEW t \in Tabs, LogoutSession(t)
      PROVE  Station(t)' /\ Others(t)
    BY <1>0, <1>15, RespondStation DEF LogoutSession, Goto, TypeOK, Station
<1>16. ASSUME NEW t \in Tabs, DeleteSession(t)
      PROVE  Station(t)' /\ Others(t)
    BY <1>16, RespondStation DEF DeleteSession
<1>17. ASSUME NEW t \in Tabs, Fail(t)
      PROVE  Station(t)' /\ Others(t)
    BY <1>17, RespondStation DEF Fail
<1>18. ASSUME NEW t \in Tabs, Deliver(t)
      PROVE  Station(t)' /\ Others(t)
  <2>1. CASE tab[t].next \in Ends
      BY <1>18, <2>1 DEF Deliver, TypeOK, Station, Idle
  <2>2. CASE tab[t].next \notin Ends
    <3>1. tab[t].next \in {"idle"} \cup Redirects
        BY <1>0, <2>2 DEF TabRecords
    <3>2. tab' = [tab EXCEPT ![t] = [Idle EXCEPT !.pc = tab[t].next, !.page = tab[t].page,
                                                 !.state = tab[t].state]]
        BY <1>18, <2>2 DEF Deliver
    <3> QED
        BY <1>0, <1>18, <3>1, <3>2 DEF Deliver, TypeOK, Station, Idle, Redirects
  <2> QED
      BY <2>1, <2>2
<1>19. ASSUME NEW t \in Tabs, Leave(t)
      PROVE  Station(t)' /\ Others(t)
    BY <1>19 DEF Leave, TypeOK, Station, Idle
<1>20. ASSUME Tick
      PROVE  Stations'
    BY <1>0, <1>20 DEF Tick, Stations, Station
<1>21. CASE UNCHANGED tab
    BY <1>21 DEF Stations, Station
<1>22. ASSUME NEW t \in Tabs, Station(t)', Others(t)
       PROVE  Stations'
    BY <1>22, OnlyOneMoves
<1>23. ASSUME NEW t \in Tabs
       PROVE  tab[t].page \in Pages \cup {None}
    BY DEF TypeOK, TabRecords
<1> HIDE DEF Others
<1> QED
    BY <1>1, <1>2, <1>3, <1>4, <1>5, <1>6, <1>7, <1>8, <1>9, <1>10, <1>11, <1>12, <1>13,
       <1>14, <1>15, <1>16, <1>17, <1>18, <1>19, <1>20, <1>21, <1>22, <1>23
       DEF Next, Handler, servePage, handleCallback, handleLogout, Visit, Return, Expire,
           ChangePermission, vars
-----------------------------------------------------------------------------
\* A stored answer ages with the time since the permission changed; what is
\* stored anew is an answer in hand.
LEMMA StoredIsRecentStep ==
    TypeOK /\ Stations /\ StoredIsRecent /\ HeldIsRecent /\ [Next]_vars => StoredIsRecent'
<1> SUFFICES ASSUME TypeOK, Stations, StoredIsRecent, HeldIsRecent, [Next]_vars,
                    NEW k \in Accounts \X Private, authz'[k] # None
             PROVE  \/ perm'[k].granted = authz'[k].allowed
                    \/ perm'[k].since <= authz'[k].age + MaxDelay
    BY DEF StoredIsRecent
<1>1. /\ perm[k] \in [granted : BOOLEAN, since : 0..(Grace + 1)]
      /\ authz[k] \in Answers \cup {None}
      /\ Grace \in Nat /\ AuthzTTL \in Nat /\ MaxDelay \in Nat
    BY AuthAssumption DEF TypeOK, Grace
<1>2. ASSUME NEW t \in Tabs, StoreAuthz(t)
      PROVE  \/ perm'[k].granted = authz'[k].allowed
             \/ perm'[k].since <= authz'[k].age + MaxDelay
  <2>1. CASE k = Key(t) /\ authz' = [authz EXCEPT ![Key(t)] = [allowed |-> tab[t].allowed,
                                                                 age |-> 0]]
    <3>1. authz'[k] = [allowed |-> tab[t].allowed, age |-> 0] /\ perm' = perm
        BY <1>2, <2>1 DEF StoreAuthz, TypeOK
    <3>2. perm[k].granted = tab[t].allowed \/ perm[k].since <= tab[t].held
        BY <1>2, <2>1 DEF StoreAuthz, HeldIsRecent
    <3>3. tab[t].held \in 0..MaxDelay
        BY DEF TypeOK, TabRecords
    <3> QED
        BY <1>1, <3>1, <3>2, <3>3
  <2>2. CASE authz'[k] = authz[k]
      BY <1>2, <2>2 DEF StoreAuthz, StoredIsRecent
  <2> QED
      BY <1>2, <2>1, <2>2 DEF StoreAuthz, TypeOK
<1>3. ASSUME NEW j \in DOMAIN perm, ChangePermission(j)
      PROVE  \/ perm'[k].granted = authz'[k].allowed
             \/ perm'[k].since <= authz'[k].age + MaxDelay
  <2>1. authz' = authz
      BY <1>3 DEF ChangePermission, storeVars
  <2>2. CASE j = k
    <3>1. perm'[k].since = 0
        BY <1>3, <2>2 DEF ChangePermission, TypeOK
    <3>2. authz[k].age \in 0..AuthzTTL
        BY <1>1, <2>1 DEF Answers
    <3> QED
        BY <1>1, <2>1, <3>1, <3>2
  <2>3. CASE j # k
      BY <1>3, <2>1, <2>3 DEF ChangePermission, StoredIsRecent, TypeOK
  <2> QED
      BY <2>2, <2>3
<1>4. CASE Tick
  <2>1. authz'[k] = Older(authz[k])
      BY <1>4 DEF Tick, TypeOK
  <2>2. authz[k] # None /\ authz[k] \in Answers /\ authz'[k] = [authz[k] EXCEPT !.age = @ + 1]
      BY <1>1, <2>1 DEF Older
  <2>3. authz'[k].allowed = authz[k].allowed /\ authz'[k].age = authz[k].age + 1
      BY <2>2 DEF Answers
  <2>4. perm'[k] = [perm[k] EXCEPT !.since = IF @ <= Grace THEN @ + 1 ELSE @]
      BY <1>4 DEF Tick, TypeOK
  <2>5. /\ perm'[k].granted = perm[k].granted
        /\ perm'[k].since <= perm[k].since + 1
      BY <1>1, <2>4
  <2>6. perm'[k].since \in Nat /\ perm[k].since \in Nat /\ authz[k].age \in Nat
      BY <1>1, <2>2, <2>4 DEF Answers
  <2>7. perm[k].granted = authz[k].allowed \/ perm[k].since <= authz[k].age + MaxDelay
      BY <2>2 DEF StoredIsRecent
  <2> QED
      BY <1>1, <2>3, <2>5, <2>6, <2>7
<1>5. CASE UNCHANGED <<authz, perm>>
    BY <1>5 DEF StoredIsRecent
<1> QED
    BY <1>2, <1>3, <1>4, <1>5
       DEF Next, Handler, servePage, handleCallback, handleLogout, Visit, Return, OpenPage,
           AttachAuth, RequireSession, LoadAuthz, AuthzAfterHit, AuthorizeRepo, SignIn, Repeat,
           LoadState, HandleCallback, HandleLogin, DeleteState, StoreSession, Logout,
           LogoutSession, DeleteSession, Fail, Deliver, Leave, Expire, vars, storeVars

\* A tab that holds an answer was given it in this step, or holds it still.
LEMMA HoldersStay ==
    ASSUME TypeOK, [Next]_vars, NEW u \in Tabs, tab'[u].pc = "store", ~Tick, ~AuthorizeRepo(u)
    PROVE  tab'[u] = tab[u]
<1>1. ASSUME NEW t \in Tabs, NEW next, NEW c, Respond(t, next, c)
      PROVE  tab'[u] = tab[u]
    BY <1>1 DEF Respond, Idle, TypeOK
<1>2. ASSUME NEW t \in Tabs, NEW pc, pc # "store", Goto(t, pc)
      PROVE  tab'[u] = tab[u]
    BY <1>2 DEF Goto, TypeOK, TabRecords
<1>3. ASSUME NEW t \in Tabs, NEW r, r.pc # "store", tab' = [tab EXCEPT ![t] = r]
      PROVE  tab'[u] = tab[u]
    BY <1>3 DEF TypeOK
<1>4. ASSUME NEW t \in Tabs, OpenPage(t, tab[t].page) \/ \E p \in Pages : OpenPage(t, p)
      PROVE  tab'[u] = tab[u]
    BY <1>3, <1>4 DEF OpenPage, Idle
<1>5. ASSUME NEW t \in Tabs, AttachAuth(t) \/ RequireSession(t) \/ LoadAuthz(t) \/ StoreAuthz(t)
      PROVE  tab'[u] = tab[u]
    BY <1>1, <1>2, <1>5 DEF AttachAuth, RequireSession, LoadAuthz, StoreAuthz, Decide, TypeOK,
                            TabRecords
<1>6. ASSUME NEW t \in Tabs, AuthorizeRepo(t)
      PROVE  tab'[u] = tab[u]
    BY <1>6 DEF AuthorizeRepo, TypeOK
<1>7. ASSUME NEW t \in Tabs, SignIn(t) \/ LoadState(t) \/ DeleteState(t)
      PROVE  tab'[u] = tab[u]
    BY <1>1, <1>2, <1>7 DEF SignIn, LoadState, DeleteState, TypeOK, TabRecords
<1>8. ASSUME NEW t \in Tabs, HandleCallback(t) \/ StoreSession(t)
      PROVE  tab'[u] = tab[u]
    BY <1>1, <1>8 DEF HandleCallback, StoreSession, TypeOK, TabRecords
<1>9. ASSUME NEW t \in Tabs, Logout(t) \/ LogoutSession(t) \/ DeleteSession(t) \/ Fail(t)
      PROVE  tab'[u] = tab[u]
    BY <1>1, <1>2, <1>3, <1>9 DEF Logout, LogoutSession, DeleteSession, Fail, Idle
<1>10. ASSUME NEW t \in Tabs, HandleLogin(t) \/ Leave(t) \/ \E v \in Tabs : Repeat(t, v)
      PROVE  tab'[u] = tab[u]
    BY <1>3, <1>10 DEF HandleLogin, Leave, Repeat, Idle
<1>11. ASSUME NEW t \in Tabs, Deliver(t)
      PROVE  tab'[u] = tab[u]
  <2>1. tab[t].next \in {"idle"} \cup Ends \cup Redirects
      BY DEF TypeOK, TabRecords
  <2> QED
      BY <1>11, <2>1 DEF Deliver, Idle, Redirects, TypeOK
<1>12. CASE UNCHANGED tab
    BY <1>12
<1> QED
    BY <1>4, <1>5, <1>6, <1>7, <1>8, <1>9, <1>10, <1>11, <1>12
       DEF Next, Handler, servePage, handleCallback, handleLogout, Visit, Return, Expire,
           ChangePermission, vars

\* An answer in hand ages with the time since the permission changed; a new one
\* is what the provider holds.
LEMMA HeldIsRecentStep ==
    TypeOK /\ Stations /\ HeldIsRecent /\ [Next]_vars => HeldIsRecent'
<1> SUFFICES ASSUME TypeOK, Stations, HeldIsRecent, [Next]_vars,
                    NEW u \in Tabs, tab'[u].pc = "store"
             PROVE  \/ perm'[Key(u)'].granted = tab'[u].allowed
                    \/ perm'[Key(u)'].since <= tab'[u].held
    BY DEF HeldIsRecent, Key
<1>1. tab[u] \in TabRecords /\ MaxDelay \in Nat /\ Grace \in Nat
    BY AuthAssumption DEF TypeOK, Grace
<1>2. CASE AuthorizeRepo(u)
  <2>1. /\ Key(u) \in Accounts \X Private
        /\ tab' = [tab EXCEPT ![u].pc = "store", ![u].allowed = perm[Key(u)].granted]
        /\ perm' = perm
      BY <1>2 DEF AuthorizeRepo, Stations, Station, Key
  <2>2. /\ tab'[u].who = tab[u].who
        /\ tab'[u].page = tab[u].page
        /\ tab'[u].allowed = perm[Key(u)].granted
      BY <1>1, <2>1 DEF TypeOK, TabRecords
  <2> QED
      BY <2>1, <2>2 DEF Key
<1>3. CASE Tick
  <2>1. tab[u].pc = "store" /\ tab'[u] = [tab[u] EXCEPT !.held = @ + 1]
      BY <1>1, <1>3 DEF Tick, TypeOK
  <2>2. /\ Key(u)' = Key(u)
        /\ tab'[u].allowed = tab[u].allowed
        /\ tab'[u].held = tab[u].held + 1
        /\ tab[u].held \in Nat
      BY <1>1, <2>1 DEF Key, TabRecords
  <2>3. Key(u) \in Accounts \X Private
      BY <2>1 DEF Stations, Station, Key
  <2>4. perm[Key(u)] \in [granted : BOOLEAN, since : 0..(Grace + 1)]
      BY <2>3 DEF TypeOK
  <2>5. perm'[Key(u)] = [perm[Key(u)] EXCEPT !.since = IF @ <= Grace THEN @ + 1 ELSE @]
      BY <1>3, <2>3 DEF Tick, TypeOK
  <2>6. /\ perm'[Key(u)].granted = perm[Key(u)].granted
        /\ perm'[Key(u)].since <= perm[Key(u)].since + 1
        /\ perm'[Key(u)].since \in Nat /\ perm[Key(u)].since \in Nat
      BY <1>1, <2>4, <2>5
  <2>7. perm[Key(u)].granted = tab[u].allowed \/ perm[Key(u)].since <= tab[u].held
      BY <2>1 DEF HeldIsRecent
  <2> QED
      BY <2>2, <2>6, <2>7
<1>4. CASE ~AuthorizeRepo(u) /\ ~Tick
  <2>1. tab'[u] = tab[u] /\ Key(u)' = Key(u)
      BY <1>4, HoldersStay DEF Key
  <2>2. Key(u) \in Accounts \X Private /\ tab[u].held \in Nat
      BY <1>1, <2>1 DEF Stations, Station, Key, TabRecords
  <2>3. perm[Key(u)].granted = tab[u].allowed \/ perm[Key(u)].since <= tab[u].held
      BY <2>1 DEF HeldIsRecent
  <2>4. ASSUME NEW j \in DOMAIN perm, ChangePermission(j)
        PROVE  perm'[Key(u)] = perm[Key(u)] \/ perm'[Key(u)].since = 0
      BY <2>2, <2>4 DEF ChangePermission, TypeOK
  <2>5. perm'[Key(u)] = perm[Key(u)] \/ perm'[Key(u)].since = 0
    <3>1. CASE UNCHANGED perm
        BY <3>1
    <3> QED
        BY <1>4, <2>4, <3>1
           DEF Next, Handler, servePage, handleCallback, handleLogout, Visit, Return, OpenPage,
               AttachAuth, RequireSession, LoadAuthz, AuthorizeRepo, StoreAuthz, SignIn, Repeat,
               LoadState, HandleCallback, HandleLogin, DeleteState, StoreSession, Logout,
               LogoutSession, DeleteSession, Fail, Deliver, Leave, Expire, vars
  <2> QED
      BY <2>1, <2>2, <2>3, <2>5
<1> QED
    BY <1>2, <1>3, <1>4
-----------------------------------------------------------------------------
\* The stations of a callback that has loaded its state, and those past the deletion.
Loaded == {"delete", "exchange", "mint"}
Past == {"exchange", "mint"}

\* A step that touches neither the states nor their history, and takes no callback
\* into these stations.
Aside ==
    /\ UNCHANGED <<states, minted, kept, early>>
    /\ \A u \in Tabs : /\ tab'[u].pc \in Loaded => tab'[u].state = tab[u].state /\ tab[u].pc \in Loaded
                       /\ tab'[u].pc \in Past => tab[u].pc \in Past

\* Such a step keeps the order of the callbacks.
LEMMA AsideStep ==
    ASSUME LoginsInOrder, Aside
    PROVE  LoginsInOrder'
<1>1. \A u \in Tabs : PastIsGone(u)'
    BY DEF LoginsInOrder, Aside, PastIsGone, Deleted, Past, Loaded
<1>2. MintedIsGone'
    BY DEF LoginsInOrder, Aside, MintedIsGone, Deleted
<1>3. ASSUME NEW t \in Tabs PROVE HolderIsEarly(t)'
  <2>1. SUFFICES ASSUME tab'[t].pc \in Loaded, Deleted(tab[t].state), t \notin early
                 PROVE  /\ tab[t].state \notin minted
                        /\ \A u \in Tabs \ {t} : tab'[u].pc \in Past => tab'[u].state # tab[t].state
    BY DEF HolderIsEarly, Admitted, Loaded, Past, Aside, Deleted
  <2>2. tab[t].pc \in Loaded /\ HolderIsEarly(t)
    BY <2>1 DEF Aside, LoginsInOrder
  <2>3. /\ tab[t].state \notin minted
        /\ \A u \in Tabs \ {t} : tab[u].pc \in Past => tab[u].state # tab[t].state
    BY <2>1, <2>2 DEF HolderIsEarly, Admitted, Loaded, Past
  <2>4. ASSUME NEW u \in Tabs \ {t}, tab'[u].pc \in Past
        PROVE  tab[u].pc \in Past /\ tab'[u].state = tab[u].state
    BY <2>4 DEF Aside, Past, Loaded
  <2> QED
    BY <2>3, <2>4
<1> QED
    BY <1>1, <1>2, <1>3 DEF LoginsInOrder

\* A tab that goes anywhere else leaves the callbacks as they were.
LEMMA TabAside ==
    ASSUME TypeOK, NEW t \in Tabs, NEW r, r.pc \notin Loaded, tab' = [tab EXCEPT ![t] = r],
           UNCHANGED <<states, minted, kept, early>>
    PROVE  Aside
    BY DEF TypeOK, Aside, Loaded, Past

LEMMA RespondAside ==
    ASSUME TypeOK, NEW t \in Tabs, NEW next, NEW c, Respond(t, next, c),
           UNCHANGED <<states, minted, kept, early>>
    PROVE  Aside
<1> DEFINE r == [Idle EXCEPT !.pc = "response", !.page = tab[t].page, !.state = tab[t].state,
                             !.next = next, !.cookie = c]
<1>1. r.pc \notin Loaded /\ tab' = [tab EXCEPT ![t] = r]
    BY DEF Respond, Idle, Loaded
<1> HIDE DEF r
<1> QED
    BY <1>1, TabAside

LEMMA GotoAside ==
    ASSUME TypeOK, NEW t \in Tabs, NEW pc, pc \notin Loaded, Goto(t, pc),
           UNCHANGED <<states, minted, kept, early>>
    PROVE  Aside
<1> DEFINE r == [tab[t] EXCEPT !.pc = pc]
<1>1. r.pc \notin Loaded /\ tab' = [tab EXCEPT ![t] = r]
    BY DEF Goto, TypeOK, TabRecords
<1> HIDE DEF r
<1> QED
    BY <1>1, TabAside

\* A new state is one that no callback holds.
LEMMA LoginKeepsOrder ==
    ASSUME TypeOK, LoginsInOrder, NEW t \in Tabs, HandleLogin(t)
    PROVE  LoginsInOrder'
<1>1. PICK s \in StateIds : /\ FreshState(s, t)
                            /\ states' = [states EXCEPT ![s] = tab[t].page]
                            /\ tab' = [tab EXCEPT ![t] = [Idle EXCEPT !.pc = "response",
                                                            !.next = "provider", !.state = s]]
                            /\ minted' = minted \ {s} /\ kept' = kept \ {s}
    BY DEF HandleLogin
<1>2. /\ tab'[t].pc = "response" /\ UNCHANGED early
      /\ \A u \in Tabs \ {t} : tab'[u] = tab[u] /\ tab[u].state # s
      /\ \A i \in StateIds : i # s => states'[i] = states[i]
  <2>1. tab'[t].pc = "response" /\ \A u \in Tabs \ {t} : tab'[u] = tab[u]
    BY <1>1 DEF TypeOK, Idle
  <2>2. \A u \in Tabs \ {t} : tab[u].state # s
    BY <1>1 DEF FreshState
  <2>3. \A i \in StateIds : i # s => states'[i] = states[i]
    BY <1>1 DEF TypeOK
  <2> QED
    BY <2>1, <2>2, <2>3 DEF HandleLogin
<1>3. ASSUME NEW u \in Tabs PROVE PastIsGone(u)' /\ HolderIsEarly(u)'
  <2>1. CASE u = t
    BY <1>2, <2>1 DEF PastIsGone, HolderIsEarly, Admitted
  <2>2. CASE u # t
    <3>1. tab'[u] = tab[u] /\ tab[u].state # s /\ PastIsGone(u) /\ HolderIsEarly(u)
      BY <1>2, <2>2 DEF LoginsInOrder
    <3>2. PastIsGone(u)'
      BY <1>1, <3>1 DEF PastIsGone, Deleted, TypeOK
    <3>3. HolderIsEarly(u)'
      BY <1>1, <1>2, <3>1 DEF HolderIsEarly, Deleted, Admitted
    <3> QED
      BY <3>2, <3>3
  <2> QED
    BY <2>1, <2>2
<1>4. MintedIsGone'
    BY <1>1, <1>2 DEF LoginsInOrder, MintedIsGone, Deleted, TypeOK
<1> QED
    BY <1>3, <1>4 DEF LoginsInOrder

\* A state that is still in the store has given no session, and nobody has got past
\* its deletion, unless the deletion failed.
LEMMA LoadKeepsOrder ==
    ASSUME TypeOK, Stations, LoginsInOrder, NEW t \in Tabs, LoadState(t)
    PROVE  LoginsInOrder'
<1>1. CASE states[tab[t].state] = None
    BY <1>1, RespondAside, AsideStep DEF LoadState, storeVars
<1>2. CASE states[tab[t].state] # None
  <2>1. /\ tab[t].pc = "callback" /\ tab[t].state \in StateIds
        /\ tab' = [tab EXCEPT ![t].pc = "delete", ![t].page = states[tab[t].state]]
        /\ early' = early \ {t} /\ UNCHANGED <<states, minted, kept>>
    BY <1>2 DEF LoadState, storeVars, Stations, Station
  <2>2. /\ tab'[t].pc = "delete" /\ tab'[t].state = tab[t].state
        /\ \A u \in Tabs \ {t} : tab'[u] = tab[u]
    BY <2>1 DEF TypeOK, TabRecords
  <2>8. early' = early \ {t} /\ UNCHANGED <<states, minted, kept>>
    BY <2>1
  <2>3. ASSUME NEW u \in Tabs PROVE PastIsGone(u)'
    <3>1. CASE u = t
      BY <2>2, <3>1 DEF PastIsGone
    <3>2. CASE u # t
      BY <2>2, <2>8, <3>2 DEF LoginsInOrder, PastIsGone, Deleted
    <3> QED
      BY <3>1, <3>2
  <2>4. MintedIsGone'
    BY <2>8 DEF LoginsInOrder, MintedIsGone, Deleted
  <2>5. ASSUME Deleted(tab[t].state)
        PROVE  /\ tab[t].state \notin minted
               /\ \A w \in Tabs \ {t} : tab[w].pc \in Past => tab[w].state # tab[t].state
    BY <1>2, <2>5 DEF LoginsInOrder, PastIsGone, MintedIsGone, Past
  <2>6. HolderIsEarly(t)'
    BY <2>2, <2>5, <2>8 DEF HolderIsEarly, Deleted, Past
  <2>7. ASSUME NEW u \in Tabs \ {t} PROVE HolderIsEarly(u)'
    <3>1. HolderIsEarly(u) /\ tab'[u] = tab[u]
      BY <2>2 DEF LoginsInOrder
    <3>2. \A w \in Tabs \ {u} : tab'[w].pc \in Past => tab[w].pc \in Past /\ tab'[w] = tab[w]
      BY <2>2 DEF Past
    <3>3. (u \in Admitted)' => u \in Admitted
      BY <3>1 DEF Admitted
    <3> QED
      BY <2>8, <3>1, <3>2, <3>3 DEF HolderIsEarly, Deleted, Past
  <2> QED
    BY <2>3, <2>4, <2>6, <2>7 DEF LoginsInOrder
<1> QED
    BY <1>1, <1>2

\* The deletion makes early all who hold the state, or lets it be known as kept.
LEMMA DeleteKeepsOrder ==
    ASSUME TypeOK, Stations, LoginsInOrder, NEW t \in Tabs, DeleteState(t)
    PROVE  LoginsInOrder'
<1> DEFINE s == tab[t].state
<1>1. /\ tab[t].pc = "delete" /\ s \in StateIds /\ UNCHANGED minted
      /\ tab' = [tab EXCEPT ![t].pc = "exchange"]
    BY DEF DeleteState, Goto, Stations, Station
<1>2. /\ tab'[t].pc = "exchange" /\ tab'[t].state = s
      /\ \A u \in Tabs \ {t} : tab'[u] = tab[u]
    BY <1>1 DEF TypeOK, TabRecords
<1>3. CASE states' = StatesAfterCallback(t) /\ early' = early \cup Rivals(t) /\ UNCHANGED kept
  <2>1. /\ states'[s] = None
        /\ \A i \in StateIds : states'[i] = states[i] \/ states'[i] = None
    BY <1>1, <1>3 DEF StatesAfterCallback, TypeOK
  <2>2. ASSUME NEW u \in Tabs PROVE PastIsGone(u)'
    <3>1. CASE u = t
      BY <1>2, <2>1, <3>1 DEF PastIsGone
    <3>2. CASE u # t
      <4>1. tab[u].pc \in {"exchange", "mint"} => tab[u].state \in StateIds
        BY DEF Stations, Station
      <4> QED
        BY <1>2, <1>3, <2>1, <3>2, <4>1 DEF LoginsInOrder, PastIsGone, Deleted
    <3> QED
      BY <3>1, <3>2
  <2>3. MintedIsGone'
    BY <1>1, <1>3, <2>1 DEF LoginsInOrder, MintedIsGone, Deleted, TypeOK
  <2>4. ASSUME NEW u \in Tabs PROVE HolderIsEarly(u)'
    <3>1. HolderIsEarly(u)
      BY DEF LoginsInOrder
    <3>2. CASE u = t
      BY <1>1, <1>2, <1>3, <3>1, <3>2 DEF HolderIsEarly, Deleted, Admitted
    <3>3. CASE u # t /\ u \in Rivals(t)
      BY <1>3, <3>3 DEF HolderIsEarly
    <3>4. CASE u # t /\ u \notin Rivals(t)
      BY <1>1, <1>2, <1>3, <3>1, <3>4 DEF HolderIsEarly, Deleted, Admitted, Rivals
    <3> QED
      BY <3>2, <3>3, <3>4
  <2> QED
    BY <2>2, <2>3, <2>4 DEF LoginsInOrder
<1>4. CASE kept' = kept \cup {s} /\ UNCHANGED <<states, early>>
  <2>1. ASSUME NEW u \in Tabs PROVE PastIsGone(u)'
    BY <1>2, <1>4 DEF LoginsInOrder, PastIsGone, Deleted
  <2>2. MintedIsGone'
    BY <1>1, <1>4 DEF LoginsInOrder, MintedIsGone, Deleted
  <2>3. ASSUME NEW u \in Tabs PROVE HolderIsEarly(u)'
    <3>1. HolderIsEarly(u)
      BY DEF LoginsInOrder
    <3>2. CASE u = t
      BY <1>2, <1>4, <3>2 DEF HolderIsEarly, Deleted
    <3>3. CASE u # t
      BY <1>1, <1>2, <1>4, <3>1, <3>3 DEF HolderIsEarly, Deleted, Admitted
    <3> QED
      BY <3>2, <3>3
  <2> QED
    BY <2>1, <2>2, <2>3 DEF LoginsInOrder
<1> QED
    BY <1>3, <1>4 DEF DeleteState

\* Who else holds the state of a session just given is early.
LEMMA MintKeepsOrder ==
    ASSUME TypeOK, LoginsInOrder, NEW t \in Tabs, StoreSession(t)
    PROVE  LoginsInOrder'
<1> DEFINE s == tab[t].state
<1>1. /\ tab[t].pc = "mint" /\ minted' = minted \cup {s}
      /\ UNCHANGED <<states, kept, early>>
      /\ \E c : Respond(t, "return", c)
    BY DEF StoreSession
<1>2. /\ tab'[t].pc = "response"
      /\ \A u \in Tabs \ {t} : tab'[u] = tab[u]
    BY <1>1 DEF Respond, Idle, TypeOK
<1>3. ASSUME NEW u \in Tabs PROVE PastIsGone(u)'
    BY <1>1, <1>2 DEF LoginsInOrder, PastIsGone, Deleted
<1>4. MintedIsGone'
    BY <1>1 DEF LoginsInOrder, MintedIsGone, PastIsGone, Deleted
<1>5. ASSUME NEW u \in Tabs PROVE HolderIsEarly(u)'
  <2>1. HolderIsEarly(u)
    BY DEF LoginsInOrder
  <2>2. CASE u = t
    BY <1>2, <2>2 DEF HolderIsEarly, Admitted
  <2>3. CASE u # t
    BY <1>1, <1>2, <2>1, <2>3 DEF HolderIsEarly, Deleted, Admitted
  <2> QED
    BY <2>2, <2>3
<1> QED
    BY <1>3, <1>4, <1>5 DEF LoginsInOrder

\* Every step keeps it: those of a login and a callback by the four lemmas before,
\* all others since they stand aside.
LEMMA LoginsInOrderStep ==
    TypeOK /\ Stations /\ LoginsInOrder /\ [Next]_vars => LoginsInOrder'
<1> SUFFICES ASSUME TypeOK, Stations, LoginsInOrder, [Next]_vars
             PROVE  LoginsInOrder'
    OBVIOUS
<1>1. ASSUME NEW t \in Tabs, OpenPage(t, tab[t].page) \/ \E p \in Pages : OpenPage(t, p)
      PROVE  Aside
    BY <1>1, TabAside DEF OpenPage, Idle, Loaded, storeVars, history
<1>2. ASSUME NEW t \in Tabs, AttachAuth(t) \/ LoadAuthz(t) \/ StoreAuthz(t)
      PROVE  Aside
    BY <1>2, RespondAside, GotoAside
       DEF AttachAuth, LoadAuthz, StoreAuthz, Decide, Loaded, storeVars, history
<1>3. ASSUME NEW t \in Tabs, RequireSession(t)
      PROVE  Aside
  <2>1. CASE LoadedSession(t) = None
    BY <1>3, <2>1, RespondAside DEF RequireSession, storeVars, history
  <2>2. CASE LoadedSession(t) # None
    BY <1>3, <2>2 DEF RequireSession, Aside, Loaded, Past, TypeOK, TabRecords, storeVars, history
  <2> QED
    BY <2>1, <2>2
<1>4. ASSUME NEW t \in Tabs, AuthorizeRepo(t)
      PROVE  Aside
    BY <1>4 DEF AuthorizeRepo, Aside, Loaded, Past, TypeOK, TabRecords, storeVars, history
<1>5. ASSUME NEW t \in Tabs, SignIn(t) \/ LogoutSession(t) \/ DeleteSession(t) \/ Fail(t)
      PROVE  Aside
    BY <1>5, RespondAside, GotoAside
       DEF SignIn, LogoutSession, DeleteSession, Fail, Loaded, storeVars, history
<1>6. ASSUME NEW t \in Tabs, Leave(t) \/ Logout(t) \/ \E v \in Tabs : Repeat(t, v)
      PROVE  Aside
    BY <1>6, TabAside DEF Leave, Logout, Repeat, Idle, Loaded, storeVars, history
<1>7. ASSUME NEW t \in Tabs, Deliver(t)
      PROVE  Aside
  <2>1. tab[t].next \in {"idle"} \cup Ends \cup Redirects
    BY DEF TypeOK, TabRecords
  <2>2. /\ tab'[t].pc \notin Loaded /\ \A u \in Tabs \ {t} : tab'[u] = tab[u]
        /\ UNCHANGED <<states, minted, kept, early>>
    BY <1>7, <2>1 DEF Deliver, Idle, Redirects, Loaded, TypeOK, storeVars, history
  <2> QED
    BY <2>2 DEF Aside, Loaded, Past
<1>8. ASSUME NEW t \in Tabs, HandleCallback(t)
      PROVE  Aside
  <2>1. ASSUME NEW a \in Accounts, tab' = [tab EXCEPT ![t].pc = "mint", ![t].who = a]
        PROVE  Aside
    BY <1>8, <2>1 DEF HandleCallback, Aside, Loaded, Past, TypeOK, TabRecords, storeVars, history
  <2> QED
    BY <1>8, <2>1, RespondAside DEF HandleCallback, storeVars, history
<1>9. ASSUME Tick
      PROVE  Aside
    BY <1>9 DEF Tick, Aside, Loaded, Past, TypeOK, TabRecords, history
<1>10. CASE Expire
  <2>1. /\ \A i \in StateIds : states'[i] = states[i] \/ states'[i] = None
        /\ UNCHANGED <<tab, minted, kept, early>>
    BY <1>10 DEF Expire, TypeOK, history
  <2>2. ASSUME NEW u \in Tabs PROVE PastIsGone(u)' /\ HolderIsEarly(u)'
    <3>1. tab[u].pc \in {"exchange", "mint"} => tab[u].state \in StateIds
      BY DEF Stations, Station
    <3> QED
      BY <2>1, <3>1 DEF LoginsInOrder, PastIsGone, HolderIsEarly, Deleted, Admitted
  <2>3. MintedIsGone'
    BY <2>1 DEF LoginsInOrder, MintedIsGone, Deleted, TypeOK
  <2> QED
    BY <2>2, <2>3 DEF LoginsInOrder
<1>11. ASSUME UNCHANGED <<tab, states, minted, kept, early>>
       PROVE  Aside
    BY <1>11 DEF Aside, Loaded, Past
<1> QED
    BY <1>1, <1>2, <1>3, <1>4, <1>5, <1>6, <1>7, <1>8, <1>9, <1>10, <1>11, AsideStep,
       LoginKeepsOrder, LoadKeepsOrder, DeleteKeepsOrder, MintKeepsOrder
       DEF Next, Handler, servePage, handleCallback, handleLogout, Visit, Return,
           ChangePermission, vars, storeVars, history
-----------------------------------------------------------------------------
\* Only the end of RequireRepoAccess answers for a private page.
LEMMA DecisionStep ==
    IInv /\ [Next]_vars => JudgedByRecentAnswer
<1> SUFFICES ASSUME IInv, [Next]_vars, NEW u \in Tabs, Judged(u)
             PROVE  \/ perm[Key(u)].granted = (tab'[u].next = "shown")
                    \/ perm[Key(u)].since <= Grace
    BY DEF JudgedByRecentAnswer
<1>0. /\ tab \in [Tabs -> TabRecords]
      /\ Stations
      /\ AuthzTTL \in Nat /\ MaxDelay \in Nat
    BY AuthAssumption DEF IInv, TypeOK
<1>1. ASSUME NEW t \in Tabs, NEW next, NEW c, Respond(t, next, c)
      PROVE  t = u /\ tab'[u].next = next
    BY <1>0, <1>1 DEF Respond, Idle, Judged
<1>2. ASSUME NEW t \in Tabs, NEW pc, pc # "response", Goto(t, pc)
      PROVE  FALSE
    BY <1>0, <1>2 DEF Goto, Judged, TabRecords
<1>3. ASSUME NEW t \in Tabs, NEW r, tab' = [tab EXCEPT ![t] = r],
             r.pc # "response" \/ r.next \notin {"shown", "forbidden"}
      PROVE  FALSE
    BY <1>0, <1>3 DEF Judged
<1>4. CASE LoadAuthz(u)
  <2>1. Key(u) \in Accounts \X Private
      BY <1>0, <1>4 DEF LoadAuthz, Stations, Station, Key
  <2>2. authz[Key(u)] # None /\ Decide(u, authz[Key(u)].allowed)
      BY <1>2, <1>4 DEF LoadAuthz
  <2>3. /\ authz[Key(u)].allowed \in BOOLEAN
        /\ authz[Key(u)].age \in 0..AuthzTTL
        /\ perm[Key(u)] \in [granted : BOOLEAN, since : 0..(Grace + 1)]
      BY <2>1, <2>2 DEF IInv, TypeOK, Answers
  <2>4. (tab'[u].next = "shown") = authz[Key(u)].allowed
      BY <1>1, <2>2, <2>3 DEF Decide
  <2>5. \/ perm[Key(u)].granted = authz[Key(u)].allowed
        \/ perm[Key(u)].since <= authz[Key(u)].age + MaxDelay
      BY <2>1, <2>2 DEF IInv, StoredIsRecent
  <2>6. perm[Key(u)].since <= authz[Key(u)].age + MaxDelay => perm[Key(u)].since <= Grace
      BY <1>0, <2>3 DEF Grace
  <2> QED
      BY <2>4, <2>5, <2>6
<1>5. CASE StoreAuthz(u)
  <2>1. Key(u) \in Accounts \X Private /\ Decide(u, tab[u].allowed)
      BY <1>0, <1>5 DEF StoreAuthz, Stations, Station, Key
  <2>2. /\ tab[u].allowed \in BOOLEAN
        /\ tab[u].held \in 0..MaxDelay
        /\ perm[Key(u)] \in [granted : BOOLEAN, since : 0..(Grace + 1)]
      BY <1>0, <2>1 DEF IInv, TypeOK, TabRecords
  <2>3. (tab'[u].next = "shown") = tab[u].allowed
      BY <1>1, <2>1, <2>2 DEF Decide
  <2>4. perm[Key(u)].granted = tab[u].allowed \/ perm[Key(u)].since <= tab[u].held
      BY <1>5 DEF IInv, HeldIsRecent, StoreAuthz
  <2>5. perm[Key(u)].since <= tab[u].held => perm[Key(u)].since <= Grace
      BY <1>0, <2>2 DEF Grace
  <2> QED
      BY <2>3, <2>4, <2>5
<1>6. ASSUME NEW t \in Tabs, LoadAuthz(t) \/ StoreAuthz(t)
      PROVE  t = u
    BY <1>1, <1>2, <1>6 DEF LoadAuthz, StoreAuthz, Decide
<1>7. ASSUME NEW t \in Tabs, OpenPage(t, tab[t].page) \/ \E p \in Pages : OpenPage(t, p)
      PROVE  FALSE
    BY <1>3, <1>7 DEF OpenPage, Idle
<1>8. ASSUME NEW t \in Tabs, AttachAuth(t) \/ RequireSession(t)
      PROVE  FALSE
    BY <1>0, <1>1, <1>2, <1>8 DEF AttachAuth, RequireSession, Judged, TabRecords
<1>9. ASSUME NEW t \in Tabs, AuthorizeRepo(t)
      PROVE  FALSE
    BY <1>0, <1>9 DEF AuthorizeRepo, Judged, TabRecords
<1>10. ASSUME NEW t \in Tabs, SignIn(t) \/ LoadState(t) \/ DeleteState(t)
       PROVE  FALSE
    BY <1>0, <1>1, <1>2, <1>10 DEF SignIn, LoadState, DeleteState, Judged, TabRecords
<1>11. ASSUME NEW t \in Tabs, HandleCallback(t) \/ StoreSession(t)
       PROVE  FALSE
    BY <1>0, <1>1, <1>11 DEF HandleCallback, StoreSession, Judged, TabRecords
<1>12. ASSUME NEW t \in Tabs, Logout(t) \/ LogoutSession(t) \/ DeleteSession(t) \/ Fail(t)
       PROVE  FALSE
    BY <1>1, <1>2, <1>3, <1>12 DEF Logout, LogoutSession, DeleteSession, Fail, Idle, Judged
<1>13. ASSUME NEW t \in Tabs,
              HandleLogin(t) \/ Leave(t) \/ Deliver(t) \/ \E v \in Tabs : Repeat(t, v)
       PROVE  FALSE
    BY <1>0, <1>3, <1>13 DEF HandleLogin, Leave, Deliver, Repeat, Idle, Judged
<1>14. CASE Tick
    BY <1>0, <1>14 DEF Tick, Judged, TabRecords
<1>15. CASE UNCHANGED tab
    BY <1>15 DEF Judged
<1> QED
    BY <1>4, <1>5, <1>6, <1>7, <1>8, <1>9, <1>10, <1>11, <1>12, <1>13, <1>14, <1>15
       DEF Next, Handler, servePage, handleCallback, handleLogout, Visit, Return, Expire,
           ChangePermission, vars
-----------------------------------------------------------------------------
\* The inductive invariant holds whatever the number of tabs, accounts and
\* pages, the TTL and the delay.
THEOREM Invariance == Spec => []IInv
<1>1. Init => IInv
  <2> SUFFICES ASSUME Init
               PROVE  IInv
      OBVIOUS
  <2>1. Grace \in Nat
      BY AuthAssumption DEF Grace
  <2>2. TypeOK
      BY <2>1, IdleType, AuthAssumption DEF Init, TypeOK
  <2>3. Stations /\ HeldIsRecent
      BY DEF Init, Idle, Stations, Station, HeldIsRecent
  <2>4. StoredIsRecent
      BY DEF Init, StoredIsRecent
  <2>5. LoginsInOrder
      BY DEF Init, Idle, LoginsInOrder, PastIsGone, MintedIsGone, HolderIsEarly, Admitted
  <2> QED
      BY <2>2, <2>3, <2>4, <2>5 DEF IInv
<1>2. IInv /\ [Next]_vars => IInv'
    BY TypeStep, StationsStep, StoredIsRecentStep, HeldIsRecentStep, LoginsInOrderStep DEF IInv
<1> QED
    BY <1>1, <1>2, PTL DEF Spec

\* The variables keep their types.
THEOREM TypeCorrect == Spec => []TypeOK
    BY Invariance, PTL DEF IInv

\* What a private page is answered with was the provider's word at some moment
\* in the last AuthzTTL and MaxDelay (auth_service.go:99-114).
THEOREM DecisionsAreRecent == Spec => DecisionIsRecent
<1>1. IInv /\ [Next]_vars => [JudgedByRecentAnswer]_vars
    BY DecisionStep
<1> QED
    BY <1>1, Invariance, PTL DEF Spec, DecisionIsRecent

\* A login gives one session: a further one goes only to a callback that had loaded
\* the state before it was deleted, or after a failed deletion, whatever the number
\* of tabs and however their callbacks interleave (auth_service.go:152-175).
THEOREM LoginsGiveOneSession == Spec => OneSessionPerLogin
<1> DEFINE Once == \A t \in Tabs : GivesSession(t) /\ tab[t].state \in minted =>
                                       t \in early \/ tab[t].state \in kept
<1>1. IInv /\ [Next]_vars => [Once]_vars
    BY DEF IInv, LoginsInOrder, HolderIsEarly, Admitted, Deleted, GivesSession
<1> QED
    BY <1>1, Invariance, PTL DEF Spec, OneSessionPerLogin
=============================================================================
