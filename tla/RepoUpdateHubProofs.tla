------------------------- MODULE RepoUpdateHubProofs -------------------------
(***************************************************************************)
(* The safety of the update hub, for any number of groups, requests and    *)
(* commits.  None of the properties is inductive by itself: IInv adds what *)
(* a group's goroutine and a request's release have reached.               *)
(***************************************************************************)
EXTENDS RepoUpdateHub, TLAPS

\* A group is closed before it is done, its goroutine is out of the loop only
\* when it is closed, and holds victims only while it kills.
GroupLife ==
    /\ done \subseteq closed
    /\ closed \subseteq used
    /\ \A g \in Groups :
           /\ g \in used <=> loop[g] # "none"
           /\ loop[g] = "stopped" => g \in closed
           /\ loop[g] = "end" => g \in ended
           /\ loop[g] # "kill" => victims[g] = {}

\* A request has a group from its Attach on, and that group was allocated; only
\* a request with a group is ever killed.
RequestLife ==
    /\ \A r \in Requests :
           /\ phase[r] = "new" => home[r] = NoGroup
           /\ phase[r] \in {"attached", "closing"} => home[r] # NoGroup
           /\ phase[r] = "closing" => home[r] \in closed
           /\ home[r] # NoGroup => home[r] \in used
    /\ \A r \in killed : home[r] # NoGroup

IInv ==
    /\ TypeOK
    /\ GroupLife
    /\ RequestLife
    /\ OneOpenGroup
    /\ NoIdleGroup
    /\ WatcherInOnePlace
    /\ UpdateSplitsWatchers
    /\ StrandedOnlyByBroker
-----------------------------------------------------------------------------
\* Every step keeps the types: a detach closes a group, never NoGroup.
LEMMA TypeStep ==
    TypeOK /\ RequestLife /\ [Next]_vars => TypeOK'
<1> SUFFICES ASSUME TypeOK, RequestLife, [Next]_vars
             PROVE  TypeOK'
    OBVIOUS
<1> USE HubAssumption DEF TypeOK, RequestLife,
    groupVars, loopVars, brokerVars, reqVars
<1>1. ASSUME NEW r \in Requests, NEW c \in Commits, NEW g \in Groups,
             AttachNewGroup(r, c, g)
      PROVE  TypeOK'
    BY <1>1 DEF AttachNewGroup, Watch, Channels, Phases, LoopStates
<1>2. ASSUME NEW r \in Requests, NEW c \in Commits,
             AttachJoin(r, c)
      PROVE  TypeOK'
    BY <1>2 DEF AttachJoin, Watch, Channels, Phases, LoopStates
<1>3. ASSUME NEW r \in Requests,
             AttachFails(r)
      PROVE  TypeOK'
    BY <1>3 DEF AttachFails, Channels, Phases, LoopStates
<1>4. ASSUME NEW r \in Requests,
             Detach(r)
      PROVE  TypeOK'
    BY <1>4 DEF Detach, ShouldClose, Channels, Phases, LoopStates
<1>5. ASSUME NEW r \in Requests,
             DetachClose(r)
      PROVE  TypeOK'
    BY <1>5 DEF DetachClose, Close, Channels, Phases, LoopStates
<1>6. ASSUME NEW g \in Groups,
             LoopDone(g)
      PROVE  TypeOK'
    BY <1>6 DEF LoopDone, Channels, Phases, LoopStates
<1>7. ASSUME NEW g \in Groups,
             LoopEvent(g)
      PROVE  TypeOK'
    BY <1>7 DEF LoopEvent, EventValue, Outdated, DeletedBuckets, Channels, Phases,
       LoopStates
<1>8. ASSUME NEW g \in Groups, NEW r \in Requests,
             LoopKill(g, r)
      PROVE  TypeOK'
    BY <1>8 DEF LoopKill, VictimsAfter, Channels, Phases, LoopStates
<1>9. ASSUME NEW g \in Groups, NEW ch \in Channels,
             LoopChannelClosed(g, ch)
      PROVE  TypeOK'
    BY <1>9 DEF LoopChannelClosed, Channels, Phases, LoopStates
<1>10. ASSUME NEW g \in Groups,
             LoopEnd(g)
      PROVE  TypeOK'
    BY <1>10 DEF LoopEnd, EntryAfterLoop, Close, Channels, Phases, LoopStates
<1>11. ASSUME NEW c \in Commits,
             Publish(c)
      PROVE  TypeOK'
    BY <1>11 DEF Publish, Subscribed, Channels, Phases, LoopStates
<1>12. ASSUME NEW g \in Groups,
             BrokerEnds(g)
      PROVE  TypeOK'
    BY <1>12 DEF BrokerEnds, Channels, Phases, LoopStates
<1>13. CASE UNCHANGED vars
    BY <1>13 DEF vars, Channels, Phases, LoopStates
<1> QED
    BY <1>1, <1>2, <1>3, <1>4, <1>5, <1>6, <1>7, <1>8, <1>9, <1>10, <1>11, <1>12, <1>13
       DEF Next, Attach, runGroup, Broker
-----------------------------------------------------------------------------
\* Every step keeps the groups in order: what group.close() ends was closed.
LEMMA GroupLifeStep ==
    TypeOK /\ GroupLife /\ RequestLife /\ [Next]_vars => GroupLife'
<1> SUFFICES ASSUME TypeOK, GroupLife, RequestLife, [Next]_vars
             PROVE  GroupLife'
    OBVIOUS
<1> USE HubAssumption DEF TypeOK, GroupLife, RequestLife,
    groupVars, loopVars, brokerVars, reqVars
<1>1. ASSUME NEW r \in Requests, NEW c \in Commits, NEW g \in Groups,
             AttachNewGroup(r, c, g)
      PROVE  GroupLife'
    BY <1>1 DEF AttachNewGroup, Watch
<1>2. ASSUME NEW r \in Requests,
             Detach(r)
      PROVE  GroupLife'
    BY <1>2 DEF Detach, ShouldClose
<1>3. ASSUME NEW r \in Requests,
             DetachClose(r)
      PROVE  GroupLife'
    BY <1>3 DEF DetachClose, Close
<1>4. ASSUME NEW g \in Groups,
             LoopDone(g)
      PROVE  GroupLife'
    BY <1>4 DEF LoopDone
<1>5. ASSUME NEW g \in Groups,
             LoopEvent(g)
      PROVE  GroupLife'
    BY <1>5 DEF LoopEvent, EventValue, Outdated, DeletedBuckets
<1>6. ASSUME NEW g \in Groups, NEW r \in Requests,
             LoopKill(g, r)
      PROVE  GroupLife'
    BY <1>6 DEF LoopKill, VictimsAfter
<1>7. ASSUME NEW g \in Groups, NEW ch \in Channels,
             LoopChannelClosed(g, ch)
      PROVE  GroupLife'
    BY <1>7 DEF LoopChannelClosed
<1>8. ASSUME NEW g \in Groups,
             LoopEnd(g)
      PROVE  GroupLife'
    BY <1>8 DEF LoopEnd, EntryAfterLoop, Close
<1>9. ASSUME NEW g \in Groups,
             BrokerEnds(g)
      PROVE  GroupLife'
    BY <1>9 DEF BrokerEnds
<1>10. CASE UNCHANGED <<done, closed, used, loop, ended, victims>>
    BY <1>10
<1> QED
    BY <1>1, <1>2, <1>3, <1>4, <1>5, <1>6, <1>7, <1>8, <1>9, <1>10 DEF Next, Attach,
       runGroup, Broker, vars, AttachJoin, AttachFails, Publish
-----------------------------------------------------------------------------
\* Every step keeps the requests in order: a request joins an allocated group.
LEMMA RequestLifeStep ==
    TypeOK /\ GroupLife /\ RequestLife /\ OneOpenGroup /\ WatcherInOnePlace /\
       [Next]_vars => RequestLife'
<1> SUFFICES ASSUME TypeOK, GroupLife, RequestLife, OneOpenGroup, WatcherInOnePlace,
   [Next]_vars
             PROVE  RequestLife'
    OBVIOUS
<1> USE HubAssumption DEF TypeOK, GroupLife, RequestLife, OneOpenGroup, WatcherInOnePlace,
    groupVars, loopVars, brokerVars, reqVars
<1>1. ASSUME NEW r \in Requests, NEW c \in Commits, NEW g \in Groups,
             AttachNewGroup(r, c, g)
      PROVE  RequestLife'
    BY <1>1 DEF AttachNewGroup, Watch
<1>2. ASSUME NEW r \in Requests, NEW c \in Commits,
             AttachJoin(r, c)
      PROVE  RequestLife'
    BY <1>2 DEF AttachJoin, Watch
<1>3. ASSUME NEW r \in Requests,
             AttachFails(r)
      PROVE  RequestLife'
    BY <1>3 DEF AttachFails
<1>4. ASSUME NEW r \in Requests,
             Detach(r)
      PROVE  RequestLife'
    BY <1>4 DEF Detach, ShouldClose
<1>5. ASSUME NEW r \in Requests,
             DetachClose(r)
      PROVE  RequestLife'
    BY <1>5 DEF DetachClose, Close
<1>6. ASSUME NEW g \in Groups, NEW r \in Requests,
             LoopKill(g, r)
      PROVE  RequestLife'
    BY <1>6 DEF LoopKill, VictimsAfter
<1>7. ASSUME NEW g \in Groups,
             LoopEnd(g)
      PROVE  RequestLife'
    BY <1>7 DEF LoopEnd, EntryAfterLoop, Close
<1>8. CASE UNCHANGED <<phase, home, closed, used, killed>>
    BY <1>8
<1> QED
    BY <1>1, <1>2, <1>3, <1>4, <1>5, <1>6, <1>7, <1>8 DEF Next, Attach, runGroup,
       Broker, vars, LoopDone, LoopEvent, LoopChannelClosed, Publish, BrokerEnds
-----------------------------------------------------------------------------
\* No step opens a second group or closes another than the registered one.
LEMMA OneOpenGroupStep ==
    TypeOK /\ GroupLife /\ RequestLife /\ OneOpenGroup /\ [Next]_vars => OneOpenGroup'
<1> SUFFICES ASSUME TypeOK, GroupLife, RequestLife, OneOpenGroup, [Next]_vars
             PROVE  OneOpenGroup'
    OBVIOUS
<1> USE HubAssumption DEF TypeOK, GroupLife, RequestLife, OneOpenGroup,
    groupVars, loopVars, brokerVars, reqVars
<1>1. ASSUME NEW r \in Requests, NEW c \in Commits, NEW g \in Groups,
             AttachNewGroup(r, c, g)
      PROVE  OneOpenGroup'
    BY <1>1 DEF AttachNewGroup, Watch
<1>2. ASSUME NEW r \in Requests,
             Detach(r)
      PROVE  OneOpenGroup'
    BY <1>2 DEF Detach, ShouldClose
<1>3. ASSUME NEW g \in Groups,
             LoopEnd(g)
      PROVE  OneOpenGroup'
    BY <1>3 DEF LoopEnd, EntryAfterLoop, Close
<1>4. CASE UNCHANGED <<used, closed, current>>
    BY <1>4
<1> QED
    BY <1>1, <1>2, <1>3, <1>4 DEF Next, Attach, runGroup, Broker, vars, AttachJoin,
       AttachFails, DetachClose, LoopDone, LoopEvent, LoopKill, LoopChannelClosed,
       Publish, BrokerEnds
-----------------------------------------------------------------------------
\* No step leaves the registered group without a request: a detach that does not
\* close it finds another watcher in it.
LEMMA NoIdleGroupStep ==
    TypeOK /\ GroupLife /\ RequestLife /\ OneOpenGroup /\ WatcherInOnePlace /\
       NoIdleGroup /\ [Next]_vars => NoIdleGroup'
<1> SUFFICES ASSUME TypeOK, GroupLife, RequestLife, OneOpenGroup, WatcherInOnePlace,
   NoIdleGroup, [Next]_vars
             PROVE  NoIdleGroup'
    OBVIOUS
<1> USE HubAssumption DEF TypeOK, GroupLife, RequestLife, OneOpenGroup,
   WatcherInOnePlace, NoIdleGroup,
    groupVars, loopVars, brokerVars, reqVars
<1>1. ASSUME NEW r \in Requests, NEW c \in Commits, NEW g \in Groups,
             AttachNewGroup(r, c, g)
      PROVE  NoIdleGroup'
    BY <1>1 DEF AttachNewGroup, Watch
<1>2. ASSUME NEW r \in Requests, NEW c \in Commits,
             AttachJoin(r, c)
      PROVE  NoIdleGroup'
    BY <1>2 DEF AttachJoin, Watch
<1>3. ASSUME NEW r \in Requests,
             AttachFails(r)
      PROVE  NoIdleGroup'
    BY <1>3 DEF AttachFails
<1>4. ASSUME NEW r \in Requests,
             Detach(r)
      PROVE  NoIdleGroup'
    <2> SUFFICES ASSUME current' # NoGroup
                 PROVE  \E q \in Requests : phase'[q] = "attached" /\ home'[q] = current'
        OBVIOUS
    <2>1. ~ShouldClose(r) /\ current' = current /\ home' = home
        BY <1>4 DEF Detach
    <2>2. \A q \in Requests \ {r} : phase'[q] = phase[q]
        BY <1>4 DEF Detach
    <2>3. CASE home[r] # current
        BY <2>1, <2>2, <2>3
    <2>4. CASE home[r] = current
        <3>1. current \notin closed
            BY <2>1
        <3>2. PICK q \in Requests \ {r} : q \in watchers[current]
            BY <2>1, <2>4, <3>1 DEF ShouldClose
        <3>3. phase[q] = "attached" /\ home[q] = current
            BY <2>1, <3>2
        <3> QED
            BY <2>1, <2>2, <3>2, <3>3
    <2> QED
        BY <2>3, <2>4
<1>5. ASSUME NEW r \in Requests,
             DetachClose(r)
      PROVE  NoIdleGroup'
    BY <1>5 DEF DetachClose, Close
<1>6. ASSUME NEW g \in Groups,
             LoopEnd(g)
      PROVE  NoIdleGroup'
    BY <1>6 DEF LoopEnd, EntryAfterLoop, Close
<1>7. CASE UNCHANGED <<current, phase, home>>
    BY <1>7
<1> QED
    BY <1>1, <1>2, <1>3, <1>4, <1>5, <1>6, <1>7 DEF Next, Attach, runGroup, Broker,
       vars, LoopDone, LoopEvent, LoopKill, LoopChannelClosed, Publish, BrokerEnds
-----------------------------------------------------------------------------
\* Every step moves a watcher from one place to the next.
LEMMA WatcherInOnePlaceStep ==
    TypeOK /\ GroupLife /\ RequestLife /\ OneOpenGroup /\ WatcherInOnePlace /\
       [Next]_vars => WatcherInOnePlace'
<1> SUFFICES ASSUME TypeOK, GroupLife, RequestLife, OneOpenGroup, WatcherInOnePlace,
   [Next]_vars
             PROVE  WatcherInOnePlace'
    OBVIOUS
<1> USE HubAssumption DEF TypeOK, GroupLife, RequestLife, OneOpenGroup, WatcherInOnePlace,
    groupVars, loopVars, brokerVars, reqVars
<1>1. ASSUME NEW r \in Requests, NEW c \in Commits, NEW g \in Groups,
             AttachNewGroup(r, c, g)
      PROVE  WatcherInOnePlace'
    BY <1>1 DEF AttachNewGroup, Watch
<1>2. ASSUME NEW r \in Requests, NEW c \in Commits,
             AttachJoin(r, c)
      PROVE  WatcherInOnePlace'
    BY <1>2 DEF AttachJoin, Watch
<1>3. ASSUME NEW r \in Requests,
             AttachFails(r)
      PROVE  WatcherInOnePlace'
    BY <1>3 DEF AttachFails
<1>4. ASSUME NEW r \in Requests,
             Detach(r)
      PROVE  WatcherInOnePlace'
    BY <1>4 DEF Detach, ShouldClose
<1>5. ASSUME NEW r \in Requests,
             DetachClose(r)
      PROVE  WatcherInOnePlace'
    BY <1>5 DEF DetachClose, Close
<1>6. ASSUME NEW g \in Groups,
             LoopEvent(g)
      PROVE  WatcherInOnePlace'
    BY <1>6 DEF LoopEvent, EventValue, Outdated, DeletedBuckets
<1>7. ASSUME NEW g \in Groups, NEW r \in Requests,
             LoopKill(g, r)
      PROVE  WatcherInOnePlace'
    BY <1>7 DEF LoopKill, VictimsAfter
<1>8. CASE UNCHANGED <<phase, home, watchers, victims, killed>>
    BY <1>8
<1> QED
    BY <1>1, <1>2, <1>3, <1>4, <1>5, <1>6, <1>7, <1>8 DEF Next, Attach, runGroup,
       Broker, vars, LoopDone, LoopChannelClosed, LoopEnd, Publish, BrokerEnds
-----------------------------------------------------------------------------
\* An event takes every watcher of another commit, and nobody else does.
LEMMA UpdateSplitsWatchersStep ==
    TypeOK /\ GroupLife /\ RequestLife /\ WatcherInOnePlace /\ UpdateSplitsWatchers /\
       [Next]_vars => UpdateSplitsWatchers'
<1> SUFFICES ASSUME TypeOK, GroupLife, RequestLife, WatcherInOnePlace,
   UpdateSplitsWatchers, [Next]_vars
             PROVE  UpdateSplitsWatchers'
    OBVIOUS
<1> USE HubAssumption DEF TypeOK, GroupLife, RequestLife, WatcherInOnePlace,
   UpdateSplitsWatchers,
    groupVars, loopVars, brokerVars, reqVars
<1>1. ASSUME NEW r \in Requests, NEW c \in Commits, NEW g \in Groups,
             AttachNewGroup(r, c, g)
      PROVE  UpdateSplitsWatchers'
    BY <1>1 DEF AttachNewGroup, Watch
<1>2. ASSUME NEW r \in Requests, NEW c \in Commits,
             AttachJoin(r, c)
      PROVE  UpdateSplitsWatchers'
    BY <1>2 DEF AttachJoin, Watch
<1>3. ASSUME NEW r \in Requests,
             Detach(r)
      PROVE  UpdateSplitsWatchers'
    BY <1>3 DEF Detach, ShouldClose
<1>4. ASSUME NEW g \in Groups,
             LoopEvent(g)
      PROVE  UpdateSplitsWatchers'
    BY <1>4 DEF LoopEvent, EventValue, Outdated, DeletedBuckets
<1>5. ASSUME NEW g \in Groups, NEW r \in Requests,
             LoopKill(g, r)
      PROVE  UpdateSplitsWatchers'
    BY <1>5 DEF LoopKill, VictimsAfter
<1>6. CASE UNCHANGED <<watchers, lastSeen, commit, seenAtAttach, victims>>
    BY <1>6
<1> QED
    BY <1>1, <1>2, <1>3, <1>4, <1>5, <1>6 DEF Next, Attach, runGroup, Broker, vars,
       AttachFails, DetachClose, LoopDone, LoopChannelClosed, LoopEnd, Publish,
       BrokerEnds
-----------------------------------------------------------------------------
\* A group is closed empty, or after the broker has ended its subscription.
LEMMA StrandedOnlyByBrokerStep ==
    TypeOK /\ GroupLife /\ RequestLife /\ OneOpenGroup /\ StrandedOnlyByBroker /\
       [Next]_vars => StrandedOnlyByBroker'
<1> SUFFICES ASSUME TypeOK, GroupLife, RequestLife, OneOpenGroup, StrandedOnlyByBroker,
   [Next]_vars
             PROVE  StrandedOnlyByBroker'
    OBVIOUS
<1> USE HubAssumption DEF TypeOK, GroupLife, RequestLife, OneOpenGroup,
   StrandedOnlyByBroker,
    groupVars, loopVars, brokerVars, reqVars
<1>1. ASSUME NEW r \in Requests, NEW c \in Commits, NEW g \in Groups,
             AttachNewGroup(r, c, g)
      PROVE  StrandedOnlyByBroker'
    BY <1>1 DEF AttachNewGroup, Watch
<1>2. ASSUME NEW r \in Requests, NEW c \in Commits,
             AttachJoin(r, c)
      PROVE  StrandedOnlyByBroker'
    BY <1>2 DEF AttachJoin, Watch
<1>3. ASSUME NEW r \in Requests,
             Detach(r)
      PROVE  StrandedOnlyByBroker'
    BY <1>3 DEF Detach, ShouldClose
<1>4. ASSUME NEW g \in Groups,
             LoopEvent(g)
      PROVE  StrandedOnlyByBroker'
    BY <1>4 DEF LoopEvent, EventValue, Outdated, DeletedBuckets
<1>5. ASSUME NEW g \in Groups,
             LoopEnd(g)
      PROVE  StrandedOnlyByBroker'
    BY <1>5 DEF LoopEnd, EntryAfterLoop, Close
<1>6. ASSUME NEW g \in Groups,
             BrokerEnds(g)
      PROVE  StrandedOnlyByBroker'
    BY <1>6 DEF BrokerEnds
<1>7. CASE UNCHANGED <<closed, watchers, ended>>
    BY <1>7
<1> QED
    BY <1>1, <1>2, <1>3, <1>4, <1>5, <1>6, <1>7 DEF Next, Attach, runGroup, Broker,
       vars, AttachFails, DetachClose, LoopDone, LoopKill, LoopChannelClosed, Publish
-----------------------------------------------------------------------------
\* The inductive invariant holds of the hub whatever the number of groups,
\* requests and commits.
THEOREM Invariance == Spec => []IInv
<1>1. Init => IInv
    BY HubAssumption DEF Init, IInv, TypeOK, GroupLife, RequestLife, OneOpenGroup,
       NoIdleGroup,
       WatcherInOnePlace, UpdateSplitsWatchers, StrandedOnlyByBroker, Channels, Phases,
          LoopStates
<1>2. IInv /\ [Next]_vars => IInv'
    BY TypeStep, GroupLifeStep, RequestLifeStep, OneOpenGroupStep, NoIdleGroupStep,
       WatcherInOnePlaceStep, UpdateSplitsWatchersStep, StrandedOnlyByBrokerStep DEF IInv
<1> QED
    BY <1>1, <1>2, PTL DEF Spec

\* The variables keep their types.
THEOREM TypeCorrect == Spec => []TypeOK
    BY Invariance, PTL DEF IInv

\* The hub never has a second open group, nor unregisters a newer one
\* (update_hub.go:109-112, :146).
THEOREM OpenGroupUnique == Spec => []OneOpenGroup
    BY Invariance, PTL DEF IInv

\* A registered group belongs to a request that has not been released.
THEOREM GroupHasUser == Spec => []NoIdleGroup
    BY Invariance, PTL DEF IInv

\* No kill function runs twice and none is lost (update_hub.go:162-176).
THEOREM WatcherIsKept == Spec => []WatcherInOnePlace
    BY Invariance, PTL DEF IInv

\* An update takes the watchers of all other commits and spares its own.
THEOREM UpdateSplits == Spec => []UpdateSplitsWatchers
    BY Invariance, PTL DEF IInv

\* Closing an idle group strands no watcher (update_hub.go:108-112).
THEOREM OnlyBrokerStrands == Spec => []StrandedOnlyByBroker
    BY Invariance, PTL DEF IInv

\* A registered group takes watchers and sees updates: it is open, subscribed,
\* and its goroutine runs (so Attach does not recurse for ever).
THEOREM RegisteredIsLive == Spec => []RegisteredGroupIsLive
<1>1. IInv => RegisteredGroupIsLive
    BY HubAssumption DEF IInv, TypeOK, GroupLife, OneOpenGroup, RegisteredGroupIsLive,
       LoopStates
<1> QED
    BY <1>1, Invariance, PTL
==============================================================================
