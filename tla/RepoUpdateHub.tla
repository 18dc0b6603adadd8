---------------------------- MODULE RepoUpdateHub ----------------------------
(***************************************************************************)
(* The update hub of one server (pkg/core/update_hub.go), for one key      *)
(* "owner/repo" of its map.  Keys share only hub.mu, which no code path    *)
(* holds across a wait, so the other keys add nothing to what happens here.*)
(*                                                                         *)
(* Every request that serves a page of the repository attaches to the      *)
(* repository's group under the commit it serves.  The group owns one      *)
(* subscription to "_update" and one goroutine (runGroup); an update for   *)
(* another commit takes the watchers of all other commits out of the group *)
(* and cancels each of them.  The last release closes the group.           *)
(*                                                                         *)
(* A critical section is one action: Attach and detach hold hub.mu and     *)
(* group.mu throughout, handleUpdate holds group.mu; the kills and         *)
(* group.close() run after the unlock and are actions of their own.        *)
(***************************************************************************)
EXTENDS Naturals, Sequences, FiniteSets

CONSTANTS Groups,      \* the repoUpdateGroup objects that may be allocated
          Requests,    \* one Attach each: the Session-ID of a request is fresh
          Commits,     \* commit ids
          NoGroup,     \* hub.repos holds no group for the key
          NoCommit,    \* the zero value of lastSeenCommit
          MaxPending   \* bound on the events waiting in a subscription

ASSUME HubAssumption ==
    /\ NoGroup \notin Groups
    /\ NoCommit \notin Commits
    /\ MaxPending \in Nat

VARIABLES
    current,     \* hub.repos[key], or NoGroup
    used,        \* the groups allocated so far
    closed,      \* group.closed
    done,        \* groups whose close() ran: done is closed, the subscription too
    watchers,    \* group.watchers, its buckets flattened (commit is a function of the request)
    lastSeen,    \* group.lastSeenCommit
    victims,     \* the slice handleUpdate is walking, after its unlock
    loop,        \* where the group's goroutine stands
    chans,       \* the channels the goroutine still selects on (not nil)
    ended,       \* groups whose subscription the broker has ended: both channels closed
    queue,       \* commits waiting in the subscription's event channel
    phase,       \* where a request stands
    home,        \* the group a request's release function closes over
    commit,      \* the commit a request attached under
    seenAtAttach,\* history: the group's lastSeenCommit when the request attached
    killed       \* requests whose kill function ran

groupVars == <<current, used, closed, done, watchers, lastSeen>>
loopVars  == <<victims, loop, chans, killed>>
brokerVars == <<ended, queue>>
reqVars   == <<phase, home, commit, seenAtAttach>>
vars == <<groupVars, loopVars, brokerVars, reqVars>>

Channels == {"events", "errors"}
Phases == {"new", "attached", "closing", "released"}
LoopStates == {"none", "select", "kill", "end", "stopped"}

TypeOK ==
    /\ current \in Groups \cup {NoGroup}
    /\ used \in SUBSET Groups
    /\ closed \in SUBSET Groups
    /\ done \in SUBSET Groups
    /\ watchers \in [Groups -> SUBSET Requests]
    /\ lastSeen \in [Groups -> Commits \cup {NoCommit}]
    /\ victims \in [Groups -> SUBSET Requests]
    /\ loop \in [Groups -> LoopStates]
    /\ chans \in [Groups -> SUBSET Channels]
    /\ ended \in SUBSET Groups
    /\ queue \in [Groups -> Seq(Commits)]
    /\ phase \in [Requests -> Phases]
    /\ home \in [Requests -> Groups \cup {NoGroup}]
    /\ commit \in [Requests -> Commits \cup {NoCommit}]
    /\ seenAtAttach \in [Requests -> Commits \cup {NoCommit}]
    /\ killed \in SUBSET Requests

Init ==
    /\ current = NoGroup
    /\ used = {}
    /\ closed = {}
    /\ done = {}
    /\ watchers = [g \in Groups |-> {}]
    /\ lastSeen = [g \in Groups |-> NoCommit]
    /\ victims = [g \in Groups |-> {}]
    /\ loop = [g \in Groups |-> "none"]
    /\ chans = [g \in Groups |-> Channels]
    /\ ended = {}
    /\ queue = [g \in Groups |-> <<>>]
    /\ phase = [r \in Requests |-> "new"]
    /\ home = [r \in Requests |-> NoGroup]
    /\ commit = [r \in Requests |-> NoCommit]
    /\ seenAtAttach = [r \in Requests |-> NoCommit]
    /\ killed = {}
-----------------------------------------------------------------------------
(* Attach *)

\* The watcher enters group g and the caller gets g's release function.
Watch(r, c, g) ==
    /\ watchers' = [watchers EXCEPT ![g] = @ \cup {r}]
    /\ phase' = [phase EXCEPT ![r] = "attached"]
    /\ home' = [home EXCEPT ![r] = g]
    /\ commit' = [commit EXCEPT ![r] = c]
    /\ seenAtAttach' = [seenAtAttach EXCEPT ![r] = lastSeen[g]]

\* No group is registered: subscribe, register a fresh one, start runGroup.
AttachNewGroup(r, c, g) ==
    /\ phase[r] = "new"
    /\ current = NoGroup
    /\ g \notin used
    /\ used' = used \cup {g}
    /\ current' = g
    /\ loop' = [loop EXCEPT ![g] = "select"]
    /\ Watch(r, c, g)
    /\ UNCHANGED <<closed, done, lastSeen, victims, chans, killed, brokerVars>>

\* A group is registered.  A closed one makes Attach drop both locks and start
\* over, which changes nothing: only an open one lets the request in.
AttachJoin(r, c) ==
    /\ phase[r] = "new"
    /\ current # NoGroup
    /\ current \notin closed
    /\ Watch(r, c, current)
    /\ UNCHANGED <<current, used, closed, done, lastSeen, loopVars, brokerVars>>

\* Subscribe fails: Attach returns the error and registers nothing.
AttachFails(r) ==
    /\ phase[r] = "new"
    /\ current = NoGroup
    /\ phase' = [phase EXCEPT ![r] = "released"]
    /\ UNCHANGED <<groupVars, loopVars, brokerVars, home, commit, seenAtAttach>>
-----------------------------------------------------------------------------
(* The release function: detach, once per request *)

\* Mutants: a closed group counts as one to close; the group is closed with the
\* bucket.
ShouldCloseAgain(r) == watchers[home[r]] \ {r} = {}
ShouldCloseWithBucket(r) ==
    {q \in watchers[home[r]] \ {r} : commit[q] = commit[r]} = {} /\ home[r] \notin closed

\* detach closes the group it leaves empty, unless the group is closed already.
ShouldClose(r) == watchers[home[r]] \ {r} = {} /\ home[r] \notin closed

\* The critical section of detach.  The bucket may be gone already, the group
\* may be closed already, and another group may be registered by now.
Detach(r) ==
    LET g == home[r] IN
    /\ phase[r] = "attached"
    /\ watchers' = [watchers EXCEPT ![g] = @ \ {r}]
    /\ closed' = IF ShouldClose(r) THEN closed \cup {g} ELSE closed
    /\ current' = IF ShouldClose(r) THEN NoGroup ELSE current
    /\ phase' = [phase EXCEPT ![r] = IF ShouldClose(r) THEN "closing" ELSE "released"]
    /\ seenAtAttach' = [seenAtAttach EXCEPT ![r] = NoCommit]
    /\ UNCHANGED <<used, done, lastSeen, loopVars, brokerVars, home, commit>>

\* Mutant: the detaching request leaves group.close() to the goroutine.
CloseLeftOut(g) == done

\* group.close(): closeOnce closes done and the subscription.
Close(g) == done \cup {g}

\* group.close() after the unlock of detach.
DetachClose(r) ==
    /\ phase[r] = "closing"
    /\ done' = Close(home[r])
    /\ phase' = [phase EXCEPT ![r] = "released"]
    /\ UNCHANGED <<current, used, closed, watchers, lastSeen, loopVars, brokerVars, home,
                   commit, seenAtAttach>>
-----------------------------------------------------------------------------
(* runGroup, one goroutine per group *)

\* select takes <-group.done; what still waits in the subscription is lost.
LoopDone(g) ==
    /\ loop[g] = "select"
    /\ chans[g] # {}
    /\ g \in done
    /\ loop' = [loop EXCEPT ![g] = "stopped"]
    /\ queue' = [queue EXCEPT ![g] = <<>>]
    /\ UNCHANGED <<groupVars, victims, chans, killed, ended, reqVars>>

\* event.Value of the next event.
EventValue(g) == Head(queue[g])

\* Mutant: the first event a group sees is only recorded.
OutdatedButFirst(g, c) ==
    IF lastSeen[g] \in {c, NoCommit} THEN {} ELSE {r \in watchers[g] : commit[r] # c}

\* The watchers an event for c takes: none if c was seen last, else those of
\* every bucket but c's.
Outdated(g, c) == IF c = lastSeen[g] THEN {} ELSE {r \in watchers[g] : commit[r] # c}

\* Mutant: the buckets of the victims stay.
NoBucketDeleted(g, c) == {}

\* The buckets handleUpdate deletes, flattened: those it took.
DeletedBuckets(g, c) == Outdated(g, c)

\* select takes an event: the critical section of handleUpdate.
LoopEvent(g) ==
    /\ loop[g] = "select"
    /\ "events" \in chans[g]
    /\ queue[g] # <<>>
    /\ queue' = [queue EXCEPT ![g] = Tail(@)]
    /\ LET c == EventValue(g)
           hit == Outdated(g, c)
       IN /\ lastSeen' = [lastSeen EXCEPT ![g] = c]
          /\ watchers' = [watchers EXCEPT ![g] = @ \ DeletedBuckets(g, c)]
          /\ victims' = [victims EXCEPT ![g] = hit]
          /\ loop' = [loop EXCEPT ![g] = IF hit = {} THEN "select" ELSE "kill"]
    /\ UNCHANGED <<current, used, closed, done, chans, killed, ended, reqVars>>

\* Mutant: the loop over the victims ends after one.
NoVictimsLeft(g, r) == {}

\* The victims still to kill after r.
VictimsAfter(g, r) == victims[g] \ {r}

\* The loop over the victims, in the map's order, that is in any order.
LoopKill(g, r) ==
    /\ loop[g] = "kill"
    /\ r \in victims[g]
    /\ killed' = killed \cup {r}
    /\ victims' = [victims EXCEPT ![g] = VictimsAfter(g, r)]
    /\ loop' = [loop EXCEPT ![g] = IF VictimsAfter(g, r) = {} THEN "select" ELSE "kill"]
    /\ UNCHANGED <<groupVars, chans, brokerVars, reqVars>>

\* A receive finds its channel closed: the local channel becomes nil, and with
\* both nil the loop ends.  (An error value is only logged: a stuttering step.)
LoopChannelClosed(g, ch) ==
    /\ loop[g] = "select"
    /\ ch \in chans[g]
    /\ g \in ended
    /\ ch = "events" => queue[g] = <<>>
    /\ chans' = [chans EXCEPT ![g] = @ \ {ch}]
    /\ loop' = [loop EXCEPT ![g] = IF chans[g] = {ch} THEN "end" ELSE "select"]
    /\ UNCHANGED <<groupVars, victims, killed, brokerVars, reqVars>>

\* Mutant: the group that ended stays in hub.repos.
EntryStays(g) == current

\* hub.repos[key] after the loop of g: another group's entry is left alone.
EntryAfterLoop(g) == IF g \notin closed /\ current = g THEN NoGroup ELSE current

\* After the loop: unregister the group unless a detach has closed it, and
\* close it.  The watchers stay where they are.
LoopEnd(g) ==
    /\ loop[g] = "end"
    /\ closed' = closed \cup {g}
    /\ current' = EntryAfterLoop(g)
    /\ done' = Close(g)
    /\ loop' = [loop EXCEPT ![g] = "stopped"]
    /\ UNCHANGED <<used, watchers, lastSeen, victims, chans, killed, brokerVars, reqVars>>
-----------------------------------------------------------------------------
(* The broker behind event.Child("system", owner, repo): external *)

Subscribed == used \ done

\* PublishUpdate of this or another server.  The broker hands the event to any
\* of the subscriptions: a delivery may be lost, and two published commits
\* arrive in the order of the Publish calls, which need not be commit order.
\* (What the broker does to a subscription nobody reads any more is left out.)
Publish(c) ==
    \E S \in SUBSET {g \in Subscribed : g \notin ended /\ loop[g] # "stopped"} :
        /\ S # {}
        /\ \A g \in S : Len(queue[g]) < MaxPending
        /\ queue' = [g \in Groups |-> IF g \in S THEN Append(queue[g], c) ELSE queue[g]]
        /\ UNCHANGED <<groupVars, loopVars, ended, reqVars>>

\* The broker closes the channels of a subscription, on its own or after Close;
\* the goroutine notices them one at a time.
BrokerEnds(g) ==
    /\ g \in used \ ended
    /\ loop[g] # "stopped"
    /\ ended' = ended \cup {g}
    /\ UNCHANGED <<groupVars, loopVars, queue, reqVars>>
-----------------------------------------------------------------------------
Attach(r) == \/ \E c \in Commits : AttachJoin(r, c)
             \/ \E c \in Commits, g \in Groups : AttachNewGroup(r, c, g)
             \/ AttachFails(r)

runGroup(g) == \/ LoopDone(g)
               \/ LoopEvent(g)
               \/ \E r \in Requests : LoopKill(g, r)
               \/ \E ch \in Channels : LoopChannelClosed(g, ch)
               \/ LoopEnd(g)

Broker == \/ \E c \in Commits : Publish(c)
          \/ \E g \in Groups : BrokerEnds(g)

Next == \/ \E r \in Requests : Attach(r) \/ Detach(r) \/ DetachClose(r)
        \/ \E g \in Groups : runGroup(g)
        \/ Broker

Spec == Init /\ [][Next]_vars
-----------------------------------------------------------------------------
(* Safety *)

\* A registered group can take a watcher and can see an update: it is not
\* closed, its subscription is open and its goroutine has not left the loop for
\* good.  (So the retry in Attach, which would recurse for as long as a closed
\* group stayed registered, finds another group or none: update_hub.go:78-82.)
RegisteredGroupIsLive ==
    current # NoGroup =>
        /\ current \in used \ (closed \cup done)
        /\ loop[current] \in {"select", "kill", "end"}

\* The hub keeps one open group, the registered one: every other group ever
\* made is closed, so a repository never has two subscriptions that both feed
\* watchers, and no detach of an old group's watcher unregisters a newer group
\* (update_hub.go:109-112, :146).
OneOpenGroup == used \ closed = {current} \ {NoGroup}

\* A subscription is held only for somebody: the registered group belongs to a
\* request that has not been released, also when all its watchers were killed.
NoIdleGroup ==
    current # NoGroup => \E r \in Requests : phase[r] = "attached" /\ home[r] = current

\* The watcher of a request that is not released is in one place: in the
\* registry of the group it attached to, in the victims of that group's
\* goroutine, or killed.  So no kill function runs twice, none is lost between
\* the unlock and the loop over the victims, and an update handled after the
\* release reaches nobody (update_hub.go:162-176).
WatcherInOnePlace ==
    /\ \A r \in Requests : phase[r] = "attached" =>
           r \in watchers[home[r]] \cup victims[home[r]] \cup killed
    /\ \A g \in Groups :
           /\ watchers[g] \subseteq {r \in Requests : phase[r] = "attached" /\ home[r] = g}
           /\ victims[g] \subseteq {r \in Requests : home[r] = g}
           /\ watchers[g] \cap victims[g] = {}
           /\ (watchers[g] \cup victims[g]) \cap killed = {}

\* What an update leaves behind and whom it takes.  A watcher of a commit other
\* than the group's last seen one attached after that commit was handled as a
\* change (the late attach, which a repetition of the update does not reach);
\* and nobody is killed for the commit that the update announced.
UpdateSplitsWatchers ==
    \A g \in Groups :
        /\ \A r \in watchers[g] : lastSeen[g] \in {commit[r], seenAtAttach[r]}
        /\ \A r \in victims[g] : commit[r] # lastSeen[g]

\* A watcher sits in a group nobody listens for only if the broker ended the
\* group's subscription: closing an idle group never strands a watcher that
\* attached meanwhile (update_hub.go:108-112).
StrandedOnlyByBroker ==
    \A g \in closed : watchers[g] # {} => g \in ended
-----------------------------------------------------------------------------
(* Liveness *)

\* runGroup is a goroutine: scheduled, it keeps running.  A detach that has
\* closed its group goes on to group.close().  Nothing is assumed of the
\* broker, of requests, or of which ready case a select takes.
Fairness ==
    /\ \A g \in Groups : WF_vars(runGroup(g))
    /\ \A r \in Requests : WF_vars(DetachClose(r))

FairSpec == Spec /\ Fairness

Upcoming(g) == IF queue[g] = <<>> THEN NoCommit ELSE Head(queue[g])

\* An update waiting in a group's subscription that differs from the commit
\* before it kills every watcher of another commit that is there when it comes
\* up, or the watcher is released or the group closed first.
UpdateReachesWatchers ==
    \A r \in Requests, g \in Groups :
        r \in watchers[g] /\ Upcoming(g) \notin {NoCommit, lastSeen[g], commit[r]}
            ~> r \in killed \/ phase[r] # "attached" \/ g \in closed

\* A closed group gives its goroutine and its subscription back.
ClosedGroupStops ==
    \A g \in Groups : g \in closed ~> g \in done /\ loop[g] = "stopped"
=============================================================================
