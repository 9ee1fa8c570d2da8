---------------------------- MODULE ProcessQueue ----------------------------
(***************************************************************************)
(* hooks/useProcessQueue.ts in one tab: the list of background tasks of    *)
(* its user.  A tab polls while it shows unfinished tasks; the leader      *)
(* relays what it fetched, and other tabs apply that instead of polling.   *)
(* Relays and answers are ordered by when their request began, on          *)
(* Date.now(), one clock for all tabs of a browser.                        *)
(*                                                                         *)
(* Tabs meet only in relays, so the other tabs are whatever they may post: *)
(* late, out of order, more than once.  RelaysAreHonest is what this tab   *)
(* assumes of their relays and keeps for its own.                          *)
(*                                                                         *)
(* The server's queue is known by its version: the index of its state in   *)
(* the history of unfinished tasks.  Two events may share a millisecond.   *)
(***************************************************************************)
EXTENDS Naturals, Sequences

CONSTANTS
    Tasks,        \* ids of background tasks
    None,         \* "no such moment", "no relay"
    RelayFresh,   \* RELAY_FRESH_MS
    MaxTime,      \* bound on the clock
    MaxVersion,   \* bound on changes of the server's queue
    MaxSubs       \* bound on subscribers in the tab

ASSUME ProcessQueueAssumption ==
    /\ RelayFresh \in Nat /\ MaxTime \in Nat /\ MaxVersion \in Nat
    /\ MaxSubs \in Nat \ {0}
    /\ None \notin Nat

VARIABLES
    page,       \* closed, hidden or visible
    leader,     \* isTabLeader
    subs,       \* size of listeners
    bound,      \* visibilityBound: it listens to the channel and to the page
    interval,   \* intervalId is set
    request,    \* requestedAt of the poll that is out (inFlight)
    got,        \* the version the server answered that poll with
    shown,      \* the version state.tasks was read at; 0, the empty list
    applied,    \* appliedRequestedAt
    ignore,     \* ignoreRelaysBefore
    relayAt,    \* lastRelayAt
    relayed,    \* the version of the last relay (relayActiveIds)
    kept,       \* lastLeaderRelay
    \* the world
    now,        \* Date.now()
    log,        \* the server's queue: the unfinished tasks, version by version
    \* history
    began,      \* the server's version as each millisecond began
    best,       \* when the newest request began that the tab has news from
    clicked,    \* when the user last cancelled a task
    owed        \* the user refreshed in view, and no request has left since

users == <<subs, bound>>
store == <<shown, applied, best>>
heard == <<relayAt, relayed>>
poll == <<request, got>>
fence == <<ignore, clicked, owed>>
world == <<now, log, began>>
vars == <<page, leader, users, interval, poll, store, heard, fence, kept, world>>

Times == 0 .. MaxTime
Versions == 0 .. MaxVersion
Relays == [at : Times, version : Versions]
Active(v) == IF v = 0 THEN {} ELSE log[v]
Latest(x, y) == IF x >= y THEN x ELSE y

TypeOK ==
    /\ page \in {"closed", "hidden", "visible"} /\ leader \in BOOLEAN
    /\ subs \in 0 .. MaxSubs /\ bound \in BOOLEAN
    /\ interval \in BOOLEAN /\ owed \in BOOLEAN
    /\ request \in Times \cup {None} /\ got \in Versions \cup {None}
    /\ relayAt \in Times \cup {None} /\ relayed \in Versions
    /\ shown \in Versions /\ applied \in Times /\ best \in Times
    /\ ignore \in Times /\ clicked \in Times
    /\ kept \in Relays \cup {None}
    /\ now \in Times /\ began \in [Times -> Versions]
    /\ log \in Seq(SUBSET Tasks) /\ Len(log) <= MaxVersion

Init ==
    /\ page = "closed" /\ leader = FALSE
    /\ subs = 0 /\ bound = FALSE /\ interval = FALSE
    /\ request = None /\ got = None
    /\ shown = 0 /\ applied = 0 /\ best = 0
    /\ relayAt = None /\ relayed = 0 /\ kept = None
    /\ ignore = 0 /\ clicked = 0 /\ owed = FALSE
    /\ now = 0
    /\ log = <<>>
    /\ began = [x \in Times |-> 0]

-----------------------------------------------------------------------------
(* The pieces handlers are made of *)

\* coveredByLeader, in a tab that believes in a leader: a recent relay had
\* every unfinished task that the tab shows.
Covered ==
    /\ ~leader
    /\ relayAt # None /\ now - relayAt < RelayFresh
    /\ Active(relayed) # {}
    /\ Active(shown) \subseteq Active(relayed)

\* reschedule(): the interval after it, for the list at version v in a page
\* that is hidden or visible.
Rescheduled(v, how) == Active(v) # {} /\ (interval \/ how = "visible")

\* A request leaves; a user's refresh makes relays of older requests stale.
StartPoll(automatic, how) ==
    /\ request = None /\ how = "visible"
    /\ request' = now
    /\ ignore' = IF automatic THEN ignore ELSE Latest(ignore, now)
    /\ owed' = FALSE
    /\ UNCHANGED <<got, clicked>>

\* No request leaves: one is out, nobody looks, or the leader's relays do.
\* Whether the tab believes in a leader (isFollowingLeader) is a choice.
StandDown(automatic, how) ==
    /\ request # None \/ how # "visible" \/ (automatic /\ Covered)
    /\ owed' = (owed \/ (~automatic /\ how = "visible"))
    /\ UNCHANGED <<poll, ignore, clicked>>

\* poll(automatic).then(reschedule); once a request has left, its end does that.
Poll(automatic, how) ==
    \/ StartPoll(automatic, how) /\ UNCHANGED interval
    \/ StandDown(automatic, how) /\ interval' = Rescheduled(shown, how)

-----------------------------------------------------------------------------
(* Subscribers and the user *)

\* useProcessQueue's effect.
Subscribe ==
    /\ page # "closed" /\ subs < MaxSubs
    /\ subs' = subs + 1
    /\ bound' = TRUE
    /\ Poll(TRUE, page)
    /\ UNCHANGED <<page, leader, store, heard, kept, world>>

\* Its cleanup: the last one out stops the interval.
Unsubscribe ==
    /\ subs > 0
    /\ subs' = subs - 1
    /\ bound' = (bound /\ subs > 1)
    /\ interval' = (interval /\ subs > 1)
    /\ UNCHANGED <<page, leader, poll, store, heard, fence, kept, world>>

\* refreshProcessQueue: by the user (the Activity sheet is opened, work was
\* started or cancelled) or by a timer of the sheet.
Refresh(automatic) ==
    /\ page # "closed"
    /\ bound' = TRUE
    /\ Poll(automatic, page)
    /\ UNCHANGED <<page, leader, subs, store, heard, kept, world>>

\* Seeded fault: the click fences off nothing.
CancelUnfenced ==
    /\ page = "visible" /\ subs > 0 /\ Active(shown) # {}
    /\ clicked' = now
    /\ UNCHANGED <<page, leader, users, interval, poll, store, heard, ignore, owed, kept, world>>

\* cancel(): older relays are fenced off before the request leaves; whatever
\* comes of it, a Refresh follows.
Cancel ==
    /\ page = "visible" /\ subs > 0 /\ Active(shown) # {}
    /\ ignore' = now
    /\ clicked' = now
    /\ UNCHANGED <<page, leader, users, interval, poll, store, heard, owed, kept, world>>

-----------------------------------------------------------------------------
(* Polls *)

IntervalFires ==
    /\ interval
    /\ StartPoll(TRUE, page) \/ StandDown(TRUE, page)
    /\ UNCHANGED <<page, leader, users, interval, store, heard, kept, world>>

\* The server reads its queue for the answer.
Serve ==
    /\ request # None /\ got = None
    /\ got' = Len(log)
    /\ UNCHANGED <<page, leader, users, interval, request, store, heard, fence, kept, world>>

\* The poll is over: another one may leave, and the interval follows the list.
PollEnds(v) ==
    /\ request' = None
    /\ got' = None
    /\ interval' = Rescheduled(v, page)

\* The list at version v goes up, read for a request that began at "at".
PutUp(at, v) ==
    /\ shown' = v
    /\ applied' = at
    /\ best' = Latest(best, at)

\* Seeded fault: an answer goes up whatever has landed in the meantime.
AnswerShowsAnyway ==
    /\ got # None
    /\ PutUp(request, got)
    /\ kept' = IF leader THEN [at |-> request, version |-> got] ELSE kept
    /\ PollEnds(got)
    /\ UNCHANGED <<page, leader, users, heard, fence, world>>

\* Seeded fault: a relay is dated when it is posted.
AnswerShowsDatedLate ==
    /\ got # None /\ request >= applied
    /\ PutUp(request, got)
    /\ kept' = IF leader THEN [at |-> now, version |-> got] ELSE kept
    /\ PollEnds(got)
    /\ UNCHANGED <<page, leader, users, heard, fence, world>>

\* The answer goes up; a leader posts it as a relay and keeps that.
AnswerShows ==
    /\ got # None /\ request >= applied
    /\ PutUp(request, got)
    /\ kept' = IF leader THEN [at |-> request, version |-> got] ELSE kept
    /\ PollEnds(got)
    /\ UNCHANGED <<page, leader, users, heard, fence, world>>

\* A relay of a later request has landed first, or the poll failed.
AnswerDropped ==
    /\ request # None
    /\ PollEnds(shown)
    /\ UNCHANGED <<page, leader, users, store, heard, fence, kept, world>>

-----------------------------------------------------------------------------
(* Relays *)

\* What a tab may post: the queue as the server had it after the request began.
Honest(m) == m.at <= now /\ began[m.at] <= m.version /\ m.version <= Len(log)

\* Seeded fault: a relay goes up unless it is fenced off, older or not.
HearRelayOlder ==
    /\ bound /\ ~leader
    /\ \E m \in Relays :
        /\ Honest(m) /\ m.at >= ignore
        /\ PutUp(m.at, m.version)
        /\ relayed' = m.version
        /\ interval' = Rescheduled(m.version, page)
    /\ relayAt' = now
    /\ UNCHANGED <<page, leader, users, poll, fence, kept, world>>

\* onTabMessage: a relay that is neither older than the list nor fenced off.
HearRelay ==
    /\ bound /\ ~leader
    /\ \E m \in Relays :
        /\ Honest(m) /\ m.at >= Latest(ignore, applied)
        /\ PutUp(m.at, m.version)
        /\ relayed' = m.version
        /\ interval' = Rescheduled(m.version, page)
    /\ relayAt' = now
    /\ UNCHANGED <<page, leader, users, poll, fence, kept, world>>

-----------------------------------------------------------------------------
(* The page and leadership *)

\* A page loads in the background; loading in view is that and Show.
Load ==
    /\ page = "closed"
    /\ page' = "hidden"
    /\ UNCHANGED <<leader, users, interval, poll, store, heard, fence, kept, world>>

\* The leadership listener, while bound: the relay of this term is dropped.
LoseLead ==
    /\ leader' = FALSE
    /\ kept' = IF leader /\ bound THEN None ELSE kept

\* handleVisibilityChange: a hidden tab stops its interval (and the driver
\* gives up the lead).
Hide ==
    /\ page = "visible"
    /\ page' = "hidden"
    /\ LoseLead
    /\ interval' = (interval /\ ~bound)
    /\ UNCHANGED <<users, poll, store, heard, fence, world>>

\* Seeded fault: back in view, one poll leaves and the interval stays stopped.
ShowPollsOnly ==
    /\ page = "hidden"
    /\ page' = "visible"
    /\ IF bound /\ ~Covered /\ request = None
       THEN StartPoll(TRUE, "visible")
       ELSE UNCHANGED <<poll, fence>>
    /\ UNCHANGED <<leader, users, interval, store, heard, kept, world>>

\* Back in view: one poll at once, then the interval.
Show ==
    /\ page = "hidden"
    /\ page' = "visible"
    /\ IF bound THEN Poll(TRUE, "visible") ELSE UNCHANGED <<poll, fence, interval>>
    /\ UNCHANGED <<leader, users, store, heard, kept, world>>

\* The driver is granted the lock, or gives it up in view.
Lead ==
    /\ page = "visible" /\ ~leader
    /\ leader' = TRUE
    /\ UNCHANGED <<page, users, interval, poll, store, heard, fence, kept, world>>

StepDown ==
    /\ leader
    /\ LoseLead
    /\ UNCHANGED <<page, users, interval, poll, store, heard, fence, world>>

\* The memory of a page goes with it; an answer on its way reaches nobody.
Close ==
    /\ page # "closed"
    /\ page' = "closed" /\ leader' = FALSE
    /\ subs' = 0 /\ bound' = FALSE /\ interval' = FALSE
    /\ request' = None /\ got' = None
    /\ shown' = 0 /\ applied' = 0 /\ best' = 0
    /\ relayAt' = None /\ relayed' = 0 /\ kept' = None
    /\ ignore' = 0 /\ clicked' = 0 /\ owed' = FALSE
    /\ UNCHANGED world

-----------------------------------------------------------------------------
(* The server and the clock *)

\* A task is started, from any tab or by the server, or one is over.
QueueChanges ==
    /\ Len(log) < MaxVersion
    /\ LET tasks == Active(Len(log)) IN
        \E k \in Tasks : log' = Append(log, IF k \in tasks THEN tasks \ {k} ELSE tasks \cup {k})
    /\ UNCHANGED <<page, leader, users, interval, poll, store, heard, fence, kept, now, began>>

Tick ==
    /\ now < MaxTime
    /\ now' = now + 1
    /\ began' = [began EXCEPT ![now + 1] = Len(log)]
    /\ UNCHANGED <<page, leader, users, interval, poll, store, heard, fence, kept, log>>

Next ==
    \/ Subscribe \/ Unsubscribe \/ Cancel \/ Refresh(TRUE) \/ Refresh(FALSE)
    \/ IntervalFires \/ Serve \/ AnswerShows \/ AnswerDropped \/ HearRelay
    \/ Load \/ Hide \/ Show \/ Lead \/ StepDown \/ Close
    \/ QueueChanges \/ Tick

Spec == Init /\ [][Next]_vars

-----------------------------------------------------------------------------
(* Properties *)

\* Whatever overtakes what, a tab never shows a list older than the server's
\* was when the newest request began that the tab has news from.
ShownIsFresh == shown >= began[best]

\* What a leader posts, and repeats to a tab that says hello, is dated no later
\* than the server's queue it carries.  Other tabs order their news by that.
RelaysAreHonest == kept # None => Honest(kept)

\* A relay that lands is never older than the user's last cancel in the tab: it
\* cannot undo what the user saw happen.
RelayKeepsCancel == [][HearRelay => relayed' >= began[clicked]]_vars

\* A tab in view that shows unfinished tasks never stops looking, whoever
\* relayed them, stepped down or failed to answer.
PollerAlive ==
    bound /\ page = "visible" /\ Active(shown) # {} => interval \/ request # None

\* "user-driven refreshes always fetch": after one in a tab in view a request
\* has left, one is still out, or the interval will send one.
UserRefreshFetches == owed /\ bound /\ page = "visible" => interval \/ request # None

-----------------------------------------------------------------------------
(* The inductive invariant *)

\* Every moment remembered has come, and the server's queue only moved on.
ClockInv ==
    /\ \A x \in 0 .. now : began[x] <= Len(log)
    /\ \A x, y \in 0 .. now : x <= y => began[x] <= began[y]
    /\ best <= now /\ (request # None => request <= now)
    /\ ignore <= now /\ clicked <= ignore

\* Every version held is one the server had, after the request behind it began.
NewsInv ==
    /\ best = applied
    /\ got # None => request # None /\ Honest([at |-> request, version |-> got])
    /\ shown <= Len(log) /\ relayed <= Len(log)

\* What keeps ShownIsFresh, RelaysAreHonest and PollerAlive from one step to
\* the next.
Inv ==
    /\ TypeOK
    /\ ClockInv
    /\ NewsInv
    /\ ShownIsFresh
    /\ RelaysAreHonest
    /\ PollerAlive
=============================================================================
