---------------------------- MODULE TabElection ----------------------------
(***************************************************************************)
(* hooks/useSyncDriver.ts, without its clock: which of the open tabs leads *)
(* (one Web Lock shared by all of them) and drives the mailbox sync loop,  *)
(* while tabs are opened, hidden, shown, cached by the browser, crash, and *)
(* mount or unmount the driver.                                            *)
(*                                                                         *)
(* What depends on wall-clock time (throttles, waits the server asked for) *)
(* is a choice here: a step the clock may allow or forbid is allowed.      *)
(***************************************************************************)
EXTENDS Naturals

CONSTANTS
    Tabs,         \* the tabs of one browser
    Sandboxed,    \* tabs in a frame where lock requests are refused
    NoTab,        \* "nobody", for the lock
    MaxMounts,    \* bound on useSyncDriver mounts in one tab
    ParallelSync  \* pressedmailPlugin.parallelSync: the host takes two requests

ASSUME TabElectionAssumption ==
    /\ Sandboxed \subseteq Tabs
    /\ NoTab \notin Tabs
    /\ MaxMounts \in Nat \ {0}
    /\ ParallelSync \in BOOLEAN

VARIABLES
    page,     \* what the browser does with the tab
    mounts,   \* mountCount
    claim,    \* pendingClaim: a lock request is queued
    holder,   \* the tab the browser has granted the lock to
    held,     \* releaseLeadership is set: this tab may release the lock
    leader,   \* tab-channel's leader flag
    wake,     \* wakePending
    timer,    \* the tick timer is armed
    phase,    \* where the running tick is, "none" when none runs (inFlight)
    beside    \* the content turn beside the advance (parallelBodyTurn)

vars == <<page, mounts, claim, holder, held, leader, wake, timer, phase, beside>>
driver == <<timer, phase, beside>>

Running == {"visible", "hidden"}    \* a page whose scripts run
AwaitingServer == {"advance", "drain", "body"}

TypeOK ==
    /\ page \in [Tabs -> {"closed", "hidden", "visible", "cached"}]
    /\ mounts \in [Tabs -> 0 .. MaxMounts]
    /\ claim \in [Tabs -> BOOLEAN]
    /\ holder \in Tabs \cup {NoTab}
    /\ held \in [Tabs -> BOOLEAN]
    /\ leader \in [Tabs -> BOOLEAN]
    /\ wake \in [Tabs -> BOOLEAN]
    /\ timer \in [Tabs -> BOOLEAN]
    /\ phase \in [Tabs -> {"none", "settle", "ending"} \cup AwaitingServer]
    /\ beside \in [Tabs -> {"none", "out", "over"}]

Init ==
    /\ page = [t \in Tabs |-> "closed"]
    /\ mounts = [t \in Tabs |-> 0]
    /\ claim = [t \in Tabs |-> FALSE]
    /\ holder = NoTab
    /\ held = [t \in Tabs |-> FALSE]
    /\ leader = [t \in Tabs |-> FALSE]
    /\ wake = [t \in Tabs |-> FALSE]
    /\ timer = [t \in Tabs |-> FALSE]
    /\ phase = [t \in Tabs |-> "none"]
    /\ beside = [t \in Tabs |-> "none"]

-----------------------------------------------------------------------------
(* The pieces handlers are made of *)

Set(f, t, v) == f' = [f EXCEPT ![t] = v]

\* claimLeadership: a lock request is queued unless the tab holds the lock or
\* has one queued.
ClaimLeadership(t) == Set(claim, t, claim[t] \/ ~held[t])

\* yieldLeadership: a queued request is aborted, and a lock held is given back
\* (the browser takes it back a moment later, see Release).
YieldLeadership(t) ==
    /\ Set(claim, t, FALSE)
    /\ Set(held, t, FALSE)
    /\ Set(leader, t, leader[t] /\ ~held[t])

\* tick() past its guard: the advance leaves; with parallelSync a content turn
\* may leave beside it.
StartTick(t) ==
    /\ Set(timer, t, FALSE)
    /\ Set(phase, t, "advance")
    /\ \E b \in {"none", "out"} : Set(beside, t, b) /\ (b = "out" => ParallelSync)

\* Seeded fault: a tab that may not tick does not look again.
TickOnce(t) ==
    IF phase[t] = "none" /\ page[t] = "visible" /\ leader[t]
    THEN StartTick(t)
    ELSE Set(timer, t, FALSE) /\ UNCHANGED <<phase, beside>>

\* tick(): a tab that may not tick looks again later.
Tick(t) ==
    IF phase[t] = "none" /\ page[t] = "visible" /\ leader[t]
    THEN StartTick(t)
    ELSE Set(timer, t, TRUE) /\ UNCHANGED <<phase, beside>>

\* runWake in a visible tab that leads: nothing while a tick runs or just
\* ended, a timer while the server asked for a wait, else a tick now.
RunWake(t) ==
    \/ UNCHANGED driver
    \/ phase[t] = "none" /\ Set(timer, t, TRUE) /\ UNCHANGED <<phase, beside>>
    \/ phase[t] = "none" /\ StartTick(t)

\* wake(): ask for the lock; a tab that leads ticks now, another one remembers
\* to do so when it is made the leader.
Wake(t) ==
    /\ ClaimLeadership(t)
    /\ Set(wake, t, ~leader[t])
    /\ IF leader[t] THEN RunWake(t) ELSE UNCHANGED driver

\* Becoming leader, by a grant or by a refusal.
Lead(t, afterMount) ==
    /\ Set(leader, t, TRUE)
    /\ Set(wake, t, FALSE)
    /\ IF wake[t] THEN RunWake(t)
       ELSE Set(timer, t, timer[t] \/ afterMount) /\ UNCHANGED <<phase, beside>>

-----------------------------------------------------------------------------
(* Mounting *)

\* The hook mounts; the first mount asks for the lock and arms the timer.
Mount(t) ==
    /\ page[t] \in Running
    /\ mounts[t] < MaxMounts
    /\ Set(mounts, t, mounts[t] + 1)
    /\ IF mounts[t] = 0
       THEN ClaimLeadership(t) /\ Set(timer, t, TRUE)
       ELSE UNCHANGED <<claim, timer>>
    /\ UNCHANGED <<page, holder, held, leader, wake, phase, beside>>

\* Seeded fault: the last unmount leaves the wake pending.
UnmountKeepsWake(t) ==
    /\ page[t] \in Running
    /\ mounts[t] > 0
    /\ Set(mounts, t, mounts[t] - 1)
    /\ IF mounts[t] = 1
       THEN Set(timer, t, FALSE) /\ YieldLeadership(t)
       ELSE UNCHANGED <<timer, claim, held, leader>>
    /\ UNCHANGED <<page, holder, wake, phase, beside>>

\* The hook unmounts; the last unmount stops the timer and gives the lock up.
Unmount(t) ==
    /\ page[t] \in Running
    /\ mounts[t] > 0
    /\ Set(mounts, t, mounts[t] - 1)
    /\ IF mounts[t] = 1
       THEN /\ Set(timer, t, FALSE)
            /\ Set(wake, t, FALSE)
            /\ YieldLeadership(t)
       ELSE UNCHANGED <<timer, wake, claim, held, leader>>
    /\ UNCHANGED <<page, holder, phase, beside>>

-----------------------------------------------------------------------------
(* Visibility, the back-forward cache, focus and user actions *)

\* Seeded fault: a tab that hides keeps the lock.
HideKeepsLock(t) ==
    /\ page[t] = "visible"
    /\ Set(page, t, "hidden")
    /\ wake' = [wake EXCEPT ![t] = @ /\ mounts[t] = 0]
    /\ UNCHANGED <<mounts, claim, holder, held, leader, driver>>

\* The tab is hidden: it leaves the election and gives the lock up.
Hide(t) ==
    /\ page[t] = "visible"
    /\ Set(page, t, "hidden")
    /\ IF mounts[t] > 0
       THEN Set(wake, t, FALSE) /\ YieldLeadership(t)
       ELSE UNCHANGED <<wake, claim, held, leader>>
    /\ UNCHANGED <<mounts, holder, driver>>

Show(t) ==
    /\ page[t] = "hidden"
    /\ Set(page, t, "visible")
    /\ IF mounts[t] > 0 THEN Wake(t) ELSE UNCHANGED <<claim, wake, driver>>
    /\ UNCHANGED <<mounts, holder, held, leader>>

\* pagehide with persisted: no visibility event need come first.
PageHide(t) ==
    /\ page[t] \in Running
    /\ Set(page, t, "cached")
    /\ IF mounts[t] > 0 THEN YieldLeadership(t)
                        ELSE UNCHANGED <<claim, held, leader>>
    /\ UNCHANGED <<mounts, holder, wake, driver>>

\* Seeded fault: a restored page waits for a visibility event.
PageShowSilent(t) ==
    /\ page[t] = "cached"
    /\ \E p \in Running : Set(page, t, p)
    /\ UNCHANGED <<mounts, claim, holder, held, leader, wake, driver>>

\* pageshow with persisted: a page restored in the background stays asleep
\* until it is shown.
PageShow(t) ==
    /\ page[t] = "cached"
    /\ \E p \in Running :
        /\ Set(page, t, p)
        /\ IF p = "visible" /\ mounts[t] > 0
           THEN Wake(t)
           ELSE UNCHANGED <<claim, wake, driver>>
    /\ UNCHANGED <<mounts, holder, held, leader>>

\* Focus after a long blur, or pageshow beside the visibility event.
Refocus(t) ==
    /\ page[t] = "visible"
    /\ mounts[t] > 0
    /\ Wake(t)
    /\ UNCHANGED <<page, mounts, holder, held, leader>>

\* kickSync and the deferred action kick: a leader whose sync is late ticks
\* now, another tab makes sure it is in the election.
Kick(t) ==
    /\ page[t] = "visible"
    /\ mounts[t] > 0
    /\ IF leader[t]
       THEN phase[t] = "none" /\ StartTick(t) /\ UNCHANGED claim
       ELSE ClaimLeadership(t) /\ UNCHANGED driver
    /\ UNCHANGED <<page, mounts, holder, held, leader, wake>>

-----------------------------------------------------------------------------
(* The browser and its lock manager *)

\* Seeded fault: the lock is kept whatever happened since it was asked for.
GrantAnyway(t) ==
    /\ claim[t]
    /\ t \notin Sandboxed
    /\ page[t] \in Running
    /\ holder = NoTab
    /\ Set(claim, t, FALSE)
    /\ holder' = t
    /\ Set(held, t, TRUE)
    /\ Lead(t, TRUE)
    /\ UNCHANGED <<page, mounts>>

\* The lock is granted.  A tab that hid or unmounted since it asked hands it
\* straight back; any other tab leads.
Grant(t) ==
    /\ claim[t]
    /\ t \notin Sandboxed
    /\ page[t] \in Running
    /\ holder = NoTab
    /\ Set(claim, t, FALSE)
    /\ IF mounts[t] = 0 \/ page[t] = "hidden"
       THEN UNCHANGED <<holder, held, leader, wake, driver>>
       ELSE holder' = t /\ Set(held, t, TRUE) /\ Lead(t, TRUE)
    /\ UNCHANGED <<page, mounts>>

\* Seeded fault: the refusal makes the tab lead and forgets the wake.
RefuseForgetsWake(t) ==
    /\ claim[t]
    /\ t \in Sandboxed
    /\ page[t] \in Running
    /\ Set(claim, t, FALSE)
    /\ Set(leader, t, TRUE)
    /\ UNCHANGED <<page, mounts, holder, held, wake, driver>>

\* The request is refused: the tab leads without a lock.
Refuse(t) ==
    /\ claim[t]
    /\ t \in Sandboxed
    /\ page[t] \in Running
    /\ Set(claim, t, FALSE)
    /\ Lead(t, FALSE)
    /\ UNCHANGED <<page, mounts, holder, held>>

\* The promise of releaseLeadership resolved: the lock is free again.
Release(t) ==
    /\ holder = t
    /\ ~held[t]
    /\ holder' = NoTab
    /\ UNCHANGED <<page, mounts, claim, held, leader, wake, driver>>

\* A tab is opened.
Open(t) ==
    /\ page[t] = "closed"
    /\ \E p \in Running : Set(page, t, p)
    /\ UNCHANGED <<mounts, claim, holder, held, leader, wake, driver>>

\* A tab is closed, discarded or crashes: nothing of it is left, and the
\* browser frees its lock.
Close(t) ==
    /\ page[t] # "closed"
    /\ Set(page, t, "closed")
    /\ Set(mounts, t, 0)
    /\ Set(claim, t, FALSE)
    /\ holder' = IF holder = t THEN NoTab ELSE holder
    /\ Set(held, t, FALSE)
    /\ Set(leader, t, FALSE)
    /\ Set(wake, t, FALSE)
    /\ Set(timer, t, FALSE)
    /\ Set(phase, t, "none")
    /\ Set(beside, t, "none")

-----------------------------------------------------------------------------
(* The loop *)

\* schedule() arms the timer of a mounted driver.
Schedule(t) == Set(timer, t, timer[t] \/ mounts[t] > 0)

TimerFires(t) ==
    /\ timer[t]
    /\ page[t] \in Running
    /\ Tick(t)
    /\ UNCHANGED <<page, mounts, claim, holder, held, leader, wake>>

\* The advance timed out, was refused, failed, or found the mailbox locked: a
\* later tick is armed and this one ends.
AdvanceEndsTick(t) ==
    /\ phase[t] = "advance"
    /\ page[t] \in Running
    /\ Set(phase, t, "ending")
    /\ Schedule(t)
    /\ UNCHANGED <<page, mounts, claim, holder, held, leader, wake, beside>>

\* The advance succeeded: a full drain follows, or a content turn, or nothing.
AdvanceSucceeds(t) ==
    /\ phase[t] = "advance"
    /\ page[t] \in Running
    /\ \E p \in {"drain", "body", "settle"} :
        /\ p = "body" => beside[t] = "none"
        /\ Set(phase, t, p)
    /\ UNCHANGED <<page, mounts, claim, holder, held, leader, wake, timer, beside>>

DrainEnds(t) ==
    /\ phase[t] = "drain"
    /\ page[t] \in Running
    /\ \E p \in {"body", "settle"} :
        /\ p = "body" => beside[t] = "none"
        /\ Set(phase, t, p)
    /\ UNCHANGED <<page, mounts, claim, holder, held, leader, wake, timer, beside>>

BodyEnds(t) ==
    /\ phase[t] = "body"
    /\ page[t] \in Running
    /\ Set(phase, t, "settle")
    /\ UNCHANGED <<page, mounts, claim, holder, held, leader, wake, timer, beside>>

BesideEnds(t) ==
    /\ beside[t] = "out"
    /\ page[t] \in Running
    /\ Set(beside, t, "over")
    /\ UNCHANGED <<page, mounts, claim, holder, held, leader, wake, timer, phase>>

\* All requests of a successful tick are in: the next tick is armed.
Settle(t) ==
    /\ phase[t] = "settle"
    /\ beside[t] # "out"
    /\ page[t] \in Running
    /\ Set(phase, t, "ending")
    /\ Schedule(t)
    /\ UNCHANGED <<page, mounts, claim, holder, held, leader, wake, beside>>

\* Seeded fault: inFlight is lowered while the turn beside the advance is out.
EndTickEarly(t) ==
    /\ phase[t] = "ending"
    /\ page[t] \in Running
    /\ Set(phase, t, "none")
    /\ UNCHANGED <<page, mounts, claim, holder, held, leader, wake, timer, beside>>

\* inFlight is lowered only once the turn beside the advance is over too.
EndTick(t) ==
    /\ phase[t] = "ending"
    /\ beside[t] # "out"
    /\ page[t] \in Running
    /\ Set(phase, t, "none")
    /\ Set(beside, t, "none")
    /\ UNCHANGED <<page, mounts, claim, holder, held, leader, wake, timer>>

-----------------------------------------------------------------------------
TickStep(t) ==
    \/ AdvanceEndsTick(t) \/ AdvanceSucceeds(t) \/ DrainEnds(t) \/ BodyEnds(t)
    \/ Settle(t) \/ EndTick(t)

User(t) ==
    \/ Mount(t) \/ Unmount(t) \/ Hide(t) \/ Show(t) \/ PageHide(t) \/ PageShow(t)
    \/ Refocus(t) \/ Kick(t) \/ Open(t) \/ Close(t)

Browser(t) == Grant(t) \/ Refuse(t) \/ Release(t)

Next == \E t \in Tabs : User(t) \/ Browser(t) \/ TimerFires(t) \/ TickStep(t) \/ BesideEnds(t)

Spec == Init /\ [][Next]_vars

(***************************************************************************)
(* Fairness.  The browser frees a released lock, answers a refused request *)
(* and grants a free lock to waiting tabs first come first served, so no   *)
(* waiter is overtaken for ever; armed timers fire; every request ends,    *)
(* because apiFetch gives each a timeout.  The user owes nothing.          *)
(***************************************************************************)
FairSpec ==
    /\ Spec
    /\ \A t \in Tabs : /\ SF_vars(Grant(t))
                       /\ WF_vars(Refuse(t))
                       /\ WF_vars(Release(t))
                       /\ WF_vars(TimerFires(t))
                       /\ WF_vars(TickStep(t))
                       /\ WF_vars(BesideEnds(t))

-----------------------------------------------------------------------------
(* Properties *)

Driving(t) == page[t] = "visible" /\ mounts[t] > 0

\* Among the tabs whose browser grants locks at most one leads, and it is one
\* the user can see with the driver mounted.
OneVisibleLeader ==
    \A s, t \in Tabs \ Sandboxed : leader[s] /\ leader[t] => s = t /\ Driving(s)

\* No visible tab is ever left out of the election: it leads or it queues for
\* the lock, whatever hides, aborts, refusals and remounts came before.
NobodyLeftOut == \A t \in Tabs : Driving(t) => leader[t] \/ claim[t]

\* A switch to a tab is never forgotten: while its wake is pending the tab is
\* queued for the lock, whose grant or refusal runs it.
WakeIsQueued == \A t \in Tabs : wake[t] /\ Driving(t) => claim[t]

\* The loop never dies: a mounted driver has a timer armed or a tick out whose
\* end will arm one.
LoopAlive ==
    \A t \in Tabs : mounts[t] > 0 =>
        timer[t] \/ phase[t] \in AwaitingServer \cup {"settle"}

\* A tab only sends while the previous tick's requests are all over, save the
\* content turn the host allowed beside the advance.
NoOverlapInTab ==
    [][\A t \in Tabs : phase[t] # "advance" /\ phase'[t] = "advance"
         => phase[t] = "none" /\ beside[t] = "none"]_vars

\* While some tab is in view, the sync gets a leader that is in view.
SomeoneLeads ==
    \A t \in Tabs : Driving(t) ~> \/ ~Driving(t)
                                  \/ \E s \in Tabs : leader[s] /\ Driving(s)

\* A leader in view ticks, again and again.
LeaderTicks ==
    \A t \in Tabs :
        (leader[t] /\ Driving(t)) ~> (~(leader[t] /\ Driving(t)) \/ phase[t] = "advance")

-----------------------------------------------------------------------------
(* The inductive invariant behind the properties *)

\* The lock manager and the tab agree: a tab that may release the lock is its
\* holder, leads, and is in view; outside sandboxes nobody else leads.
LockInv ==
    \A t \in Tabs :
        /\ held[t] => /\ t \notin Sandboxed
                      /\ holder = t
                      /\ leader[t]
                      /\ Driving(t)
        /\ leader[t] => held[t] \/ t \in Sandboxed

\* A queued request belongs to a mounted, running tab that does not hold the
\* lock, and a wake that waits for it to a tab in view.
ClaimInv ==
    \A t \in Tabs :
        /\ claim[t] => ~held[t] /\ mounts[t] > 0 /\ page[t] \in Running
        /\ wake[t] => mounts[t] > 0
        /\ wake[t] /\ claim[t] => page[t] = "visible"

\* The timer belongs to a mounted driver, and no turn outlives its tick.
LoopInv ==
    \A t \in Tabs :
        /\ timer[t] => mounts[t] > 0
        /\ page[t] = "closed" => mounts[t] = 0
        /\ phase[t] = "none" => beside[t] = "none"

\* Together these are inductive: the lock, each tab's belief about it, its
\* queued request and its loop fit together at every reachable state.
Inv ==
    /\ TypeOK
    /\ LockInv
    /\ ClaimInv
    /\ LoopInv
    /\ NobodyLeftOut
    /\ WakeIsQueued
    /\ LoopAlive
=============================================================================
