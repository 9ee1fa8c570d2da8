----------------------------- MODULE SyncPacing -----------------------------
(***************************************************************************)
(* The clock of hooks/useSyncDriver.ts on top of TabElection: when the     *)
(* tick timer is due, the wait that an answer asked for (notBefore) and    *)
(* the rest after a tick (lastTickEndedAt).  What TabElection leaves to    *)
(* choice is decided here, so every behaviour is one of TabElection's.     *)
(*                                                                         *)
(* Time is counted in units of the model; Date.now() only moves forward.   *)
(* A timer never fires early but may fire late, as in a sleeping machine.  *)
(***************************************************************************)
EXTENDS TabElection

CONSTANTS
    Breath,      \* what a mount or a grant waits: 800 ms and 400 ms
    Active,      \* ACTIVE_INTERVAL_MS
    Idle,        \* IDLE_INTERVAL_MS
    MinGap,      \* SYNC_NOW_MIN_GAP_MS
    Waits        \* waits an answer may ask for: backoff, Retry-After, a lock

ASSUME SyncPacingAssumption ==
    /\ Breath \in Nat /\ Active \in Nat /\ Idle \in Nat /\ MinGap \in Nat
    /\ Waits \subseteq Nat \ {0}

VARIABLES
    due,         \* time until the armed timer fires
    hold,        \* remainingHold(): what is left of notBefore
    rested,      \* time since the last tick ended, up to MinGap
    \* history
    own,         \* the last tick started after the driver was last mounted
    heard        \* the wait was told to such a tick

clock == <<due, hold, rested, own, heard>>
pacedVars == <<vars, clock>>

PacedTypeOK ==
    /\ due \in [Tabs -> Nat]
    /\ hold \in [Tabs -> Nat]
    /\ rested \in [Tabs -> 0 .. MinGap]
    /\ own \in [Tabs -> BOOLEAN]
    /\ heard \in [Tabs -> BOOLEAN]

PacedInit ==
    /\ Init
    /\ due = [t \in Tabs |-> 0]
    /\ hold = [t \in Tabs |-> 0]
    /\ rested = [t \in Tabs |-> MinGap]
    /\ own = [t \in Tabs |-> FALSE]
    /\ heard = [t \in Tabs |-> FALSE]

-----------------------------------------------------------------------------
(* The pieces handlers are made of *)

\* A tick starts now: the armed timer, if any, was stopped.
Starts(t) == phase[t] # "advance" /\ phase'[t] = "advance"

StartNow(t) ==
    /\ Starts(t)
    /\ Set(own, t, TRUE)
    /\ UNCHANGED <<due, hold>>

\* schedule(ms): the timer is armed anew.
ArmFor(t, ms) ==
    /\ ~Starts(t)
    /\ timer'[t]
    /\ Set(due, t, ms)
    /\ UNCHANGED <<hold, own>>

\* Seeded fault: a wake during the wait puts the tick off by the idle interval.
RunWakePacedIdles(t) ==
    IF phase[t] # "none" \/ rested[t] < MinGap
    THEN ~Starts(t) /\ timer' = timer /\ UNCHANGED <<due, hold, own>>
    ELSE IF hold[t] > 0 THEN ArmFor(t, Idle) ELSE StartNow(t)

\* runWake: nothing while a tick runs or one ended a moment ago; a tick when
\* the wait is over, else the timer is armed for its end.
RunWakePaced(t) ==
    IF phase[t] # "none" \/ rested[t] < MinGap
    THEN ~Starts(t) /\ timer' = timer /\ UNCHANGED <<due, hold, own>>
    ELSE IF hold[t] > 0 THEN ArmFor(t, hold[t]) ELSE StartNow(t)

\* wake(): a tab that leads runs it at once, another one once it leads.
WakePaced(t) ==
    IF mounts[t] > 0 /\ leader[t] /\ page'[t] = "visible"
    THEN RunWakePaced(t)
    ELSE UNCHANGED <<due, hold, own>>

-----------------------------------------------------------------------------
(* Handlers that set or read the clock *)

\* The first mount takes a breath, whatever wait is left from before it.
PacedMount(t) ==
    /\ Mount(t)
    /\ IF mounts[t] = 0
       THEN Set(due, t, Breath) /\ Set(own, t, FALSE) /\ Set(heard, t, FALSE)
       ELSE UNCHANGED <<due, own, heard>>
    /\ UNCHANGED <<hold, rested>>

\* A tab comes into view, is restored, or gets focus back after a long blur.
Return(t) ==
    /\ Show(t) \/ PageShow(t) \/ Refocus(t)
    /\ WakePaced(t)
    /\ UNCHANGED <<rested, heard>>

\* Seeded fault: a user action is not held back by the wait.
PacedKickImpatient(t) ==
    /\ Kick(t)
    /\ IF leader[t]
       THEN rested[t] = MinGap /\ StartNow(t)
       ELSE UNCHANGED <<due, hold, own>>
    /\ UNCHANGED <<rested, heard>>

\* canKickNow: never before the wait is over or within the rest of a tick.
PacedKick(t) ==
    /\ Kick(t)
    /\ IF leader[t]
       THEN hold[t] = 0 /\ rested[t] = MinGap /\ StartNow(t)
       ELSE UNCHANGED <<due, hold, own>>
    /\ UNCHANGED <<rested, heard>>

\* Seeded fault: a new leader takes a breath and ticks, switched to or not.
PacedGrantBreathes(t) ==
    /\ Grant(t)
    /\ IF holder' = t THEN ArmFor(t, Breath) ELSE UNCHANGED <<due, hold, own>>
    /\ UNCHANGED <<rested, heard>>

\* A tab that was switched to runs its wake when it is made the leader; one
\* that just mounted takes a breath.
PacedGrant(t) ==
    /\ Grant(t)
    /\ IF holder' = t
       THEN IF wake[t] THEN RunWakePaced(t) ELSE ArmFor(t, Breath)
       ELSE UNCHANGED <<due, hold, own>>
    /\ UNCHANGED <<rested, heard>>

PacedRefuse(t) ==
    /\ Refuse(t)
    /\ IF wake[t] THEN RunWakePaced(t) ELSE UNCHANGED <<due, hold, own>>
    /\ UNCHANGED <<rested, heard>>

\* The timer comes round: a tick, or another look later.
PacedTimerFires(t) ==
    /\ due[t] = 0
    /\ TimerFires(t)
    /\ IF phase[t] = "none" /\ page[t] = "visible" /\ leader[t]
       THEN StartNow(t)
       ELSE ArmFor(t, IF phase[t] # "none" THEN Active ELSE Idle)
    /\ UNCHANGED <<rested, heard>>

\* The answer asks for a wait: nothing is to be sent before it is over, and
\* the timer of a mounted driver is armed for its end.
PacedAdvanceEndsTick(t) ==
    /\ AdvanceEndsTick(t)
    /\ \E w \in Waits :
        /\ Set(hold, t, w)
        /\ due' = [due EXCEPT ![t] = IF mounts[t] > 0 THEN w ELSE @]
    /\ Set(heard, t, own[t])
    /\ UNCHANGED <<rested, own>>

\* An advance that worked ends the wait.
PacedAdvanceSucceeds(t) ==
    /\ AdvanceSucceeds(t)
    /\ Set(hold, t, 0)
    /\ UNCHANGED <<due, rested, own, heard>>

\* Brisk while there is work, idle when there is none.
PacedSettle(t) ==
    /\ Settle(t)
    /\ \E ms \in {Active, Idle} : due' = [due EXCEPT ![t] = IF mounts[t] > 0 THEN ms ELSE @]
    /\ UNCHANGED <<hold, rested, own, heard>>

PacedEndTick(t) ==
    /\ EndTick(t)
    /\ Set(rested, t, 0)
    /\ UNCHANGED <<due, hold, own, heard>>

\* With the page its memory goes, the wait included.
PacedClose(t) ==
    /\ Close(t)
    /\ Set(due, t, 0)
    /\ Set(hold, t, 0)
    /\ Set(rested, t, MinGap)
    /\ Set(own, t, FALSE)
    /\ Set(heard, t, FALSE)

\* Handlers that neither set nor read it.
Untimed(t) ==
    /\ \/ Unmount(t) \/ Hide(t) \/ PageHide(t) \/ Open(t) \/ Release(t)
       \/ DrainEnds(t) \/ BodyEnds(t) \/ BesideEnds(t)
    /\ UNCHANGED clock

\* Time passes in every tab at once, frozen ones included.
Pass ==
    /\ due' = [t \in Tabs |-> IF due[t] > 0 THEN due[t] - 1 ELSE 0]
    /\ hold' = [t \in Tabs |-> IF hold[t] > 0 THEN hold[t] - 1 ELSE 0]
    /\ rested' = [t \in Tabs |-> IF rested[t] < MinGap THEN rested[t] + 1 ELSE MinGap]
    /\ UNCHANGED <<vars, own, heard>>

-----------------------------------------------------------------------------
Handler(t) ==
    \/ PacedMount(t) \/ Return(t) \/ PacedKick(t) \/ PacedGrant(t) \/ PacedRefuse(t)
    \/ PacedTimerFires(t) \/ PacedAdvanceEndsTick(t) \/ PacedAdvanceSucceeds(t)
    \/ PacedSettle(t) \/ PacedEndTick(t) \/ PacedClose(t) \/ Untimed(t)

PacedNext == Pass \/ \E t \in Tabs : Handler(t)

PacedSpec == PacedInit /\ [][PacedNext]_pacedVars

-----------------------------------------------------------------------------
(* Properties *)

\* While a wait told to a request of this mount lasts, an armed timer is due
\* exactly when it ends: no return to the tab, grant or timer that fires while
\* a content turn is out brings the tick forward or puts it off.
WaitIsExact ==
    \A t \in Tabs : heard[t] /\ timer[t] /\ hold[t] > 0 => due[t] = hold[t]

\* A wait told to a request of this mount is kept: no hide and show, grant,
\* refusal, action or late timer makes the tab send before it is over.
WaitKept == [][\A t \in Tabs : Starts(t) /\ heard[t] => hold[t] = 0]_pacedVars

-----------------------------------------------------------------------------
(* The inductive invariant, beside that of TabElection *)

\* A tab that has ticked since the mount queues for the lock only with its wake
\* pending, so a grant runs the wake; an advance that worked ended the wait.
WaitInv ==
    \A t \in Tabs :
        /\ heard[t] => own[t]
        /\ own[t] /\ claim[t] /\ t \notin Sandboxed => wake[t]
        /\ phase[t] \in {"drain", "body", "settle"} => hold[t] = 0

\* Together with TabElection's invariant this is inductive: the clock fits
\* the loop at every reachable state.
PacedInv ==
    /\ Inv
    /\ PacedTypeOK
    /\ WaitIsExact
    /\ WaitInv
=============================================================================
