-------------------------- MODULE SyncPacingProofs --------------------------
(***************************************************************************)
(* For every set of tabs and all durations, with locks or sandboxed.  The  *)
(* first part is about TabElection: its invariant is inductive, and its    *)
(* safety properties follow.  The second is about the paced driver: it is  *)
(* one of the drivers of TabElection, so the theorems of the first part    *)
(* hold of it, and the waits that the server asks of a mounted driver are  *)
(* kept exactly.                                                           *)
(***************************************************************************)
EXTENDS SyncPacing, TLAPS

\* Steps of the loop change only the loop; what the other invariants speak of
\* stays as it is.
election == <<page, mounts, claim, holder, held, leader, wake>>

LEMMA LoopStepKeepsElection ==
  ASSUME NEW t \in Tabs, TimerFires(t) \/ TickStep(t) \/ BesideEnds(t)
  PROVE  UNCHANGED election
  BY DEF election, TimerFires, TickStep, AdvanceEndsTick, AdvanceSucceeds, DrainEnds, BodyEnds,
         Settle, EndTick, BesideEnds

-----------------------------------------------------------------------------
(* Types *)

LoopType ==
    /\ timer' \in [Tabs -> BOOLEAN]
    /\ phase' \in [Tabs -> {"none", "settle", "ending"} \cup AwaitingServer]
    /\ beside' \in [Tabs -> {"none", "out", "over"}]

LEMMA StartType ==
  ASSUME TypeOK, NEW t \in Tabs, StartTick(t)
  PROVE  LoopType
  BY DEF TypeOK, LoopType, StartTick, Set, AwaitingServer

LEMMA TickType ==
  ASSUME TypeOK, NEW t \in Tabs, Tick(t)
  PROVE  LoopType
<1>1. CASE StartTick(t)
  BY <1>1, StartType
<1>2. CASE Set(timer, t, TRUE) /\ UNCHANGED <<phase, beside>>
  BY <1>2 DEF TypeOK, LoopType, Set
<1> QED
  BY <1>1, <1>2 DEF Tick

LEMMA RunWakeType ==
  ASSUME TypeOK, NEW t \in Tabs, RunWake(t)
  PROVE  LoopType
<1>1. CASE StartTick(t)
  BY <1>1, StartType
<1>2. CASE Set(timer, t, TRUE) /\ UNCHANGED <<phase, beside>>
  BY <1>2 DEF TypeOK, LoopType, Set
<1>3. CASE UNCHANGED driver
  BY <1>3 DEF TypeOK, LoopType, driver
<1> QED
  BY <1>1, <1>2, <1>3 DEF RunWake

LEMMA LeadType ==
  ASSUME TypeOK, NEW t \in Tabs, NEW b \in BOOLEAN, Lead(t, b)
  PROVE  LoopType /\ leader' \in [Tabs -> BOOLEAN] /\ wake' \in [Tabs -> BOOLEAN]
<1>1. leader' \in [Tabs -> BOOLEAN] /\ wake' \in [Tabs -> BOOLEAN]
  BY DEF Lead, TypeOK, Set
<1>2. CASE RunWake(t)
  BY <1>1, <1>2, RunWakeType
<1>3. CASE Set(timer, t, timer[t] \/ b) /\ UNCHANGED <<phase, beside>>
  BY <1>1, <1>3 DEF TypeOK, LoopType, Set
<1> QED
  BY <1>2, <1>3 DEF Lead

LEMMA WakeType ==
  ASSUME TypeOK, NEW t \in Tabs, Wake(t)
  PROVE  LoopType /\ claim' \in [Tabs -> BOOLEAN] /\ wake' \in [Tabs -> BOOLEAN]
<1>1. claim' \in [Tabs -> BOOLEAN] /\ wake' \in [Tabs -> BOOLEAN]
  BY DEF TypeOK, Wake, ClaimLeadership, Set
<1>2. CASE RunWake(t)
  BY <1>1, <1>2, RunWakeType
<1>3. CASE UNCHANGED driver
  BY <1>1, <1>3 DEF TypeOK, LoopType, driver
<1> QED
  BY <1>2, <1>3 DEF Wake

\* Every action keeps every variable in its type.
LEMMA TypeStep ==
  ASSUME TypeOK, [Next]_vars
  PROVE  TypeOK'
<1> USE TabElectionAssumption DEF TypeOK, LoopType, Running, driver, Set
<1>1. ASSUME NEW t \in Tabs, Mount(t) PROVE TypeOK'
  <2>1. mounts[t] + 1 \in 0 .. MaxMounts
    BY <1>1 DEF Mount
  <2> QED
    BY <1>1, <2>1 DEF Mount, ClaimLeadership
<1>2. ASSUME NEW t \in Tabs, Unmount(t) PROVE TypeOK'
  <2>1. mounts[t] - 1 \in 0 .. MaxMounts
    BY <1>2 DEF Unmount
  <2> QED
    BY <1>2, <2>1 DEF Unmount, YieldLeadership
<1>3. ASSUME NEW t \in Tabs, Hide(t) PROVE TypeOK'
  BY <1>3 DEF Hide, YieldLeadership
<1>4. ASSUME NEW t \in Tabs, Show(t) PROVE TypeOK'
  BY <1>4, WakeType DEF Show
<1>5. ASSUME NEW t \in Tabs, PageHide(t) PROVE TypeOK'
  BY <1>5 DEF PageHide, YieldLeadership
<1>6. ASSUME NEW t \in Tabs, PageShow(t) PROVE TypeOK'
  <2>1. page' \in [Tabs -> {"closed", "hidden", "visible", "cached"}]
    BY <1>6 DEF PageShow
  <2>2. Wake(t) \/ UNCHANGED <<claim, wake, driver>>
    BY <1>6 DEF PageShow
  <2> QED
    BY <1>6, <2>1, <2>2, WakeType DEF PageShow
<1>7. ASSUME NEW t \in Tabs, Refocus(t) PROVE TypeOK'
  BY <1>7, WakeType DEF Refocus
<1>8. ASSUME NEW t \in Tabs, Kick(t) PROVE TypeOK'
  BY <1>8, StartType DEF Kick, ClaimLeadership
<1>9. ASSUME NEW t \in Tabs, Open(t) \/ Close(t) PROVE TypeOK'
  <2>1. CASE Open(t)
    BY <2>1 DEF Open
  <2>2. CASE Close(t)
    BY <2>2 DEF Close, LoopType, AwaitingServer
  <2> QED
    BY <1>9, <2>1, <2>2
<1>10. ASSUME NEW t \in Tabs, Grant(t) \/ Refuse(t) PROVE TypeOK'
  <2>1. CASE Grant(t) /\ Lead(t, TRUE) /\ held' = [held EXCEPT ![t] = TRUE]
    BY <2>1, LeadType DEF Grant
  <2>2. CASE Grant(t) /\ UNCHANGED <<holder, held, leader, wake, driver>>
    BY <2>2 DEF Grant
  <2>3. CASE Refuse(t)
    BY <2>3, LeadType DEF Refuse
  <2> QED
    BY <1>10, <2>1, <2>2, <2>3 DEF Grant
<1>11. ASSUME NEW t \in Tabs, Release(t) PROVE TypeOK'
  BY <1>11 DEF Release
<1>12. ASSUME NEW t \in Tabs, TimerFires(t) PROVE TypeOK'
  BY <1>12, TickType DEF TimerFires
<1>13. ASSUME NEW t \in Tabs, TickStep(t) PROVE TypeOK'
  BY <1>13 DEF TickStep, AdvanceEndsTick, AdvanceSucceeds, DrainEnds, BodyEnds, Settle, EndTick,
               Schedule, AwaitingServer
<1>14. ASSUME NEW t \in Tabs, BesideEnds(t) PROVE TypeOK'
  BY <1>14 DEF BesideEnds
<1>15. CASE UNCHANGED vars
  BY <1>15 DEF vars
<1> QED
  BY <1>1, <1>2, <1>3, <1>4, <1>5, <1>6, <1>7, <1>8, <1>9, <1>10, <1>11, <1>12, <1>13, <1>14,
     <1>15 DEF Next, User, Browser

-----------------------------------------------------------------------------
\* A tab gains the lock only from Grant, which finds it free, and every way out
\* of view gives it back.
LEMMA LockStep ==
  ASSUME TypeOK, LockInv, [Next]_vars
  PROVE  LockInv'
<1> USE TabElectionAssumption DEF TypeOK, LockInv, Driving, Set
<1>1. ASSUME NEW t \in Tabs, Mount(t) PROVE LockInv'
  BY <1>1 DEF Mount
<1>2. ASSUME NEW t \in Tabs, Unmount(t) PROVE LockInv'
  <2>1. CASE mounts[t] = 1
    BY <1>2, <2>1 DEF Unmount, YieldLeadership
  <2>2. CASE mounts[t] # 1
    <3>1. \A u \in Tabs : mounts'[u] > 0 <=> mounts[u] > 0
      BY <1>2, <2>2 DEF Unmount
    <3> QED
      BY <1>2, <2>2, <3>1 DEF Unmount
  <2> QED
    BY <2>1, <2>2
<1>3. ASSUME NEW t \in Tabs, Hide(t) PROVE LockInv'
  BY <1>3 DEF Hide, YieldLeadership
<1>4. ASSUME NEW t \in Tabs, Show(t) PROVE LockInv'
  BY <1>4 DEF Show
<1>5. ASSUME NEW t \in Tabs, PageHide(t) PROVE LockInv'
  BY <1>5 DEF PageHide, YieldLeadership
<1>6. ASSUME NEW t \in Tabs, PageShow(t) PROVE LockInv'
  BY <1>6 DEF PageShow
<1>7. ASSUME NEW t \in Tabs, Refocus(t) PROVE LockInv'
  BY <1>7 DEF Refocus
<1>8. ASSUME NEW t \in Tabs, Kick(t) PROVE LockInv'
  BY <1>8 DEF Kick
<1>9. ASSUME NEW t \in Tabs, Open(t) PROVE LockInv'
  BY <1>9 DEF Open
<1>10. ASSUME NEW t \in Tabs, Close(t) PROVE LockInv'
  BY <1>10 DEF Close
<1>11. ASSUME NEW t \in Tabs, Grant(t) PROVE LockInv'
  BY <1>11 DEF Grant, Lead, Running
<1>12. ASSUME NEW t \in Tabs, Refuse(t) PROVE LockInv'
  BY <1>12 DEF Refuse, Lead
<1>13. ASSUME NEW t \in Tabs, Release(t) PROVE LockInv'
  BY <1>13 DEF Release
<1>14. ASSUME NEW t \in Tabs, TimerFires(t) \/ TickStep(t) \/ BesideEnds(t) PROVE LockInv'
  BY <1>14, LoopStepKeepsElection DEF election
<1>15. CASE UNCHANGED vars
  BY <1>15 DEF vars
<1> QED
  BY <1>1, <1>2, <1>3, <1>4, <1>5, <1>6, <1>7, <1>8,
     <1>9, <1>10, <1>11, <1>12, <1>13, <1>14, <1>15 DEF Next, User, Browser

-----------------------------------------------------------------------------
\* A request is queued only by a mounted tab, and only by one in view when a
\* wake waits for it; hiding and unmounting abort it.
LEMMA ClaimStep ==
  ASSUME TypeOK, LockInv, ClaimInv, LoopInv, [Next]_vars
  PROVE  ClaimInv'
<1> USE TabElectionAssumption DEF TypeOK, LockInv, ClaimInv, LoopInv, Driving, Running, Set
<1>1. ASSUME NEW t \in Tabs, Mount(t) PROVE ClaimInv'
  BY <1>1 DEF Mount, ClaimLeadership
<1>2. ASSUME NEW t \in Tabs, Unmount(t) PROVE ClaimInv'
  BY <1>2 DEF Unmount, YieldLeadership
<1>3. ASSUME NEW t \in Tabs, Hide(t) PROVE ClaimInv'
  BY <1>3 DEF Hide, YieldLeadership
<1>4. ASSUME NEW t \in Tabs, Show(t) PROVE ClaimInv'
  BY <1>4 DEF Show, Wake, ClaimLeadership
<1>5. ASSUME NEW t \in Tabs, PageHide(t) PROVE ClaimInv'
  BY <1>5 DEF PageHide, YieldLeadership
<1>6. ASSUME NEW t \in Tabs, PageShow(t) PROVE ClaimInv'
  BY <1>6 DEF PageShow, Wake, ClaimLeadership
<1>7. ASSUME NEW t \in Tabs, Refocus(t) PROVE ClaimInv'
  BY <1>7 DEF Refocus, Wake, ClaimLeadership
<1>8. ASSUME NEW t \in Tabs, Kick(t) PROVE ClaimInv'
  BY <1>8 DEF Kick, ClaimLeadership
<1>9. ASSUME NEW t \in Tabs, Open(t) PROVE ClaimInv'
  BY <1>9 DEF Open
<1>10. ASSUME NEW t \in Tabs, Close(t) PROVE ClaimInv'
  BY <1>10 DEF Close
<1>11. ASSUME NEW t \in Tabs, Grant(t) PROVE ClaimInv'
  BY <1>11 DEF Grant, Lead
<1>12. ASSUME NEW t \in Tabs, Refuse(t) PROVE ClaimInv'
  BY <1>12 DEF Refuse, Lead
<1>13. ASSUME NEW t \in Tabs, Release(t) PROVE ClaimInv'
  BY <1>13 DEF Release
<1>14. ASSUME NEW t \in Tabs, TimerFires(t) \/ TickStep(t) \/ BesideEnds(t) PROVE ClaimInv'
  BY <1>14, LoopStepKeepsElection DEF election
<1>15. CASE UNCHANGED vars
  BY <1>15 DEF vars
<1> QED
  BY <1>1, <1>2, <1>3, <1>4, <1>5, <1>6, <1>7, <1>8,
     <1>9, <1>10, <1>11, <1>12, <1>13, <1>14, <1>15 DEF Next, User, Browser

-----------------------------------------------------------------------------
\* Whatever stops the timer starts a tick, and every tick that ends arms it.
LEMMA LoopStep ==
  ASSUME TypeOK, ClaimInv, LoopInv, LoopAlive, [Next]_vars
  PROVE  (LoopInv /\ LoopAlive)'
<1> USE TabElectionAssumption DEF TypeOK, ClaimInv, LoopInv, LoopAlive, AwaitingServer, driver, Set
<1>1. ASSUME NEW t \in Tabs, Mount(t) PROVE (LoopInv /\ LoopAlive)'
  <2>1. CASE mounts[t] = 0
    BY <1>1, <2>1 DEF Mount, ClaimLeadership, Running
  <2>2. CASE mounts[t] # 0
    <3>1. \A u \in Tabs : mounts'[u] > 0 <=> mounts[u] > 0
      BY <1>1, <2>2 DEF Mount
    <3> QED
      BY <1>1, <2>2, <3>1 DEF Mount
  <2> QED
    BY <2>1, <2>2
<1>2. ASSUME NEW t \in Tabs, Unmount(t) PROVE (LoopInv /\ LoopAlive)'
  BY <1>2 DEF Unmount
<1>3. ASSUME NEW t \in Tabs, Hide(t) PROVE (LoopInv /\ LoopAlive)'
  BY <1>3 DEF Hide
<1>4. ASSUME NEW t \in Tabs, Show(t) PROVE (LoopInv /\ LoopAlive)'
  BY <1>4 DEF Show, Wake, RunWake, StartTick
<1>5. ASSUME NEW t \in Tabs, PageHide(t) PROVE (LoopInv /\ LoopAlive)'
  BY <1>5 DEF PageHide
<1>6. ASSUME NEW t \in Tabs, PageShow(t) PROVE (LoopInv /\ LoopAlive)'
  <2>1. CASE Wake(t)
    BY <1>6, <2>1 DEF PageShow, Running, Wake, RunWake, StartTick
  <2>2. CASE UNCHANGED driver
    BY <1>6, <2>2 DEF PageShow, Running
  <2> QED
    BY <1>6, <2>1, <2>2 DEF PageShow
<1>7. ASSUME NEW t \in Tabs, Refocus(t) PROVE (LoopInv /\ LoopAlive)'
  BY <1>7 DEF Refocus, Wake, RunWake, StartTick
<1>8. ASSUME NEW t \in Tabs, Kick(t) PROVE (LoopInv /\ LoopAlive)'
  BY <1>8 DEF Kick, StartTick
<1>9. ASSUME NEW t \in Tabs, Open(t) PROVE (LoopInv /\ LoopAlive)'
  BY <1>9 DEF Open
<1>10. ASSUME NEW t \in Tabs, Close(t) PROVE (LoopInv /\ LoopAlive)'
  BY <1>10 DEF Close
<1>11. ASSUME NEW t \in Tabs, Grant(t) PROVE (LoopInv /\ LoopAlive)'
  BY <1>11 DEF Grant, Lead, RunWake, StartTick
<1>12. ASSUME NEW t \in Tabs, Refuse(t) PROVE (LoopInv /\ LoopAlive)'
  BY <1>12 DEF Refuse, Lead, RunWake, StartTick
<1>13. ASSUME NEW t \in Tabs, Release(t) PROVE (LoopInv /\ LoopAlive)'
  BY <1>13 DEF Release
<1>14. ASSUME NEW t \in Tabs, TimerFires(t) PROVE (LoopInv /\ LoopAlive)'
  BY <1>14 DEF TimerFires, Tick, StartTick
<1>15. ASSUME NEW t \in Tabs, TickStep(t) PROVE (LoopInv /\ LoopAlive)'
  <2>1. CASE AdvanceEndsTick(t)
    BY <2>1 DEF AdvanceEndsTick, Schedule
  <2>2. CASE AdvanceSucceeds(t)
    BY <2>2 DEF AdvanceSucceeds
  <2>3. CASE DrainEnds(t)
    BY <2>3 DEF DrainEnds
  <2>4. CASE BodyEnds(t)
    BY <2>4 DEF BodyEnds
  <2>5. CASE Settle(t)
    BY <2>5 DEF Settle, Schedule
  <2>6. CASE EndTick(t)
    BY <2>6 DEF EndTick
  <2> QED
    BY <1>15, <2>1, <2>2, <2>3, <2>4, <2>5, <2>6 DEF TickStep
<1>16. ASSUME NEW t \in Tabs, BesideEnds(t) PROVE (LoopInv /\ LoopAlive)'
  BY <1>16 DEF BesideEnds
<1>17. CASE UNCHANGED vars
  BY <1>17 DEF vars
<1> QED
  BY <1>1, <1>2, <1>3, <1>4, <1>5, <1>6, <1>7, <1>8,
     <1>9, <1>10, <1>11, <1>12, <1>13, <1>14, <1>15, <1>16, <1>17 DEF Next, User, Browser

-----------------------------------------------------------------------------
\* A tab that comes into view queues for the lock; it leaves the queue only by
\* leading or by leaving view.
LEMMA ElectionStep ==
  ASSUME TypeOK, LockInv, ClaimInv, LoopInv, NobodyLeftOut, WakeIsQueued, [Next]_vars
  PROVE  (NobodyLeftOut /\ WakeIsQueued)'
<1> USE TabElectionAssumption DEF TypeOK, LockInv, ClaimInv, LoopInv, NobodyLeftOut,
     WakeIsQueued, Driving, Running, Set
<1>1. ASSUME NEW t \in Tabs, Mount(t) PROVE (NobodyLeftOut /\ WakeIsQueued)'
  <2>1. CASE mounts[t] = 0
    BY <1>1, <2>1 DEF Mount, ClaimLeadership
  <2>2. CASE mounts[t] # 0
    <3>1. \A u \in Tabs : mounts'[u] > 0 <=> mounts[u] > 0
      BY <1>1, <2>2 DEF Mount
    <3> QED
      BY <1>1, <2>2, <3>1 DEF Mount
  <2> QED
    BY <2>1, <2>2
<1>2. ASSUME NEW t \in Tabs, Unmount(t) PROVE (NobodyLeftOut /\ WakeIsQueued)'
  BY <1>2 DEF Unmount, YieldLeadership
<1>3. ASSUME NEW t \in Tabs, Hide(t) PROVE (NobodyLeftOut /\ WakeIsQueued)'
  BY <1>3 DEF Hide, YieldLeadership
<1>4. ASSUME NEW t \in Tabs, Show(t) PROVE (NobodyLeftOut /\ WakeIsQueued)'
  BY <1>4 DEF Show, Wake, ClaimLeadership
<1>5. ASSUME NEW t \in Tabs, PageHide(t) PROVE (NobodyLeftOut /\ WakeIsQueued)'
  BY <1>5 DEF PageHide, YieldLeadership
<1>6. ASSUME NEW t \in Tabs, PageShow(t) PROVE (NobodyLeftOut /\ WakeIsQueued)'
  <2>1. CASE Wake(t)
    BY <1>6, <2>1 DEF PageShow, Wake, ClaimLeadership
  <2>2. CASE ~Driving(t)' /\ UNCHANGED <<claim, wake>>
    BY <1>6, <2>2 DEF PageShow
  <2> QED
    BY <1>6, <2>1, <2>2 DEF PageShow
<1>7. ASSUME NEW t \in Tabs, Refocus(t) PROVE (NobodyLeftOut /\ WakeIsQueued)'
  BY <1>7 DEF Refocus, Wake, ClaimLeadership
<1>8. ASSUME NEW t \in Tabs, Kick(t) PROVE (NobodyLeftOut /\ WakeIsQueued)'
  BY <1>8 DEF Kick, ClaimLeadership
<1>9. ASSUME NEW t \in Tabs, Open(t) PROVE (NobodyLeftOut /\ WakeIsQueued)'
  BY <1>9 DEF Open
<1>10. ASSUME NEW t \in Tabs, Close(t) PROVE (NobodyLeftOut /\ WakeIsQueued)'
  BY <1>10 DEF Close
<1>11. ASSUME NEW t \in Tabs, Grant(t) PROVE (NobodyLeftOut /\ WakeIsQueued)'
  BY <1>11 DEF Grant, Lead
<1>12. ASSUME NEW t \in Tabs, Refuse(t) PROVE (NobodyLeftOut /\ WakeIsQueued)'
  BY <1>12 DEF Refuse, Lead
<1>13. ASSUME NEW t \in Tabs, Release(t) PROVE (NobodyLeftOut /\ WakeIsQueued)'
  BY <1>13 DEF Release
<1>14. ASSUME NEW t \in Tabs, TimerFires(t) \/ TickStep(t) \/ BesideEnds(t)
       PROVE  (NobodyLeftOut /\ WakeIsQueued)'
  BY <1>14, LoopStepKeepsElection DEF election
<1>15. CASE UNCHANGED vars
  BY <1>15 DEF vars
<1> QED
  BY <1>1, <1>2, <1>3, <1>4, <1>5, <1>6, <1>7, <1>8,
     <1>9, <1>10, <1>11, <1>12, <1>13, <1>14, <1>15 DEF Next, User, Browser

-----------------------------------------------------------------------------
(* The theorems *)

LEMMA InvInit == Init => Inv
  BY TabElectionAssumption
  DEF Init, Inv, TypeOK, LockInv, ClaimInv, LoopInv, NobodyLeftOut, WakeIsQueued, LoopAlive,
      Driving, AwaitingServer

LEMMA InvStep == Inv /\ [Next]_vars => Inv'
  BY TypeStep, LockStep, ClaimStep, LoopStep, ElectionStep DEF Inv

\* The invariant of TabElection holds for ever, for every set of tabs.
THEOREM Invariance == Spec => []Inv
<1>1. Init => Inv
  BY InvInit
<1>2. Inv /\ [Next]_vars => Inv'
  BY InvStep
<1> QED
  BY <1>1, <1>2, PTL DEF Spec

\* claimLeadership, yieldLeadership and their callers keep every variable of
\* the driver in its type.
THEOREM Typing == Spec => []TypeOK
<1>1. Inv => TypeOK
  BY DEF Inv
<1> QED
  BY <1>1, Invariance, PTL

\* At most one tab outside sandboxes leads, and only while it is in view: the
\* lock serializes claimLeadership of all tabs.
THEOREM OneLeader == Spec => []OneVisibleLeader
<1>1. Inv => OneVisibleLeader
  BY DEF Inv, LockInv, OneVisibleLeader, Driving
<1> QED
  BY <1>1, Invariance, PTL

\* A tab in view leads or is queued: no path through hide, abort, refusal and
\* remount loses its request.
THEOREM NobodyIsLeftOut == Spec => []NobodyLeftOut
<1>1. Inv => NobodyLeftOut
  BY DEF Inv
<1> QED
  BY <1>1, Invariance, PTL

\* A pending wake has a request whose grant or refusal runs it.
THEOREM WakeIsKept == Spec => []WakeIsQueued
<1>1. Inv => WakeIsQueued
  BY DEF Inv
<1> QED
  BY <1>1, Invariance, PTL

\* The self-pacing loop of a mounted driver never dies.
THEOREM LoopSurvives == Spec => []LoopAlive
<1>1. Inv => LoopAlive
  BY DEF Inv
<1> QED
  BY <1>1, Invariance, PTL

\* tick()'s inFlight guard: a tick starts only when nothing of the previous one
\* is still out in the same tab.
THEOREM NoOverlap == Spec => NoOverlapInTab
<1> DEFINE Apart == \A t \in Tabs : phase[t] # "advance" /\ phase'[t] = "advance"
                       => phase[t] = "none" /\ beside[t] = "none"
<1>1. Inv /\ [Next]_vars => [Apart]_vars
  <2> SUFFICES ASSUME Inv, Next, NEW u \in Tabs, phase[u] # "advance", phase'[u] = "advance"
               PROVE  phase[u] = "none" /\ beside[u] = "none"
    OBVIOUS
  <2> USE DEF Inv, TypeOK, LoopInv, driver, Set
  <2>1. phase[u] = "none"
    <3>1. ASSUME NEW t \in Tabs, User(t) PROVE phase[u] = "none"
      BY <3>1 DEF User, Mount, Unmount, Hide, Show, PageHide, PageShow, Refocus, Kick, Open,
                  Close, Wake, RunWake, StartTick
    <3>2. ASSUME NEW t \in Tabs, Browser(t) PROVE phase[u] = "none"
      BY <3>2 DEF Browser, Grant, Refuse, Release, Lead, RunWake, StartTick
    <3>3. ASSUME NEW t \in Tabs, TimerFires(t) PROVE phase[u] = "none"
      BY <3>3 DEF TimerFires, Tick, StartTick
    <3>4. ASSUME NEW t \in Tabs, TickStep(t) \/ BesideEnds(t) PROVE phase[u] = "none"
      BY <3>4 DEF TickStep, AdvanceEndsTick, AdvanceSucceeds, DrainEnds, BodyEnds, Settle,
                  EndTick, BesideEnds
    <3> QED
      BY <3>1, <3>2, <3>3, <3>4 DEF Next
  <2> QED
    BY <2>1
<1> QED
  BY <1>1, Invariance, PTL DEF Spec, NoOverlapInTab

-----------------------------------------------------------------------------
(* The clock only decides what TabElection leaves open *)

LEMMA PacedStepIsStep == [PacedNext]_pacedVars => [Next]_vars
<1>1. ASSUME NEW t \in Tabs, Handler(t) PROVE Next
  BY <1>1 DEF Handler, PacedMount, Return, PacedKick, PacedGrant, PacedRefuse, PacedTimerFires,
              PacedAdvanceEndsTick, PacedAdvanceSucceeds, PacedSettle, PacedEndTick, PacedClose,
              Untimed, Next, User, Browser, TickStep
<1>2. Pass => UNCHANGED vars
  BY DEF Pass
<1>3. UNCHANGED pacedVars => UNCHANGED vars
  BY DEF pacedVars
<1> QED
  BY <1>1, <1>2, <1>3 DEF PacedNext

LEMMA PacedInitIsInit == PacedInit => Init
  BY DEF PacedInit

-----------------------------------------------------------------------------
(* Types *)

LEMMA RunWakeKeepsTypes ==
  ASSUME PacedTypeOK, NEW t \in Tabs, RunWakePaced(t)
  PROVE  (due \in [Tabs -> Nat] /\ hold \in [Tabs -> Nat] /\ own \in [Tabs -> BOOLEAN])'
  BY DEF PacedTypeOK, RunWakePaced, ArmFor, StartNow, Set

LEMMA PacedTypeStep ==
  ASSUME PacedTypeOK, [PacedNext]_pacedVars
  PROVE  PacedTypeOK'
<1> USE SyncPacingAssumption DEF PacedTypeOK, Set
<1>1. ASSUME NEW t \in Tabs, PacedMount(t) PROVE PacedTypeOK'
  BY <1>1 DEF PacedMount
<1>2. ASSUME NEW t \in Tabs, Return(t) PROVE PacedTypeOK'
  BY <1>2, RunWakeKeepsTypes DEF Return, WakePaced
<1>3. ASSUME NEW t \in Tabs, PacedKick(t) PROVE PacedTypeOK'
  BY <1>3 DEF PacedKick, StartNow
<1>4. ASSUME NEW t \in Tabs, PacedGrant(t) PROVE PacedTypeOK'
  BY <1>4, RunWakeKeepsTypes DEF PacedGrant, ArmFor
<1>5. ASSUME NEW t \in Tabs, PacedRefuse(t) PROVE PacedTypeOK'
  BY <1>5, RunWakeKeepsTypes DEF PacedRefuse
<1>6. ASSUME NEW t \in Tabs, PacedTimerFires(t) PROVE PacedTypeOK'
  BY <1>6 DEF PacedTimerFires, StartNow, ArmFor
<1>7. ASSUME NEW t \in Tabs, PacedAdvanceEndsTick(t) PROVE PacedTypeOK'
  BY <1>7 DEF PacedAdvanceEndsTick
<1>8. ASSUME NEW t \in Tabs, PacedAdvanceSucceeds(t) PROVE PacedTypeOK'
  BY <1>8 DEF PacedAdvanceSucceeds
<1>9. ASSUME NEW t \in Tabs, PacedSettle(t) PROVE PacedTypeOK'
  BY <1>9 DEF PacedSettle
<1>10. ASSUME NEW t \in Tabs, PacedEndTick(t) PROVE PacedTypeOK'
  BY <1>10 DEF PacedEndTick
<1>11. ASSUME NEW t \in Tabs, PacedClose(t) PROVE PacedTypeOK'
  BY <1>11 DEF PacedClose
<1>12. ASSUME NEW t \in Tabs, Untimed(t) PROVE PacedTypeOK'
  BY <1>12 DEF Untimed, clock
<1>13. CASE Pass
  BY <1>13 DEF Pass
<1>14. CASE UNCHANGED pacedVars
  BY <1>14 DEF pacedVars, clock
<1> QED
  BY <1>1, <1>2, <1>3, <1>4, <1>5, <1>6, <1>7, <1>8, <1>9, <1>10, <1>11, <1>12, <1>13, <1>14
  DEF PacedNext, Handler

-----------------------------------------------------------------------------
(* The wait *)

\* What the waits rest on, for one tab.
WaitOf(t) ==
    /\ heard[t] /\ timer[t] /\ hold[t] > 0 => due[t] = hold[t]
    /\ heard[t] => own[t]
    /\ own[t] /\ claim[t] /\ t \notin Sandboxed => wake[t]
    /\ phase[t] \in {"drain", "body", "settle"} => hold[t] = 0

\* A handler of one tab leaves what another tab's wait rests on as it is.
LEMMA OthersStay ==
  ASSUME TypeOK, PacedTypeOK, NEW t \in Tabs, NEW u \in Tabs \ {t}, Handler(t)
  PROVE  /\ timer'[u] = timer[u] /\ claim'[u] = claim[u] /\ wake'[u] = wake[u]
         /\ phase'[u] = phase[u] /\ due'[u] = due[u] /\ hold'[u] = hold[u]
         /\ heard'[u] = heard[u] /\ own'[u] = own[u]
<1> USE DEF TypeOK, PacedTypeOK, Set
<1>1. CASE PacedMount(t)
  BY <1>1 DEF PacedMount, Mount, ClaimLeadership
<1>2. CASE Return(t)
  <2>1. timer'[u] = timer[u] /\ claim'[u] = claim[u] /\ wake'[u] = wake[u] /\ phase'[u] = phase[u]
    BY <1>2 DEF Return, Show, PageShow, Refocus, Wake, ClaimLeadership, RunWake, StartTick, driver
  <2>2. due'[u] = due[u] /\ hold'[u] = hold[u] /\ heard'[u] = heard[u] /\ own'[u] = own[u]
    BY <1>2 DEF Return, WakePaced, RunWakePaced, ArmFor, StartNow
  <2> QED
    BY <2>1, <2>2
<1>3. CASE PacedKick(t)
  BY <1>3 DEF PacedKick, Kick, ClaimLeadership, StartTick, StartNow, driver
<1>4. CASE PacedGrant(t)
  <2>1. timer'[u] = timer[u] /\ claim'[u] = claim[u] /\ wake'[u] = wake[u] /\ phase'[u] = phase[u]
    BY <1>4 DEF PacedGrant, Grant, Lead, RunWake, StartTick, driver
  <2>2. due'[u] = due[u] /\ hold'[u] = hold[u] /\ heard'[u] = heard[u] /\ own'[u] = own[u]
    BY <1>4 DEF PacedGrant, RunWakePaced, ArmFor, StartNow
  <2> QED
    BY <2>1, <2>2
<1>5. CASE PacedRefuse(t)
  <2>1. timer'[u] = timer[u] /\ claim'[u] = claim[u] /\ wake'[u] = wake[u] /\ phase'[u] = phase[u]
    BY <1>5 DEF PacedRefuse, Refuse, Lead, RunWake, StartTick, driver
  <2>2. due'[u] = due[u] /\ hold'[u] = hold[u] /\ heard'[u] = heard[u] /\ own'[u] = own[u]
    BY <1>5 DEF PacedRefuse, RunWakePaced, ArmFor, StartNow
  <2> QED
    BY <2>1, <2>2
<1>6. CASE PacedTimerFires(t)
  BY <1>6 DEF PacedTimerFires, TimerFires, Tick, StartTick, StartNow, ArmFor
<1>7. CASE PacedAdvanceEndsTick(t)
  BY <1>7 DEF PacedAdvanceEndsTick, AdvanceEndsTick, Schedule
<1>8. CASE PacedAdvanceSucceeds(t)
  BY <1>8 DEF PacedAdvanceSucceeds, AdvanceSucceeds
<1>9. CASE PacedSettle(t)
  BY <1>9 DEF PacedSettle, Settle, Schedule
<1>10. CASE PacedEndTick(t)
  BY <1>10 DEF PacedEndTick, EndTick
<1>11. CASE PacedClose(t)
  BY <1>11 DEF PacedClose, Close
<1>12. CASE Untimed(t)
  BY <1>12 DEF Untimed, clock, Unmount, Hide, PageHide, Open, Release, DrainEnds, BodyEnds,
               BesideEnds, YieldLeadership, driver
<1> QED
  BY <1>1, <1>2, <1>3, <1>4, <1>5, <1>6, <1>7, <1>8, <1>9, <1>10, <1>11, <1>12 DEF Handler

\* runWake starts a tick only when the wait is over, and otherwise leaves the
\* timer alone or arms it for the end of the wait.
LEMMA RunWakeKeepsWait ==
  ASSUME PacedInv, NEW t \in Tabs, RunWake(t), RunWakePaced(t), heard'[t] = heard[t]
  PROVE  /\ hold'[t] = hold[t]
         /\ heard'[t] /\ timer'[t] /\ hold'[t] > 0 => due'[t] = hold'[t]
         /\ phase'[t] \in {"drain", "body", "settle"} => phase[t] = phase'[t]
         /\ Starts(t) => hold[t] = 0
         /\ own'[t] = own[t] \/ (own'[t] /\ Starts(t))
  BY DEF PacedInv, Inv, TypeOK, PacedTypeOK, WaitIsExact, RunWake, RunWakePaced, ArmFor, StartNow,
         Starts, StartTick, Set, driver

\* Every handler of a tab keeps that tab's wait.
LEMMA OwnWait ==
  ASSUME PacedInv, NEW t \in Tabs, Handler(t)
  PROVE  WaitOf(t)'
<1> USE SyncPacingAssumption DEF PacedInv, Inv, TypeOK, PacedTypeOK, WaitIsExact, WaitInv, WaitOf, Set
<1>1. CASE PacedMount(t)
  <2>1. CASE mounts[t] = 0
    BY <1>1, <2>1 DEF PacedMount, Mount
  <2>2. CASE mounts[t] # 0
    BY <1>1, <2>2 DEF PacedMount, Mount
  <2> QED
    BY <2>1, <2>2
<1>2. CASE Return(t)
  <2>1. CASE mounts[t] > 0 /\ leader[t] /\ page'[t] = "visible"
    <3>1. RunWake(t) /\ RunWakePaced(t) /\ heard'[t] = heard[t]
      BY <1>2, <2>1 DEF Return, WakePaced, Show, PageShow, Refocus, Wake
    <3>2. claim'[t] /\ t \notin Sandboxed => claim[t]
      BY <1>2, <2>1 DEF Return, Show, PageShow, Refocus, Wake, ClaimLeadership, LockInv
    <3>3. t \notin Sandboxed => ~claim[t]
      BY <2>1 DEF LockInv, ClaimInv
    <3> QED
      BY <3>1, <3>2, <3>3, RunWakeKeepsWait
  <2>2. CASE ~(mounts[t] > 0 /\ leader[t] /\ page'[t] = "visible")
    <3>1. UNCHANGED <<due, hold, heard, own>>
      BY <1>2, <2>2 DEF Return, WakePaced
    <3>2. timer'[t] = timer[t] /\ phase'[t] = phase[t]
      BY <1>2, <2>2 DEF Return, Show, PageShow, Refocus, Wake, driver
    <3>3. claim'[t] => wake'[t] \/ (claim[t] /\ wake'[t] = wake[t])
      BY <1>2, <2>2 DEF Return, Show, PageShow, Refocus, Wake
    <3> QED
      BY <3>1, <3>2, <3>3
  <2> QED
    BY <2>1, <2>2
<1>3. CASE PacedKick(t)
  <2>1. CASE leader[t]
    BY <1>3, <2>1 DEF PacedKick, Kick, StartNow, StartTick, LockInv, ClaimInv
  <2>2. CASE ~leader[t]
    <3>1. claim[t]
      BY <1>3, <2>2 DEF PacedKick, Kick, NobodyLeftOut, Driving
    <3> QED
      BY <1>3, <2>2, <3>1 DEF PacedKick, Kick, ClaimLeadership, driver
  <2> QED
    BY <2>1, <2>2
<1>4. CASE PacedGrant(t)
  <2>0. claim[t] /\ ~claim'[t] /\ holder = NoTab /\ t \notin Sandboxed /\ heard'[t] = heard[t]
    BY <1>4 DEF PacedGrant, Grant
  <2>1. CASE holder' = t /\ wake[t]
    <3>1. RunWake(t) /\ RunWakePaced(t)
      BY <1>4, <2>1, <2>0, TabElectionAssumption DEF PacedGrant, Grant, Lead
    <3> QED
      BY <2>0, <3>1, RunWakeKeepsWait
  <2>2. CASE holder' = t /\ ~wake[t]
    <3>1. ~heard[t]
      BY <2>0, <2>2
    <3>2. hold'[t] = hold[t] /\ own'[t] = own[t]
      BY <1>4, <2>2 DEF PacedGrant, ArmFor
    <3>3. phase'[t] = phase[t]
      BY <1>4, <2>2, <2>0, TabElectionAssumption DEF PacedGrant, Grant, Lead
    <3> QED
      BY <2>0, <3>1, <3>2, <3>3
  <2>3. CASE holder' # t
    BY <1>4, <2>3 DEF PacedGrant, Grant, driver
  <2> QED
    BY <2>1, <2>2, <2>3
<1>5. CASE PacedRefuse(t)
  <2>1. t \in Sandboxed /\ heard'[t] = heard[t]
    BY <1>5 DEF PacedRefuse, Refuse
  <2>2. CASE wake[t]
    <3>1. RunWake(t) /\ RunWakePaced(t)
      BY <1>5, <2>2 DEF PacedRefuse, Refuse, Lead
    <3> QED
      BY <2>1, <3>1, RunWakeKeepsWait
  <2>3. CASE ~wake[t]
    BY <1>5, <2>1, <2>3 DEF PacedRefuse, Refuse, Lead
  <2> QED
    BY <2>2, <2>3
<1>6. CASE PacedTimerFires(t)
  <2>1. ~heard[t] \/ hold[t] = 0
    BY <1>6 DEF PacedTimerFires, TimerFires
  <2>2. hold'[t] = hold[t] /\ heard'[t] = heard[t]
    BY <1>6 DEF PacedTimerFires, StartNow, ArmFor
  <2>5. own'[t] = own[t] \/ (own'[t] /\ leader[t])
    BY <1>6 DEF PacedTimerFires, StartNow, ArmFor
  <2>6. leader[t] /\ t \notin Sandboxed => ~claim[t]
    BY DEF LockInv, ClaimInv
  <2>3. claim'[t] = claim[t] /\ wake'[t] = wake[t]
    BY <1>6 DEF PacedTimerFires, TimerFires
  <2>4. phase'[t] \in {"drain", "body", "settle"} => phase'[t] = phase[t]
    BY <1>6 DEF PacedTimerFires, TimerFires, Tick, StartTick
  <2> QED
    BY <2>1, <2>2, <2>3, <2>4, <2>5, <2>6
<1>7. CASE PacedAdvanceEndsTick(t)
  <2>1. PICK w \in Waits : hold'[t] = w /\ (mounts[t] > 0 => due'[t] = w)
    BY <1>7 DEF PacedAdvanceEndsTick
  <2>2. heard'[t] = own[t] /\ phase'[t] = "ending"
    BY <1>7 DEF PacedAdvanceEndsTick, AdvanceEndsTick
  <2>3. timer'[t] => mounts[t] > 0
    BY <1>7 DEF PacedAdvanceEndsTick, AdvanceEndsTick, Schedule, LoopInv
  <2> QED
    BY <1>7, <2>1, <2>2, <2>3 DEF PacedAdvanceEndsTick, AdvanceEndsTick
<1>8. CASE PacedAdvanceSucceeds(t)
  BY <1>8 DEF PacedAdvanceSucceeds, AdvanceSucceeds
<1>9. CASE PacedSettle(t)
  BY <1>9 DEF PacedSettle, Settle
<1>10. CASE PacedEndTick(t)
  BY <1>10 DEF PacedEndTick, EndTick
<1>11. CASE PacedClose(t)
  BY <1>11 DEF PacedClose, Close
<1>12. CASE Untimed(t)
  BY <1>12 DEF Untimed, clock, Unmount, Hide, PageHide, Open, Release, DrainEnds, BodyEnds,
               BesideEnds, YieldLeadership, driver
<1> QED
  BY <1>1, <1>2, <1>3, <1>4, <1>5, <1>6, <1>7, <1>8, <1>9, <1>10, <1>11, <1>12 DEF Handler

LEMMA PacedInvInit == PacedInit => PacedInv
<1>1. PacedInit => Inv
  BY InvInit, PacedInitIsInit
<1> QED
  BY <1>1, SyncPacingAssumption
  DEF PacedInit, Init, PacedInv, PacedTypeOK, WaitIsExact, WaitInv

LEMMA PacedInvStep == PacedInv /\ [PacedNext]_pacedVars => PacedInv'
<1> SUFFICES ASSUME PacedInv, [PacedNext]_pacedVars
             PROVE  PacedInv'
  OBVIOUS
<1>1. Inv'
  BY PacedStepIsStep, InvStep DEF PacedInv
<1>2. PacedTypeOK'
  BY PacedTypeStep DEF PacedInv
<1>3. \A u \in Tabs : WaitOf(u)'
  <2>1. ASSUME NEW t \in Tabs, Handler(t), NEW u \in Tabs \ {t}
        PROVE  WaitOf(u)'
    BY <2>1, OthersStay DEF PacedInv, Inv, WaitIsExact, WaitInv, WaitOf
  <2>2. CASE Pass
    BY <2>2 DEF Pass, vars, PacedInv, PacedTypeOK, WaitIsExact, WaitInv, WaitOf
  <2>3. CASE UNCHANGED pacedVars
    BY <2>3 DEF pacedVars, clock, vars, PacedInv, WaitIsExact, WaitInv, WaitOf
  <2> QED
    BY <2>1, <2>2, <2>3, OwnWait DEF PacedNext
<1> QED
  BY <1>1, <1>2, <1>3 DEF PacedInv, WaitIsExact, WaitInv, WaitOf

-----------------------------------------------------------------------------
(* The theorems *)

\* useSyncDriver with its clock is one of the drivers TabElection describes:
\* whatever holds of every choice there holds of the choices the clock makes.
THEOREM Paces == PacedSpec => Spec
<1>1. PacedInit => Init
  BY PacedInitIsInit
<1>2. [PacedNext]_pacedVars => [Next]_vars
  BY PacedStepIsStep
<1> QED
  BY <1>1, <1>2, PTL DEF PacedSpec, Spec

\* The invariant of the paced driver holds for ever, for all durations.
THEOREM PacedInvariance == PacedSpec => []PacedInv
<1>1. PacedInit => PacedInv
  BY PacedInvInit
<1>2. PacedInv /\ [PacedNext]_pacedVars => PacedInv'
  BY PacedInvStep
<1> QED
  BY <1>1, <1>2, PTL DEF PacedSpec

\* While a wait heard since the mount lasts, an armed timer is due at its end.
THEOREM ExactWait == PacedSpec => []WaitIsExact
<1>1. PacedInv => WaitIsExact
  BY DEF PacedInv
<1> QED
  BY <1>1, PacedInvariance, PTL

\* notBefore is kept by every tick of the mount that heard of it: its timer,
\* a return to the tab, a grant, a refusal and a user action all respect it.
THEOREM WaitIsKept == PacedSpec => WaitKept
<1> DEFINE Kept == \A t \in Tabs : Starts(t) /\ heard[t] => hold[t] = 0
<1>1. PacedInv /\ [PacedNext]_pacedVars => [Kept]_pacedVars
  <2> SUFFICES ASSUME PacedInv, PacedNext, NEW u \in Tabs, Starts(u), heard[u]
               PROVE  hold[u] = 0
    OBVIOUS
  <2> USE DEF PacedInv, Inv, TypeOK, PacedTypeOK, Set
  <2>1. ~Pass
    BY DEF Pass, vars, Starts
  <2>2. PICK t \in Tabs : Handler(t)
    BY <2>1 DEF PacedNext
  <2>3. t = u
    BY <2>2, OthersStay DEF Starts
  <2>4. CASE PacedTimerFires(u)
    BY <2>4 DEF PacedTimerFires, TimerFires, WaitIsExact
  <2>5. CASE Return(u)
    <3>1. CASE RunWakePaced(u)
      BY <3>1 DEF RunWakePaced, ArmFor, Starts
    <3>2. CASE ~(mounts[u] > 0 /\ leader[u] /\ page'[u] = "visible")
      BY <2>5, <3>2 DEF Return, Show, PageShow, Refocus, Wake, Starts, driver
    <3> QED
      BY <2>5, <3>1, <3>2 DEF Return, WakePaced
  <2>6. CASE PacedGrant(u)
    <3>1. CASE holder' = u
      BY <2>6, <3>1 DEF PacedGrant, RunWakePaced, ArmFor, Starts
    <3>2. CASE holder' # u
      BY <2>6, <3>2 DEF PacedGrant, Grant, Starts, driver
    <3> QED
      BY <3>1, <3>2
  <2>7. CASE PacedRefuse(u)
    BY <2>7 DEF PacedRefuse, Refuse, Lead, RunWakePaced, ArmFor, Starts
  <2>8. CASE PacedKick(u)
    BY <2>8 DEF PacedKick, Kick, Starts, driver
  <2>9. CASE PacedMount(u) \/ PacedAdvanceEndsTick(u) \/ PacedAdvanceSucceeds(u) \/ PacedSettle(u)
              \/ PacedEndTick(u) \/ PacedClose(u) \/ Untimed(u)
    BY <2>9 DEF PacedMount, Mount, PacedAdvanceEndsTick, AdvanceEndsTick, PacedAdvanceSucceeds,
                AdvanceSucceeds, PacedSettle, Settle, PacedEndTick, EndTick, PacedClose, Close,
                Untimed, Unmount, Hide, PageHide, Open, Release, DrainEnds, BodyEnds, BesideEnds,
                driver, Starts
  <2> QED
    BY <2>2, <2>3, <2>4, <2>5, <2>6, <2>7, <2>8, <2>9 DEF Handler
<1> QED
  BY <1>1, PacedInvariance, PTL DEF PacedSpec, WaitKept
=============================================================================
