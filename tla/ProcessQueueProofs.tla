------------------------- MODULE ProcessQueueProofs -------------------------
(* Proofs about ProcessQueue, for any tasks, clock and history of the queue. *)
EXTENDS ProcessQueue, TLAPS

\* The handlers that change neither the clock nor the server's queue.
TabStep ==
    \/ Subscribe \/ Unsubscribe \/ Cancel \/ Refresh(TRUE) \/ Refresh(FALSE)
    \/ IntervalFires \/ Serve \/ AnswerShows \/ AnswerDropped \/ HearRelay
    \/ Load \/ Hide \/ Show \/ Lead \/ StepDown \/ Close

USE DEF Times, Versions, Relays

\* A tab starts with an empty list and nothing remembered.
LEMMA InitInv == Init => Inv
<1> SUFFICES ASSUME Init PROVE Inv
  OBVIOUS
<1>1. log \in Seq(SUBSET Tasks) /\ Len(log) = 0
  BY DEF Init
<1>2. TypeOK
  <2>1. 0 \in Times /\ 0 \in Versions
    BY ProcessQueueAssumption
  <2>2. began \in [Times -> Versions]
    BY <2>1 DEF Init
  <2> QED
    BY <1>1, <2>1, <2>2, ProcessQueueAssumption DEF Init, TypeOK
<1>3. ClockInv /\ NewsInv
  BY <1>1, ProcessQueueAssumption DEF Init, ClockInv, NewsInv
<1>4. ShownIsFresh /\ RelaysAreHonest /\ PollerAlive
  BY ProcessQueueAssumption DEF Init, ShownIsFresh, RelaysAreHonest, PollerAlive
<1> QED
  BY <1>2, <1>3, <1>4 DEF Inv

\* The types hold across the handlers of the tab.
LEMMA TabTypes == TypeOK /\ TabStep => TypeOK'
<1> SUFFICES ASSUME TypeOK, TabStep PROVE TypeOK'
  OBVIOUS
<1> USE ProcessQueueAssumption DEF TypeOK, Latest, users, store, heard, poll, fence, world
<1>1. ASSUME NEW a \in BOOLEAN, NEW h, Poll(a, h)
      PROVE /\ request' \in Times \cup {None} /\ got' \in Versions \cup {None}
            /\ ignore' \in Times /\ clicked' \in Times /\ owed' \in BOOLEAN
            /\ interval' \in BOOLEAN
  BY <1>1 DEF Poll, StartPoll, StandDown, Rescheduled
<1>2. CASE Subscribe
  BY <1>1, <1>2 DEF Subscribe
<1>3. CASE Unsubscribe
  BY <1>3 DEF Unsubscribe
<1>4. CASE Cancel
  BY <1>4 DEF Cancel
<1>5. CASE Refresh(TRUE) \/ Refresh(FALSE)
  BY <1>1, <1>5 DEF Refresh
<1>6. CASE IntervalFires
  BY <1>6 DEF IntervalFires, StartPoll, StandDown
<1>7. CASE Serve
  BY <1>7 DEF Serve
<1>8. CASE AnswerShows
  BY <1>8 DEF AnswerShows, PutUp, PollEnds, Rescheduled
<1>9. CASE AnswerDropped
  BY <1>9 DEF AnswerDropped, PollEnds, Rescheduled
<1>10. CASE HearRelay
  BY <1>10 DEF HearRelay, PutUp, Rescheduled
<1>11. CASE Load \/ Lead
  BY <1>11 DEF Load, Lead
<1>12. CASE Hide \/ StepDown
  BY <1>12 DEF Hide, StepDown, LoseLead
<1>13. CASE Show
  BY <1>1, <1>13 DEF Show
<1>14. CASE Close
  <2>1. 0 \in Times /\ 0 \in Versions /\ 0 \in 0 .. MaxSubs
    OBVIOUS
  <2> QED
    BY <1>14, <2>1 DEF Close
<1>15. QED
  BY <1>2, <1>3, <1>4, <1>5, <1>6, <1>7, <1>8, <1>9, <1>10, <1>11, <1>12, <1>13, <1>14 DEF TabStep

\* and across changes of the queue and the passing of time.
LEMMA WorldTypes == TypeOK /\ (QueueChanges \/ Tick) => TypeOK'
<1> SUFFICES ASSUME TypeOK, QueueChanges \/ Tick PROVE TypeOK'
  OBVIOUS
<1> USE ProcessQueueAssumption DEF TypeOK, users, store, heard, poll, fence
<1>1. CASE QueueChanges
  <2>1. Active(Len(log)) \in SUBSET Tasks
    BY DEF Active
  <2>2. PICK k \in Tasks : log' = Append(log, IF k \in Active(Len(log)) THEN Active(Len(log)) \ {k}
                                              ELSE Active(Len(log)) \cup {k})
    BY <1>1 DEF QueueChanges
  <2>3. log' \in Seq(SUBSET Tasks) /\ Len(log') = Len(log) + 1
    BY <2>1, <2>2
  <2> QED
    BY <1>1, <2>3 DEF QueueChanges
<1>2. CASE Tick
  <2>1. now' \in Times /\ began' \in [Times -> Versions]
    BY <1>2 DEF Tick
  <2> QED
    BY <1>2, <2>1 DEF Tick
<1> QED
  BY <1>1, <1>2

-----------------------------------------------------------------------------
(* The order of moments and versions *)

\* A poll remembers when it left.
LEMMA PollClock ==
  ASSUME Inv, NEW a \in BOOLEAN, NEW h, Poll(a, h) \/ StartPoll(a, h) \/ StandDown(a, h),
         UNCHANGED <<store, heard, kept, world>>
  PROVE  ClockInv' /\ NewsInv' /\ ShownIsFresh' /\ RelaysAreHonest'
<1> USE ProcessQueueAssumption DEF Inv, TypeOK, store, heard, world, poll, Latest
<1>1. /\ request' # None => request' <= now
      /\ ignore' <= now /\ clicked <= ignore' /\ clicked' = clicked
      /\ got' = got /\ (got # None => request' = request)
  BY DEF Poll, StartPoll, StandDown, ClockInv, NewsInv
<1>2. ClockInv'
  BY <1>1 DEF ClockInv
<1>3. NewsInv'
  BY <1>1 DEF NewsInv, Honest
<1>4. ShownIsFresh' /\ RelaysAreHonest'
  BY DEF ShownIsFresh, RelaysAreHonest, Honest
<1> QED
  BY <1>2, <1>3, <1>4

\* Putting up honest news that is not older keeps the list fresh.
LEMMA PutUpFresh ==
  ASSUME Inv, NEW at \in Times, NEW v \in Versions, PutUp(at, v), at >= applied,
         Honest([at |-> at, version |-> v]), UNCHANGED world
  PROVE  best' = applied' /\ best' <= now' /\ shown' <= Len(log)' /\ ShownIsFresh'
  BY ProcessQueueAssumption DEF Inv, TypeOK, NewsInv, PutUp, Honest, Latest, ShownIsFresh, world

LEMMA TabNews == Inv /\ TabStep => ClockInv' /\ NewsInv' /\ ShownIsFresh' /\ RelaysAreHonest'
<1> DEFINE News == ClockInv /\ NewsInv /\ ShownIsFresh /\ RelaysAreHonest
<1> SUFFICES ASSUME Inv, TabStep PROVE News'
  OBVIOUS
<1> USE ProcessQueueAssumption
<1>1. CASE Subscribe
  BY <1>1, PollClock DEF Subscribe
<1>2. CASE Refresh(TRUE) \/ Refresh(FALSE)
  BY <1>2, PollClock DEF Refresh
<1>3. CASE IntervalFires
  BY <1>3, PollClock DEF IntervalFires
<1>4. CASE Show
  <2>1. CASE bound
    BY <1>4, <2>1, PollClock DEF Show
  <2>2. CASE ~bound
    BY <1>4, <2>2 DEF Show, Inv, ClockInv, NewsInv, ShownIsFresh, RelaysAreHonest, Honest,
                      poll, fence, store, heard, world
  <2> QED
    BY <2>1, <2>2
<1>5. CASE Unsubscribe \/ Load \/ Lead \/ Hide \/ StepDown
  <2>1. UNCHANGED <<poll, fence, store, heard, world>> /\ kept' \in {kept, None}
    BY <1>5 DEF Unsubscribe, Load, Lead, Hide, StepDown, LoseLead
  <2> QED
    BY <2>1 DEF Inv, ClockInv, NewsInv, ShownIsFresh, RelaysAreHonest, Honest, poll, fence,
                store, heard, world
<1>6. CASE Cancel
  <2>1. /\ UNCHANGED <<poll, store, heard, kept, world>>
        /\ ignore' = now /\ clicked' = now /\ now' = now
    BY <1>6 DEF Cancel, world
  <2>2. ClockInv'
    BY <2>1 DEF Inv, TypeOK, ClockInv, poll, store, world
  <2>3. NewsInv' /\ ShownIsFresh' /\ RelaysAreHonest'
    BY <2>1 DEF Inv, NewsInv, ShownIsFresh, RelaysAreHonest, Honest, poll, store, heard, world
  <2> QED
    BY <2>2, <2>3
<1>7. CASE Serve
  BY <1>7 DEF Serve, Inv, TypeOK, ClockInv, NewsInv, ShownIsFresh, RelaysAreHonest, Honest,
              fence, store, heard, world
<1>8. CASE AnswerShows
  <2>1. request \in Times /\ got \in Versions /\ Honest([at |-> request, version |-> got])
    BY <1>8 DEF AnswerShows, Inv, NewsInv, TypeOK
  <2>2. best' = applied' /\ best' <= now' /\ shown' <= Len(log)' /\ ShownIsFresh'
    BY <1>8, <2>1, PutUpFresh DEF AnswerShows
  <2>3. request' = None /\ got' = None /\ UNCHANGED <<heard, fence, world>>
    BY <1>8 DEF AnswerShows, PollEnds
  <2>4. ClockInv' /\ NewsInv'
    BY <2>2, <2>3 DEF Inv, ClockInv, NewsInv, heard, fence, world
  <2>5. RelaysAreHonest'
    BY <1>8, <2>1 DEF AnswerShows, Inv, RelaysAreHonest, Honest, world
  <2> QED
    BY <2>2, <2>4, <2>5
<1>9. CASE AnswerDropped
  BY <1>9 DEF AnswerDropped, PollEnds, Inv, ClockInv, NewsInv, ShownIsFresh, RelaysAreHonest,
              Honest, fence, store, heard, world
<1>10. CASE HearRelay
  <2>1. PICK m \in Relays : /\ Honest(m) /\ m.at >= Latest(ignore, applied)
                            /\ PutUp(m.at, m.version) /\ relayed' = m.version
    BY <1>10 DEF HearRelay
  <2>2. m.at \in Times /\ m.version \in Versions /\ m = [at |-> m.at, version |-> m.version]
    OBVIOUS
  <2>3. m.at >= applied
    BY <2>1, <2>2 DEF Latest, Inv, TypeOK
  <2>4. UNCHANGED <<poll, fence, kept, world>>
    BY <1>10 DEF HearRelay
  <2>5. best' = applied' /\ best' <= now' /\ shown' <= Len(log)' /\ ShownIsFresh'
    BY <2>1, <2>2, <2>3, <2>4, PutUpFresh
  <2>6. ClockInv' /\ NewsInv'
    BY <2>1, <2>4, <2>5 DEF Inv, ClockInv, NewsInv, Honest, poll, fence, world
  <2>7. RelaysAreHonest'
    BY <2>4 DEF Inv, RelaysAreHonest, Honest, world
  <2> QED
    BY <2>5, <2>6, <2>7
<1>11. CASE Close
  <2>1. began[0] <= Len(log) /\ UNCHANGED world
    BY <1>11 DEF Close, Inv, ClockInv, TypeOK
  <2> QED
    BY <1>11, <2>1 DEF Close, Inv, TypeOK, ClockInv, NewsInv, ShownIsFresh, RelaysAreHonest, Honest, world
<1> QED
  BY <1>1, <1>2, <1>3, <1>4, <1>5, <1>6, <1>7, <1>8, <1>9, <1>10, <1>11 DEF TabStep

\* Time passes and the queue moves on: both only push the present forward.
LEMMA WorldMoves ==
  ASSUME Inv, QueueChanges \/ Tick
  PROVE  /\ now \in Nat /\ now' \in Nat /\ now <= now'
         /\ log \in Seq(SUBSET Tasks) /\ Len(log) \in Nat /\ Len(log)' \in Nat
         /\ Len(log) <= Len(log)'
         /\ began \in [Times -> Nat]
         /\ UNCHANGED <<poll, store, heard, fence, kept>>
         /\ \A x \in 0 .. now : began'[x] = began[x]
         /\ \A x \in 0 .. now' : x \in 0 .. now \/ (x = now' /\ began'[x] = Len(log)')
<1> USE ProcessQueueAssumption
<1>1. /\ now \in Nat /\ log \in Seq(SUBSET Tasks) /\ Len(log) \in Nat
      /\ began \in [Times -> Nat] /\ Len(log)' \in Nat
  <2>1. now \in Nat /\ log \in Seq(SUBSET Tasks) /\ began \in [Times -> Versions]
    BY DEF Inv, TypeOK
  <2>2. log' \in Seq(SUBSET Tasks)
    BY WorldTypes DEF Inv, TypeOK
  <2> QED
    BY <2>1, <2>2
<1>2. /\ UNCHANGED <<poll, store, heard, fence, kept>>
      /\ now' \in Nat /\ now <= now' /\ Len(log) <= Len(log)'
  <2>1. CASE QueueChanges
    <3>1. PICK x : log' = Append(log, x)
      BY <2>1 DEF QueueChanges
    <3>2. Len(log') = Len(log) + 1
      BY <1>1, <3>1
    <3> QED
      BY <1>1, <2>1, <3>2 DEF QueueChanges
  <2>2. CASE Tick
    BY <1>1, <2>2 DEF Tick
  <2> QED
    BY <2>1, <2>2
<1>3. /\ \A x \in 0 .. now : began'[x] = began[x]
      /\ \A x \in 0 .. now' : x \in 0 .. now \/ (x = now' /\ began'[x] = Len(log)')
  BY <1>1 DEF QueueChanges, Tick, Inv, TypeOK
<1> QED
  BY <1>1, <1>2, <1>3

\* News that was honest stays so, however long it is on its way.
LEMMA HonestStays ==
  ASSUME Inv, [Next]_vars, NEW m \in Relays, Honest(m)
  PROVE  Honest(m)'
<1> USE ProcessQueueAssumption DEF Honest
<1>1. CASE QueueChanges \/ Tick
  BY <1>1, WorldMoves DEF Inv, TypeOK
<1>2. CASE UNCHANGED world
  BY <1>2 DEF world
<1>3. [Next]_vars => QueueChanges \/ Tick \/ UNCHANGED world
  BY DEF Next, vars, Subscribe, Unsubscribe, Cancel, Refresh, IntervalFires, Serve, AnswerShows,
         AnswerDropped, HearRelay, Load, Hide, Show, Lead, StepDown, Close
<1> QED
  BY <1>1, <1>2, <1>3

LEMMA WorldNews ==
  Inv /\ (QueueChanges \/ Tick) => ClockInv' /\ NewsInv' /\ ShownIsFresh' /\ RelaysAreHonest'
<1> SUFFICES ASSUME Inv, QueueChanges \/ Tick
             PROVE  ClockInv' /\ NewsInv' /\ ShownIsFresh' /\ RelaysAreHonest'
  OBVIOUS
<1> USE ProcessQueueAssumption
<1> /\ now \in Nat /\ log \in Seq(SUBSET Tasks) /\ Len(log) \in Nat
    /\ began \in [Times -> Nat] /\ Len(log)' \in Nat
  BY WorldMoves
<1>1. /\ UNCHANGED <<poll, store, heard, fence, kept>>
      /\ now' \in Nat /\ now <= now' /\ Len(log) <= Len(log)'
  BY WorldMoves
<1>2. /\ \A x \in 0 .. now : began'[x] = began[x]
      /\ \A x \in 0 .. now' : x \in 0 .. now \/ (x = now' /\ began'[x] = Len(log)')
  BY WorldMoves
<1>3. ClockInv'
  <2>1. \A x \in 0 .. now' : began'[x] <= Len(log)'
    <3>1. \A x \in 0 .. now : began[x] <= Len(log) /\ began[x] \in Nat
      BY DEF Inv, TypeOK, ClockInv
    <3> QED
      BY <1>1, <1>2, <3>1
  <2>2. ASSUME NEW x \in 0 .. now', NEW y \in 0 .. now', x <= y
        PROVE  began'[x] <= began'[y]
    <3>1. CASE y \in 0 .. now
      <4>1. x \in 0 .. now
        BY <2>2, <3>1
      <4> QED
        BY <1>2, <2>2, <3>1, <4>1 DEF Inv, ClockInv
    <3>2. CASE began'[y] = Len(log)'
      BY <2>1, <3>2
    <3> QED
      BY <1>2, <3>1, <3>2
  <2>3. /\ best' <= now' /\ (request' # None => request' <= now')
        /\ ignore' <= now' /\ clicked' <= ignore'
    <3>1. /\ best' = best /\ request' = request /\ ignore' = ignore /\ clicked' = clicked
          /\ best \in Nat /\ ignore \in Nat /\ clicked \in Nat /\ request \in Nat \cup {None}
      BY <1>1 DEF Inv, TypeOK, poll, store, fence
    <3>2. best <= now /\ (request # None => request <= now) /\ ignore <= now /\ clicked <= ignore
      BY DEF Inv, ClockInv
    <3> QED
      BY <1>1, <3>1, <3>2
  <2> QED
    BY <2>1, <2>2, <2>3 DEF ClockInv
<1>4. ASSUME NEW m \in Relays, Honest(m) PROVE Honest(m)'
  BY <1>4, HonestStays DEF Next
<1>5. NewsInv'
  <2>1. got # None => [at |-> request, version |-> got] \in Relays
    BY DEF Inv, TypeOK, NewsInv
  <2>2. got' # None => request' # None /\ Honest([at |-> request, version |-> got])'
    BY <1>1, <1>4, <2>1 DEF Inv, NewsInv, poll
  <2>3. shown' <= Len(log)' /\ relayed' <= Len(log)' /\ best' = applied'
    BY <1>1 DEF Inv, TypeOK, NewsInv, store, heard
  <2> QED
    BY <1>1, <2>2, <2>3 DEF NewsInv, poll
<1>6. ShownIsFresh'
  <2>1. best \in 0 .. now
    BY DEF Inv, TypeOK, ClockInv
  <2> QED
    BY <1>1, <1>2, <2>1 DEF Inv, ShownIsFresh, store
<1>7. RelaysAreHonest'
  BY <1>1, <1>4 DEF Inv, TypeOK, RelaysAreHonest
<1> QED
  BY <1>3, <1>5, <1>6, <1>7

-----------------------------------------------------------------------------
(* The poller *)

\* A poll leaves a request out, or the interval as the list asks.
LEMMA PollWorks ==
  ASSUME Inv, NEW a, Poll(a, "visible"), UNCHANGED <<shown, log>>
  PROVE  Active(shown)' # {} => interval' \/ request' # None
<1>1. CASE StartPoll(a, "visible")
  BY <1>1, ProcessQueueAssumption DEF StartPoll, Inv, TypeOK
<1>2. CASE interval' = Rescheduled(shown, "visible")
  BY <1>2 DEF Rescheduled, Active
<1> QED
  BY <1>1, <1>2 DEF Poll

LEMMA PollerStep == Inv /\ [Next]_vars => PollerAlive'
<1> SUFFICES ASSUME Inv, [Next]_vars PROVE PollerAlive'
  OBVIOUS
<1> USE DEF PollerAlive
<1>1. CASE Subscribe \/ Refresh(TRUE) \/ Refresh(FALSE) \/ Show
  <2>1. UNCHANGED <<shown, log>>
    BY <1>1 DEF Subscribe, Refresh, Show, store, world
  <2>2. CASE Poll(TRUE, page') \/ Poll(FALSE, page')
    BY <2>1, <2>2, PollWorks
  <2>3. CASE Show /\ ~bound
    BY <2>3 DEF Show, users
  <2> QED
    BY <1>1, <2>2, <2>3 DEF Subscribe, Refresh, Show
<1>2. CASE Unsubscribe
  BY <1>2 DEF Unsubscribe, Inv, Active, poll, store, world
<1>3. CASE IntervalFires
  BY <1>3, ProcessQueueAssumption DEF IntervalFires
<1>4. CASE Serve \/ Cancel \/ Lead \/ StepDown
  BY <1>4 DEF Serve, Cancel, Lead, StepDown, Inv, Active, users, poll, store, world
<1>5. CASE AnswerShows \/ AnswerDropped
  BY <1>5 DEF AnswerShows, AnswerDropped, PollEnds, PutUp, Rescheduled, Active, store, world
<1>6. CASE HearRelay
  BY <1>6 DEF HearRelay, PutUp, Rescheduled, Active, world
<1>7. CASE Load \/ Hide \/ Close
  BY <1>7 DEF Load, Hide, Close
<1>8. CASE QueueChanges \/ Tick
  <2>1. Active(shown)' = Active(shown)
    <3>1. shown' = shown /\ shown \in Nat /\ shown <= Len(log) /\ log \in Seq(SUBSET Tasks)
      BY <1>8, ProcessQueueAssumption DEF QueueChanges, Tick, Inv, TypeOK, NewsInv, store
    <3>2. CASE QueueChanges
      <4>1. PICK x : log' = Append(log, x)
        BY <3>2 DEF QueueChanges
      <4>2. shown # 0 => log'[shown] = log[shown]
        BY <3>1, <4>1
      <4> QED
        BY <3>1, <4>2 DEF Active
    <3>3. CASE Tick
      BY <3>1, <3>3 DEF Tick, Active
    <3> QED
      BY <1>8, <3>2, <3>3
  <2> QED
    BY <1>8, <2>1 DEF QueueChanges, Tick, Inv, users, poll, store
<1>9. CASE UNCHANGED vars
  BY <1>9 DEF vars, Inv, Active, users, poll, store, world
<1> QED
  BY <1>1, <1>2, <1>3, <1>4, <1>5, <1>6, <1>7, <1>8, <1>9 DEF Next

-----------------------------------------------------------------------------
(* Theorems *)

LEMMA InvStep == Inv /\ [Next]_vars => Inv'
<1> SUFFICES ASSUME Inv, [Next]_vars PROVE Inv'
  OBVIOUS
<1>1. CASE TabStep
  BY <1>1, TabTypes, TabNews, PollerStep DEF Inv
<1>2. CASE QueueChanges \/ Tick
  BY <1>2, WorldTypes, WorldNews, PollerStep DEF Inv
<1>3. CASE UNCHANGED vars
  BY <1>3 DEF vars, Inv, TypeOK, ClockInv, NewsInv, ShownIsFresh, RelaysAreHonest, PollerAlive,
              Honest, Active, users, store, heard, poll, fence, world
<1> QED
  BY <1>1, <1>2, <1>3 DEF Next, TabStep

\* The inductive invariant holds in every reachable state.
THEOREM QueueInvariance == Spec => []Inv
  BY InitInv, InvStep, PTL DEF Spec

\* A tab never shows a list older than its newest news (applied in onTabMessage
\* and poll).
THEOREM Freshness == Spec => []ShownIsFresh
<1>1. Inv => ShownIsFresh
  BY DEF Inv
<1> QED
  BY <1>1, QueueInvariance, PTL

\* What this tab posts is what it assumes of the other tabs' relays, so any
\* number of tabs that run this code satisfy the assumption together.
THEOREM Honesty == Spec => []RelaysAreHonest
<1>1. Inv => RelaysAreHonest
  BY DEF Inv
<1> QED
  BY <1>1, QueueInvariance, PTL

\* and a relay stays honest on its way, for any delay and however often a leader
\* repeats it: what other tabs hear is what HearRelay accepts.
THEOREM HonestyLasts == Spec => [][\A m \in Relays : Honest(m) => Honest(m)']_vars
<1>1. Inv /\ [Next]_vars => [\A m \in Relays : Honest(m) => Honest(m)']_vars
  <2> SUFFICES ASSUME Inv, [Next]_vars, NEW m \in Relays, Honest(m) PROVE Honest(m)'
    OBVIOUS
  <2> QED
    BY HonestStays
<1> QED
  BY <1>1, QueueInvariance, PTL DEF Spec

\* A tab in view that shows unfinished tasks keeps looking (reschedule, poll).
THEOREM PollerLives == Spec => []PollerAlive
<1>1. Inv => PollerAlive
  BY DEF Inv
<1> QED
  BY <1>1, QueueInvariance, PTL

\* No relay undoes a cancel (ignoreRelaysBefore).
THEOREM CancelKept == Spec => RelayKeepsCancel
<1>1. Inv /\ [Next]_vars => [HearRelay => relayed' >= began[clicked]]_vars
  <2> SUFFICES ASSUME Inv, HearRelay PROVE relayed' >= began[clicked]
    OBVIOUS
  <2>1. PICK m \in Relays : Honest(m) /\ m.at >= Latest(ignore, applied) /\ relayed' = m.version
    BY DEF HearRelay
  <2>2. m.at \in 0 .. now /\ clicked \in 0 .. now /\ clicked <= m.at
    BY <2>1, ProcessQueueAssumption DEF Inv, TypeOK, ClockInv, Honest, Latest
  <2>3. began[clicked] <= began[m.at] /\ began[m.at] <= m.version
    BY <2>1, <2>2 DEF Inv, ClockInv, Honest
  <2> QED
    BY <2>1, <2>2, <2>3, ProcessQueueAssumption DEF Inv, TypeOK
<1> QED
  BY <1>1, QueueInvariance, PTL DEF Spec, RelayKeepsCancel
=============================================================================
