------------------------- MODULE PrefetchQueueProofs -------------------------
(***************************************************************************)
(* Inv of PrefetchQueue is inductive.  One lemma per action, with one step  *)
(* per conjunct of the invariant.                                          *)
(***************************************************************************)
EXTENDS PrefetchQueue, FiniteSetTheorems, WellFoundedInduction, TLAPS

\* A queue that is not empty has a head: the call with the least weight and
\* number.
LEMMA HeadExists ==
    ASSUME TypeOK, queued # {}
    PROVE  \E c \in queued : IsHead(c)
<1> DEFINE Base(w) == IF w = 0 THEN 0 ELSE IF w = 1 THEN MaxCalls ELSE MaxCalls + MaxCalls
<1> DEFINE Rank(c) == Base(Weight[priority[c]]) + c
<1> DEFINE Ranks == {Rank(c) : c \in queued}
<1> USE PrefetchAssumption
<1>1. \A c \in queued : /\ c \in Nat /\ 1 <= c /\ c <= MaxCalls
                        /\ Weight[priority[c]] \in 0 .. 2
  BY DEF TypeOK, Calls, Weight, Priorities
<1>2. Ranks \subseteq Nat /\ Ranks # {}
  BY <1>1
<1> DEFINE Less == {ss \in Nat \X Nat : ss[1] < ss[2]}
<1>3. IsWellFoundedOn(Less, Nat)
  BY NatLessThanWellFounded, Zenon DEF OpToRel
<1>4. PICK least \in Ranks : \A r \in Ranks : ~(<<r, least>> \in Less)
  <2> HIDE DEF Ranks, Less
  <2> QED BY <1>2, <1>3, WFMin
<1>5. PICK c \in queued : least = Rank(c)
  OBVIOUS
<1>6. \A d \in queued : ~(Rank(d) < Rank(c))
  BY <1>2, <1>4, <1>5
<1>7. ASSUME NEW d \in queued PROVE Before(c, d)
  <2>1. Rank(c) <= Rank(d)
    BY <1>1, <1>6
  <2>4. \/ Weight[priority[c]] < Weight[priority[d]]
        \/ Weight[priority[c]] = Weight[priority[d]] /\ c <= d
    BY <1>1, <2>1
  <2> QED BY <2>4 DEF Before
<1> QED BY <1>7 DEF IsHead

\* The sets of items are finite.
LEMMA Finite ==
    ASSUME TypeOK
    PROVE  /\ IsFiniteSet(fetching) /\ IsFiniteSet(ending)
           /\ IsFiniteSet(fetching \union ending)
<1>1. made \in Nat
  BY PrefetchAssumption DEF TypeOK
<1>2. IsFiniteSet(1 .. made)
  BY <1>1, FS_Interval
<1> QED BY <1>2, FS_Subset DEF TypeOK

\* The reads that no click asked for.
Unclicked == {c \in fetching \union ending : priority[c] # "user-selected"}

\* What a call c of fetchDetail writes down, and that it leaves earlier calls
\* alone.
Noted(c, m, p) ==
    /\ c = made + 1 /\ made' = c /\ made \in Nat /\ c \notin 1 .. made
    /\ made' \in 0 .. MaxCalls
    /\ 1 .. made' = (1 .. made) \union {c} /\ 1 .. made' \subseteq Calls
    /\ key' \in [Calls -> Messages \union {None}] /\ key'[c] = m
    /\ \A d \in 1 .. made' : key'[d] \in Messages
    /\ priority' \in [Calls -> Priorities] /\ priority'[c] = p
    /\ \A d \in 1 .. made : /\ d \in Calls /\ d # c
                            /\ key'[d] = key[d] /\ priority'[d] = priority[d]

LEMMA AsksNoted ==
    ASSUME TypeOK, NEW c \in Calls, NEW m \in Messages, NEW p \in Priorities,
           Asks(c, m, p)
    PROVE  Noted(c, m, p)
<1>1. made \in Nat /\ c = made + 1 /\ made' = c /\ made < MaxCalls /\ MaxCalls \in Nat
  BY PrefetchAssumption DEF TypeOK, Asks
<1>2. key' \in [Calls -> Messages \union {None}]
  BY DEF TypeOK, Asks
<1>3. key'[c] = m /\ \A d \in Calls : d # c => key'[d] = key[d]
  BY DEF TypeOK, Asks
<1>4. 1 .. made' = (1 .. made) \union {c} /\ 1 .. made' \subseteq Calls
  BY <1>1 DEF Calls
<1>5. \A d \in 1 .. made' : key'[d] \in Messages
  BY <1>1, <1>3, <1>4 DEF TypeOK
<1>6. /\ priority' \in [Calls -> Priorities] /\ priority'[c] = p
      /\ \A d \in Calls : d # c => priority'[d] = priority[d]
  BY DEF TypeOK, Asks
<1>7. c \notin 1 .. made /\ made' \in 0 .. MaxCalls
  BY <1>1
<1>8. \A d \in 1 .. made : d \in Calls /\ d # c
  BY <1>1 DEF Calls
<1> QED BY <1>1, <1>2, <1>3, <1>4, <1>5, <1>6, <1>7, <1>8 DEF Noted

\* The counts stay as they are while the reads that are out do.
LEMMA SlotsKept ==
    ASSUME TypeOK, SlotsBounded, UNCHANGED <<fetching, ending, activeCount>>,
           \A c \in fetching \union ending : priority'[c] = priority[c]
    PROVE  SlotsBounded'
<1>1. Unclicked' = Unclicked
  BY DEF Unclicked
<1> QED BY <1>1 DEF SlotsBounded, Unclicked

\* Calls are made, and so are the calls whose promises they share.
LEMMA Made ==
    ASSUME Inv
    PROVE  /\ \A d \in 1 .. made : d \in Calls /\ d # None /\ owner[d] \in 1 .. made
           /\ \A d \in Calls : d # None
<1>1. made \in 0 .. MaxCalls /\ MaxCalls \in Nat /\ None \notin Nat
  BY PrefetchAssumption DEF Inv, TypeOK
<1>2. \A d \in 1 .. made : d \in Calls
  BY <1>1 DEF Calls
<1>3. \A d \in Calls : d # None
  BY <1>1 DEF Calls
<1>4. ASSUME NEW d \in 1 .. made PROVE owner[d] \in 1 .. made
  <2>1. CASE promise[d] = "shared"
    <3>1. promise[owner[d]] # "unused" /\ owner[d] \in Calls
      BY <1>2, <2>1 DEF Inv, TypeOK, NoCallForgotten, Outcomes
    <3>2. ~(owner[d] > made)
      BY <3>1 DEF Inv, Stages
    <3> QED BY <1>1, <3>1, <3>2 DEF Calls
  <2>2. CASE promise[d] # "shared"
    BY <1>2, <2>2 DEF Inv, Stages
  <2> QED BY <2>1, <2>2
<1> QED BY <1>2, <1>3, <1>4

LEMMA InitInv == Init => Inv
<1> SUFFICES ASSUME Init PROVE Inv
  OBVIOUS
<1> USE PrefetchAssumption DEF Init
<1>1. TypeOK
  <2>1. made \in 0 .. MaxCalls /\ 1 .. made = {}
    OBVIOUS
  <2>2. priority \in [Calls -> Priorities] /\ owner \in [Calls -> Calls]
    BY DEF Priorities
  <2>3. inFlight \in [Messages -> Calls \union {None}]
    OBVIOUS
  <2>4. promise \in [Calls -> Outcomes \union {"unused", "waiting", "shared"}]
    OBVIOUS
  <2> QED BY <2>1, <2>2, <2>3, <2>4 DEF TypeOK
<1>2. Stages
  BY DEF Stages
<1>3. Listing
  BY DEF Listing
<1>4. NoCallForgotten
  BY DEF NoCallForgotten
<1>5. SlotsCounted
  BY FS_EmptySet DEF SlotsCounted
<1>6. SlotsBounded
  <2>1. {c \in fetching \union ending : priority[c] # "user-selected"} = {}
    OBVIOUS
  <2> QED BY <2>1, FS_EmptySet DEF SlotsBounded
<1>7. NoIdleSlot
  BY DEF NoIdleSlot
<1>8. ClickSeen
  BY DEF ClickSeen
<1>9. ClickToldWhy
  BY DEF ClickToldWhy, Clicks
<1>10. OneReadPerMessage
  BY DEF OneReadPerMessage
<1> QED BY <1>1, <1>2, <1>3, <1>4, <1>5, <1>6, <1>7, <1>8, <1>9, <1>10 DEF Inv

LEMMA AnsweredAtOnceInv ==
    ASSUME Inv, NEW c \in Calls, NEW m \in Messages, NEW p \in Priorities,
           AnsweredAtOnce(c, m, p)
    PROVE  Inv'
<1> USE PrefetchAssumption DEF Inv
<1>a. Noted(c, m, p) /\ ending = {} /\ ~running
  BY AsksNoted DEF AnsweredAtOnce, Asks
<1>b. UNCHANGED <<owner, queued, fetching, ending, activeCount, clicking, inFlight,
                cleanups, running, cached, warming, destroyed, cancelled,
                unlisted>>
  BY DEF AnsweredAtOnce, world
<1>c. /\ promise' \in [Calls -> Outcomes \union {"unused", "waiting", "shared"}]
      /\ owner' \in [Calls -> Calls]
      /\ \A d \in Calls : d # c => promise'[d] = promise[d] /\ owner'[d] = owner[d]
      /\ promise'[c] \in {"null", "detail"} /\ owner'[c] = c
      /\ p = "user-selected" /\ promise'[c] = "null" => destroyed
  BY <1>a DEF AnsweredAtOnce, TypeOK, Outcomes, Noted, Stages, Calls
<1>1. TypeOK'
  BY <1>a, <1>b, <1>c DEF Noted, TypeOK
<1>2. Stages'
  BY <1>a, <1>b, <1>c DEF Noted, TypeOK, Stages, Outcomes
<1>3. Listing'
  BY <1>a, <1>b DEF Noted, TypeOK, Stages, Listing
<1>4. NoCallForgotten'
  BY <1>a, <1>b, <1>c, Made DEF Noted, TypeOK, Stages, Listing, NoCallForgotten, Outcomes
<1>5. SlotsCounted'
  BY <1>b DEF SlotsCounted
<1>6. SlotsBounded'
  <2>1. \A d \in fetching \union ending : priority'[d] = priority[d]
    BY <1>a DEF Noted, TypeOK
  <2> QED BY <1>b, <2>1, SlotsKept
<1>7. NoIdleSlot'
  BY <1>a, <1>b DEF Noted, TypeOK, NoIdleSlot, HasRoom
<1>8. ClickSeen'
  BY <1>a, <1>b DEF Noted, TypeOK, ClickSeen
<1>9. ClickToldWhy'
  <2> SUFFICES ASSUME NEW d \in Clicks',
                      (IF promise'[d] = "shared" THEN promise'[owner'[d]]
                       ELSE promise'[d]) = "null"
               PROVE  \/ destroyed \/ owner'[d] \in cancelled
                      \/ priority'[owner'[d]] # "user-selected"
    BY <1>b DEF ClickToldWhy
  <2>1. CASE d = c
    BY <1>a, <1>c, <2>1 DEF Noted, Clicks
  <2>2. CASE d # c
    <3>1. d \in Clicks /\ d \in 1 .. made /\ owner[d] \in 1 .. made
      BY <1>a, <2>2, Made DEF Noted, Clicks
    <3>2. (IF promise[d] = "shared" THEN promise[owner[d]] ELSE promise[d]) = "null"
      BY <1>a, <1>c, <2>2, <3>1 DEF Noted
    <3>3. \/ destroyed \/ owner[d] \in cancelled
          \/ priority[owner[d]] # "user-selected"
      BY <3>1, <3>2 DEF ClickToldWhy
    <3> QED BY <1>a, <1>c, <2>2, <3>1, <3>3 DEF Noted
  <2> QED BY <2>1, <2>2
<1>10. OneReadPerMessage'
  BY <1>a, <1>b DEF Noted, TypeOK, OneReadPerMessage
<1> QED BY <1>1, <1>2, <1>3, <1>4, <1>5, <1>6, <1>7, <1>8, <1>9, <1>10

LEMMA SharesInv ==
    ASSUME Inv, NEW c \in Calls, NEW m \in Messages, NEW p \in Priorities,
           Shares(c, m, p)
    PROVE  Inv'
<1> USE PrefetchAssumption DEF Inv
<1>a. Noted(c, m, p) /\ ending = {} /\ ~running
  BY AsksNoted DEF Shares, Asks
<1>b. UNCHANGED <<queued, fetching, ending, activeCount, clicking, inFlight,
                cleanups, running, cached, warming, destroyed, cancelled,
                unlisted>>
  BY DEF Shares, world
<1>c. /\ promise' \in [Calls -> Outcomes \union {"unused", "waiting", "shared"}]
      /\ owner' \in [Calls -> Calls]
      /\ \A d \in Calls : d # c => promise'[d] = promise[d] /\ owner'[d] = owner[d]
      /\ promise'[c] = "shared" /\ owner'[c] = inFlight[m]
      /\ inFlight[m] \in queued \union fetching \union cleanups
  BY <1>a DEF Shares, TypeOK, Listing
<1>1. TypeOK'
  BY <1>a, <1>b, <1>c DEF Noted, TypeOK
<1>2. Stages'
  BY <1>a, <1>b, <1>c DEF Noted, TypeOK, Stages, Outcomes
<1>3. Listing'
  BY <1>a, <1>b DEF Noted, TypeOK, Stages, Listing
<1>4. NoCallForgotten'
  <2>1. promise'[inFlight[m]] \in Outcomes \union {"waiting"}
    <3>1. inFlight[m] \in 1 .. made
      BY <1>c DEF TypeOK
    <3>2. promise[inFlight[m]] \in Outcomes \union {"waiting"}
      BY <1>c DEF Stages
    <3> QED BY <1>a, <1>c, <3>1, <3>2 DEF Noted
  <2>2. ASSUME NEW d \in 1 .. made
        PROVE  /\ d # c /\ promise'[d] = promise[d] /\ owner'[d] = owner[d]
               /\ promise'[owner'[d]] = promise[owner[d]]
    BY <1>a, <1>c, Made DEF Noted
  <2> QED BY <1>a, <1>b, <1>c, <2>1, <2>2 DEF Noted, NoCallForgotten
<1>5. SlotsCounted'
  BY <1>b DEF SlotsCounted
<1>6. SlotsBounded'
  <2>1. \A d \in fetching \union ending : priority'[d] = priority[d]
    BY <1>a DEF Noted, TypeOK
  <2> QED BY <1>b, <2>1, SlotsKept
<1>7. NoIdleSlot'
  BY <1>a, <1>b DEF Noted, TypeOK, NoIdleSlot, HasRoom
<1>8. ClickSeen'
  BY <1>a, <1>b DEF Noted, TypeOK, ClickSeen
<1>9. ClickToldWhy'
  <2> SUFFICES ASSUME NEW d \in Clicks',
                      (IF promise'[d] = "shared" THEN promise'[owner'[d]]
                       ELSE promise'[d]) = "null"
               PROVE  \/ destroyed \/ owner'[d] \in cancelled
                      \/ priority'[owner'[d]] # "user-selected"
    BY <1>b DEF ClickToldWhy
  <2>1. CASE d = c
    <3> DEFINE o == inFlight[m]
    <3>1. /\ o \in 1 .. made /\ promise[o] # "shared" /\ promise'[o] = promise[o]
          /\ owner[o] = o /\ priority'[o] = priority[o]
      BY <1>a, <1>c DEF Noted, TypeOK, Stages, Outcomes
    <3>2. promise[o] = "null"
      BY <1>c, <2>1, <3>1
    <3>3. priority[o] = "user-selected" => o \in Clicks
      BY <3>1 DEF Clicks
    <3> QED BY <1>c, <2>1, <3>1, <3>2, <3>3 DEF ClickToldWhy
  <2>2. CASE d # c
    <3>1. d \in Clicks /\ d \in 1 .. made /\ owner[d] \in 1 .. made
      BY <1>a, <2>2, Made DEF Noted, Clicks
    <3>2. (IF promise[d] = "shared" THEN promise[owner[d]] ELSE promise[d]) = "null"
      BY <1>a, <1>c, <2>2, <3>1 DEF Noted
    <3>3. \/ destroyed \/ owner[d] \in cancelled
          \/ priority[owner[d]] # "user-selected"
      BY <3>1, <3>2 DEF ClickToldWhy
    <3> QED BY <1>a, <1>c, <2>2, <3>1, <3>3 DEF Noted
  <2> QED BY <2>1, <2>2
<1>10. OneReadPerMessage'
  BY <1>a, <1>b DEF Noted, TypeOK, OneReadPerMessage
<1> QED BY <1>1, <1>2, <1>3, <1>4, <1>5, <1>6, <1>7, <1>8, <1>9, <1>10

LEMMA QueuesInv ==
    ASSUME Inv, NEW c \in Calls, NEW m \in Messages, NEW p \in Priorities,
           Queues(c, m, p)
    PROVE  Inv'
<1> USE PrefetchAssumption DEF Inv
<1>a. Noted(c, m, p) /\ ending = {} /\ ~running
  BY AsksNoted DEF Queues, Asks
<1>b. /\ UNCHANGED <<owner, fetching, ending, activeCount, clicking, cleanups,
                   cached, warming, destroyed, cancelled, unlisted>>
      /\ ~destroyed /\ running' = TRUE /\ inFlight[m] = None
      /\ inFlight' = [inFlight EXCEPT ![m] = c]
      /\ queued' \subseteq queued \union {c} /\ c \in queued'
      /\ \A d \in queued \ queued' : key[d] = m
  BY DEF Queues, NotAnswered, Replaced, world
<1>c. /\ promise' \in [Calls -> Outcomes \union {"unused", "waiting", "shared"}]
      /\ owner' \in [Calls -> Calls]
      /\ \A d \in Calls : d # c => promise'[d] = promise[d] /\ owner'[d] = owner[d]
      /\ promise'[c] = "waiting" /\ owner'[c] = c
  BY <1>a DEF Queues, TypeOK, Noted, Stages, Calls
<1>1. TypeOK'
  BY <1>a, <1>b, <1>c DEF Noted, TypeOK
<1>2. Stages'
  BY <1>a, <1>b, <1>c DEF Noted, TypeOK, Stages, Outcomes
<1>3. Listing'
  <2>1. ASSUME NEW n \in Messages, inFlight'[n] # None
        PROVE  /\ inFlight'[n] \in queued' \union fetching' \union cleanups'
               /\ key'[inFlight'[n]] = n
    <3>1. CASE n = m
      BY <1>a, <1>b, <3>1 DEF Noted, TypeOK
    <3>2. CASE n # m
      <4>1. inFlight'[n] = inFlight[n] /\ inFlight[n] # None
        BY <1>b, <2>1, <3>2 DEF TypeOK
      <4>2. inFlight[n] \in queued \union fetching \union cleanups /\ key[inFlight[n]] = n
        BY <4>1 DEF Listing
      <4>3. inFlight[n] \in 1 .. made /\ key'[inFlight[n]] = n
        BY <1>a, <4>2 DEF Noted, TypeOK
      <4> QED BY <1>b, <3>2, <4>1, <4>2, <4>3
    <3> QED BY <3>1, <3>2
  <2>2. ASSUME NEW d \in queued' \union fetching'
        PROVE  destroyed' \/ d \in unlisted' \/ inFlight'[key'[d]] = d
    <3>1. CASE d = c
      BY <1>a, <1>b, <3>1 DEF Noted, TypeOK
    <3>2. CASE d # c
      BY <1>a, <1>b, <3>2 DEF Noted, TypeOK, Listing
    <3> QED BY <3>1, <3>2
  <2> QED BY <2>1, <2>2 DEF Listing
<1>4. NoCallForgotten'
  <2>1. \A d \in queued \ queued' : d \in unlisted
    BY <1>a, <1>b, Made DEF Noted, TypeOK, Listing
  <2> QED BY <1>a, <1>b, <1>c, <2>1, Made DEF Noted, TypeOK, Stages, NoCallForgotten, Outcomes
<1>5. SlotsCounted'
  BY <1>b DEF SlotsCounted
<1>6. SlotsBounded'
  <2>1. \A d \in fetching \union ending : priority'[d] = priority[d]
    BY <1>a DEF Noted, TypeOK
  <2> QED BY <1>b, <2>1, SlotsKept
<1>7. NoIdleSlot'
  BY <1>b DEF NoIdleSlot
<1>8. ClickSeen'
  BY <1>a, <1>b DEF Noted, TypeOK, ClickSeen
<1>9. ClickToldWhy'
  <2> SUFFICES ASSUME NEW d \in Clicks',
                      (IF promise'[d] = "shared" THEN promise'[owner'[d]]
                       ELSE promise'[d]) = "null"
               PROVE  \/ destroyed \/ owner'[d] \in cancelled
                      \/ priority'[owner'[d]] # "user-selected"
    BY <1>b DEF ClickToldWhy
  <2>1. CASE d = c
    BY <1>c, <2>1
  <2>2. CASE d # c
    <3>1. d \in Clicks /\ d \in 1 .. made /\ owner[d] \in 1 .. made
      BY <1>a, <2>2, Made DEF Noted, Clicks
    <3>2. (IF promise[d] = "shared" THEN promise[owner[d]] ELSE promise[d]) = "null"
      BY <1>a, <1>c, <2>2, <3>1 DEF Noted
    <3>3. \/ destroyed \/ owner[d] \in cancelled
          \/ priority[owner[d]] # "user-selected"
      BY <3>1, <3>2 DEF ClickToldWhy
    <3> QED BY <1>a, <1>c, <2>2, <3>1, <3>3 DEF Noted
  <2> QED BY <2>1, <2>2
<1>10. OneReadPerMessage'
  <2>1. \A d \in queued \union fetching \union ending : key[d] = m => d \in unlisted
    BY <1>a, <1>b, Made DEF Noted, TypeOK, Listing
  <2>2. /\ ending' = ending /\ \A d \in queued' \union fetching' \union ending' :
              d # c => /\ d \in queued \union fetching \union ending
                       /\ d \in 1 .. made /\ key'[d] = key[d]
    BY <1>a, <1>b DEF Noted, TypeOK
  <2> QED BY <1>a, <1>b, <2>1, <2>2 DEF Noted, OneReadPerMessage
<1> QED BY <1>1, <1>2, <1>3, <1>4, <1>5, <1>6, <1>7, <1>8, <1>9, <1>10

LEMMA ResolvesFromCacheInv ==
    ASSUME Inv, NEW c \in Calls,
           ResolvesFromCache(c)
    PROVE  Inv'
<1> USE PrefetchAssumption DEF Inv
<1>a. /\ UNCHANGED <<made, key, priority, owner, fetching, ending, activeCount,
                   clicking, inFlight, running, cached, warming, destroyed,
                   cancelled, unlisted>>
      /\ c \in queued /\ c \in 1 .. made /\ c \in Calls
      /\ queued' = queued \ {c} /\ cleanups' = cleanups \union {c}
  BY Made DEF ResolvesFromCache, IsHead, asks, world, TypeOK
<1>b. /\ promise' \in [Calls -> Outcomes \union {"unused", "waiting", "shared"}]
      /\ promise'[c] = "detail" /\ \A d \in Calls : d # c => promise'[d] = promise[d]
  BY <1>a DEF ResolvesFromCache, TypeOK, Outcomes
<1>1. TypeOK'
  BY <1>a, <1>b DEF TypeOK
<1>2. Stages'
  BY <1>a, <1>b, Made DEF TypeOK, Stages, Outcomes
<1>3. Listing'
  BY DEF TypeOK, Stages, Listing,
         ResolvesFromCache, asks, world, Idle
<1>4. NoCallForgotten'
  BY DEF TypeOK, Stages, Listing, NoCallForgotten, Calls, Outcomes,
         ResolvesFromCache, asks, world, Idle
<1>5. SlotsCounted'
  BY DEF TypeOK, Stages, SlotsCounted,
         ResolvesFromCache, asks, world, Idle
<1>6. SlotsBounded'
  BY DEF TypeOK, SlotsCounted, SlotsBounded,
         ResolvesFromCache, asks, world, Idle
<1>7. NoIdleSlot'
  BY DEF TypeOK, NoIdleSlot, HasRoom,
         ResolvesFromCache, asks, world, Idle
<1>8. ClickSeen'
  BY DEF TypeOK, Stages, ClickSeen,
         ResolvesFromCache, asks, world, Idle
<1>9. ClickToldWhy'
  BY DEF TypeOK, Stages, Listing, ClickToldWhy, Clicks, Calls, Outcomes,
         ResolvesFromCache, asks, world, Idle
<1>10. OneReadPerMessage'
  BY <1>a DEF OneReadPerMessage
<1> QED BY <1>1, <1>2, <1>3, <1>4, <1>5, <1>6, <1>7, <1>8, <1>9, <1>10

LEMMA StartsInv ==
    ASSUME Inv, NEW c \in Calls,
           Starts(c)
    PROVE  Inv'
<1> USE PrefetchAssumption DEF Inv
<1>a. /\ UNCHANGED <<made, key, priority, owner, promise, ending, inFlight,
                   cleanups, running, cached, warming, destroyed, cancelled,
                   unlisted>>
      /\ c \in queued /\ c \in 1 .. made /\ c \in Calls
      /\ c \notin fetching /\ c \notin ending
      /\ queued' = queued \ {c} /\ fetching' = fetching \union {c}
      /\ activeCount' = activeCount + 1 /\ HasRoom(c)
      /\ clicking' \subseteq clicking \union {key[c]} /\ key[c] \in Messages
  BY Made DEF Starts, IsHead, asks, world, TypeOK, Stages
<1>1. TypeOK'
  BY <1>a DEF TypeOK
<1>2. Stages'
  BY <1>a, Made DEF TypeOK, Stages
<1>3. Listing'
  BY <1>a, Made DEF TypeOK, Listing
<1>4. NoCallForgotten'
  BY DEF TypeOK, Stages, Listing, NoCallForgotten, Calls, Outcomes,
         Starts, asks, world, Idle
<1>5. SlotsCounted'
  <2>1. (fetching \union ending)' = (fetching \union ending) \union {c}
    BY <1>a
  <2> QED BY <1>a, <2>1, Finite, FS_AddElement DEF SlotsCounted
<1>6. SlotsBounded'
  <2>1. IsFiniteSet(Unclicked) /\ Cardinality(Unclicked) \in Nat
        /\ Cardinality(Unclicked) <= activeCount
    BY Finite, FS_Subset, FS_CardinalityType DEF Unclicked, SlotsCounted
  <2>2. activeCount' <= MaxClicks
    BY <1>a DEF HasRoom, TypeOK
  <2>3. CASE priority[c] = "user-selected"
    <3>1. Unclicked' = Unclicked
      BY <1>a, <2>3 DEF Unclicked
    <3> QED BY <2>2, <3>1 DEF SlotsBounded, Unclicked
  <2>4. CASE priority[c] # "user-selected"
    <3>1. Unclicked' = Unclicked \union {c} /\ c \notin Unclicked
      BY <1>a, <2>4 DEF Unclicked
    <3>2. Cardinality(Unclicked') = Cardinality(Unclicked) + 1
      BY <2>1, <3>1, FS_AddElement
    <3>3. activeCount < MaxConcurrent
      BY <1>a, <2>4 DEF HasRoom
    <3>4. Cardinality(Unclicked') <= MaxConcurrent
      BY <2>1, <3>2, <3>3 DEF TypeOK
    <3> QED BY <2>2, <3>4 DEF SlotsBounded, Unclicked
  <2> QED BY <2>3, <2>4
<1>7. NoIdleSlot'
  BY DEF TypeOK, NoIdleSlot, HasRoom,
         Starts, asks, world, Idle
<1>8. ClickSeen'
  BY DEF TypeOK, Stages, ClickSeen,
         Starts, asks, world, Idle
<1>9. ClickToldWhy'
  BY DEF TypeOK, Stages, Listing, ClickToldWhy, Clicks, Calls, Outcomes,
         Starts, asks, world, Idle
<1>10. OneReadPerMessage'
  BY <1>a DEF OneReadPerMessage
<1> QED BY <1>1, <1>2, <1>3, <1>4, <1>5, <1>6, <1>7, <1>8, <1>9, <1>10

LEMMA RestsInv ==
    ASSUME Inv, Rests
    PROVE  Inv'
<1> USE PrefetchAssumption DEF Inv
<1>1. TypeOK'
  BY DEF TypeOK, Calls, Priorities, Outcomes,
         Rests, asks, world, Idle
<1>2. Stages'
  BY DEF TypeOK, Stages, Calls, Outcomes,
         Rests, asks, world, Idle
<1>3. Listing'
  BY DEF TypeOK, Stages, Listing,
         Rests, asks, world, Idle
<1>4. NoCallForgotten'
  BY DEF TypeOK, Stages, Listing, NoCallForgotten, Calls, Outcomes,
         Rests, asks, world, Idle
<1>5. SlotsCounted'
  BY DEF TypeOK, Stages, SlotsCounted,
         Rests, asks, world, Idle
<1>6. SlotsBounded'
  BY DEF TypeOK, SlotsCounted, SlotsBounded,
         Rests, asks, world, Idle
<1>7. NoIdleSlot'
  <2> SUFFICES ASSUME ~destroyed, NEW c \in queued, HasRoom(c) PROVE FALSE
    BY DEF Rests, NoIdleSlot, HasRoom, asks
  <2>1. PICK h \in queued : IsHead(h)
    BY HeadExists
  <2>2. ~HasRoom(h)
    BY <2>1 DEF Rests
  <2>3. Before(h, c)
    BY <2>1 DEF IsHead
  <2>4. priority[c] = "user-selected" => priority[h] = "user-selected"
    <3>1. priority[h] \in Priorities
      BY Made DEF TypeOK
    <3>2. priority[c] = "user-selected" =>
             /\ Weight[priority[c]] = 0 /\ Weight[priority[h]] = 0
      BY <2>3, <3>1 DEF Before, Weight, Priorities
    <3> QED BY <3>1, <3>2 DEF Weight, Priorities
  <2> QED BY <2>2, <2>4 DEF HasRoom, TypeOK
<1>8. ClickSeen'
  BY DEF TypeOK, Stages, ClickSeen,
         Rests, asks, world, Idle
<1>9. ClickToldWhy'
  BY DEF TypeOK, Stages, Listing, ClickToldWhy, Clicks, Calls, Outcomes,
         Rests, asks, world, Idle
<1>10. OneReadPerMessage'
  BY DEF Rests, asks, OneReadPerMessage
<1> QED BY <1>1, <1>2, <1>3, <1>4, <1>5, <1>6, <1>7, <1>8, <1>9, <1>10

LEMMA AnsweredInv ==
    ASSUME Inv, NEW c \in Calls, NEW outcome \in Outcomes,
           Answered(c, outcome)
    PROVE  Inv'
<1> USE PrefetchAssumption DEF Inv
<1>a. /\ UNCHANGED <<made, key, priority, owner, queued, activeCount, clicking,
                   inFlight, running, warming, destroyed, cancelled, unlisted>>
      /\ c \in fetching /\ c \in 1 .. made /\ c \in Calls
      /\ ending = {} /\ key[c] \in Messages
      /\ fetching' = fetching \ {c} /\ ending' = {c}
      /\ cleanups' = cleanups \union {c}
      /\ cached' \subseteq cached \union {key[c]}
  BY Made DEF Answered, Idle, asks, TypeOK
<1>b. /\ promise' \in [Calls -> Outcomes \union {"unused", "waiting", "shared"}]
      /\ promise'[c] = outcome /\ \A d \in Calls : d # c => promise'[d] = promise[d]
  BY <1>a DEF Answered, TypeOK
<1>1. TypeOK'
  BY <1>a, <1>b DEF TypeOK
<1>2. Stages'
  BY DEF TypeOK, Stages, Calls, Outcomes,
         Answered, asks, world, Idle
<1>3. Listing'
  BY DEF TypeOK, Stages, Listing,
         Answered, asks, world, Idle
<1>4. NoCallForgotten'
  BY DEF TypeOK, Stages, Listing, NoCallForgotten, Calls, Outcomes,
         Answered, asks, world, Idle
<1>5. SlotsCounted'
  <2>1. (fetching \union ending)' = fetching \union ending
    BY <1>a
  <2> QED BY <1>a, <2>1 DEF SlotsCounted
<1>6. SlotsBounded'
  BY DEF TypeOK, SlotsCounted, SlotsBounded,
         Answered, asks, world, Idle
<1>7. NoIdleSlot'
  BY DEF TypeOK, NoIdleSlot, HasRoom,
         Answered, asks, world, Idle
<1>8. ClickSeen'
  BY DEF TypeOK, Stages, ClickSeen,
         Answered, asks, world, Idle
<1>9. ClickToldWhy'
  <2> SUFFICES ASSUME NEW d \in Clicks,
                      (IF promise'[d] = "shared" THEN promise'[owner[d]]
                       ELSE promise'[d]) = "null"
               PROVE  \/ destroyed \/ owner[d] \in cancelled
                      \/ priority[owner[d]] # "user-selected"
    BY <1>a DEF ClickToldWhy, Clicks
  <2> DEFINE o == IF promise[d] = "shared" THEN owner[d] ELSE d
  <2>1. /\ d \in Calls /\ o \in Calls /\ o = owner[d]
        /\ promise'[d] = "shared" <=> promise[d] = "shared"
    BY <1>a, <1>b, Made DEF Clicks, Stages, Outcomes
  <2>2. promise'[o] = "null"
    BY <2>1
  <2>3. CASE o = c
    <3>1. outcome = "null"
      BY <1>b, <2>2, <2>3
    <3>2. priority[c] # "user-selected" \/ destroyed
      BY <3>1 DEF Answered, Answers
    <3> QED BY <2>1, <2>3, <3>2
  <2>4. CASE o # c
    BY <1>b, <2>1, <2>2, <2>4 DEF ClickToldWhy
  <2> QED BY <2>3, <2>4
<1>10. OneReadPerMessage'
  BY <1>a DEF OneReadPerMessage
<1> QED BY <1>1, <1>2, <1>3, <1>4, <1>5, <1>6, <1>7, <1>8, <1>9, <1>10

LEMMA CleansUpInv ==
    ASSUME Inv, NEW c \in Calls,
           CleansUp(c)
    PROVE  Inv'
<1> USE PrefetchAssumption DEF Inv
<1>a. /\ UNCHANGED <<made, key, priority, owner, promise, queued, fetching,
                   ending, activeCount, clicking, running, cached, warming,
                   destroyed, cancelled>>
      /\ c \in cleanups /\ c \in 1 .. made /\ c \in Calls /\ key[c] \in Messages
      /\ cleanups' = cleanups \ {c}
  BY Made DEF CleansUp, asks, world, TypeOK
<1>b. /\ inFlight' \in [Messages -> Calls \union {None}]
      /\ unlisted' \subseteq 1 .. made
  <2>1. inFlight[key[c]] # None => inFlight[key[c]] \in 1 .. made
    BY <1>a DEF TypeOK, Listing
  <2> QED BY <1>a, <2>1 DEF CleansUp, TypeOK
<1>1. TypeOK'
  BY <1>a, <1>b DEF TypeOK
<1>2. Stages'
  BY DEF TypeOK, Stages, Calls, Outcomes,
         CleansUp, asks, world, Idle
<1>3. Listing'
  BY DEF TypeOK, Stages, Listing,
         CleansUp, asks, world, Idle
<1>4. NoCallForgotten'
  BY DEF TypeOK, Stages, Listing, NoCallForgotten, Calls, Outcomes,
         CleansUp, asks, world, Idle
<1>5. SlotsCounted'
  BY DEF TypeOK, Stages, SlotsCounted,
         CleansUp, asks, world, Idle
<1>6. SlotsBounded'
  BY DEF TypeOK, SlotsCounted, SlotsBounded,
         CleansUp, asks, world, Idle
<1>7. NoIdleSlot'
  BY DEF TypeOK, NoIdleSlot, HasRoom,
         CleansUp, asks, world, Idle
<1>8. ClickSeen'
  BY DEF TypeOK, Stages, ClickSeen,
         CleansUp, asks, world, Idle
<1>9. ClickToldWhy'
  BY DEF TypeOK, Stages, Listing, ClickToldWhy, Clicks, Calls, Outcomes,
         CleansUp, asks, world, Idle
<1>10. OneReadPerMessage'
  BY <1>a DEF CleansUp, OneReadPerMessage
<1> QED BY <1>1, <1>2, <1>3, <1>4, <1>5, <1>6, <1>7, <1>8, <1>9, <1>10

LEMMA FinishesInv ==
    ASSUME Inv, NEW c \in Calls,
           Finishes(c)
    PROVE  Inv'
<1> USE PrefetchAssumption DEF Inv
<1>a. /\ UNCHANGED <<made, key, priority, owner, promise, queued, fetching,
                   inFlight, cleanups, cached, warming, destroyed, cancelled,
                   unlisted>>
      /\ c \in ending /\ c \in 1 .. made /\ c \in Calls /\ c \notin fetching
      /\ ending' = ending \ {c} /\ clicking' \subseteq clicking /\ running' = TRUE
      /\ activeCount' = activeCount - 1
  BY Made DEF Finishes, asks, world, TypeOK, Stages
<1>b. /\ activeCount' \in Nat
      /\ activeCount' = Cardinality((fetching \union ending)')
  <2>1. (fetching \union ending)' = (fetching \union ending) \ {c}
    BY <1>a
  <2>2. /\ Cardinality((fetching \union ending) \ {c})
             = Cardinality(fetching \union ending) - 1
        /\ IsFiniteSet((fetching \union ending) \ {c})
    BY <1>a, Finite, FS_RemoveElement
  <2> QED BY <1>a, <2>1, <2>2, FS_CardinalityType DEF SlotsCounted
<1>1. TypeOK'
  BY <1>a, <1>b DEF TypeOK
<1>2. Stages'
  BY DEF TypeOK, Stages, Calls, Outcomes,
         Finishes, asks, world, Idle
<1>3. Listing'
  BY DEF TypeOK, Stages, Listing,
         Finishes, asks, world, Idle
<1>4. NoCallForgotten'
  BY DEF TypeOK, Stages, Listing, NoCallForgotten, Calls, Outcomes,
         Finishes, asks, world, Idle
<1>5. SlotsCounted'
  BY <1>b DEF SlotsCounted
<1>6. SlotsBounded'
  <2>1. IsFiniteSet(Unclicked) /\ Unclicked' \subseteq Unclicked
    BY <1>a, Finite, FS_Subset DEF Unclicked
  <2>2. /\ Cardinality(Unclicked') <= Cardinality(Unclicked)
        /\ Cardinality(Unclicked') \in Nat /\ Cardinality(Unclicked) \in Nat
    BY <2>1, FS_Subset, FS_CardinalityType
  <2>3. activeCount' <= MaxClicks
    BY <1>a DEF TypeOK, SlotsBounded
  <2> QED BY <2>2, <2>3 DEF SlotsBounded, Unclicked
<1>7. NoIdleSlot'
  BY DEF TypeOK, NoIdleSlot, HasRoom,
         Finishes, asks, world, Idle
<1>8. ClickSeen'
  <2>1. /\ clicking' = IF priority[c] = "user-selected"
                          THEN clicking \ {key[c]} ELSE clicking
        /\ \A d \in fetching : key[d] = key[c] =>
              d \in unlisted \/ c \in unlisted
    BY <1>a DEF Finishes, OneReadPerMessage
  <2>2. ending' = {}
    BY <1>a DEF Stages
  <2> QED BY <1>a, <2>1, <2>2 DEF ClickSeen
<1>9. ClickToldWhy'
  BY DEF TypeOK, Stages, Listing, ClickToldWhy, Clicks, Calls, Outcomes,
         Finishes, asks, world, Idle
<1>10. OneReadPerMessage'
  BY <1>a DEF OneReadPerMessage
<1> QED BY <1>1, <1>2, <1>3, <1>4, <1>5, <1>6, <1>7, <1>8, <1>9, <1>10

LEMMA CancelsInv ==
    ASSUME Inv, NEW removed \in SUBSET queued,
           Cancels(removed)
    PROVE  Inv'
<1> USE PrefetchAssumption DEF Inv
<1>a. /\ UNCHANGED <<made, key, priority, owner, fetching, ending, activeCount,
                   clicking, running, cached, warming, destroyed>>
      /\ removed \subseteq queued /\ removed \subseteq 1 .. made
      /\ queued' = queued \ removed
      /\ cleanups' = cleanups \union removed
      /\ cancelled' = cancelled \union removed
      /\ inFlight' = [m \in Messages |->
                         IF \E c \in removed : key[c] = m THEN None
                         ELSE inFlight[m]]
      /\ unlisted' = unlisted \union ({inFlight[key[c]] : c \in removed}
                                        \ (removed \union {None}))
      /\ promise' = [c \in Calls |-> IF c \in removed THEN "null" ELSE promise[c]]
  BY DEF Cancels, asks, world, TypeOK
<1>1. TypeOK'
  <2>1. promise' \in [Calls -> Outcomes \union {"unused", "waiting", "shared"}]
    BY <1>a DEF TypeOK, Outcomes
  <2>2. inFlight' \in [Messages -> Calls \union {None}]
    BY <1>a DEF TypeOK
  <2>3. \A r \in removed : key[r] \in Messages
           /\ (inFlight[key[r]] # None => inFlight[key[r]] \in 1 .. made)
    BY <1>a DEF TypeOK, Listing
  <2>4. ASSUME NEW x \in unlisted' PROVE x \in 1 .. made
    <3>1. CASE x \in unlisted
      BY <3>1 DEF TypeOK
    <3>2. CASE x \notin unlisted
      <4>1. PICK r \in removed : x = inFlight[key[r]]
        BY <1>a, <3>2
      <4>2. x # None
        BY <1>a, <3>2
      <4> QED BY <2>3, <4>1, <4>2
    <3> QED BY <3>1, <3>2
  <2> QED BY <1>a, <2>1, <2>2, <2>4 DEF TypeOK
<1>2. Stages'
  BY DEF TypeOK, Stages, Calls, Outcomes,
         Cancels, asks, world, Idle
<1>3. Listing'
  <2>1. ASSUME NEW m \in Messages, inFlight'[m] # None
        PROVE  /\ inFlight'[m] \in queued' \union fetching' \union cleanups'
               /\ key'[inFlight'[m]] = m
    BY <1>a, <2>1 DEF Listing
  <2>2. ASSUME NEW d \in queued' \union fetching'
        PROVE  destroyed' \/ d \in unlisted' \/ inFlight'[key'[d]] = d
    <3>1. destroyed \/ d \in unlisted \/ inFlight[key[d]] = d
      BY <1>a, <2>2 DEF Listing
    <3>2. d \notin removed /\ d \in 1 .. made /\ key[d] \in Messages
      BY <1>a, <2>2 DEF TypeOK, Stages
    <3>3. CASE \E r \in removed : key[r] = key[d]
      <4>1. PICK r \in removed : key[r] = key[d]
        BY <3>3
      <4>2. inFlight[key[d]] = d => d \in unlisted'
        BY <1>a, <2>2, <3>2, <4>1, Made
      <4> QED BY <1>a, <3>1, <4>2
    <3>4. CASE ~\E r \in removed : key[r] = key[d]
      BY <1>a, <3>1, <3>2, <3>4
    <3> QED BY <3>3, <3>4
  <2> QED BY <2>1, <2>2 DEF Listing
<1>4. NoCallForgotten'
  BY DEF TypeOK, Stages, Listing, NoCallForgotten, Calls, Outcomes,
         Cancels, asks, world, Idle
<1>5. SlotsCounted'
  BY DEF TypeOK, Stages, SlotsCounted,
         Cancels, asks, world, Idle
<1>6. SlotsBounded'
  BY DEF TypeOK, SlotsCounted, SlotsBounded,
         Cancels, asks, world, Idle
<1>7. NoIdleSlot'
  BY DEF TypeOK, NoIdleSlot, HasRoom,
         Cancels, asks, world, Idle
<1>8. ClickSeen'
  BY DEF TypeOK, Stages, ClickSeen,
         Cancels, asks, world, Idle
<1>9. ClickToldWhy'
  BY DEF TypeOK, Stages, Listing, ClickToldWhy, Clicks, Calls, Outcomes,
         Cancels, asks, world, Idle
<1>10. OneReadPerMessage'
  BY <1>a DEF OneReadPerMessage
<1> QED BY <1>1, <1>2, <1>3, <1>4, <1>5, <1>6, <1>7, <1>8, <1>9, <1>10

LEMMA DestroyInv ==
    ASSUME Inv, destroy
    PROVE  Inv'
<1> USE PrefetchAssumption DEF Inv
<1>1. TypeOK'
  BY DEF TypeOK, Calls, Priorities, Outcomes,
         destroy, asks, world, Idle
<1>2. Stages'
  <2>1. \A d \in queued : promise'[d] = "null"
    BY Made DEF destroy, TypeOK
  <2>2. \A d \in Calls : d \notin queued => promise'[d] = promise[d]
    BY DEF destroy
  <2> QED BY <2>1, <2>2, Made DEF destroy, TypeOK, Stages, asks, Outcomes
<1>3. Listing'
  BY DEF TypeOK, Stages, Listing,
         destroy, asks, world, Idle
<1>4. NoCallForgotten'
  BY DEF TypeOK, Stages, Listing, NoCallForgotten, Calls, Outcomes,
         destroy, asks, world, Idle
<1>5. SlotsCounted'
  BY DEF TypeOK, Stages, SlotsCounted,
         destroy, asks, world, Idle
<1>6. SlotsBounded'
  BY DEF TypeOK, SlotsCounted, SlotsBounded,
         destroy, asks, world, Idle
<1>7. NoIdleSlot'
  BY DEF TypeOK, NoIdleSlot, HasRoom,
         destroy, asks, world, Idle
<1>8. ClickSeen'
  BY DEF TypeOK, Stages, ClickSeen,
         destroy, asks, world, Idle
<1>9. ClickToldWhy'
  BY DEF TypeOK, Stages, Listing, ClickToldWhy, Clicks, Calls, Outcomes,
         destroy, asks, world, Idle
<1>10. OneReadPerMessage'
  BY DEF destroy, asks, OneReadPerMessage
<1> QED BY <1>1, <1>2, <1>3, <1>4, <1>5, <1>6, <1>7, <1>8, <1>9, <1>10

LEMMA WarmsInv ==
    ASSUME Inv, NEW batch \in SUBSET Messages,
           Warms(batch)
    PROVE  Inv'
<1> USE PrefetchAssumption DEF Inv
<1>1. TypeOK'
  BY DEF TypeOK, Calls, Priorities, Outcomes,
         Warms, asks, world, Idle
<1>2. Stages'
  BY DEF TypeOK, Stages, Calls, Outcomes,
         Warms, asks, world, Idle
<1>3. Listing'
  BY DEF TypeOK, Stages, Listing,
         Warms, asks, world, Idle
<1>4. NoCallForgotten'
  BY DEF TypeOK, Stages, Listing, NoCallForgotten, Calls, Outcomes,
         Warms, asks, world, Idle
<1>5. SlotsCounted'
  BY DEF TypeOK, Stages, SlotsCounted,
         Warms, asks, world, Idle
<1>6. SlotsBounded'
  BY DEF TypeOK, SlotsCounted, SlotsBounded,
         Warms, asks, world, Idle
<1>7. NoIdleSlot'
  BY DEF TypeOK, NoIdleSlot, HasRoom,
         Warms, asks, world, Idle
<1>8. ClickSeen'
  BY DEF TypeOK, Stages, ClickSeen,
         Warms, asks, world, Idle
<1>9. ClickToldWhy'
  BY DEF TypeOK, Stages, Listing, ClickToldWhy, Clicks, Calls, Outcomes,
         Warms, asks, world, Idle
<1>10. OneReadPerMessage'
  BY DEF Warms, asks, OneReadPerMessage
<1> QED BY <1>1, <1>2, <1>3, <1>4, <1>5, <1>6, <1>7, <1>8, <1>9, <1>10

LEMMA WarmedInv ==
    ASSUME Inv, NEW bodies \in SUBSET Messages,
           Warmed(bodies)
    PROVE  Inv'
<1> USE PrefetchAssumption DEF Inv
<1>1. TypeOK'
  BY DEF TypeOK, Calls, Priorities, Outcomes,
         Warmed, asks, world, Idle
<1>2. Stages'
  BY DEF TypeOK, Stages, Calls, Outcomes,
         Warmed, asks, world, Idle
<1>3. Listing'
  BY DEF TypeOK, Stages, Listing,
         Warmed, asks, world, Idle
<1>4. NoCallForgotten'
  BY DEF TypeOK, Stages, Listing, NoCallForgotten, Calls, Outcomes,
         Warmed, asks, world, Idle
<1>5. SlotsCounted'
  BY DEF TypeOK, Stages, SlotsCounted,
         Warmed, asks, world, Idle
<1>6. SlotsBounded'
  BY DEF TypeOK, SlotsCounted, SlotsBounded,
         Warmed, asks, world, Idle
<1>7. NoIdleSlot'
  BY DEF TypeOK, NoIdleSlot, HasRoom,
         Warmed, asks, world, Idle
<1>8. ClickSeen'
  BY DEF TypeOK, Stages, ClickSeen,
         Warmed, asks, world, Idle
<1>9. ClickToldWhy'
  BY DEF TypeOK, Stages, Listing, ClickToldWhy, Clicks, Calls, Outcomes,
         Warmed, asks, world, Idle
<1>10. OneReadPerMessage'
  BY DEF Warmed, asks, OneReadPerMessage
<1> QED BY <1>1, <1>2, <1>3, <1>4, <1>5, <1>6, <1>7, <1>8, <1>9, <1>10

LEMMA EvictsInv ==
    ASSUME Inv, NEW m \in Messages,
           Evicts(m)
    PROVE  Inv'
<1> USE PrefetchAssumption DEF Inv
<1>1. TypeOK'
  BY DEF TypeOK, Calls, Priorities, Outcomes,
         Evicts, asks, world, Idle
<1>2. Stages'
  BY DEF TypeOK, Stages, Calls, Outcomes,
         Evicts, asks, world, Idle
<1>3. Listing'
  BY DEF TypeOK, Stages, Listing,
         Evicts, asks, world, Idle
<1>4. NoCallForgotten'
  BY DEF TypeOK, Stages, Listing, NoCallForgotten, Calls, Outcomes,
         Evicts, asks, world, Idle
<1>5. SlotsCounted'
  BY DEF TypeOK, Stages, SlotsCounted,
         Evicts, asks, world, Idle
<1>6. SlotsBounded'
  BY DEF TypeOK, SlotsCounted, SlotsBounded,
         Evicts, asks, world, Idle
<1>7. NoIdleSlot'
  BY DEF TypeOK, NoIdleSlot, HasRoom,
         Evicts, asks, world, Idle
<1>8. ClickSeen'
  BY DEF TypeOK, Stages, ClickSeen,
         Evicts, asks, world, Idle
<1>9. ClickToldWhy'
  BY DEF TypeOK, Stages, Listing, ClickToldWhy, Clicks, Calls, Outcomes,
         Evicts, asks, world, Idle
<1>10. OneReadPerMessage'
  BY DEF Evicts, asks, OneReadPerMessage
<1> QED BY <1>1, <1>2, <1>3, <1>4, <1>5, <1>6, <1>7, <1>8, <1>9, <1>10

LEMMA StutterInv == Inv /\ UNCHANGED vars => Inv'
<1> SUFFICES ASSUME Inv, UNCHANGED vars PROVE Inv'
  OBVIOUS
<1> USE DEF Inv, vars
<1>1. TypeOK' /\ Stages'
  BY DEF TypeOK, Stages
<1>2. Listing' /\ OneReadPerMessage' /\ NoCallForgotten'
  BY DEF Listing, OneReadPerMessage, NoCallForgotten
<1>3. SlotsCounted' /\ SlotsBounded' /\ NoIdleSlot'
  BY DEF SlotsCounted, SlotsBounded, NoIdleSlot, HasRoom
<1>4. ClickSeen' /\ ClickToldWhy'
  BY DEF ClickSeen, ClickToldWhy, Clicks
<1> QED BY <1>1, <1>2, <1>3, <1>4

LEMMA NextInv == Inv /\ [Next]_vars => Inv'
<1> SUFFICES ASSUME Inv, [Next]_vars PROVE Inv'
  OBVIOUS
<1>1. ASSUME NEW c \in Calls, NEW m \in Messages, NEW p \in Asked,
             AnsweredAtOnce(c, m, p) \/ Shares(c, m, p) \/ Queues(c, m, p)
      PROVE  Inv'
  <2>1. p \in Priorities
    BY PrefetchAssumption
  <2> QED BY <1>1, <2>1, AnsweredAtOnceInv, SharesInv, QueuesInv
<1>2. ASSUME NEW c \in Calls, ResolvesFromCache(c) \/ Starts(c)
                              \/ CleansUp(c) \/ Finishes(c)
      PROVE  Inv'
  BY <1>2, ResolvesFromCacheInv, StartsInv, CleansUpInv, FinishesInv
<1>3. ASSUME NEW c \in Calls, NEW o \in Outcomes, Answered(c, o) PROVE Inv'
  BY <1>3, AnsweredInv
<1>4. CASE Rests
  BY <1>4, RestsInv
<1>5. CASE cancelBackground
  BY <1>5, CancelsInv DEF cancelBackground
<1>6. ASSUME NEW f \in Folders, cancelForFolder(f) PROVE Inv'
  BY <1>6, CancelsInv DEF cancelForFolder
<1>7. CASE destroy
  BY <1>7, DestroyInv
<1>8. ASSUME NEW b \in SUBSET Messages, Warms(b) \/ Warmed(b) PROVE Inv'
  BY <1>8, WarmsInv, WarmedInv
<1>9. ASSUME NEW m \in Messages, Evicts(m) PROVE Inv'
  BY <1>9, EvictsInv
<1>10. CASE UNCHANGED vars
  BY <1>10, StutterInv
<1> QED BY <1>1, <1>2, <1>3, <1>4, <1>5, <1>6, <1>7, <1>8, <1>9, <1>10 DEF Next

\* The invariant of the queue: slots are counted and bounded, no slot idles
\* while an item could use it, every waiting caller has an item, and a message
\* is read once at a time.
THEOREM Invariance == Spec => []Inv
<1>1. Init => Inv
  BY InitInv
<1>2. Inv /\ [Next]_vars => Inv'
  BY NextInv
<1> QED BY <1>1, <1>2, PTL DEF Spec

\* A message is read once at a time, but for an item that lost its entry.
THEOREM ReadOnce == Spec => []OneReadPerMessage
<1>1. Inv => OneReadPerMessage
  BY DEF Inv
<1> QED BY <1>1, Invariance, PTL

\* Clicks get past the two slots of the others, up to the limit of their own.
THEOREM Bounded == Spec => []SlotsBounded
<1>1. Inv => SlotsBounded
  BY DEF Inv
<1> QED BY <1>1, Invariance, PTL

\* Why a click may be told null.
THEOREM ToldWhy == Spec => []ClickToldWhy
<1>1. Inv => ClickToldWhy
  BY DEF Inv
<1> QED BY <1>1, Invariance, PTL

\* Warming stands down for a click the queue knows of, and the queue knows of
\* every click whose item is its own.
THEOREM WarmingYields == Spec => WarmYields
<1> DEFINE Yields ==
      warming = {} /\ warming' # {} =>
         \A c \in Clicks :
            \/ promise[owner[c]] # "waiting"
            \/ priority[owner[c]] # "user-selected"
            \/ \E d \in unlisted : key[d] = key[owner[c]]
<1>1. ASSUME Inv, Next PROVE Yields
  <2> SUFFICES ASSUME warming = {}, warming' # {},
                      NEW c \in Clicks, promise[owner[c]] = "waiting",
                      priority[owner[c]] = "user-selected"
               PROVE  \E d \in unlisted : key[d] = key[owner[c]]
    OBVIOUS
  <2>1. PICK b \in SUBSET Messages : Warms(b)
    BY <1>1 DEF Next, AnsweredAtOnce, Shares, Queues, ResolvesFromCache, Starts,
                Rests, Answered, CleansUp, Finishes, cancelBackground,
                cancelForFolder, Cancels, destroy, Warmed, Evicts, world
  <2>2. clicking = {} /\ \A d \in queued : priority[d] # "user-selected"
    BY <2>1 DEF Warms, hasUserSelectedPending
  <2>3. owner[c] \in 1 .. made
    BY <1>1, Made DEF Clicks
  <2>4. owner[c] \in fetching \union unlisted
    BY <1>1, <2>2, <2>3 DEF Inv, NoCallForgotten
  <2>5. CASE owner[c] \in unlisted
    BY <2>5
  <2>6. CASE owner[c] \in fetching
    BY <1>1, <2>2, <2>6 DEF Inv, ClickSeen
  <2> QED BY <2>4, <2>5, <2>6
<1>2. Inv /\ [Next]_vars => [Yields]_vars
  BY <1>1
<1> QED BY <1>2, Invariance, PTL DEF Spec, WarmYields

=============================================================================
