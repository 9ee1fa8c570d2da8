------------------------- MODULE ScheduledListProofs -------------------------
(***************************************************************************)
(* For every set of tabs, composers and attempt keys: the invariant of     *)
(* ScheduledList is inductive, its safety properties follow, and           *)
(* ScheduledList implements SendConsent with a purge standing for the      *)
(* author's consent.                                                       *)
(***************************************************************************)
EXTENDS ScheduledList, TLAPS

-----------------------------------------------------------------------------
(* Types *)

\* Every action keeps every variable in its type.
LEMMA TypeStep ==
  ASSUME TypeOK, KeyInv, CallerInv, [Next]_vars
  PROVE  TypeOK'
<1> USE ScheduledListAssumption DEF TypeOK, PCs, pages, server, history, GiveUp, Observe
<1>1. ASSUME NEW c \in Callers, Submit(c) PROVE TypeOK'
  BY <1>1 DEF Submit
<1>2. ASSUME NEW c \in Callers, RetainExisting(c) PROVE TypeOK'
  BY <1>2 DEF RetainExisting
<1>3. ASSUME NEW c \in Callers, RetainNew(c) PROVE TypeOK'
  BY <1>3 DEF RetainNew
<1>4. ASSUME NEW c \in Callers, RetainThrows(c) \/ Abandon(c) PROVE TypeOK'
  BY <1>4 DEF RetainThrows, Abandon
<1>5. ASSUME NEW c \in Callers, Post(c) PROVE TypeOK'
  BY <1>5 DEF Post, KeyInv, CallerInv
<1>6. ASSUME NEW c \in Callers, Scheduled(c) \/ AcknowledgeFails(c) PROVE TypeOK'
  BY <1>6 DEF Scheduled, AcknowledgeFails
<1>7. ASSUME NEW c \in Callers, Acknowledge(c) PROVE TypeOK'
  BY <1>7 DEF Acknowledge, CallerInv
<1>8. ASSUME NEW c \in Callers, Close(c) PROVE TypeOK'
  BY <1>8 DEF Close, CallerInv
<1>9. ASSUME NEW a \in Attempts, Arrive(a) PROVE TypeOK'
  BY <1>9 DEF Arrive
<1>10. ASSUME NEW t \in Tabs, LoadPage(t) PROVE TypeOK'
  <2>1. marker' \in 0 .. MaxEpoch /\ epoch' \in 0 .. MaxEpoch
    BY <1>10 DEF LoadPage
  <2> QED
    BY <1>10, <2>1 DEF LoadPage
<1>11. ASSUME NEW t \in Tabs, Invalidate(t) PROVE TypeOK'
  BY <1>11 DEF Invalidate, Purge
<1>12. CASE OtherUserLoads
  BY <1>12 DEF OtherUserLoads, Purge
<1>13. CASE StorageDamaged
  BY <1>13 DEF StorageDamaged
<1>14. CASE UNCHANGED vars
  BY <1>14 DEF vars
<1> QED
  BY <1>1, <1>2, <1>3, <1>4, <1>5, <1>6, <1>7, <1>8, <1>9, <1>10, <1>11, <1>12, <1>13, <1>14
  DEF Next, Composer

-----------------------------------------------------------------------------
(* One lemma per kind of step *)

Kept == KeyInv /\ LiveInv /\ CallerInv

\* Keys and the storage that holds them, which many steps leave alone.
keys == <<intent, wire, rows, used, posted, acked, purged, strays>>

\* A composer that only advances or gives up.
LEMMA AdvanceStep ==
  ASSUME Inv, NEW c \in Callers,
         Submit(c) \/ RetainThrows(c) \/ Abandon(c) \/ Scheduled(c) \/ AcknowledgeFails(c)
           \/ Close(c)
  PROVE  Kept'
<1> USE DEF server, history, GiveUp
<1>1. UNCHANGED keys
  BY DEF keys, Submit, RetainThrows, Abandon, Scheduled, AcknowledgeFails, Close
<1>2. \A d \in Callers : \/ pc'[d] = pc[d] /\ att'[d] = att[d]
                         \/ pc'[d] \in {"hash", "idle"}
                         \/ att'[d] = att[d] /\ pc'[d] = "close" /\ pc[d] = "ack"
                         \/ att'[d] = att[d] /\ pc'[d] = "ack" /\ pc[d] = "post" /\ att[d] \in rows
  BY DEF Submit, RetainThrows, Abandon, Scheduled, AcknowledgeFails, Close, Inv, TypeOK
<1>3. KeyInv' /\ LiveInv'
  BY <1>1 DEF keys, Inv, KeyInv, LiveInv, Live
<1>4. CallerInv'
  BY <1>1, <1>2 DEF keys, Inv, CallerInv
<1> QED
  BY <1>3, <1>4 DEF Kept

\* The stored key is used again.
LEMMA RetainExistingStep ==
  ASSUME Inv, NEW c \in Callers, RetainExisting(c)
  PROVE  Kept'
<1> USE DEF RetainExisting, server, history, Inv, TypeOK
<1>1. KeyInv' /\ LiveInv'
  BY DEF KeyInv, LiveInv, Live
<1>2. CallerInv'
  BY DEF CallerInv, KeyInv
<1> QED
  BY <1>1, <1>2 DEF Kept

\* With nothing stored nothing is live, so the fresh key is alone.
LEMMA RetainNewStep ==
  ASSUME Inv, NEW c \in Callers, RetainNew(c)
  PROVE  Kept'
<1> USE DEF RetainNew, server, history, GiveUp, Inv, TypeOK
<1>1. Live = {}
  BY ScheduledListAssumption DEF Live, LiveInv
<1>2. PICK a \in Attempts \ used : used' = used \cup {a} /\ intent' = a
  OBVIOUS
<1>3. KeyInv'
  BY <1>2 DEF KeyInv
<1>4. Live' = {a}
  BY <1>1, <1>2 DEF Live, KeyInv
<1>5. LiveInv'
  BY <1>2, <1>4 DEF LiveInv
<1>6. CallerInv'
  BY <1>2 DEF CallerInv
<1> QED
  BY <1>3, <1>5, <1>6 DEF Kept

\* The request leaves; a key already purged is a stray from now on.
LEMMA PostStep ==
  ASSUME Inv, NEW c \in Callers, Post(c)
  PROVE  Kept'
<1> USE DEF Post, server, history, Inv, TypeOK
<1>1. KeyInv'
  BY DEF KeyInv, CallerInv
<1>2. LiveInv'
  BY DEF LiveInv, Live
<1>3. CallerInv'
  BY DEF CallerInv
<1> QED
  BY <1>1, <1>2, <1>3 DEF Kept

\* The stored key is acknowledged: it was live, so nothing is live any more.
LEMMA AcknowledgeStep ==
  ASSUME Inv, NEW c \in Callers, Acknowledge(c)
  PROVE  Kept'
<1> USE DEF Acknowledge, server, history, Inv, TypeOK
<1>1. KeyInv'
  BY ScheduledListAssumption DEF KeyInv, CallerInv
<1>2. CallerInv'
  BY DEF CallerInv
<1>3. CASE UNCHANGED <<intent, acked>>
  BY <1>1, <1>2, <1>3 DEF Kept, LiveInv, Live
<1>4. CASE acked' = acked \cup {att[c]} /\ intent = att[c]
  <2>1. intent \in Attempts
    BY <1>4 DEF CallerInv
  <2>2. Live' = {}
    BY <1>4, <2>1, ScheduledListAssumption DEF Live, LiveInv
  <2> QED
    BY <1>1, <1>2, <2>2 DEF Kept, LiveInv
<1> QED
  BY <1>3, <1>4

\* A purge leaves nothing live.
LEMMA PurgeStep ==
  ASSUME Inv, OtherUserLoads \/ \E t \in Tabs : Invalidate(t)
  PROVE  Kept'
<1> USE DEF server, history, Inv, TypeOK
<1>1. Purge /\ UNCHANGED <<pc, att, wire, rows, used, posted, acked, strays>>
  BY DEF OtherUserLoads, Invalidate
<1>2. KeyInv'
  BY <1>1, ScheduledListAssumption DEF Purge, KeyInv
<1>3. Live' = {}
  BY <1>1 DEF Purge, Live
<1>4. LiveInv'
  BY <1>3 DEF LiveInv
<1>5. CallerInv'
  BY <1>1 DEF CallerInv
<1> QED
  BY <1>2, <1>4, <1>5 DEF Kept

\* Pages that load, damage to storage, and requests that arrive.
LEMMA OutsideStep ==
  ASSUME Inv,
         \/ StorageDamaged
         \/ \E a \in Attempts : Arrive(a)
         \/ \E t \in Tabs : LoadPage(t)
  PROVE  Kept'
<1> USE ScheduledListAssumption DEF server, history, Inv, TypeOK
<1>1. CASE StorageDamaged
  BY <1>1 DEF StorageDamaged, Kept, KeyInv, LiveInv, Live, CallerInv
<1>2. ASSUME NEW a \in Attempts, Arrive(a) PROVE Kept'
  BY <1>2 DEF Arrive, Kept, KeyInv, LiveInv, Live, CallerInv
<1>3. ASSUME NEW t \in Tabs, LoadPage(t) PROVE Kept'
  BY <1>3 DEF LoadPage, Kept, KeyInv, LiveInv, Live, CallerInv
<1> QED
  BY <1>1, <1>2, <1>3

-----------------------------------------------------------------------------
(* The theorems *)

LEMMA InvInit == Init => Inv
  BY ScheduledListAssumption
  DEF Init, Inv, TypeOK, PCs, KeyInv, LiveInv, Live, CallerInv

LEMMA InvStep == Inv /\ [Next]_vars => Inv'
<1> SUFFICES ASSUME Inv, [Next]_vars PROVE Inv'
  OBVIOUS
<1>1. TypeOK'
  BY TypeStep DEF Inv
<1>2. Kept'
  <2>1. CASE UNCHANGED vars
    BY <2>1 DEF vars, server, history, Inv, Kept, KeyInv, LiveInv, Live, CallerInv
  <2>2. ASSUME NEW c \in Callers, Composer(c) PROVE Kept'
    BY <2>2, AdvanceStep, RetainExistingStep, RetainNewStep, PostStep, AcknowledgeStep
    DEF Composer
  <2> QED
    BY <2>1, <2>2, PurgeStep, OutsideStep DEF Next
<1> QED
  BY <1>1, <1>2 DEF Inv, Kept

\* The invariant of ScheduledList holds for ever, for every set of tabs,
\* composers and keys.
THEOREM Invariance == Spec => []Inv
<1>1. Init => Inv
  BY InvInit
<1>2. Inv /\ [Next]_vars => Inv'
  BY InvStep
<1> QED
  BY <1>1, <1>2, PTL DEF Spec

\* retainScheduledListIntent and submitScheduledEmail keep every variable in
\* its type.
THEOREM Typing == Spec => []TypeOK
<1>1. Inv => TypeOK
  BY DEF Inv
<1> QED
  BY <1>1, Invariance, PTL

\* Between two purges at most one key of a request is open: a retry from any
\* tab carries the key the first request carried.
THEOREM OneOpen == Spec => []OneOpenKey
<1>1. Inv => OneOpenKey
  BY DEF Inv, KeyInv, LiveInv, Live, OneOpenKey, Open
<1> QED
  BY <1>1, Invariance, PTL

\* An open key is still in storage, where the next retainScheduledListIntent
\* finds it.
THEOREM OpenIsStored == Spec => []OpenKeyIsStored
<1>1. Inv => OpenKeyIsStored
  BY DEF Inv, KeyInv, LiveInv, Live, OpenKeyIsStored, Open
<1> QED
  BY <1>1, Invariance, PTL

-----------------------------------------------------------------------------
(* Refinement *)

\* A request of a key that was not purged is a Send: every other key that
\* left a browser is acknowledged or purged.
LEMMA PostSends ==
  ASSUME Inv, NEW c \in Callers, Post(c)
  PROVE  [Promise!Next]_(Promise!vars)
<1> USE DEF Post, Inv, TypeOK, KeyInv
<1>1. att[c] \in used /\ att[c] \in Attempts
  BY DEF CallerInv
<1>2. UNCHANGED <<rows, acked, purged>>
  BY DEF server, history
<1>3. CASE att[c] \in posted \cup purged
  <2>1. posted' \ strays' = posted \ strays /\ rows \ strays' = rows \ strays
    BY <1>3
  <2> QED
    BY <1>2, <2>1 DEF Promise!vars
<1>4. CASE att[c] \notin posted \cup purged
  <2>1. att[c] \in Live /\ strays' = strays
    BY <1>1, <1>4 DEF Live
  <2>2. \A a \in posted : a \in acked \cup purged
    BY <1>4, <2>1 DEF LiveInv, Live
  <2>3. posted' \ strays' = (posted \ strays) \cup {att[c]}
    BY <1>4, <2>1
  <2>4. Promise!Send(att[c])
    BY <1>2, <1>4, <2>1, <2>2, <2>3 DEF Promise!Send, Promise!Closed
  <2> QED
    BY <1>1, <2>4 DEF Promise!Next
<1> QED
  BY <1>3, <1>4

\* A purge waives the one live key, if there is one.
LEMMA PurgeWaives ==
  ASSUME Inv, Purge, UNCHANGED <<posted, strays, rows, acked>>
  PROVE  [Promise!Next]_(Promise!vars)
<1> USE DEF Inv, TypeOK, KeyInv
<1>1. purged' = purged \cup Live
  BY DEF Purge, Live
<1>2. CASE Live = {}
  BY <1>1, <1>2 DEF Promise!vars
<1>3. CASE Live # {}
  <2>1. PICK a \in Live : Live = {a}
    BY <1>3 DEF LiveInv
  <2>2. a \in Attempts
    BY DEF Live
  <2>3. Promise!Waive(a)
    BY <1>1, <2>1 DEF Promise!Waive
  <2> QED
    BY <2>2, <2>3 DEF Promise!Next
<1> QED
  BY <1>2, <1>3

\* ScheduledList implements SendConsent when a purge counts as consent: the
\* purge is the only way to two rows for one request.
THEOREM Refinement == Spec => PromiseUnlessPurged
<1>1. Init => Promise!Init
  BY DEF Init, Promise!Init
<1>2. Inv /\ [Next]_vars => [Promise!Next]_(Promise!vars)
  <2> SUFFICES ASSUME Inv, [Next]_vars PROVE [Promise!Next]_(Promise!vars)
    OBVIOUS
  <2> USE DEF server, history
  <2>1. CASE UNCHANGED <<posted, strays, rows, acked, purged>>
    BY <2>1 DEF Promise!vars
  <2>2. ASSUME NEW c \in Callers, Post(c) PROVE [Promise!Next]_(Promise!vars)
    BY <2>2, PostSends
  <2>3. ASSUME NEW c \in Callers, Acknowledge(c) PROVE [Promise!Next]_(Promise!vars)
    <3>1. CASE UNCHANGED acked
      BY <2>3, <3>1 DEF Acknowledge, Promise!vars
    <3>2. CASE acked' = acked \cup {att[c]} /\ intent = att[c]
      <4>1. att[c] \in Attempts /\ att[c] \in rows /\ att[c] \notin strays
        BY <2>3, <3>2 DEF Acknowledge, Inv, TypeOK, KeyInv, CallerInv
      <4>2. Promise!Acknowledge(att[c])
        BY <2>3, <3>2, <4>1 DEF Acknowledge, Promise!Acknowledge
      <4> QED
        BY <4>1, <4>2 DEF Promise!Next
    <3> QED
      BY <2>3, <3>1, <3>2 DEF Acknowledge
  <2>4. ASSUME NEW a \in Attempts, Arrive(a) PROVE [Promise!Next]_(Promise!vars)
    <3>1. CASE a \in strays \/ UNCHANGED rows
      BY <2>4, <3>1 DEF Arrive, Promise!vars
    <3>2. CASE a \notin strays /\ rows' = rows \cup {a}
      <4>1. Promise!Deliver(a)
        BY <2>4, <3>2 DEF Arrive, Inv, KeyInv, Promise!Deliver
      <4> QED
        BY <4>1 DEF Promise!Next
    <3> QED
      BY <2>4, <3>1, <3>2 DEF Arrive
  <2>5. CASE OtherUserLoads
    BY <2>5, PurgeWaives DEF OtherUserLoads
  <2>6. ASSUME NEW t \in Tabs, Invalidate(t) PROVE [Promise!Next]_(Promise!vars)
    BY <2>6, PurgeWaives DEF Invalidate
  <2> QED
    BY <2>1, <2>2, <2>3, <2>4, <2>5, <2>6
    DEF Next, Composer, vars, Submit, RetainExisting, RetainNew, RetainThrows, Abandon,
        Scheduled, AcknowledgeFails, Close, LoadPage, StorageDamaged
<1> QED
  BY <1>1, <1>2, Invariance, PTL DEF Spec, PromiseUnlessPurged, Promise!Spec
=============================================================================
