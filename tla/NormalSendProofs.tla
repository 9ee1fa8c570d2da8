-------------------------- MODULE NormalSendProofs --------------------------
(***************************************************************************)
(* For every set of tabs, composers and attempt keys: the invariant of     *)
(* NormalSend is inductive, its safety properties follow, and NormalSend   *)
(* implements SendConsent.                                                 *)
(***************************************************************************)
EXTENDS NormalSend, TLAPS

LEMMA TypeInit == Init => TypeOK
  BY NormalSendAssumption DEF Init, TypeOK, PCs, Running, Locked, Requesting, NoReply

\* A settling request leaves the callers and the lock in their types.
LEMMA FinishType ==
  ASSUME TypeOK, NEW c \in Callers, NEW b \in BOOLEAN, Finish(c, b)
  PROVE  /\ lock' \in Callers \cup {NoCaller}
         /\ pc' \in [Callers -> PCs]
         /\ att' \in [Callers -> Attempts \cup {NoAttempt}]
         /\ reply' \in [Callers -> Outcomes \cup {NoReply}]
         /\ consent' \in [Callers -> Attempts \cup {NoAttempt}]
         /\ late' \in [Callers -> BOOLEAN]
  BY DEF TypeOK, Finish, Released, PCs, NoReply

LEMMA RememberType ==
  ASSUME TypeOK, KeyInv, NEW c \in Callers, Remember(c), pc[c] \in Locked,
         UNCHANGED <<intent, marker, epoch, cap, server, used, posted, acked, waived>>
  PROVE  TypeOK'
<1>1. Finish(c, reply[c] = "accepted" /\ intent # Corrupt)
  BY DEF Remember
<1>2. remembered' \in [Tabs -> SUBSET Attempts]
  BY NormalSendAssumption DEF Remember, TypeOK, KeyInv
<1> QED
  BY <1>1, <1>2, FinishType DEF TypeOK, server

\* Every action keeps every variable in its type.
LEMMA TypeStep ==
  ASSUME TypeOK, KeyInv, [Next]_vars
  PROVE  TypeOK'
<1> USE NormalSendAssumption DEF TypeOK, PCs, Running, Locked, Requesting, NoReply, Outcomes,
      browser, server, history, vars
<1>1. ASSUME NEW c \in Callers, Press(c) PROVE TypeOK'
  BY <1>1 DEF Press
<1>2. ASSUME NEW c \in Callers, Start(c) PROVE TypeOK'
  BY <1>2 DEF Start
<1>3. ASSUME NEW c \in Callers, HashThrow(c) PROVE TypeOK'
  BY <1>3 DEF HashThrow
<1>4. ASSUME NEW c \in Callers, GrantFirst(c) PROVE TypeOK'
  BY <1>4 DEF GrantFirst, NewAttempt
<1>5. ASSUME NEW c \in Callers, GrantExisting(c) PROVE TypeOK'
  BY <1>5 DEF GrantExisting
<1>6. ASSUME NEW c \in Callers, FirstStatus(c) PROVE TypeOK'
  BY <1>6, RememberType DEF FirstStatus
<1>7. ASSUME NEW c \in Callers, Agree(c) PROVE TypeOK'
  BY <1>7 DEF Agree
<1>8. ASSUME NEW c \in Callers, Decline(c) PROVE TypeOK'
  BY <1>8, FinishType DEF Decline
<1>9. ASSUME NEW c \in Callers, SecondStatusRetry(c) PROVE TypeOK'
  BY <1>9 DEF SecondStatusRetry, NewAttempt
<1>10. ASSUME NEW c \in Callers, SecondStatusSettled(c) PROVE TypeOK'
  BY <1>10, RememberType DEF SecondStatusSettled
<1>11. ASSUME NEW c \in Callers, Transmit(c) PROVE TypeOK'
  BY <1>11 DEF Transmit, KeyInv
<1>12. ASSUME NEW c \in Callers, Receipt(c) PROVE TypeOK'
  BY <1>12, RememberType DEF Receipt
<1>13. ASSUME NEW c \in Callers, PostLost(c) PROVE TypeOK'
  BY <1>13 DEF PostLost
<1>14. ASSUME NEW c \in Callers, Throw(c) PROVE TypeOK'
  BY <1>14, FinishType DEF Throw
<1>15. ASSUME NEW c \in Callers, StoredThenThrow(c) PROVE TypeOK'
  BY <1>15, FinishType DEF StoredThenThrow
<1>16. ASSUME NEW c \in Callers, Acknowledge(c) PROVE TypeOK'
  BY <1>16 DEF KeyInv, Acknowledge, CloseComposer, LeaveComposer, AckGrant, AckFails
<1>17. ASSUME Server PROVE TypeOK'
  BY <1>17 DEF Server, Arrive, Lose, Settle, Answer
<1>18. ASSUME Page PROVE TypeOK'
  <2>1. ASSUME NEW t \in Tabs, LoadPage(t) PROVE TypeOK'
    <3>1. marker' \in 0 .. MaxEpoch /\ epoch' \in 0 .. MaxEpoch
      BY <2>1 DEF LoadPage
    <3>2. /\ pc' \in [Callers -> PCs]
          /\ att' \in [Callers -> Attempts \cup {NoAttempt}]
          /\ reply' \in [Callers -> Outcomes \cup {NoReply}]
          /\ consent' \in [Callers -> Attempts \cup {NoAttempt}]
          /\ late' \in [Callers -> BOOLEAN]
      BY <2>1 DEF LoadPage
    <3> QED
      BY <2>1, <3>1, <3>2 DEF LoadPage
  <2> QED
    BY <1>18, <2>1 DEF Page, PrincipalChanges, StorageDamaged
<1>19. CASE UNCHANGED vars
  BY <1>19
<1> HIDE DEF TypeOK, vars
<1> QED
  BY <1>1, <1>2, <1>3, <1>4, <1>5, <1>6, <1>7, <1>8, <1>9, <1>10, <1>11, <1>12,
     <1>13, <1>14, <1>15, <1>16, <1>17, <1>18, <1>19 DEF Next, Send

\* What a page load does to each caller, pointwise.
LEMMA LoadFacts ==
  ASSUME TypeOK, NEW t \in Tabs, LoadPage(t)
  PROVE  /\ \A c \in Callers :
              IF TabOf[c] = t
              THEN /\ pc'[c] = "idle" /\ att'[c] = NoAttempt /\ reply'[c] = NoReply
                   /\ consent'[c] = NoAttempt /\ late'[c] = FALSE
              ELSE /\ pc'[c] = pc[c] /\ att'[c] = att[c] /\ reply'[c] = reply[c]
                   /\ consent'[c] = consent[c] /\ late'[c] = late[c]
         /\ lock' = IF lock \in Callers /\ TabOf[lock] = t THEN NoCaller ELSE lock
         /\ remembered' = [remembered EXCEPT ![t] = {}]
         /\ UNCHANGED <<intent, wire, srv, used, posted, acked, waived>>
  BY DEF LoadPage, TypeOK, server

\* At every step the holder of the lock is the caller inside sendLocked.
LEMMA LockStep ==
  ASSUME Inv, [Next]_vars
  PROVE  LockInv'
<1> USE NormalSendAssumption DEF Inv, TypeOK, LockInv, PCs, Running, Locked,
      Requesting, NoReply, browser, server, history, vars
<1>1. ASSUME NEW c \in Callers, Press(c) PROVE LockInv'
  BY <1>1 DEF Press
<1>2. ASSUME NEW c \in Callers, Start(c) PROVE LockInv'
  BY <1>2 DEF Start
<1>3. ASSUME NEW c \in Callers, HashThrow(c) PROVE LockInv'
  BY <1>3 DEF HashThrow
<1>4. ASSUME NEW c \in Callers, GrantFirst(c) PROVE LockInv'
  BY <1>4 DEF GrantFirst, NewAttempt
<1>5. ASSUME NEW c \in Callers, GrantExisting(c) PROVE LockInv'
  BY <1>5 DEF GrantExisting
<1>6. ASSUME NEW c \in Callers, FirstStatus(c) PROVE LockInv'
  BY <1>6 DEF FirstStatus, Remember, Finish, Released, Sharers
<1>7. ASSUME NEW c \in Callers, Agree(c) PROVE LockInv'
  BY <1>7 DEF Agree
<1>8. ASSUME NEW c \in Callers, Decline(c) PROVE LockInv'
  BY <1>8 DEF Decline, Finish, Released, Sharers
<1>9. ASSUME NEW c \in Callers, SecondStatusRetry(c) PROVE LockInv'
  BY <1>9 DEF SecondStatusRetry, NewAttempt
<1>10. ASSUME NEW c \in Callers, SecondStatusSettled(c) PROVE LockInv'
  BY <1>10 DEF SecondStatusSettled, Remember, Finish, Released, Sharers
<1>11. ASSUME NEW c \in Callers, Transmit(c) PROVE LockInv'
  BY <1>11 DEF Transmit
<1>12. ASSUME NEW c \in Callers, Receipt(c) PROVE LockInv'
  BY <1>12 DEF Receipt, Remember, Finish, Released, Sharers
<1>13. ASSUME NEW c \in Callers, PostLost(c) PROVE LockInv'
  BY <1>13 DEF PostLost
<1>14. ASSUME NEW c \in Callers, Throw(c) PROVE LockInv'
  BY <1>14 DEF Throw, Finish, Released, Sharers
<1>15. ASSUME NEW c \in Callers, StoredThenThrow(c) PROVE LockInv'
  BY <1>15 DEF StoredThenThrow, Finish, Released, Sharers
<1>16. ASSUME NEW c \in Callers, Acknowledge(c) PROVE LockInv'
  BY <1>16 DEF Acknowledge, CloseComposer, LeaveComposer, AckGrant, AckFails
<1>17. CASE Server
  BY <1>17 DEF Server, Arrive, Lose, Settle, Answer
<1>18. CASE PrincipalChanges
  BY <1>18 DEF PrincipalChanges
<1>19. CASE StorageDamaged
  BY <1>19 DEF StorageDamaged
<1>20. ASSUME NEW t \in Tabs, LoadPage(t) PROVE LockInv'
  <2> HIDE DEF TypeOK, Requesting, Locked, Running, PCs, browser, server, history, vars
  <2>1. "idle" \notin Requesting /\ "idle" \notin Locked
    BY DEF Requesting, Locked
  <2>2. TypeOK
    BY DEF Inv
  <2>3. /\ \A c \in Callers :
              IF TabOf[c] = t
              THEN /\ pc'[c] = "idle" /\ att'[c] = NoAttempt /\ reply'[c] = NoReply
                   /\ consent'[c] = NoAttempt /\ late'[c] = FALSE
              ELSE /\ pc'[c] = pc[c] /\ att'[c] = att[c] /\ reply'[c] = reply[c]
                   /\ consent'[c] = consent[c] /\ late'[c] = late[c]
        /\ lock' = IF lock \in Callers /\ TabOf[lock] = t THEN NoCaller ELSE lock
        /\ remembered' = [remembered EXCEPT ![t] = {}]
        /\ UNCHANGED <<intent, wire, srv, used, posted, acked, waived>>
    BY <1>20, <2>2, LoadFacts
  <2>4. ASSUME NEW c \in Callers PROVE pc'[c] \in Locked <=> lock' = c
    <3>1. CASE TabOf[c] = t
      BY <2>1, <2>3, <3>1
    <3>2. CASE TabOf[c] # t
      BY <2>3, <3>2
    <3> QED
      BY <3>1, <3>2
  <2> QED
    BY <2>4
<1>21. CASE UNCHANGED vars
  BY <1>21
<1> HIDE DEF Inv, TypeOK, vars
<1> QED
  BY <1>1, <1>2, <1>3, <1>4, <1>5, <1>6, <1>7, <1>8, <1>9, <1>10, <1>11, <1>12, <1>13,
     <1>14, <1>15, <1>16, <1>17, <1>18, <1>19, <1>20, <1>21 DEF Next, Send, Page

\* Keys stay drawn before used, posted before known to the server.
LEMMA KeyStep ==
  ASSUME Inv, [Next]_vars
  PROVE  KeyInv'
<1> USE NormalSendAssumption DEF Inv, TypeOK, LockInv, KeyInv, PCs, Running, Locked,
      Requesting, NoReply, browser, server, history, vars
<1>1. ASSUME NEW c \in Callers, Press(c) PROVE KeyInv'
  BY <1>1 DEF Press
<1>2. ASSUME NEW c \in Callers, Start(c) PROVE KeyInv'
  BY <1>2 DEF Start
<1>3. ASSUME NEW c \in Callers, HashThrow(c) PROVE KeyInv'
  BY <1>3 DEF HashThrow
<1>4. ASSUME NEW c \in Callers, GrantFirst(c) PROVE KeyInv'
  <2>1. UNCHANGED <<posted, acked, wire, srv>>
    BY <1>4 DEF GrantFirst
  <2>2. PICK a \in Attempts \ used :
          /\ used' = used \cup {a}
          /\ intent' = a
          /\ att' = [att EXCEPT ![c] = a]
          /\ pc' = [pc EXCEPT ![c] = "persisted"]
          /\ waived' = waived \cup ({consent[c]} \ {NoAttempt})
    BY <1>4 DEF GrantFirst, NewAttempt
  <2>3. consent[c] \in used \cup {NoAttempt}
    BY <1>4 DEF GrantFirst, ConsentInv
  <2>4. waived' \subseteq used'
    BY <2>2, <2>3
  <2>5. \A d \in Callers : pc'[d] \in Locked \cup {"done", "ack"} => att'[d] \in used'
    BY <2>2
  <2> QED
    BY <2>1, <2>2, <2>4, <2>5
<1>5. ASSUME NEW c \in Callers, GrantExisting(c) PROVE KeyInv'
  BY <1>5 DEF GrantExisting
<1>6. ASSUME NEW c \in Callers, FirstStatus(c) PROVE KeyInv'
  BY <1>6 DEF FirstStatus, Remember, Finish, Released, Sharers
<1>7. ASSUME NEW c \in Callers, Agree(c) PROVE KeyInv'
  BY <1>7 DEF Agree
<1>8. ASSUME NEW c \in Callers, Decline(c) PROVE KeyInv'
  BY <1>8 DEF Decline, Finish, Released, Sharers
<1>9. ASSUME NEW c \in Callers, SecondStatusRetry(c) PROVE KeyInv'
  <2>1. UNCHANGED <<posted, acked, wire, srv>>
    BY <1>9 DEF SecondStatusRetry
  <2>2. PICK a \in Attempts \ used :
          /\ used' = used \cup {a}
          /\ intent' = a
          /\ att' = [att EXCEPT ![c] = a]
          /\ pc' = [pc EXCEPT ![c] = "persisted"]
          /\ waived' = waived \cup ({consent[c]} \ {NoAttempt})
    BY <1>9 DEF SecondStatusRetry, NewAttempt
  <2>3. consent[c] \in used \cup {NoAttempt}
    BY <1>9 DEF SecondStatusRetry, ConsentInv
  <2>4. waived' \subseteq used'
    BY <2>2, <2>3
  <2>5. \A d \in Callers : pc'[d] \in Locked \cup {"done", "ack"} => att'[d] \in used'
    BY <2>2
  <2> QED
    BY <2>1, <2>2, <2>4, <2>5
<1>10. ASSUME NEW c \in Callers, SecondStatusSettled(c) PROVE KeyInv'
  BY <1>10 DEF SecondStatusSettled, Remember, Finish, Released, Sharers
<1>11. ASSUME NEW c \in Callers, Transmit(c) PROVE KeyInv'
  BY <1>11 DEF Transmit
<1>12. ASSUME NEW c \in Callers, Receipt(c) PROVE KeyInv'
  BY <1>12 DEF Receipt, Remember, Finish, Released, Sharers
<1>13. ASSUME NEW c \in Callers, PostLost(c) PROVE KeyInv'
  BY <1>13 DEF PostLost
<1>14. ASSUME NEW c \in Callers, Throw(c) PROVE KeyInv'
  BY <1>14 DEF Throw, Finish, Released, Sharers
<1>15. ASSUME NEW c \in Callers, StoredThenThrow(c) PROVE KeyInv'
  BY <1>15 DEF StoredThenThrow, Finish, Released, Sharers
<1>16. ASSUME NEW c \in Callers, Acknowledge(c) PROVE KeyInv'
  BY <1>16 DEF Acknowledge, CloseComposer, LeaveComposer, AckGrant, AckFails
<1>17. CASE Server
  BY <1>17 DEF Server, Arrive, Lose, Settle, Answer
<1>18. CASE PrincipalChanges
  BY <1>18 DEF PrincipalChanges
<1>19. CASE StorageDamaged
  BY <1>19 DEF StorageDamaged
<1>20. ASSUME NEW t \in Tabs, LoadPage(t) PROVE KeyInv'
  BY <1>20, LoadFacts
<1>21. CASE UNCHANGED vars
  BY <1>21
<1> HIDE DEF Inv, TypeOK, vars
<1> QED
  BY <1>1, <1>2, <1>3, <1>4, <1>5, <1>6, <1>7, <1>8, <1>9, <1>10, <1>11, <1>12, <1>13,
     <1>14, <1>15, <1>16, <1>17, <1>18, <1>19, <1>20, <1>21 DEF Next, Send, Page

\* A POST leaves only when nothing else is open.
LEMMA OneOpenStep ==
  ASSUME Inv, [Next]_vars
  PROVE  OneOpenAttempt'
<1> USE NormalSendAssumption DEF Inv, TypeOK, LockInv, KeyInv, PersistedInv,
      OneOpenAttempt, Open, PCs, Running, Locked,
      Requesting, NoReply, browser, server, history, vars
<1>1. ASSUME NEW c \in Callers, Press(c) PROVE OneOpenAttempt'
  BY <1>1 DEF Press
<1>2. ASSUME NEW c \in Callers, Start(c) PROVE OneOpenAttempt'
  BY <1>2 DEF Start
<1>3. ASSUME NEW c \in Callers, HashThrow(c) PROVE OneOpenAttempt'
  BY <1>3 DEF HashThrow
<1>4. ASSUME NEW c \in Callers, GrantFirst(c) PROVE OneOpenAttempt'
  BY <1>4 DEF GrantFirst, NewAttempt
<1>5. ASSUME NEW c \in Callers, GrantExisting(c) PROVE OneOpenAttempt'
  BY <1>5 DEF GrantExisting
<1>6. ASSUME NEW c \in Callers, FirstStatus(c) PROVE OneOpenAttempt'
  BY <1>6 DEF FirstStatus, Remember, Finish, Released, Sharers
<1>7. ASSUME NEW c \in Callers, Agree(c) PROVE OneOpenAttempt'
  BY <1>7 DEF Agree
<1>8. ASSUME NEW c \in Callers, Decline(c) PROVE OneOpenAttempt'
  BY <1>8 DEF Decline, Finish, Released, Sharers
<1>9. ASSUME NEW c \in Callers, SecondStatusRetry(c) PROVE OneOpenAttempt'
  BY <1>9 DEF SecondStatusRetry, NewAttempt
<1>10. ASSUME NEW c \in Callers, SecondStatusSettled(c) PROVE OneOpenAttempt'
  BY <1>10 DEF SecondStatusSettled, Remember, Finish, Released, Sharers
<1>11. ASSUME NEW c \in Callers, Transmit(c) PROVE OneOpenAttempt'
  BY <1>11 DEF Transmit
<1>12. ASSUME NEW c \in Callers, Receipt(c) PROVE OneOpenAttempt'
  BY <1>12 DEF Receipt, Remember, Finish, Released, Sharers
<1>13. ASSUME NEW c \in Callers, PostLost(c) PROVE OneOpenAttempt'
  BY <1>13 DEF PostLost
<1>14. ASSUME NEW c \in Callers, Throw(c) PROVE OneOpenAttempt'
  BY <1>14 DEF Throw, Finish, Released, Sharers
<1>15. ASSUME NEW c \in Callers, StoredThenThrow(c) PROVE OneOpenAttempt'
  BY <1>15 DEF StoredThenThrow, Finish, Released, Sharers
<1>16. ASSUME NEW c \in Callers, Acknowledge(c) PROVE OneOpenAttempt'
  BY <1>16 DEF Acknowledge, CloseComposer, LeaveComposer, AckGrant, AckFails
<1>17. CASE Server
  BY <1>17 DEF Server, Arrive, Lose, Settle, Answer
<1>18. CASE PrincipalChanges
  BY <1>18 DEF PrincipalChanges
<1>19. CASE StorageDamaged
  BY <1>19 DEF StorageDamaged
<1>20. ASSUME NEW t \in Tabs, LoadPage(t) PROVE OneOpenAttempt'
  BY <1>20, LoadFacts
<1>21. CASE UNCHANGED vars
  BY <1>21
<1> HIDE DEF Inv, TypeOK, vars
<1> QED
  BY <1>1, <1>2, <1>3, <1>4, <1>5, <1>6, <1>7, <1>8, <1>9, <1>10, <1>11, <1>12, <1>13,
     <1>14, <1>15, <1>16, <1>17, <1>18, <1>19, <1>20, <1>21 DEF Next, Send, Page

\* Only an acknowledgement or the author's agreement parts storage from an open attempt.
LEMMA StoredStep ==
  ASSUME Inv, [Next]_vars
  PROVE  OpenAttemptIsStored'
<1> USE NormalSendAssumption DEF Inv, TypeOK, LockInv, KeyInv, PersistedInv, ConsentInv,
      OpenAttemptIsStored, Open, PCs, Running, Locked,
      Requesting, NoReply, browser, server, history, vars
<1>1. ASSUME NEW c \in Callers, Press(c) PROVE OpenAttemptIsStored'
  BY <1>1 DEF Press
<1>2. ASSUME NEW c \in Callers, Start(c) PROVE OpenAttemptIsStored'
  BY <1>2 DEF Start
<1>3. ASSUME NEW c \in Callers, HashThrow(c) PROVE OpenAttemptIsStored'
  BY <1>3 DEF HashThrow
<1>4. ASSUME NEW c \in Callers, GrantFirst(c) PROVE OpenAttemptIsStored'
  BY <1>4 DEF GrantFirst, NewAttempt
<1>5. ASSUME NEW c \in Callers, GrantExisting(c) PROVE OpenAttemptIsStored'
  BY <1>5 DEF GrantExisting
<1>6. ASSUME NEW c \in Callers, FirstStatus(c) PROVE OpenAttemptIsStored'
  BY <1>6 DEF FirstStatus, Remember, Finish, Released, Sharers
<1>7. ASSUME NEW c \in Callers, Agree(c) PROVE OpenAttemptIsStored'
  BY <1>7 DEF Agree
<1>8. ASSUME NEW c \in Callers, Decline(c) PROVE OpenAttemptIsStored'
  BY <1>8 DEF Decline, Finish, Released, Sharers
<1>9. ASSUME NEW c \in Callers, SecondStatusRetry(c) PROVE OpenAttemptIsStored'
  BY <1>9 DEF SecondStatusRetry, NewAttempt
<1>10. ASSUME NEW c \in Callers, SecondStatusSettled(c) PROVE OpenAttemptIsStored'
  BY <1>10 DEF SecondStatusSettled, Remember, Finish, Released, Sharers
<1>11. ASSUME NEW c \in Callers, Transmit(c) PROVE OpenAttemptIsStored'
  BY <1>11 DEF Transmit
<1>12. ASSUME NEW c \in Callers, Receipt(c) PROVE OpenAttemptIsStored'
  BY <1>12 DEF Receipt, Remember, Finish, Released, Sharers
<1>13. ASSUME NEW c \in Callers, PostLost(c) PROVE OpenAttemptIsStored'
  BY <1>13 DEF PostLost
<1>14. ASSUME NEW c \in Callers, Throw(c) PROVE OpenAttemptIsStored'
  BY <1>14 DEF Throw, Finish, Released, Sharers
<1>15. ASSUME NEW c \in Callers, StoredThenThrow(c) PROVE OpenAttemptIsStored'
  BY <1>15 DEF StoredThenThrow, Finish, Released, Sharers
<1>16. ASSUME NEW c \in Callers, Acknowledge(c) PROVE OpenAttemptIsStored'
  BY <1>16 DEF Acknowledge, CloseComposer, LeaveComposer, AckGrant, AckFails
<1>17. CASE Server
  BY <1>17 DEF Server, Arrive, Lose, Settle, Answer
<1>18. CASE PrincipalChanges
  BY <1>18 DEF PrincipalChanges
<1>19. CASE StorageDamaged
  BY <1>19 DEF StorageDamaged
<1>20. ASSUME NEW t \in Tabs, LoadPage(t) PROVE OpenAttemptIsStored'
  BY <1>20, LoadFacts
<1>21. CASE UNCHANGED vars
  BY <1>21
<1> HIDE DEF Inv, TypeOK, vars
<1> QED
  BY <1>1, <1>2, <1>3, <1>4, <1>5, <1>6, <1>7, <1>8, <1>9, <1>10, <1>11, <1>12, <1>13,
     <1>14, <1>15, <1>16, <1>17, <1>18, <1>19, <1>20, <1>21 DEF Next, Send, Page

\* A persisted key stays alone until its POST leaves.
LEMMA PersistedStep ==
  ASSUME Inv, [Next]_vars
  PROVE  PersistedInv'
<1> USE NormalSendAssumption DEF Inv, TypeOK, LockInv, KeyInv, OpenAttemptIsStored,
      PersistedInv, ConsentInv, Open, PCs, Running, Locked,
      Requesting, NoReply, browser, server, history, vars
<1>1. ASSUME NEW c \in Callers, Press(c) PROVE PersistedInv'
  BY <1>1 DEF Press
<1>2. ASSUME NEW c \in Callers, Start(c) PROVE PersistedInv'
  BY <1>2 DEF Start
<1>3. ASSUME NEW c \in Callers, HashThrow(c) PROVE PersistedInv'
  BY <1>3 DEF HashThrow
<1>4. ASSUME NEW c \in Callers, GrantFirst(c) PROVE PersistedInv'
  BY <1>4 DEF GrantFirst, NewAttempt
<1>5. ASSUME NEW c \in Callers, GrantExisting(c) PROVE PersistedInv'
  BY <1>5 DEF GrantExisting
<1>6. ASSUME NEW c \in Callers, FirstStatus(c) PROVE PersistedInv'
  BY <1>6 DEF FirstStatus, Remember, Finish, Released, Sharers
<1>7. ASSUME NEW c \in Callers, Agree(c) PROVE PersistedInv'
  BY <1>7 DEF Agree
<1>8. ASSUME NEW c \in Callers, Decline(c) PROVE PersistedInv'
  BY <1>8 DEF Decline, Finish, Released, Sharers
<1>9. ASSUME NEW c \in Callers, SecondStatusRetry(c) PROVE PersistedInv'
  BY <1>9 DEF SecondStatusRetry, NewAttempt
<1>10. ASSUME NEW c \in Callers, SecondStatusSettled(c) PROVE PersistedInv'
  BY <1>10 DEF SecondStatusSettled, Remember, Finish, Released, Sharers
<1>11. ASSUME NEW c \in Callers, Transmit(c) PROVE PersistedInv'
  BY <1>11 DEF Transmit
<1>12. ASSUME NEW c \in Callers, Receipt(c) PROVE PersistedInv'
  BY <1>12 DEF Receipt, Remember, Finish, Released, Sharers
<1>13. ASSUME NEW c \in Callers, PostLost(c) PROVE PersistedInv'
  BY <1>13 DEF PostLost
<1>14. ASSUME NEW c \in Callers, Throw(c) PROVE PersistedInv'
  BY <1>14 DEF Throw, Finish, Released, Sharers
<1>15. ASSUME NEW c \in Callers, StoredThenThrow(c) PROVE PersistedInv'
  BY <1>15 DEF StoredThenThrow, Finish, Released, Sharers
<1>16. ASSUME NEW c \in Callers, Acknowledge(c) PROVE PersistedInv'
  BY <1>16 DEF Acknowledge, CloseComposer, LeaveComposer, AckGrant, AckFails
<1>17. CASE Server
  BY <1>17 DEF Server, Arrive, Lose, Settle, Answer
<1>18. CASE PrincipalChanges
  BY <1>18 DEF PrincipalChanges
<1>19. CASE StorageDamaged
  BY <1>19 DEF StorageDamaged
<1>20. ASSUME NEW t \in Tabs, LoadPage(t) PROVE PersistedInv'
  BY <1>20, LoadFacts
<1>21. CASE UNCHANGED vars
  BY <1>21
<1> HIDE DEF Inv, TypeOK, vars
<1> QED
  BY <1>1, <1>2, <1>3, <1>4, <1>5, <1>6, <1>7, <1>8, <1>9, <1>10, <1>11, <1>12, <1>13,
     <1>14, <1>15, <1>16, <1>17, <1>18, <1>19, <1>20, <1>21 DEF Next, Send, Page

\* Agreement does not outlive the second status.
LEMMA ConsentStep ==
  ASSUME Inv, [Next]_vars
  PROVE  ConsentInv'
<1> USE NormalSendAssumption DEF Inv, TypeOK, LockInv, KeyInv, ConsentInv, PCs, Running, Locked,
      Requesting, NoReply, browser, server, history, vars
<1>1. ASSUME NEW c \in Callers, Press(c) PROVE ConsentInv'
  BY <1>1 DEF Press
<1>2. ASSUME NEW c \in Callers, Start(c) PROVE ConsentInv'
  BY <1>2 DEF Start
<1>3. ASSUME NEW c \in Callers, HashThrow(c) PROVE ConsentInv'
  BY <1>3 DEF HashThrow
<1>4. ASSUME NEW c \in Callers, GrantFirst(c) PROVE ConsentInv'
  BY <1>4 DEF GrantFirst, NewAttempt
<1>5. ASSUME NEW c \in Callers, GrantExisting(c) PROVE ConsentInv'
  BY <1>5 DEF GrantExisting
<1>6. ASSUME NEW c \in Callers, FirstStatus(c) PROVE ConsentInv'
  BY <1>6 DEF FirstStatus, Remember, Finish, Released, Sharers
<1>7. ASSUME NEW c \in Callers, Agree(c) PROVE ConsentInv'
  BY <1>7 DEF Agree
<1>8. ASSUME NEW c \in Callers, Decline(c) PROVE ConsentInv'
  BY <1>8 DEF Decline, Finish, Released, Sharers
<1>9. ASSUME NEW c \in Callers, SecondStatusRetry(c) PROVE ConsentInv'
  BY <1>9 DEF SecondStatusRetry, NewAttempt
<1>10. ASSUME NEW c \in Callers, SecondStatusSettled(c) PROVE ConsentInv'
  BY <1>10 DEF SecondStatusSettled, Remember, Finish, Released, Sharers
<1>11. ASSUME NEW c \in Callers, Transmit(c) PROVE ConsentInv'
  BY <1>11 DEF Transmit
<1>12. ASSUME NEW c \in Callers, Receipt(c) PROVE ConsentInv'
  BY <1>12 DEF Receipt, Remember, Finish, Released, Sharers
<1>13. ASSUME NEW c \in Callers, PostLost(c) PROVE ConsentInv'
  BY <1>13 DEF PostLost
<1>14. ASSUME NEW c \in Callers, Throw(c) PROVE ConsentInv'
  BY <1>14 DEF Throw, Finish, Released, Sharers
<1>15. ASSUME NEW c \in Callers, StoredThenThrow(c) PROVE ConsentInv'
  BY <1>15 DEF StoredThenThrow, Finish, Released, Sharers
<1>16. ASSUME NEW c \in Callers, Acknowledge(c) PROVE ConsentInv'
  BY <1>16 DEF Acknowledge, CloseComposer, LeaveComposer, AckGrant, AckFails
<1>17. CASE Server
  BY <1>17 DEF Server, Arrive, Lose, Settle, Answer
<1>18. CASE PrincipalChanges
  BY <1>18 DEF PrincipalChanges
<1>19. CASE StorageDamaged
  BY <1>19 DEF StorageDamaged
<1>20. ASSUME NEW t \in Tabs, LoadPage(t) PROVE ConsentInv'
  BY <1>20, LoadFacts
<1>21. CASE UNCHANGED vars
  BY <1>21
<1> HIDE DEF Inv, TypeOK, vars
<1> QED
  BY <1>1, <1>2, <1>3, <1>4, <1>5, <1>6, <1>7, <1>8, <1>9, <1>10, <1>11, <1>12, <1>13,
     <1>14, <1>15, <1>16, <1>17, <1>18, <1>19, <1>20, <1>21 DEF Next, Send, Page

\* Receipts never claim more than the server accepted.
LEMMA ReceiptStep ==
  ASSUME Inv, [Next]_vars
  PROVE  ReceiptInv'
<1> USE NormalSendAssumption DEF Inv, TypeOK, LockInv, KeyInv, ReceiptInv,
      AckedWasDelivered, Outcomes, PCs, Running, Locked,
      Requesting, NoReply, browser, server, history, vars
<1>1. ASSUME NEW c \in Callers, Press(c) PROVE ReceiptInv'
  BY <1>1 DEF Press
<1>2. ASSUME NEW c \in Callers, Start(c) PROVE ReceiptInv'
  BY <1>2 DEF Start
<1>3. ASSUME NEW c \in Callers, HashThrow(c) PROVE ReceiptInv'
  BY <1>3 DEF HashThrow
<1>4. ASSUME NEW c \in Callers, GrantFirst(c) PROVE ReceiptInv'
  BY <1>4 DEF GrantFirst, NewAttempt
<1>5. ASSUME NEW c \in Callers, GrantExisting(c) PROVE ReceiptInv'
  BY <1>5 DEF GrantExisting
<1>6. ASSUME NEW c \in Callers, FirstStatus(c) PROVE ReceiptInv'
  BY <1>6 DEF FirstStatus, Remember, Finish, Released, Sharers
<1>7. ASSUME NEW c \in Callers, Agree(c) PROVE ReceiptInv'
  BY <1>7 DEF Agree
<1>8. ASSUME NEW c \in Callers, Decline(c) PROVE ReceiptInv'
  BY <1>8 DEF Decline, Finish, Released, Sharers
<1>9. ASSUME NEW c \in Callers, SecondStatusRetry(c) PROVE ReceiptInv'
  BY <1>9 DEF SecondStatusRetry, NewAttempt
<1>10. ASSUME NEW c \in Callers, SecondStatusSettled(c) PROVE ReceiptInv'
  BY <1>10 DEF SecondStatusSettled, Remember, Finish, Released, Sharers
<1>11. ASSUME NEW c \in Callers, Transmit(c) PROVE ReceiptInv'
  BY <1>11 DEF Transmit
<1>12. ASSUME NEW c \in Callers, Receipt(c) PROVE ReceiptInv'
  BY <1>12 DEF Receipt, Remember, Finish, Released, Sharers
<1>13. ASSUME NEW c \in Callers, PostLost(c) PROVE ReceiptInv'
  BY <1>13 DEF PostLost
<1>14. ASSUME NEW c \in Callers, Throw(c) PROVE ReceiptInv'
  BY <1>14 DEF Throw, Finish, Released, Sharers
<1>15. ASSUME NEW c \in Callers, StoredThenThrow(c) PROVE ReceiptInv'
  BY <1>15 DEF StoredThenThrow, Finish, Released, Sharers
<1>16. ASSUME NEW c \in Callers, Acknowledge(c) PROVE ReceiptInv'
  BY <1>16 DEF Acknowledge, CloseComposer, LeaveComposer, AckGrant, AckFails
<1>17. CASE Server
  BY <1>17 DEF Server, Arrive, Lose, Settle, Answer
<1>18. CASE PrincipalChanges
  BY <1>18 DEF PrincipalChanges
<1>19. CASE StorageDamaged
  BY <1>19 DEF StorageDamaged
<1>20. ASSUME NEW t \in Tabs, LoadPage(t) PROVE ReceiptInv'
  <2> HIDE DEF TypeOK, Requesting, Locked, Running, PCs, browser, server, history, vars
  <2>1. "idle" \notin Requesting /\ "idle" \notin Locked
    BY DEF Requesting, Locked
  <2>2. TypeOK
    BY DEF Inv
  <2>3. /\ \A c \in Callers :
              IF TabOf[c] = t
              THEN /\ pc'[c] = "idle" /\ att'[c] = NoAttempt /\ reply'[c] = NoReply
                   /\ consent'[c] = NoAttempt /\ late'[c] = FALSE
              ELSE /\ pc'[c] = pc[c] /\ att'[c] = att[c] /\ reply'[c] = reply[c]
                   /\ consent'[c] = consent[c] /\ late'[c] = late[c]
        /\ lock' = IF lock \in Callers /\ TabOf[lock] = t THEN NoCaller ELSE lock
        /\ remembered' = [remembered EXCEPT ![t] = {}]
        /\ UNCHANGED <<intent, wire, srv, used, posted, acked, waived>>
    BY <1>20, <2>2, LoadFacts
  <2> HIDE <1>20
  <2> QED
    BY <2>1, <2>2, <2>3
<1>21. CASE UNCHANGED vars
  BY <1>21
<1> HIDE DEF Inv, TypeOK, vars
<1> QED
  BY <1>1, <1>2, <1>3, <1>4, <1>5, <1>6, <1>7, <1>8, <1>9, <1>10, <1>11, <1>12, <1>13,
     <1>14, <1>15, <1>16, <1>17, <1>18, <1>19, <1>20, <1>21 DEF Next, Send, Page

\* After the agreement no answer forgets an acceptance.
LEMMA LateStep ==
  ASSUME Inv, [Next]_vars
  PROVE  LateInv'
<1> USE NormalSendAssumption DEF Inv, TypeOK, LockInv, KeyInv, ConsentInv, ReceiptInv,
      LateInv, retryNeedsConfirmation, Outcomes, PCs, Running, Locked,
      Requesting, NoReply, browser, server, history, vars
<1>1. ASSUME NEW c \in Callers, Press(c) PROVE LateInv'
  BY <1>1 DEF Press
<1>2. ASSUME NEW c \in Callers, Start(c) PROVE LateInv'
  BY <1>2 DEF Start
<1>3. ASSUME NEW c \in Callers, HashThrow(c) PROVE LateInv'
  BY <1>3 DEF HashThrow
<1>4. ASSUME NEW c \in Callers, GrantFirst(c) PROVE LateInv'
  BY <1>4 DEF GrantFirst, NewAttempt
<1>5. ASSUME NEW c \in Callers, GrantExisting(c) PROVE LateInv'
  BY <1>5 DEF GrantExisting
<1>6. ASSUME NEW c \in Callers, FirstStatus(c) PROVE LateInv'
  BY <1>6 DEF FirstStatus, Remember, Finish, Released, Sharers
<1>7. ASSUME NEW c \in Callers, Agree(c) PROVE LateInv'
  BY <1>7 DEF Agree
<1>8. ASSUME NEW c \in Callers, Decline(c) PROVE LateInv'
  BY <1>8 DEF Decline, Finish, Released, Sharers
<1>9. ASSUME NEW c \in Callers, SecondStatusRetry(c) PROVE LateInv'
  BY <1>9 DEF SecondStatusRetry, NewAttempt
<1>10. ASSUME NEW c \in Callers, SecondStatusSettled(c) PROVE LateInv'
  BY <1>10 DEF SecondStatusSettled, Remember, Finish, Released, Sharers
<1>11. ASSUME NEW c \in Callers, Transmit(c) PROVE LateInv'
  BY <1>11 DEF Transmit
<1>12. ASSUME NEW c \in Callers, Receipt(c) PROVE LateInv'
  BY <1>12 DEF Receipt, Remember, Finish, Released, Sharers
<1>13. ASSUME NEW c \in Callers, PostLost(c) PROVE LateInv'
  BY <1>13 DEF PostLost
<1>14. ASSUME NEW c \in Callers, Throw(c) PROVE LateInv'
  BY <1>14 DEF Throw, Finish, Released, Sharers
<1>15. ASSUME NEW c \in Callers, StoredThenThrow(c) PROVE LateInv'
  BY <1>15 DEF StoredThenThrow, Finish, Released, Sharers
<1>16. ASSUME NEW c \in Callers, Acknowledge(c) PROVE LateInv'
  BY <1>16 DEF Acknowledge, CloseComposer, LeaveComposer, AckGrant, AckFails
<1>17. CASE Server
  BY <1>17 DEF Server, Arrive, Lose, Settle, Answer
<1>18. CASE PrincipalChanges
  BY <1>18 DEF PrincipalChanges
<1>19. CASE StorageDamaged
  BY <1>19 DEF StorageDamaged
<1>20. ASSUME NEW t \in Tabs, LoadPage(t) PROVE LateInv'
  <2> HIDE DEF TypeOK, Requesting, Locked, Running, PCs, browser, server, history, vars
  <2>1. "idle" \notin Requesting /\ "idle" \notin Locked
    BY DEF Requesting, Locked
  <2>2. TypeOK
    BY DEF Inv
  <2>3. /\ \A c \in Callers :
              IF TabOf[c] = t
              THEN /\ pc'[c] = "idle" /\ att'[c] = NoAttempt /\ reply'[c] = NoReply
                   /\ consent'[c] = NoAttempt /\ late'[c] = FALSE
              ELSE /\ pc'[c] = pc[c] /\ att'[c] = att[c] /\ reply'[c] = reply[c]
                   /\ consent'[c] = consent[c] /\ late'[c] = late[c]
        /\ lock' = IF lock \in Callers /\ TabOf[lock] = t THEN NoCaller ELSE lock
        /\ remembered' = [remembered EXCEPT ![t] = {}]
        /\ UNCHANGED <<intent, wire, srv, used, posted, acked, waived>>
    BY <1>20, <2>2, LoadFacts
  <2> HIDE <1>20
  <2> QED
    BY <2>1, <2>2, <2>3
<1>21. CASE UNCHANGED vars
  BY <1>21
<1> HIDE DEF Inv, TypeOK, vars
<1> QED
  BY <1>1, <1>2, <1>3, <1>4, <1>5, <1>6, <1>7, <1>8, <1>9, <1>10, <1>11, <1>12, <1>13,
     <1>14, <1>15, <1>16, <1>17, <1>18, <1>19, <1>20, <1>21 DEF Next, Send, Page

LEMMA InvInit == Init => Inv
<1> SUFFICES ASSUME Init PROVE Inv
  OBVIOUS
<1>1. TypeOK
  BY TypeInit
<1>2. LockInv
  BY NormalSendAssumption DEF Init, LockInv, Locked, Requesting
<1>3. KeyInv /\ OneOpenAttempt /\ OpenAttemptIsStored /\ PersistedInv
  BY NormalSendAssumption DEF Init, KeyInv, OneOpenAttempt, OpenAttemptIsStored, PersistedInv,
     Locked, Requesting
<1>4. ConsentInv /\ ReceiptInv /\ LateInv
  BY DEF Init, ConsentInv, ReceiptInv, LateInv, AckedWasDelivered, NoReply
<1> QED
  BY <1>1, <1>2, <1>3, <1>4 DEF Inv

LEMMA InvStep == Inv /\ [Next]_vars => Inv'
<1> SUFFICES ASSUME Inv, [Next]_vars PROVE Inv'
  OBVIOUS
<1>1. TypeOK'
  BY TypeStep DEF Inv
<1> QED
  BY <1>1, LockStep, KeyStep, OneOpenStep, StoredStep, PersistedStep, ConsentStep,
     ReceiptStep, LateStep DEF Inv

\* The strengthened invariant of every behaviour of sendNormalEmail,
\* acknowledgeNormalSend, the composer and the pages around them.
THEOREM Invariance == Spec => []Inv
  BY InvInit, InvStep, PTL DEF Spec

\* Every variable keeps its type.
THEOREM Typing == Spec => []TypeOK
<1>1. Inv => TypeOK
  BY DEF Inv
<1> QED
  BY <1>1, Invariance, PTL

\* However many tabs and composers hold the same message, at most one of the
\* POSTs that left a browser is unresolved at any time.
THEOREM OneOpen == Spec => []OneOpenAttempt
<1>1. Inv => OneOpenAttempt
  BY DEF Inv
<1> QED
  BY <1>1, Invariance, PTL

\* The unresolved one is always the one the next composer will find.
THEOREM OpenIsStored == Spec => []OpenAttemptIsStored
<1>1. Inv => OpenAttemptIsStored
  BY DEF Inv
<1> QED
  BY <1>1, Invariance, PTL

\* A composer closes, and its key is removed, only for an accepted attempt.
THEOREM AckSound == Spec => []AckedWasDelivered
<1>1. Inv => AckedWasDelivered
  BY DEF Inv, ReceiptInv
<1> QED
  BY <1>1, Invariance, PTL

\* Only the retry after the second status moves a caller from there to a new key.
LEMMA RetryOnly ==
  ASSUME Inv, [Next]_vars, NEW c \in Callers, pc[c] = "status2", pc'[c] = "persisted"
  PROVE  SecondStatusRetry(c)
<1> USE DEF Inv, TypeOK, browser, server, history, vars, Finish, Released, Sharers
<1>1. ASSUME NEW d \in Callers, Send(d) PROVE SecondStatusRetry(c)
  <2>1. CASE Press(d) \/ Start(d) \/ HashThrow(d)
    BY <2>1 DEF Press, Start, HashThrow
  <2>2. CASE GrantFirst(d) \/ GrantExisting(d)
    BY <2>2 DEF GrantFirst, GrantExisting, NewAttempt
  <2>3. CASE FirstStatus(d)
    BY <2>3 DEF FirstStatus, Remember
  <2>4. CASE Agree(d) \/ Decline(d)
    BY <2>4 DEF Agree, Decline
  <2>5. CASE SecondStatusRetry(d)
    BY <2>5 DEF SecondStatusRetry, NewAttempt
  <2>6. CASE SecondStatusSettled(d)
    BY <2>6 DEF SecondStatusSettled, Remember
  <2>7. CASE Transmit(d) \/ PostLost(d)
    BY <2>7 DEF Transmit, PostLost
  <2>8. CASE Receipt(d)
    BY <2>8 DEF Receipt, Remember
  <2>9. CASE Throw(d) \/ StoredThenThrow(d)
    BY <2>9 DEF Throw, StoredThenThrow
  <2> QED
    BY <1>1, <2>1, <2>2, <2>3, <2>4, <2>5, <2>6, <2>7, <2>8, <2>9 DEF Send
<1>2. ASSUME NEW d \in Callers, Acknowledge(d) PROVE FALSE
  BY <1>2 DEF Acknowledge, CloseComposer, LeaveComposer, AckGrant, AckFails
<1>3. CASE Server
  BY <1>3 DEF Server, Arrive, Lose, Settle, Answer
<1>4. CASE Page
  BY <1>4, LoadFacts DEF Page, PrincipalChanges, StorageDamaged
<1>5. CASE UNCHANGED vars
  BY <1>5
<1> QED
  BY <1>1, <1>2, <1>3, <1>4, <1>5 DEF Next

\* The read after the dialog: a send accepted before the author agreed is never
\* followed by another one.
THEOREM RecheckHolds == Spec => RecheckStopsDuplicate
<1>1. Inv /\ [Next]_vars =>
        [\A c \in Callers : pc[c] = "status2" /\ pc'[c] = "persisted" => ~late[c]]_vars
  <2> SUFFICES ASSUME Inv, [Next]_vars, NEW c \in Callers,
                      pc[c] = "status2", pc'[c] = "persisted"
               PROVE  ~late[c]
    OBVIOUS
  <2>1. SecondStatusRetry(c)
    BY RetryOnly
  <2> QED
    BY <2>1 DEF SecondStatusRetry, Inv, LateInv
<1> QED
  BY <1>1, Invariance, PTL DEF Spec, RecheckStopsDuplicate

\* Storage gives a key up only by an acknowledgement or by a retry.
LEMMA KeyChanges ==
  ASSUME Inv, [Next]_vars, intent \in Attempts, intent' \notin {intent, Corrupt}
  PROVE  \E c \in Callers : SecondStatusRetry(c) \/ AckGrant(c)
<1> USE NormalSendAssumption DEF browser, server, history, vars
<1>1. ASSUME NEW d \in Callers, Send(d) PROVE SecondStatusRetry(d)
  BY <1>1 DEF Send, Press, Start, HashThrow, GrantFirst, GrantExisting, FirstStatus, Agree,
     Decline, SecondStatusSettled, Transmit, Receipt, PostLost, Throw, StoredThenThrow
<1>2. ASSUME NEW d \in Callers, Acknowledge(d) PROVE AckGrant(d)
  BY <1>2 DEF Acknowledge, CloseComposer, LeaveComposer, AckFails
<1>3. CASE Server
  BY <1>3 DEF Server, Arrive, Lose, Settle, Answer
<1>4. CASE Page
  BY <1>4 DEF Page, PrincipalChanges, StorageDamaged, LoadPage
<1>5. CASE UNCHANGED vars
  BY <1>5
<1> QED
  BY <1>1, <1>2, <1>3, <1>4, <1>5 DEF Next

\* An unresolved key is never dropped: not by a crash, a reload, another user's
\* session, a lost reply or a late acknowledgement.
THEOREM KeptUntilResolved == Spec => UnresolvedIsKept
<1>1. Inv /\ [Next]_vars =>
        [(intent \in Attempts /\ intent' \notin {intent, Corrupt})
           => (srv[intent] = "accepted" \/ intent \in waived')]_vars
  <2> SUFFICES ASSUME Inv, [Next]_vars, intent \in Attempts, intent' \notin {intent, Corrupt}
               PROVE  srv[intent] = "accepted" \/ intent \in waived'
    OBVIOUS
  <2>1. ASSUME NEW c \in Callers, SecondStatusRetry(c) PROVE intent \in waived'
    BY <2>1, NormalSendAssumption DEF SecondStatusRetry, NewAttempt, Inv, ConsentInv
  <2>2. ASSUME NEW c \in Callers, AckGrant(c) PROVE srv[intent] = "accepted"
    BY <2>2 DEF AckGrant, Inv, ReceiptInv, AckedWasDelivered, browser
  <2> QED
    BY <2>1, <2>2, KeyChanges
<1> QED
  BY <1>1, Invariance, PTL DEF Spec, UnresolvedIsKept

(***************************************************************************)
(* The refinement: every step of NormalSend is a step of SendConsent or    *)
(* leaves what it speaks of unchanged.                                     *)
(***************************************************************************)
Accepted == {a \in Attempts : srv[a] = "accepted"}

LEMMA PromiseInit == Init => Promise!Init
  BY DEF Init, Promise!Init

\* Steps that touch none of the four promised sets.
LEMMA Silent ==
  ASSUME UNCHANGED <<srv, posted, acked, waived>>
  PROVE  UNCHANGED Promise!vars
  BY DEF Promise!vars

\* Drawing a key closes at most the attempt the author agreed about.
LEMMA NewAttemptPromise ==
  ASSUME Inv, NEW c \in Callers, NewAttempt(c), UNCHANGED <<srv, posted, acked>>
  PROVE  [Promise!Next]_(Promise!vars)
<1>1. CASE consent[c] = NoAttempt
  BY <1>1 DEF NewAttempt, Promise!vars
<1>2. CASE consent[c] \in Attempts
  BY <1>2, NormalSendAssumption DEF NewAttempt, Promise!Next, Promise!Waive
<1> QED
  BY <1>1, <1>2 DEF Inv, TypeOK

LEMMA PromiseStep ==
  ASSUME Inv, [Next]_vars
  PROVE  [Promise!Next]_(Promise!vars)
<1> USE NormalSendAssumption DEF browser, server, history, vars
<1>1. ASSUME NEW c \in Callers, Send(c) PROVE [Promise!Next]_(Promise!vars)
  <2>1. CASE GrantFirst(c) \/ SecondStatusRetry(c)
    BY <2>1, NewAttemptPromise DEF GrantFirst, SecondStatusRetry
  <2>2. CASE Transmit(c)
    <3>1. att[c] \in Attempts
      BY <2>2 DEF Transmit, Inv, TypeOK, KeyInv, Locked
    <3>2. /\ att[c] \notin posted \cup (acked \cup waived)
          /\ posted \subseteq acked \cup waived
      BY <2>2 DEF Transmit, Inv, PersistedInv, Open
    <3>3. Promise!Send(att[c])
      BY <2>2, <3>2 DEF Transmit, Promise!Send, Promise!Closed
    <3> QED
      BY <3>1, <3>3 DEF Promise!Next
  <2>3. CASE Press(c) \/ Start(c) \/ HashThrow(c) \/ GrantExisting(c) \/ FirstStatus(c)
    BY <2>3, Silent DEF Press, Start, HashThrow, GrantExisting, FirstStatus
  <2>4. CASE Agree(c) \/ Decline(c) \/ SecondStatusSettled(c) \/ Receipt(c)
    BY <2>4, Silent DEF Agree, Decline, SecondStatusSettled, Receipt
  <2>5. CASE PostLost(c) \/ Throw(c) \/ StoredThenThrow(c)
    BY <2>5, Silent DEF PostLost, Throw, StoredThenThrow
  <2> QED
    BY <1>1, <2>1, <2>2, <2>3, <2>4, <2>5 DEF Send
<1>2. ASSUME NEW c \in Callers, Acknowledge(c) PROVE [Promise!Next]_(Promise!vars)
  <2>1. CASE AckGrant(c)
    <3>1. CASE UNCHANGED acked
      BY <2>1, <3>1, Silent DEF AckGrant
    <3>2. CASE acked' = acked \cup {att[c]}
      <4>1. att[c] \in Accepted
        BY <2>1 DEF AckGrant, Inv, TypeOK, KeyInv, ReceiptInv, AckedWasDelivered, Accepted
      <4>2. Promise!Acknowledge(att[c])
        BY <2>1, <3>2, <4>1 DEF AckGrant, Promise!Acknowledge, Accepted
      <4> QED
        BY <4>1, <4>2 DEF Promise!Next, Accepted
    <3> QED
      BY <2>1, <3>1, <3>2 DEF AckGrant
  <2>2. CASE CloseComposer(c) \/ LeaveComposer(c) \/ AckFails(c)
    BY <2>2, Silent DEF CloseComposer, LeaveComposer, AckFails
  <2> QED
    BY <1>2, <2>1, <2>2 DEF Acknowledge
<1>3. CASE Server
  <2>1. ASSUME NEW a \in Attempts, Settle(a) PROVE [Promise!Next]_(Promise!vars)
    <3>1. a \in posted /\ srv[a] # "accepted"
      BY <2>1 DEF Settle, Inv, KeyInv
    <3>2. CASE srv' = [srv EXCEPT ![a] = "accepted"]
      <4>1. {b \in Attempts : srv'[b] = "accepted"} = Accepted \cup {a}
        BY <3>2 DEF Inv, TypeOK, Accepted
      <4>2. Promise!Deliver(a)
        BY <2>1, <3>1, <4>1 DEF Settle, Promise!Deliver, Accepted
      <4> QED
        BY <4>2 DEF Promise!Next
    <3>3. CASE \E s \in {"uncertain", "failed"} : srv' = [srv EXCEPT ![a] = s]
      <4>1. {b \in Attempts : srv'[b] = "accepted"} = Accepted
        BY <3>1, <3>3 DEF Inv, TypeOK, Accepted
      <4> QED
        BY <2>1, <4>1 DEF Settle, Accepted, Promise!vars
    <3> QED
      BY <2>1, <3>2, <3>3 DEF Settle
  <2>2. ASSUME NEW a \in Attempts, Arrive(a) PROVE UNCHANGED Promise!vars
    <3>1. {b \in Attempts : srv'[b] = "accepted"} = Accepted
      BY <2>2 DEF Arrive, Inv, TypeOK, Accepted
    <3> QED
      BY <2>2, <3>1 DEF Arrive, Accepted, Promise!vars
  <2>3. ASSUME NEW a \in Attempts, Lose(a) PROVE UNCHANGED Promise!vars
    BY <2>3, Silent DEF Lose
  <2>4. ASSUME NEW c \in Callers, Answer(c) PROVE UNCHANGED Promise!vars
    BY <2>4, Silent DEF Answer
  <2> QED
    BY <1>3, <2>1, <2>2, <2>3, <2>4 DEF Server
<1>4. CASE Page
  BY <1>4, Silent DEF Page, PrincipalChanges, StorageDamaged, LoadPage
<1>5. CASE UNCHANGED vars
  BY <1>5, Silent
<1> QED
  BY <1>1, <1>2, <1>3, <1>4, <1>5 DEF Next

\* normal-send.service.ts keeps the promise: no second send unasked.
THEOREM Refinement == Spec => KeepsPromise
  BY PromiseInit, PromiseStep, Invariance, PTL DEF Spec, KeepsPromise, Promise!Spec

=============================================================================
