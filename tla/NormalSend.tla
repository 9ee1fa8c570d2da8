----------------------------- MODULE NormalSend -----------------------------
(***************************************************************************)
(* services/normal-send.service.ts: sending one authored message (one      *)
(* account and one payload hash, hence one storage key and one Web Lock)   *)
(* from several composers in several tabs of one browser, across reloads,  *)
(* crashes, changes of the signed-in user and lost or late replies.        *)
(*                                                                         *)
(* A caller is one activation of sendNormalEmail and of the composer that  *)
(* awaits it.  The server and the network are external: only what the      *)
(* client can learn from them is modelled.                                 *)
(***************************************************************************)
EXTENDS Naturals, FiniteSets

CONSTANTS
    Callers,     \* composers that may send this message
    Tabs,        \* open pages of the application
    TabOf,       \* the tab each composer lives in
    Attempts,    \* attempt keys randomUUID may draw; finite only for TLC
    MaxEpoch,    \* bound on the markers written by pages of this user
    NoCaller,    \* "nobody", for the lock
    NoAttempt,   \* "no key", for storage and for a caller
    Corrupt      \* a stored value that does not parse as this key's intent

ASSUME NormalSendAssumption ==
    /\ TabOf \in [Callers -> Tabs]
    /\ NoCaller \notin Callers
    /\ NoAttempt \notin Attempts
    /\ Corrupt \notin Attempts
    /\ Corrupt # NoAttempt
    /\ MaxEpoch \in Nat

VARIABLES
    \* the browser: one storage area, one lock, shared by every tab
    intent,      \* localStorage under normal-send-intent:account:hash
    lock,        \* holder of the exclusive Web Lock of that key
    marker,      \* active-principal marker: 0 is "not this user's page"
    epoch,       \* markers written so far by pages of this user
    \* the tabs
    cap,         \* marker value the page captured (activeValue); 0 when lost
    remembered,  \* keys of acceptedIntents
    \* the callers
    pc, att, reply,
    \* the server
    wire,        \* POSTs under way
    srv,         \* what the server knows of each attempt
    \* history
    used,        \* keys drawn
    posted,      \* keys whose POST left a browser
    acked,       \* keys removed from storage after the composer closed
    waived,      \* keys replaced after the author confirmed
    consent,     \* the key the author just agreed to send again over
    late         \* that key had been accepted before the author agreed

browser == <<intent, lock, marker, epoch, cap, remembered>>
server == <<wire, srv>>
history == <<used, posted, acked, waived, consent, late>>
vars == <<browser, pc, att, reply, server, history>>

(***************************************************************************)
(* Outcomes.  "accepted" stands for accepted and queued, which the client  *)
(* treats alike; "refused" for conflict, forbidden, unavailable, invalid.  *)
(***************************************************************************)
Outcomes == {"accepted", "pending", "uncertain", "failed", "missing", "refused"}
NoReply == "none"

retryNeedsConfirmation(o) == o \in {"uncertain", "failed", "missing"}

\* Program counters: who holds the lock, who has a request under way.
Requesting == {"status1", "status2", "post", "recheck"}
Locked == Requesting \cup {"confirm", "persisted"}
Running == Locked \cup {"want"}
PCs == Running \cup {"idle", "hash", "joined", "done", "ack"}

TypeOK ==
    /\ intent \in Attempts \cup {NoAttempt, Corrupt}
    /\ lock \in Callers \cup {NoCaller}
    /\ marker \in 0 .. MaxEpoch
    /\ epoch \in 0 .. MaxEpoch
    /\ cap \in [Tabs -> 0 .. MaxEpoch]
    /\ remembered \in [Tabs -> SUBSET Attempts]
    /\ pc \in [Callers -> PCs]
    /\ att \in [Callers -> Attempts \cup {NoAttempt}]
    /\ reply \in [Callers -> Outcomes \cup {NoReply}]
    /\ wire \in SUBSET Attempts
    /\ srv \in [Attempts -> {"none", "pending", "accepted", "uncertain", "failed"}]
    /\ used \in SUBSET Attempts
    /\ posted \in SUBSET Attempts
    /\ acked \in SUBSET Attempts
    /\ waived \in SUBSET Attempts
    /\ consent \in [Callers -> Attempts \cup {NoAttempt}]
    /\ late \in [Callers -> BOOLEAN]

Init ==
    /\ intent = NoAttempt
    /\ lock = NoCaller
    /\ marker = 0
    /\ epoch = 0
    /\ cap = [t \in Tabs |-> 0]
    /\ remembered = [t \in Tabs |-> {}]
    /\ pc = [c \in Callers |-> "idle"]
    /\ att = [c \in Callers |-> NoAttempt]
    /\ reply = [c \in Callers |-> NoReply]
    /\ wire = {}
    /\ srv = [a \in Attempts |-> "none"]
    /\ used = {}
    /\ posted = {}
    /\ acked = {}
    /\ waived = {}
    /\ consent = [c \in Callers |-> NoAttempt]
    /\ late = [c \in Callers |-> FALSE]

-----------------------------------------------------------------------------
(* Helpers *)

\* isStoragePrincipalCurrent: the page still serves the user it captured.
PageCurrent(t) == cap[t] # 0 /\ marker = cap[t]
Current(c) == PageCurrent(TabOf[c])

\* The caller whose request the tab's inFlight map holds, and those sharing it.
Owner(t, c) == TabOf[c] = t /\ pc[c] \in Running
Sharers(c) == {d \in Callers : TabOf[d] = TabOf[c] /\ pc[d] = "joined"}

\* Seeded fault: a settled request never gives the lock back.
KeptLock(c) == lock

\* Drop the lock if this caller holds it.
Released(c) == IF lock = c THEN NoCaller ELSE lock

\* The request settles: the lock goes back, the tab's inFlight entry is
\* deleted, and every caller sharing the promise gets the same result.  A
\* caller that was told "accepted" goes on to close its composer.
Finish(c, accepted) ==
    /\ lock' = Released(c)
    /\ pc' = [d \in Callers |->
                IF d = c \/ d \in Sharers(c)
                THEN IF accepted THEN "done" ELSE "idle"
                ELSE pc[d]]
    /\ att' = [d \in Callers |->
                IF d = c \/ d \in Sharers(c)
                THEN IF accepted THEN att[c] ELSE NoAttempt
                ELSE att[d]]
    /\ reply' = [reply EXCEPT ![c] = NoReply]
    /\ consent' = [consent EXCEPT ![c] = NoAttempt]
    /\ late' = [late EXCEPT ![c] = FALSE]

\* Seeded fault: a pending receipt counts as accepted.
RememberPending(c) ==
    LET accepted == reply[c] \in {"accepted", "pending"} IN
    /\ remembered' = IF accepted /\ intent = att[c]
                     THEN [remembered EXCEPT ![TabOf[c]] = @ \cup {att[c]}]
                     ELSE remembered
    /\ Finish(c, accepted /\ intent # Corrupt)

\* remember(): an accepted receipt is kept for the acknowledgement only while
\* storage still holds this very attempt; a corrupt value throws instead.
Remember(c) ==
    LET accepted == reply[c] = "accepted" IN
    /\ remembered' = IF accepted /\ intent = att[c]
                     THEN [remembered EXCEPT ![TabOf[c]] = @ \cup {att[c]}]
                     ELSE remembered
    /\ Finish(c, accepted /\ intent # Corrupt)

\* Draw a fresh key, store it, read it back: only then may a POST follow.
\* Whatever the caller holds the author's agreement for is now replaced.
NewAttempt(c) ==
    \E a \in Attempts \ used :
        /\ used' = used \cup {a}
        /\ intent' = a
        /\ waived' = waived \cup ({consent[c]} \ {NoAttempt})
        /\ att' = [att EXCEPT ![c] = a]
        /\ pc' = [pc EXCEPT ![c] = "persisted"]
        /\ reply' = [reply EXCEPT ![c] = NoReply]
        /\ consent' = [consent EXCEPT ![c] = NoAttempt]
        /\ late' = [late EXCEPT ![c] = FALSE]

-----------------------------------------------------------------------------
(* sendNormalEmail *)

\* The author presses Send; the form is snapshot and hashing begins.
Press(c) ==
    /\ pc[c] = "idle"
    /\ Current(c)
    /\ pc' = [pc EXCEPT ![c] = "hash"]
    /\ UNCHANGED <<browser, att, reply, server, history>>

\* Hashing ended: share the tab's running request for this key, if any, or
\* become that request and ask for the lock.
Start(c) ==
    /\ pc[c] = "hash"
    /\ Current(c)
    /\ pc' = [pc EXCEPT ![c] = IF \E d \in Callers : Owner(TabOf[c], d)
                               THEN "joined" ELSE "want"]
    /\ UNCHANGED <<browser, att, reply, server, history>>

\* The lock is granted and nothing is stored: a first attempt.
GrantFirst(c) ==
    /\ pc[c] = "want"
    /\ lock = NoCaller
    /\ Current(c)
    /\ intent = NoAttempt
    /\ lock' = c
    /\ NewAttempt(c)
    /\ UNCHANGED <<marker, epoch, cap, remembered, server, posted, acked>>

\* Seeded fault: the lock is asked for in shared mode.
GrantExistingShared(c) ==
    /\ pc[c] = "want"
    /\ Current(c)
    /\ intent \in Attempts
    /\ lock' = c
    /\ pc' = [pc EXCEPT ![c] = "status1"]
    /\ att' = [att EXCEPT ![c] = intent]
    /\ UNCHANGED <<intent, marker, epoch, cap, remembered, reply, server, history>>

\* The lock is granted and an attempt is stored: ask the server about it.
GrantExisting(c) ==
    /\ pc[c] = "want"
    /\ lock = NoCaller
    /\ Current(c)
    /\ intent \in Attempts
    /\ lock' = c
    /\ pc' = [pc EXCEPT ![c] = "status1"]
    /\ att' = [att EXCEPT ![c] = intent]
    /\ UNCHANGED <<intent, marker, epoch, cap, remembered, reply, server, history>>

\* Seeded fault: a retryable status is retried without asking the author.
FirstStatusRetries(c) ==
    /\ pc[c] = "status1"
    /\ reply[c] # NoReply
    /\ Current(c)
    /\ \/ /\ retryNeedsConfirmation(reply[c])
          /\ NewAttempt(c)
          /\ UNCHANGED <<lock, marker, epoch, cap, remembered, server, posted, acked>>
       \/ /\ ~retryNeedsConfirmation(reply[c])
          /\ Remember(c)
          /\ UNCHANGED <<intent, marker, epoch, cap, server,
                         used, posted, acked, waived>>

\* The first status: an outcome that may be sent again opens the dialog, any
\* other one ends the send.
FirstStatus(c) ==
    /\ pc[c] = "status1"
    /\ reply[c] # NoReply
    /\ Current(c)
    /\ \/ /\ retryNeedsConfirmation(reply[c])
          /\ pc' = [pc EXCEPT ![c] = "confirm"]
          /\ reply' = [reply EXCEPT ![c] = NoReply]
          /\ UNCHANGED <<browser, att, server, history>>
       \/ /\ ~retryNeedsConfirmation(reply[c])
          /\ Remember(c)
          /\ UNCHANGED <<intent, marker, epoch, cap, server,
                         used, posted, acked, waived>>

\* The author agrees to another send; the status is asked for once more,
\* because the first send may have completed while the dialog was open.
Agree(c) ==
    /\ pc[c] = "confirm"
    /\ Current(c)
    /\ pc' = [pc EXCEPT ![c] = "status2"]
    /\ consent' = [consent EXCEPT ![c] = att[c]]
    /\ late' = [late EXCEPT ![c] = srv[att[c]] = "accepted"]
    /\ UNCHANGED <<browser, att, reply, server, used, posted, acked, waived>>

\* The author keeps the draft, or the composer is no longer theirs.
Decline(c) ==
    /\ pc[c] = "confirm"
    /\ Finish(c, FALSE)
    /\ UNCHANGED <<intent, marker, epoch, cap, remembered, server,
                   used, posted, acked, waived>>

\* Seeded fault: the status read after the dialog is not looked at.
SecondStatusIgnored(c) ==
    /\ pc[c] = "status2"
    /\ Current(c)
    /\ intent = att[c]
    /\ NewAttempt(c)
    /\ UNCHANGED <<lock, marker, epoch, cap, remembered, server, posted, acked>>

\* The second status: still retryable and still the stored attempt, so a new
\* key replaces it.
SecondStatusRetry(c) ==
    /\ pc[c] = "status2"
    /\ retryNeedsConfirmation(reply[c])
    /\ Current(c)
    /\ intent = att[c]
    /\ NewAttempt(c)
    /\ UNCHANGED <<lock, marker, epoch, cap, remembered, server, posted, acked>>

\* The second status settles the matter after all.
SecondStatusSettled(c) ==
    /\ pc[c] = "status2"
    /\ reply[c] # NoReply
    /\ ~retryNeedsConfirmation(reply[c])
    /\ Current(c)
    /\ Remember(c)
    /\ UNCHANGED <<intent, marker, epoch, cap, server, used, posted, acked, waived>>

\* The POST leaves the browser.
Transmit(c) ==
    /\ pc[c] = "persisted"
    /\ Current(c)
    /\ pc' = [pc EXCEPT ![c] = "post"]
    /\ wire' = wire \cup {att[c]}
    /\ posted' = posted \cup {att[c]}
    /\ UNCHANGED <<browser, att, reply, srv, used, acked, waived, consent, late>>

\* A valid receipt for the POST, or for the read that follows a lost one.
Receipt(c) ==
    /\ pc[c] \in {"post", "recheck"}
    /\ reply[c] # NoReply
    /\ Current(c)
    /\ Remember(c)
    /\ UNCHANGED <<intent, marker, epoch, cap, server, used, posted, acked, waived>>

\* Seeded fault: a lost response makes the client post again under a new key.
PostRepeated(c) ==
    /\ pc[c] = "post"
    /\ Current(c)
    /\ NewAttempt(c)
    /\ UNCHANGED <<lock, marker, epoch, cap, remembered, server, posted, acked>>

\* The response to the POST is lost, late or unreadable: read, never repeat.
PostLost(c) ==
    /\ pc[c] = "post"
    /\ Current(c)
    /\ pc' = [pc EXCEPT ![c] = "recheck"]
    /\ reply' = [reply EXCEPT ![c] = NoReply]
    /\ UNCHANGED <<browser, att, server, history>>

\* Everything that throws: the page changed hands, storage cannot be written
\* or is corrupt, no key can be drawn, the session expired, a status read
\* failed.  The stored intent is left as it is.
Throw(c) ==
    /\ \/ pc[c] = "want" /\ lock = NoCaller /\ (~Current(c) \/ intent \in {NoAttempt, Corrupt})
       \/ pc[c] \in Locked \ {"confirm"}
    /\ Finish(c, FALSE)
    /\ UNCHANGED <<intent, marker, epoch, cap, remembered, server,
                   used, posted, acked, waived>>

\* The new key reached storage but could not be read back: no POST follows.
StoredThenThrow(c) ==
    /\ pc[c] = "want"
    /\ lock = NoCaller
    /\ Current(c)
    /\ intent = NoAttempt
    /\ \E a \in Attempts \ used :
        /\ used' = used \cup {a}
        /\ intent' = a
    /\ Finish(c, FALSE)
    /\ UNCHANGED <<marker, epoch, cap, remembered, server, posted, acked, waived>>

\* The page changed hands while hashing.
HashThrow(c) ==
    /\ pc[c] = "hash"
    /\ ~Current(c)
    /\ pc' = [pc EXCEPT ![c] = "idle"]
    /\ UNCHANGED <<browser, att, reply, server, history>>

-----------------------------------------------------------------------------
(* The composer after the receipt, and acknowledgeNormalSend *)

\* The composer closes and acknowledges an attempt its tab remembered.
CloseComposer(c) ==
    /\ pc[c] = "done"
    /\ LET known == att[c] \in remembered[TabOf[c]] /\ Current(c) IN
       /\ pc' = [pc EXCEPT ![c] = IF known THEN "ack" ELSE "idle"]
       /\ att' = [att EXCEPT ![c] = IF known THEN @ ELSE NoAttempt]
    /\ UNCHANGED <<browser, reply, server, history>>

\* The author moved on to another message: nothing is acknowledged.
LeaveComposer(c) ==
    /\ pc[c] = "done"
    /\ pc' = [pc EXCEPT ![c] = "idle"]
    /\ att' = [att EXCEPT ![c] = NoAttempt]
    /\ UNCHANGED <<browser, reply, server, history>>

\* Under the lock: remove the stored value only if it is the one observed.
AckGrant(c) ==
    /\ pc[c] = "ack"
    /\ lock = NoCaller
    /\ IF Current(c) /\ intent = att[c]
       THEN /\ intent' = NoAttempt
            /\ remembered' = [remembered EXCEPT ![TabOf[c]] = @ \ {att[c]}]
            /\ acked' = acked \cup {att[c]}
       ELSE UNCHANGED <<intent, remembered, acked>>
    /\ pc' = [pc EXCEPT ![c] = "idle"]
    /\ att' = [att EXCEPT ![c] = NoAttempt]
    /\ UNCHANGED <<lock, marker, epoch, cap, reply, server,
                   used, posted, waived, consent, late>>

\* Storage refuses the removal, or the lock request fails.
AckFails(c) ==
    /\ pc[c] = "ack"
    /\ pc' = [pc EXCEPT ![c] = "idle"]
    /\ att' = [att EXCEPT ![c] = NoAttempt]
    /\ UNCHANGED <<browser, reply, server, history>>

-----------------------------------------------------------------------------
(* Pages and the signed-in user *)

\* Seeded fault: the purge keeps nothing.
PrincipalChangesPurgeAll ==
    /\ marker # 0
    /\ marker' = 0
    /\ intent' = NoAttempt
    /\ UNCHANGED <<lock, epoch, cap, remembered, pc, att, reply, server, history>>

\* The session ends, or another user's page takes the marker over.  The purge
\* that follows, and those of pages that notice later, keep every
\* normal-send-intent key.
PrincipalChanges ==
    /\ marker # 0
    /\ marker' = 0
    /\ UNCHANGED <<intent, lock, epoch, cap, remembered, pc, att, reply, server, history>>

\* A page loads or reloads, by the user, after a crash or after it found the
\* user changed: its memory is gone, its locks are released by the browser,
\* its requests may still reach the server.
LoadPage(t) ==
    /\ \/ marker # 0 /\ marker' = marker /\ epoch' = epoch
       \/ marker = 0 /\ epoch < MaxEpoch /\ marker' = epoch + 1 /\ epoch' = epoch + 1
    /\ cap' = [cap EXCEPT ![t] = marker']
    /\ remembered' = [remembered EXCEPT ![t] = {}]
    /\ LET mine == {c \in Callers : TabOf[c] = t} IN
       /\ lock' = IF lock \in mine THEN NoCaller ELSE lock
       /\ pc' = [c \in Callers |-> IF c \in mine THEN "idle" ELSE pc[c]]
       /\ att' = [c \in Callers |-> IF c \in mine THEN NoAttempt ELSE att[c]]
       /\ reply' = [c \in Callers |-> IF c \in mine THEN NoReply ELSE reply[c]]
       /\ consent' = [c \in Callers |-> IF c \in mine THEN NoAttempt ELSE consent[c]]
       /\ late' = [c \in Callers |-> IF c \in mine THEN FALSE ELSE late[c]]
    /\ UNCHANGED <<intent, server, used, posted, acked, waived>>

\* Something outside the application damages the stored value.
StorageDamaged ==
    /\ intent \in Attempts
    /\ intent' = Corrupt
    /\ UNCHANGED <<lock, marker, epoch, cap, remembered, pc, att, reply, server, history>>

-----------------------------------------------------------------------------
(* The server and the network: external *)

\* A POST arrives, perhaps long after its caller gave up, or never does.
Arrive(a) ==
    /\ a \in wire
    /\ wire' = wire \ {a}
    /\ srv' = [srv EXCEPT ![a] = IF @ = "none" THEN "pending" ELSE @]
    /\ UNCHANGED <<browser, pc, att, reply, history>>

Lose(a) ==
    /\ a \in wire
    /\ wire' = wire \ {a}
    /\ UNCHANGED <<browser, pc, att, reply, srv, history>>

\* The server settles an attempt; an uncertain one may turn out accepted.
Settle(a) ==
    /\ \/ srv[a] = "pending" /\ \E s \in {"accepted", "uncertain", "failed"} :
                                   srv' = [srv EXCEPT ![a] = s]
       \/ srv[a] = "uncertain" /\ srv' = [srv EXCEPT ![a] = "accepted"]
    /\ UNCHANGED <<browser, pc, att, reply, wire, history>>

\* The server computes a receipt; the caller will act on it later.  A POST is
\* answered once it arrived; anything may be answered with a refusal.
Answer(c) ==
    /\ pc[c] \in Requesting
    /\ reply[c] = NoReply
    /\ \E o \in Outcomes :
        /\ \/ o = "refused"
           \/ srv[att[c]] # "none" /\ o = srv[att[c]]
           \/ pc[c] # "post" /\ srv[att[c]] = "none" /\ o = "missing"
        /\ reply' = [reply EXCEPT ![c] = o]
    /\ UNCHANGED <<browser, pc, att, server, history>>

-----------------------------------------------------------------------------
Send(c) ==
    \/ Press(c) \/ Start(c) \/ HashThrow(c)
    \/ GrantFirst(c) \/ GrantExisting(c) \/ FirstStatus(c)
    \/ Agree(c) \/ Decline(c) \/ SecondStatusRetry(c) \/ SecondStatusSettled(c)
    \/ Transmit(c) \/ Receipt(c) \/ PostLost(c) \/ Throw(c) \/ StoredThenThrow(c)

Acknowledge(c) ==
    CloseComposer(c) \/ LeaveComposer(c) \/ AckGrant(c) \/ AckFails(c)

Server == \/ \E a \in Attempts : Arrive(a) \/ Lose(a) \/ Settle(a)
          \/ \E c \in Callers : Answer(c)

Page == PrincipalChanges \/ StorageDamaged \/ \E t \in Tabs : LoadPage(t)

Next == \/ \E c \in Callers : Send(c) \/ Acknowledge(c)
        \/ Server
        \/ Page

Spec == Init /\ [][Next]_vars

(***************************************************************************)
(* Fairness.  A running page runs its promises: hashing ends, the browser   *)
(* grants a free lock to every waiter in turn (requests queue first come    *)
(* first served, hence strong fairness), apiFetch bounds every request by a *)
(* timeout, so a reply or an error comes.  Nothing obliges the author to    *)
(* answer the dialog, the server to settle, or a page to stay open.         *)
(***************************************************************************)
Hashed(c) == Start(c) \/ HashThrow(c)
Granted(c) == GrantFirst(c) \/ GrantExisting(c) \/ (pc[c] = "want" /\ Throw(c))
Replied(c) ==
    \/ FirstStatus(c) \/ SecondStatusRetry(c) \/ SecondStatusSettled(c)
    \/ Transmit(c) \/ Receipt(c) \/ PostLost(c) \/ (pc[c] # "want" /\ Throw(c))

FairSpec ==
    /\ Spec
    /\ \A c \in Callers : /\ WF_vars(Hashed(c))
                          /\ SF_vars(Granted(c))
                          /\ WF_vars(Replied(c))
                          /\ WF_vars(CloseComposer(c) \/ LeaveComposer(c))
                          /\ SF_vars(AckGrant(c) \/ AckFails(c))

-----------------------------------------------------------------------------
(* Properties *)

\* At any time at most one attempt that left a browser is neither delivered
\* and acknowledged nor given up by the author: no interleaving of tabs,
\* crashes, user changes and lost replies sends the message twice unasked.
OneOpenAttempt ==
    \A a, b \in posted \ (acked \cup waived) : a = b

\* An attempt that is still open is the one storage holds (unless storage was
\* damaged), so the next composer, in any tab, finds it before it sends.
OpenAttemptIsStored ==
    \A a \in posted \ (acked \cup waived) : intent \in {a, Corrupt}

\* Only attempts the server accepted are ever acknowledged, and only such an
\* attempt closes a composer as sent.
AckedWasDelivered ==
    /\ \A a \in acked : srv[a] = "accepted"
    /\ \A c \in Callers : pc[c] \in {"done", "ack"} => srv[att[c]] = "accepted"

\* A send the server accepted before the author agreed to another one never
\* leads to another one: the status is read again after the dialog.
RecheckStopsDuplicate ==
    [][\A c \in Callers : pc[c] = "status2" /\ pc'[c] = "persisted" => ~late[c]]_vars

\* A stored key is dropped or replaced only when its attempt was delivered, or
\* given up by the author, or never left a browser.
UnresolvedIsKept ==
    [][(intent \in Attempts /\ intent' \notin {intent, Corrupt})
         => (srv[intent] = "accepted" \/ intent \in waived')]_vars

\* A caller that asked for the lock is served, unless some composer's dialog
\* stays open holding it: the only thing that may block a send is a person.
SendEnds ==
    \A c \in Callers :
        (pc[c] = "want") ~> (pc[c] \notin Running \/ \E d \in Callers : pc[d] = "confirm")

\* The promise, with the server's accepted attempts as the delivered ones.
Promise == INSTANCE SendConsent WITH
    sent <- posted,
    delivered <- {a \in Attempts : srv[a] = "accepted"}
KeepsPromise == Promise!Spec

-----------------------------------------------------------------------------
(* The inductive invariant behind the properties *)

Open == posted \ (acked \cup waived)

\* The Web Lock: its holder is exactly the caller inside sendLocked.
LockInv == \A c \in Callers : pc[c] \in Locked <=> lock = c

\* Keys come from randomUUID and travel only as the code passes them on.
KeyInv ==
    /\ intent \in Attempts => intent \in used
    /\ posted \subseteq used
    /\ acked \cup waived \subseteq used
    /\ wire \subseteq posted
    /\ \A a \in Attempts : srv[a] # "none" => a \in posted
    /\ \A c \in Callers : pc[c] \in Locked \cup {"done", "ack"} => att[c] \in used

\* Once a key is persisted nothing else is open, and its POST is still to come.
PersistedInv ==
    \A c \in Callers : pc[c] = "persisted" =>
        /\ Open = {}
        /\ intent \in {att[c], Corrupt}
        /\ att[c] \notin posted \cup acked \cup waived

\* Agreement is held between the dialog and the new key, for the stored key.
ConsentInv ==
    \A c \in Callers : IF pc[c] = "status2" THEN consent[c] = att[c]
                                            ELSE consent[c] = NoAttempt

\* Receipts, remembered keys and acknowledgements speak of accepted attempts.
ReceiptInv ==
    /\ AckedWasDelivered
    /\ \A t \in Tabs : \A a \in remembered[t] : srv[a] = "accepted"
    /\ \A c \in Callers :
        /\ reply[c] # NoReply => pc[c] \in Requesting
        /\ reply[c] = "accepted" => srv[att[c]] = "accepted"

\* An answer computed after the author agreed knows of an earlier acceptance.
LateInv ==
    \A c \in Callers : late[c] =>
        /\ pc[c] = "status2"
        /\ srv[att[c]] = "accepted"
        /\ ~retryNeedsConfirmation(reply[c])

\* Together these are inductive: at every reachable state the lock, the stored
\* key, the callers' progress and what the server knows fit together.
Inv ==
    /\ TypeOK
    /\ LockInv
    /\ KeyInv
    /\ OneOpenAttempt
    /\ OpenAttemptIsStored
    /\ PersistedInv
    /\ ConsentInv
    /\ ReceiptInv
    /\ LateInv
=============================================================================
