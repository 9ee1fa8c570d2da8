---------------------------- MODULE ScheduledList ----------------------------
(***************************************************************************)
(* Scheduling a message to a contact list: the attempt key that            *)
(* services/normal-send.service.ts retains for it, and submitScheduledEmail *)
(* of useComposeForm.ts around it, for one authored request (one account   *)
(* and one request hash, hence one storage key).                           *)
(*                                                                         *)
(* Unlike a normal send, a repeated request carries the same key and the   *)
(* server keeps one row per key, so nobody is asked before a retry; and    *)
(* the key is not among those a purge keeps.  Both lock callbacks run      *)
(* without awaiting anything, so each is one step and the Web Lock needs   *)
(* no variable.                                                            *)
(***************************************************************************)
EXTENDS Naturals

CONSTANTS
    Callers,     \* composers that may schedule this request
    Tabs,        \* open pages of the application
    TabOf,       \* the tab each composer lives in
    Attempts,    \* attempt keys randomUUID may draw; finite only for TLC
    MaxEpoch,    \* bound on the markers written by pages of this user
    NoAttempt,   \* "no key", for storage and for a caller
    Corrupt      \* a stored value that does not parse as this key's intent

ASSUME ScheduledListAssumption ==
    /\ TabOf \in [Callers -> Tabs]
    /\ NoAttempt \notin Attempts
    /\ Corrupt \notin Attempts
    /\ Corrupt # NoAttempt
    /\ MaxEpoch \in Nat

VARIABLES
    intent,      \* localStorage under scheduled-list-intent:account:hash
    marker,      \* active-principal marker: 0 is "not this user's page"
    epoch,       \* markers written so far by pages of this user
    cap,         \* marker value the page captured (activeValue); 0 when lost
    observed,    \* keys of the tab's scheduledIntents
    pc, att,     \* the composers
    wire,        \* keys with a request under way
    rows,        \* keys the server holds a scheduled row for
    \* history
    used,        \* keys drawn
    posted,      \* keys whose request left a browser
    acked,       \* keys removed by an acknowledgement
    purged,      \* keys not acknowledged when a page purged its user
    strays       \* keys purged before their request left a browser

pages == <<marker, epoch, cap>>
server == <<wire, rows>>
history == <<used, posted, acked, purged, strays>>
vars == <<intent, pages, observed, pc, att, server, history>>

PCs == {"idle", "hash", "retained", "post", "ack", "close"}

TypeOK ==
    /\ intent \in Attempts \cup {NoAttempt, Corrupt}
    /\ marker \in 0 .. MaxEpoch
    /\ epoch \in 0 .. MaxEpoch
    /\ cap \in [Tabs -> 0 .. MaxEpoch]
    /\ observed \in [Tabs -> SUBSET Attempts]
    /\ pc \in [Callers -> PCs]
    /\ att \in [Callers -> Attempts \cup {NoAttempt}]
    /\ wire \in SUBSET Attempts
    /\ rows \in SUBSET Attempts
    /\ used \in SUBSET Attempts
    /\ posted \in SUBSET Attempts
    /\ acked \in SUBSET Attempts
    /\ purged \in SUBSET Attempts
    /\ strays \in SUBSET Attempts

Init ==
    /\ intent = NoAttempt
    /\ marker = 0
    /\ epoch = 0
    /\ cap = [t \in Tabs |-> 0]
    /\ observed = [t \in Tabs |-> {}]
    /\ pc = [c \in Callers |-> "idle"]
    /\ att = [c \in Callers |-> NoAttempt]
    /\ wire = {}
    /\ rows = {}
    /\ used = {}
    /\ posted = {}
    /\ acked = {}
    /\ purged = {}
    /\ strays = {}

-----------------------------------------------------------------------------
(* Helpers *)

\* isStoragePrincipalCurrent: the page still serves the user it captured.
Current(c) == cap[TabOf[c]] # 0 /\ marker = cap[TabOf[c]]

\* Keys that left a browser and were neither acknowledged nor purged.
Open == posted \ (acked \cup purged)

Observe(c, a) == observed' = [observed EXCEPT ![TabOf[c]] = @ \cup {a}]

\* The composer stays open and forgets the attempt.
GiveUp(c) ==
    /\ pc' = [pc EXCEPT ![c] = "idle"]
    /\ att' = [att EXCEPT ![c] = NoAttempt]

-----------------------------------------------------------------------------
(* retainScheduledListIntent *)

\* The author schedules the message; hashing of the request begins.
Submit(c) ==
    /\ pc[c] = "idle"
    /\ Current(c)
    /\ pc' = [pc EXCEPT ![c] = "hash"]
    /\ UNCHANGED <<intent, pages, observed, att, server, history>>

\* Under the lock: a stored key is used again.
RetainExisting(c) ==
    /\ pc[c] = "hash"
    /\ Current(c)
    /\ intent \in Attempts
    /\ Observe(c, intent)
    /\ pc' = [pc EXCEPT ![c] = "retained"]
    /\ att' = [att EXCEPT ![c] = intent]
    /\ UNCHANGED <<intent, pages, server, history>>

\* Seeded fault: a fresh key is stored over an unresolved one.
RetainOverwrites(c) ==
    /\ pc[c] = "hash"
    /\ Current(c)
    /\ \E a \in Attempts \ used :
        /\ used' = used \cup {a}
        /\ intent' = a
        /\ Observe(c, a)
        /\ pc' = [pc EXCEPT ![c] = "retained"]
        /\ att' = [att EXCEPT ![c] = a]
    /\ UNCHANGED <<pages, server, posted, acked, purged, strays>>

\* Under the lock: a fresh key is stored and read back.  When reading back
\* fails the key stays stored and the composer gives up.
RetainNew(c) ==
    /\ pc[c] = "hash"
    /\ Current(c)
    /\ intent = NoAttempt
    /\ \E a \in Attempts \ used :
        /\ used' = used \cup {a}
        /\ intent' = a
        /\ \/ /\ Observe(c, a)
              /\ pc' = [pc EXCEPT ![c] = "retained"]
              /\ att' = [att EXCEPT ![c] = a]
           \/ GiveUp(c) /\ UNCHANGED observed
    /\ UNCHANGED <<pages, server, posted, acked, purged, strays>>

\* The page changed hands, storage is corrupt or unavailable, no key, no lock.
RetainThrows(c) ==
    /\ pc[c] = "hash"
    /\ GiveUp(c)
    /\ UNCHANGED <<intent, pages, observed, server, history>>

-----------------------------------------------------------------------------
(* The rest of submitScheduledEmail, and acknowledgeScheduledListIntent *)

\* The request leaves the browser with the retained key.
Post(c) ==
    /\ pc[c] = "retained"
    /\ Current(c)
    /\ pc' = [pc EXCEPT ![c] = "post"]
    /\ wire' = wire \cup {att[c]}
    /\ posted' = posted \cup {att[c]}
    /\ strays' = strays \cup (({att[c]} \cap purged) \ posted)
    /\ UNCHANGED <<intent, pages, observed, att, rows, used, acked, purged>>

\* The page changed hands or the composer moved on to another message; or the
\* request is refused, lost or times out.  The key stays where it is.
Abandon(c) ==
    /\ pc[c] \in {"retained", "post"}
    /\ GiveUp(c)
    /\ UNCHANGED <<intent, pages, observed, server, history>>

\* Seeded fault: any response counts as a stored row.
ScheduledUnchecked(c) ==
    /\ pc[c] = "post"
    /\ Current(c)
    /\ pc' = [pc EXCEPT ![c] = "ack"]
    /\ UNCHANGED <<intent, pages, observed, att, server, history>>

\* The server reports the row stored.
Scheduled(c) ==
    /\ pc[c] = "post"
    /\ att[c] \in rows
    /\ Current(c)
    /\ pc' = [pc EXCEPT ![c] = "ack"]
    /\ UNCHANGED <<intent, pages, observed, att, server, history>>

\* Under the lock: the key is removed if this tab observed it and it is still
\* the stored one.  Only then is the tab's entry dropped.
Acknowledge(c) ==
    /\ pc[c] = "ack"
    /\ IF Current(c) /\ att[c] \in observed[TabOf[c]] /\ intent = att[c]
       THEN /\ intent' = NoAttempt
            /\ observed' = [observed EXCEPT ![TabOf[c]] = @ \ {att[c]}]
            /\ acked' = acked \cup {att[c]}
       ELSE UNCHANGED <<intent, observed, acked>>
    /\ pc' = [pc EXCEPT ![c] = "close"]
    /\ UNCHANGED <<pages, att, server, used, posted, purged, strays>>

\* Storage refuses the removal, or the lock request fails; the composer closes
\* all the same.
AcknowledgeFails(c) ==
    /\ pc[c] = "ack"
    /\ pc' = [pc EXCEPT ![c] = "close"]
    /\ UNCHANGED <<intent, pages, observed, att, server, history>>

\* handleSchedule closes the composer, unless it holds another message by now;
\* either way this submission is over.
Close(c) ==
    /\ pc[c] = "close"
    /\ GiveUp(c)
    /\ UNCHANGED <<intent, pages, observed, server, history>>

-----------------------------------------------------------------------------
(* Pages and the signed-in user *)

\* sweepScopedKeys: every key of the user goes, this one among them.
Purge ==
    /\ intent' = NoAttempt
    /\ purged' = purged \cup (used \ acked)

\* A page learns that its session ended, or that the marker is not the one it
\* captured, perhaps only after this user signed in again: it takes its own
\* marker down and purges the user it served.
Invalidate(t) ==
    /\ cap[t] # 0
    /\ cap' = [cap EXCEPT ![t] = 0]
    /\ marker' = IF marker = cap[t] THEN 0 ELSE marker
    /\ Purge
    /\ UNCHANGED <<epoch, observed, pc, att, server, used, posted, acked, strays>>

\* Another user's page loads: it purges this user and takes the marker over.
OtherUserLoads ==
    /\ marker # 0
    /\ marker' = 0
    /\ Purge
    /\ UNCHANGED <<epoch, cap, observed, pc, att, server, used, posted, acked, strays>>

\* Seeded fault: a page that loads sweeps its own user's keys too.
LoadPageSweeps(t) ==
    /\ \/ marker # 0 /\ UNCHANGED <<marker, epoch>>
       \/ marker = 0 /\ epoch < MaxEpoch /\ marker' = epoch + 1 /\ epoch' = epoch + 1
    /\ cap' = [cap EXCEPT ![t] = marker']
    /\ intent' = NoAttempt
    /\ observed' = [observed EXCEPT ![t] = {}]
    /\ pc' = [c \in Callers |-> IF TabOf[c] = t THEN "idle" ELSE pc[c]]
    /\ att' = [c \in Callers |-> IF TabOf[c] = t THEN NoAttempt ELSE att[c]]
    /\ UNCHANGED <<server, history>>

\* A page loads or reloads: its memory is gone, its requests may still arrive.
LoadPage(t) ==
    /\ \/ marker # 0 /\ UNCHANGED <<marker, epoch>>
       \/ marker = 0 /\ epoch < MaxEpoch /\ marker' = epoch + 1 /\ epoch' = epoch + 1
    /\ cap' = [cap EXCEPT ![t] = marker']
    /\ observed' = [observed EXCEPT ![t] = {}]
    /\ pc' = [c \in Callers |-> IF TabOf[c] = t THEN "idle" ELSE pc[c]]
    /\ att' = [c \in Callers |-> IF TabOf[c] = t THEN NoAttempt ELSE att[c]]
    /\ UNCHANGED <<intent, server, history>>

\* Something outside the application damages the stored value.
StorageDamaged ==
    /\ intent \in Attempts
    /\ intent' = Corrupt
    /\ UNCHANGED <<pages, observed, pc, att, server, history>>

-----------------------------------------------------------------------------
(* The server and the network: external *)

\* A request arrives; the first one with its key makes the row, unless refused.
Arrive(a) ==
    /\ a \in wire
    /\ wire' = wire \ {a}
    /\ \/ rows' = rows \cup {a}
       \/ rows' = rows
    /\ UNCHANGED <<intent, pages, observed, pc, att, history>>

-----------------------------------------------------------------------------
Composer(c) ==
    \/ Submit(c) \/ RetainExisting(c) \/ RetainNew(c) \/ RetainThrows(c)
    \/ Post(c) \/ Abandon(c) \/ Scheduled(c)
    \/ Acknowledge(c) \/ AcknowledgeFails(c) \/ Close(c)

Next == \/ \E c \in Callers : Composer(c)
        \/ \E a \in Attempts : Arrive(a)
        \/ \E t \in Tabs : LoadPage(t) \/ Invalidate(t)
        \/ OtherUserLoads
        \/ StorageDamaged

Spec == Init /\ [][Next]_vars

-----------------------------------------------------------------------------
(* Properties *)

\* While nothing purges the user's keys, tabs, crashes and lost replies never leave
\* two keys open for one request, so the server never makes a second row.
OneOpenKey == \A a, b \in Open : a = b

\* An open key is still stored, so that every retry carries it again.
OpenKeyIsStored == \A a \in Open : intent \in {a, Corrupt}

\* The promise of a normal send holds here if a purge may stand for the
\* author's consent, and keys purged in a composer's hands are not counted:
\* the purge is the only way to a second row.
Promise == INSTANCE SendConsent WITH
    sent <- posted \ strays, delivered <- rows \ strays,
    acked <- acked, waived <- purged
PromiseUnlessPurged == Promise!Spec

-----------------------------------------------------------------------------
(* The inductive invariant *)

\* Keys travel only as the code passes them on.
KeyInv ==
    /\ intent \in Attempts => intent \in used
    /\ posted \subseteq used
    /\ acked \cup purged \subseteq used
    /\ intent \notin acked \cup purged
    /\ wire \subseteq posted
    /\ rows \subseteq posted
    /\ acked \subseteq rows
    /\ acked \cap purged = {}
    /\ strays \subseteq purged \cap posted

\* At most one key drawn is neither acknowledged nor purged, and it is stored.
Live == used \ (acked \cup purged)

LiveInv ==
    /\ \A a, b \in Live : a = b
    /\ \A a \in Live : intent \in {a, Corrupt}

\* What the composers hold: keys drawn, and rows the server reported.
CallerInv ==
    \A c \in Callers :
        /\ pc[c] \in {"retained", "post", "ack", "close"} => att[c] \in used
        /\ pc[c] \in {"ack", "close"} => att[c] \in rows

\* Together these are inductive: the stored key, the keys the tabs hold and
\* the rows of the server fit together at every reachable state.
Inv ==
    /\ TypeOK
    /\ KeyInv
    /\ LiveInv
    /\ CallerInv
=============================================================================
