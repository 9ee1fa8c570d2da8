----------------------------- MODULE ApiClient -----------------------------
(***************************************************************************)
(* lib/api-client.ts, lib/nonce.ts and lib/mailbox-lock.ts in one page of  *)
(* user "own": calls of apiFetch, the one mint they share when their nonce *)
(* has expired, heartbeats that bring nonces, and the gate that a lock     *)
(* answer closes.  Meanwhile the browser's session ends, or becomes        *)
(* another user's, and nonces expire.                                      *)
(*                                                                         *)
(* A nonce is known by its user and the period it was made in.  A request  *)
(* carries the nonce the page had and the cookie the browser had when it   *)
(* left; the server runs it only when the two agree and the nonce is of    *)
(* the current period.                                                     *)
(*                                                                         *)
(* Each await of apiFetch is followed by the same two checks, so a step    *)
(* here ends where what comes next can depend on them: when the headers    *)
(* are there, when an error's body was read, when the caller read it.      *)
(***************************************************************************)
EXTENDS Naturals

CONSTANTS
    Calls,      \* slots for calls of apiFetch
    Writes,     \* those that are not GET or HEAD
    Unlocks,    \* writes of the LockGate: unlock, reset-confirm
    Cached,     \* reads bound to the email cache's revision
    None,       \* "not answered"
    MaxEvents   \* bound on what happens to the session and the server meanwhile

ASSUME ApiClientAssumption ==
    /\ Writes \subseteq Calls /\ Unlocks \subseteq Writes
    /\ Cached \subseteq Calls \ Writes
    /\ MaxEvents \in Nat
    /\ None \notin {"ok", "stale", "signedOut", "locked", "refused", "own", "other"}

VARIABLES
    page,       \* live; stale: storage has another marker, unnoticed; gone
    nonce,      \* wpApiSettings.nonce
    gate,       \* the mailbox-lock store says locked
    pc,         \* how far each call is
    req,        \* what its request carries
    reply,      \* what the server answered
    replayed,   \* calls in their attempt after a heal
    relative,   \* calls in their fallback to a relative URL
    outdated,   \* reads begun under an older cache revision
    mint,       \* refreshInFlight
    heartbeat,  \* an answered heartbeat on its way, or another tab's relay of it
    \* the world
    cookie,     \* whom the browser's cookies sign in
    period,     \* nonces of earlier periods have expired
    locked,     \* the server's mailbox lock
    events,     \* how often something happened to these and to storage
    \* history
    ran,        \* how often the server ran each call, while it lasts
    foreign     \* calls it ran as someone else

call == <<pc, req, reply, replayed, relative, outdated>>
world == <<cookie, period, locked, events>>
history == <<ran, foreign>>
vars == <<page, nonce, gate, call, mint, heartbeat, world, history>>

Users == {"own", "other"}
Cookies == Users \cup {"nobody"}
Nonces == [user : Users, period : 0 .. MaxEvents]
Requests == [nonce : Nonces, cookie : Cookies]
Replies == {"ok", "stale", "signedOut", "locked", "refused"}
PCs == {"idle", "sent", "reading", "healing", "healed", "unhealed", "body"}
Nothing == [user |-> "own", period |-> 0]  \* in a field that is not in use
NoRequest == [nonce |-> Nothing, cookie |-> "nobody"]
NoHeartbeat == [user |-> "none", period |-> 0]
NoMint == [stage |-> "idle", cookie |-> "nobody", nonce |-> Nothing, answer |-> None]

TypeOK ==
    /\ page \in {"live", "stale", "gone"}
    /\ nonce \in Nonces /\ gate \in BOOLEAN
    /\ pc \in [Calls -> PCs]
    /\ req \in [Calls -> Requests]
    /\ reply \in [Calls -> Replies \cup {None}]
    /\ replayed \subseteq Calls /\ relative \subseteq Calls /\ outdated \subseteq Calls
    /\ mint \in [stage : {"idle", "mint", "verify"}, cookie : Cookies, nonce : Nonces,
                 answer : Replies \cup Users \cup {None}]
    /\ heartbeat \in [user : Cookies \cup {"none"}, period : 0 .. MaxEvents]
    /\ cookie \in Cookies /\ locked \in BOOLEAN
    /\ events \in 0 .. MaxEvents /\ period \in 0 .. events
    /\ ran \in [Calls -> Nat] /\ foreign \subseteq Calls

Init ==
    /\ page = "live" /\ nonce = Nothing
    /\ gate \in BOOLEAN /\ locked = gate
    /\ pc = [c \in Calls |-> "idle"]
    /\ req = [c \in Calls |-> NoRequest]
    /\ reply = [c \in Calls |-> None]
    /\ replayed = {} /\ relative = {} /\ outdated = {}
    /\ mint = NoMint /\ heartbeat = NoHeartbeat
    /\ cookie = "own" /\ period = 0 /\ events = 0
    /\ ran = [c \in Calls |-> 0] /\ foreign = {}

-----------------------------------------------------------------------------
(* The pieces the calls are made of *)

\* isRequestPrincipalCurrent; a check that finds the marker changed
\* invalidates the page.
Current == page = "live"
Noticed == IF page = "stale" THEN "gone" ELSE page

\* A request leaves with the nonce n.
Leaves(c, n) ==
    /\ req' = [req EXCEPT ![c] = [nonce |-> n, cookie |-> cookie]]
    /\ reply' = [reply EXCEPT ![c] = None]
    /\ pc' = [pc EXCEPT ![c] = "sent"]

\* The call is over: a reply, an error, or SessionExpiredError.
Ends(c) ==
    /\ pc' = [pc EXCEPT ![c] = "idle"]
    /\ req' = [req EXCEPT ![c] = NoRequest]
    /\ reply' = [reply EXCEPT ![c] = None]
    /\ replayed' = replayed \ {c}
    /\ relative' = relative \ {c}
    /\ outdated' = outdated \ {c}
    /\ ran' = [ran EXCEPT ![c] = 0]

Expires(c) == page' = Noticed /\ Ends(c)

-----------------------------------------------------------------------------
(* Attempts *)

Call(c) ==
    /\ pc[c] = "idle"
    /\ Current
    /\ Leaves(c, nonce)
    /\ UNCHANGED <<page, nonce, gate, replayed, relative, outdated, mint, heartbeat, world, history>>

\* A page whose user is gone sends nothing.
CallRefused(c) ==
    /\ pc[c] = "idle" /\ ~Current
    /\ page' = Noticed
    /\ UNCHANGED <<nonce, gate, call, mint, heartbeat, world, history>>

\* Seeded fault: what is not answered in time is sent once more.
GivesUpRetries(c) ==
    /\ pc[c] = "sent"
    /\ IF c \in replayed
         THEN Ends(c)
         ELSE /\ pc' = [pc EXCEPT ![c] = "healed"]
              /\ UNCHANGED <<req, reply, replayed, relative, outdated, ran>>
    /\ UNCHANGED <<page, nonce, gate, mint, heartbeat, world, foreign>>

\* The answer does not come in time, or the caller aborts; or the connection
\* fails, where a read may be tried again.  The server may have run it.
GivesUp(c) ==
    /\ pc[c] = "sent"
    /\ Ends(c)
    /\ UNCHANGED <<page, nonce, gate, mint, heartbeat, world, foreign>>

\* Seeded fault: any method falls back.
FallsBackAlways(c) ==
    /\ pc[c] = "sent"
    /\ c \notin relative
    /\ relative' = relative \cup {c}
    /\ Leaves(c, req[c].nonce)
    /\ UNCHANGED <<page, nonce, gate, replayed, outdated, mint, heartbeat, world, history>>

\* fetchWithFallback: the connection fails; a read goes to a relative URL,
\* with the nonce it has and without a check.
FallsBack(c) ==
    /\ pc[c] = "sent"
    /\ c \notin Writes /\ c \notin relative
    /\ relative' = relative \cup {c}
    /\ Leaves(c, req[c].nonce)
    /\ UNCHANGED <<page, nonce, gate, replayed, outdated, mint, heartbeat, world, history>>

\* fenceResponse: the headers are there.
Headers(c) ==
    /\ pc[c] = "sent" /\ reply[c] # None
    /\ \/ /\ c \in outdated
          /\ Ends(c)
          /\ UNCHANGED page
       \/ /\ c \notin outdated /\ ~Current
          /\ Expires(c)
       \/ /\ c \notin outdated /\ Current
          /\ pc' = [pc EXCEPT ![c] = "reading"]
          /\ UNCHANGED <<page, req, reply, replayed, relative, outdated, ran>>
    /\ UNCHANGED <<nonce, gate, mint, heartbeat, world, foreign>>

-----------------------------------------------------------------------------
(* apiFetch after the headers: what an error's body says *)

Passes(c) ==
    /\ pc' = [pc EXCEPT ![c] = "body"]
    /\ UNCHANGED <<page, req, reply, replayed, relative, outdated>>

NotCurrent(c) ==
    /\ pc[c] = "reading" /\ ~Current
    /\ Expires(c)
    /\ UNCHANGED <<nonce, gate, mint, heartbeat, world, foreign>>

\* The body does not arrive, or its reader is outdated: taken for malformed
\* JSON, the answer goes on to the caller.
Unread(c) ==
    /\ pc[c] = "reading" /\ Current
    /\ Passes(c)
    /\ UNCHANGED <<nonce, gate, mint, heartbeat, world, history>>

\* rejectConfirmedLogout
LoggedOut(c) ==
    /\ pc[c] = "reading" /\ Current /\ c \notin outdated
    /\ reply[c] = "signedOut"
    /\ page' = "gone"
    /\ Ends(c)
    /\ UNCHANGED <<nonce, gate, mint, heartbeat, world, foreign>>

\* announceMailboxLocked, heard by markMailboxLocked.  The answer to a replay
\* is not looked at.
LockHeard(c) ==
    /\ pc[c] = "reading" /\ Current /\ c \notin outdated
    /\ reply[c] = "locked"
    /\ gate' = (gate \/ c \notin replayed)
    /\ Passes(c)
    /\ UNCHANGED <<nonce, mint, heartbeat, world, history>>

\* Any other answer that is not a stale nonce.
Answered(c) ==
    /\ pc[c] = "reading" /\ Current /\ c \notin outdated
    /\ reply[c] \in {"ok", "refused"}
    /\ Passes(c)
    /\ UNCHANGED <<nonce, gate, mint, heartbeat, world, history>>

\* A stale nonce: the call waits for a mint, the one that is out or its own.
Heals(c) ==
    /\ pc[c] = "reading" /\ Current /\ c \notin outdated
    /\ reply[c] = "stale" /\ c \notin replayed
    /\ pc' = [pc EXCEPT ![c] = "healing"]
    /\ mint' = IF mint.stage = "idle"
                 THEN [NoMint EXCEPT !.stage = "mint", !.cookie = cookie]
                 ELSE mint
    /\ UNCHANGED <<page, nonce, gate, req, reply, replayed, relative, outdated,
                   heartbeat, world, history>>

\* The fresh nonce is stale too.
StillStale(c) ==
    /\ pc[c] = "reading" /\ Current /\ c \notin outdated
    /\ reply[c] = "stale" /\ c \in replayed
    /\ Ends(c)
    /\ UNCHANGED <<page, nonce, gate, mint, heartbeat, world, foreign>>

\* After the heal: the one replay, with whatever nonce the page has now.
Replays(c) ==
    /\ pc[c] = "healed" /\ Current
    /\ replayed' = replayed \cup {c}
    /\ relative' = relative \ {c}
    /\ Leaves(c, nonce)
    /\ UNCHANGED <<page, nonce, gate, outdated, mint, heartbeat, world, history>>

NoReplay(c) ==
    /\ \/ pc[c] = "unhealed" /\ Ends(c) /\ UNCHANGED page
       \/ pc[c] = "healed" /\ ~Current /\ Expires(c)
    /\ UNCHANGED <<nonce, gate, mint, heartbeat, world, foreign>>

\* The caller reads the body (apiJson, toEnvelope, the LockGate); the body of
\* an unlock that ran opens the gate.
BodyRead(c) ==
    /\ pc[c] = "body"
    /\ \/ /\ c \in outdated
          /\ Ends(c)
          /\ UNCHANGED <<page, gate>>
       \/ /\ c \notin outdated /\ ~Current
          /\ Expires(c)
          /\ UNCHANGED gate
       \/ /\ c \notin outdated /\ Current
          /\ Ends(c)
          /\ gate' = (gate /\ ~(c \in Unlocks /\ reply[c] = "ok"))
          /\ UNCHANGED page
    /\ UNCHANGED <<nonce, mint, heartbeat, world, foreign>>

BodyFails(c) ==
    /\ pc[c] = "body" /\ Current
    /\ Ends(c)
    /\ UNCHANGED <<page, nonce, gate, mint, heartbeat, world, foreign>>

-----------------------------------------------------------------------------
(* refreshRestNonce: one mint for all who wait *)

\* Seeded fault: a mint that failed tells nobody.
MintEndsSilently(fresh) ==
    /\ mint' = NoMint
    /\ pc' = [c \in Calls |-> IF pc[c] = "healing" /\ fresh THEN "healed" ELSE pc[c]]
    /\ UNCHANGED <<req, reply, replayed, relative, outdated>>

\* It is over, with a nonce installed or not; everyone who waits goes on.
MintEnds(fresh) ==
    /\ mint' = NoMint
    /\ pc' = [c \in Calls |->
                IF pc[c] # "healing" THEN pc[c] ELSE IF fresh THEN "healed" ELSE "unhealed"]
    /\ UNCHANGED <<req, reply, replayed, relative, outdated>>

\* invalidateOnAuthenticationLoss, matchesVerifiedPrincipal: nobody is signed
\* in any more, or somebody else is, or this page has lost its marker.
MintLosesPage ==
    /\ \/ mint.answer \in {"signedOut", "other"}
       \/ mint.answer \in {"ok", "own"} /\ ~Current
    /\ page' = "gone"
    /\ MintEnds(FALSE)
    /\ UNCHANGED <<nonce, gate, heartbeat, world, history>>

\* A failure that may pass.  The fetch has no limit of its own: it fails when
\* the browser gives it up.
MintFails ==
    /\ mint.stage # "idle" /\ mint.answer \notin {"signedOut", "other"}
    /\ MintEnds(FALSE)
    /\ UNCHANGED <<page, nonce, gate, heartbeat, world, history>>

\* Seeded fault: the minted nonce is installed without asking whose it is.
MintTrusted ==
    /\ mint.stage = "mint" /\ mint.answer = "ok" /\ Current
    /\ nonce' = mint.nonce
    /\ MintEnds(TRUE)
    /\ UNCHANGED <<page, gate, heartbeat, world, history>>

\* A nonce came: whose it is, is asked with that nonce.
MintVerifies ==
    /\ mint.stage = "mint" /\ mint.answer = "ok" /\ Current
    /\ mint' = [mint EXCEPT !.stage = "verify", !.cookie = cookie, !.answer = None]
    /\ UNCHANGED <<page, nonce, gate, call, heartbeat, world, history>>

\* setRuntimeNonce, with the evidence that it is the page's own.
MintInstalls ==
    /\ mint.stage = "verify" /\ mint.answer = "own" /\ Current
    /\ nonce' = mint.nonce
    /\ MintEnds(TRUE)
    /\ UNCHANGED <<page, gate, heartbeat, world, history>>

\* Seeded fault: another user's nonce is taken as well.
HeartbeatTrusted ==
    /\ heartbeat.user \in Users
    /\ heartbeat' = NoHeartbeat
    /\ nonce' = IF Current THEN heartbeat ELSE nonce
    /\ page' = Noticed
    /\ UNCHANGED <<gate, call, mint, world, history>>

\* applyHeartbeatNonce, also for what the leading tab relays.
HeartbeatArrives ==
    /\ heartbeat.user # "none"
    /\ heartbeat' = NoHeartbeat
    /\ \/ /\ Current /\ heartbeat.user = "own"
          /\ nonce' = heartbeat
          /\ UNCHANGED page
       \/ /\ Current /\ heartbeat.user # "own"
          /\ page' = "gone"
          /\ UNCHANGED nonce
       \/ /\ ~Current
          /\ page' = Noticed
          /\ UNCHANGED nonce
    /\ UNCHANGED <<gate, call, mint, world, history>>

-----------------------------------------------------------------------------
(* The server, and what happens to the session *)

Happens == events < MaxEvents /\ events' = events + 1

Valid(n, who) == n.user = who /\ n.period = period

\* An answer without running it.
Refuses(c) ==
    /\ pc[c] = "sent" /\ reply[c] = None
    /\ \/ ~Valid(req[c].nonce, req[c].cookie) /\ reply' = [reply EXCEPT ![c] = "stale"]
       \/ req[c].cookie = "nobody" /\ reply' = [reply EXCEPT ![c] = "signedOut"]
       \/ /\ Valid(req[c].nonce, req[c].cookie)
          /\ locked /\ c \notin Unlocks
          /\ reply' = [reply EXCEPT ![c] = "locked"]
       \/ /\ Valid(req[c].nonce, req[c].cookie)
          /\ ~locked \/ c \in Unlocks
          /\ reply' = [reply EXCEPT ![c] = "refused"]
    /\ UNCHANGED <<page, nonce, gate, pc, req, replayed, relative, outdated,
                   mint, heartbeat, world, history>>

\* It runs, as whom the cookie says.
Runs(c) ==
    /\ pc[c] = "sent" /\ reply[c] = None
    /\ Valid(req[c].nonce, req[c].cookie)
    /\ ~locked \/ c \in Unlocks
    /\ reply' = [reply EXCEPT ![c] = "ok"]
    /\ ran' = [ran EXCEPT ![c] = @ + 1]
    /\ foreign' = IF req[c].cookie = "own" THEN foreign ELSE foreign \cup {c}
    /\ locked' = (locked /\ c \notin Unlocks)
    /\ UNCHANGED <<page, nonce, gate, pc, req, replayed, relative, outdated,
                   mint, heartbeat, cookie, period, events>>

\* admin-ajax answers whoever the cookie signs in.
ServeMint ==
    /\ mint.stage = "mint" /\ mint.answer = None
    /\ mint' = IF mint.cookie = "nobody"
                 THEN [mint EXCEPT !.answer = "signedOut"]
                 ELSE [mint EXCEPT !.answer = "ok",
                                   !.nonce = [user |-> mint.cookie, period |-> period]]
    /\ UNCHANGED <<page, nonce, gate, call, heartbeat, world, history>>

\* impersonation-status answers with the user it ran as.
ServeVerify ==
    /\ mint.stage = "verify" /\ mint.answer = None
    /\ mint' = [mint EXCEPT !.answer =
                  IF Valid(mint.nonce, mint.cookie) THEN mint.cookie ELSE "stale"]
    /\ UNCHANGED <<page, nonce, gate, call, heartbeat, world, history>>

ServeHeartbeat ==
    /\ heartbeat.user = "none"
    /\ Happens
    /\ heartbeat' = [user |-> cookie, period |-> period]
    /\ UNCHANGED <<page, nonce, gate, call, mint, cookie, period, locked, history>>

\* Someone signs in or out in this browser.
SessionChanges(who) ==
    /\ Happens
    /\ cookie' = who
    /\ UNCHANGED <<page, nonce, gate, call, mint, heartbeat, period, locked, history>>

\* Another page's marker replaces this one's, for good.
MarkerChanges ==
    /\ page = "live"
    /\ Happens
    /\ page' = "stale"
    /\ UNCHANGED <<nonce, gate, call, mint, heartbeat, cookie, period, locked, history>>

NoncesExpire ==
    /\ Happens
    /\ period' = period + 1
    /\ UNCHANGED <<page, nonce, gate, call, mint, heartbeat, cookie, locked, history>>

\* setEmailCachePolicy, applyMailboxCachePolicy: another revision.
PolicyChanges ==
    /\ Happens
    /\ outdated' = {c \in Cached : pc[c] # "idle"}
    /\ UNCHANGED <<page, nonce, gate, pc, req, reply, replayed, relative,
                   mint, heartbeat, cookie, period, locked, history>>

\* Inactivity, "lock all" from another browser; another tab unlocks.
LockChanges ==
    /\ Happens
    /\ locked' = ~locked
    /\ UNCHANGED <<page, nonce, gate, call, mint, heartbeat, cookie, period, history>>

-----------------------------------------------------------------------------
(* Specification *)

CallStep(c) ==
    \/ Headers(c) \/ NotCurrent(c) \/ Unread(c) \/ LoggedOut(c) \/ LockHeard(c)
    \/ Answered(c) \/ Heals(c) \/ StillStale(c) \/ Replays(c) \/ NoReplay(c)
    \/ BodyRead(c) \/ BodyFails(c)

MintStep == MintLosesPage \/ MintFails \/ MintVerifies \/ MintInstalls

Next ==
    \/ \E c \in Calls :
        \/ Call(c) \/ CallRefused(c) \/ GivesUp(c) \/ FallsBack(c) \/ CallStep(c)
        \/ Refuses(c) \/ Runs(c)
    \/ MintStep \/ HeartbeatArrives
    \/ ServeMint \/ ServeVerify \/ ServeHeartbeat
    \/ \E who \in Cookies : SessionChanges(who)
    \/ MarkerChanges \/ NoncesExpire \/ PolicyChanges \/ LockChanges

Spec == Init /\ [][Next]_vars

\* The page runs: timers fire and promises that are settled go on.  The
\* browser ends a fetch that the code puts no limit on.
FairSpec ==
    /\ Spec
    /\ \A c \in Calls : WF_vars(GivesUp(c)) /\ WF_vars(CallStep(c))
    /\ WF_vars(MintStep)

-----------------------------------------------------------------------------
(* Properties *)

\* No request of this page ever runs as another user of the browser, however
\* sign-ins, mints, heartbeats and replays interleave (nonce.ts: a nonce is
\* installed only with evidence whose it is).
RunsAsOwner == foreign = {}

\* A write runs once at most: lost answers, timeouts, the fallback and the
\* replay after a heal never run it twice (api-client.ts, fetchWithFallback).
WritesRunOnce == \A c \in Writes : ran[c] <= 1

\* A caller that is told its write was refused, met a lock, or that the nonce
\* stayed stale, may try again: the write did not run.
RefusedDidNotRun ==
    \A c \in Writes :
        pc[c] \in {"reading", "body"} /\ reply[c] # "ok" => ran[c] = 0

\* Credentials: the page holds its own user's nonces and sends no others.
NonceInv ==
    /\ nonce.user = "own"
    /\ \A c \in Calls : req[c].nonce.user = "own"
    /\ mint.answer = "own" => mint.nonce.user = "own"

\* How far a call is, and what the server made of it.
CallInv ==
    /\ relative \cap Writes = {}
    /\ \A c \in Writes : ran[c] = IF reply[c] = "ok" THEN 1 ELSE 0
    /\ \A c \in Calls :
        /\ pc[c] = "idle" => reply[c] = None
        /\ pc[c] \in {"healing", "healed", "unhealed"} => reply[c] = "stale"

\* Whoever waits for a mint has one out.
MintInv == \A c \in Calls : pc[c] = "healing" => mint.stage # "idle"

\* Inductive.
Inv == TypeOK /\ RunsAsOwner /\ NonceInv /\ CallInv /\ MintInv

\* Every call ends: its wait for a mint ends with the mint, and a replay is
\* not followed by another.
CallsEnd == \A c \in Calls : pc[c] # "idle" ~> pc[c] = "idle"
=============================================================================
