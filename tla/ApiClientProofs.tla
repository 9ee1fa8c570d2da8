-------------------------- MODULE ApiClientProofs --------------------------
(***************************************************************************)
(* For any set of concurrent calls and any number of changes of session,   *)
(* nonce and lock: the invariant of ApiClient is inductive and its safety  *)
(* properties follow.                                                      *)
(***************************************************************************)
EXTENDS ApiClient, TLAPS

LEMMA InitInv == Init => Inv
  BY ApiClientAssumption
  DEF Init, Inv, TypeOK, RunsAsOwner, NonceInv, CallInv, MintInv, Nonces, Requests, Replies,
      PCs, Users, Cookies, Nothing, NoRequest, NoMint, NoHeartbeat

\* The bounds and tables a leaf needs to see a type.
LEMMA Fixed ==
  /\ Nothing \in Nonces /\ Nothing.user = "own"
  /\ NoRequest \in Requests /\ NoRequest.nonce.user = "own"
  /\ NoMint \in [stage : {"idle", "mint", "verify"}, cookie : Cookies, nonce : Nonces,
                 answer : Replies \cup Users \cup {None}]
  /\ NoMint.answer = None
  /\ None \notin Replies \cup Users
  BY ApiClientAssumption DEF Nothing, NoRequest, NoMint, Nonces, Requests, Replies, Users, Cookies

\* A call that is over leaves nothing behind.
LEMMA EndsInv ==
  ASSUME Inv, NEW c \in Calls, Ends(c),
         page' \in {"live", "stale", "gone"}, gate' \in BOOLEAN,
         UNCHANGED <<nonce, mint, heartbeat, world, foreign>>
  PROVE  Inv'
<1> USE Fixed DEF Inv
<1>1. TypeOK'
  BY DEF Ends, TypeOK, PCs, world
<1>2. RunsAsOwner'
  BY DEF RunsAsOwner
<1>3. NonceInv'
  BY DEF Ends, NonceInv, TypeOK
<1>4. CallInv'
  BY DEF Ends, CallInv, TypeOK, PCs, Replies
<1>5. MintInv'
  BY DEF Ends, MintInv, TypeOK
<1> QED
  BY <1>1, <1>2, <1>3, <1>4, <1>5

\* A request that leaves with one of the owner's nonces.
LEMMA LeavesInv ==
  ASSUME Inv, NEW c \in Calls, NEW n \in Nonces, n.user = "own", Leaves(c, n),
         ran[c] = 0 \/ c \notin Writes,
         relative' \subseteq Calls, relative' \cap Writes = {}, replayed' \subseteq Calls,
         UNCHANGED <<page, nonce, gate, outdated, mint, heartbeat, world, history>>
  PROVE  Inv'
<1> USE Fixed DEF Inv
<1>1. [nonce |-> n, cookie |-> cookie] \in Requests
  BY DEF TypeOK, Requests
<1>2. TypeOK'
  BY <1>1 DEF Leaves, TypeOK, PCs, world, history
<1>3. RunsAsOwner'
  BY DEF RunsAsOwner, history
<1>4. NonceInv'
  BY DEF Leaves, NonceInv, TypeOK
<1>5. CallInv'
  BY DEF Leaves, CallInv, TypeOK, PCs, Replies, history
<1>6. MintInv'
  BY DEF Leaves, MintInv, TypeOK
<1> QED
  BY <1>2, <1>3, <1>4, <1>5, <1>6

\* A mint that is over has its waiters go on.
LEMMA MintEndsInv ==
  ASSUME Inv, NEW b \in BOOLEAN, MintEnds(b),
         page' \in {"live", "stale", "gone"},
         nonce' \in Nonces, nonce'.user = "own",
         UNCHANGED <<gate, heartbeat, world, history>>
  PROVE  Inv'
<1> USE Fixed DEF Inv
<1>1. TypeOK'
  BY DEF MintEnds, TypeOK, PCs, world, history
<1>2. RunsAsOwner'
  BY DEF RunsAsOwner, history
<1>3. NonceInv'
  BY DEF MintEnds, NonceInv, Users
<1>4. CallInv'
  BY DEF MintEnds, CallInv, history
<1>5. MintInv'
  BY DEF MintEnds, MintInv
<1> QED
  BY <1>1, <1>2, <1>3, <1>4, <1>5

\* The steps of one call.
LEMMA CallInvStep ==
  ASSUME Inv, NEW c \in Calls,
         \/ Call(c) \/ CallRefused(c) \/ GivesUp(c) \/ FallsBack(c) \/ CallStep(c)
         \/ Refuses(c) \/ Runs(c)
  PROVE  Inv'
<1> USE DEF Inv
<1>0. page \in {"live", "stale", "gone"} /\ Noticed \in {"live", "stale", "gone"}
      /\ gate \in BOOLEAN /\ nonce \in Nonces /\ nonce.user = "own"
  BY DEF TypeOK, Noticed, NonceInv
<1>1. CASE Call(c)
  <2>1. ran[c] = 0 \/ c \notin Writes
    BY <1>1, Fixed DEF Call, CallInv, Replies
  <2> QED
    BY <1>0, <1>1, <2>1, LeavesInv DEF Call, TypeOK, CallInv
<1>2. CASE CallRefused(c)
  BY <1>0, <1>2 DEF CallRefused, call, world, history, TypeOK, RunsAsOwner, NonceInv, CallInv, MintInv
<1>3. CASE GivesUp(c)
  BY <1>0, <1>3, EndsInv DEF GivesUp
<1>4. CASE FallsBack(c)
  <2>1. req[c].nonce \in Nonces /\ req[c].nonce.user = "own"
    BY DEF TypeOK, NonceInv, Requests
  <2> QED
    BY <1>0, <1>4, <2>1, LeavesInv DEF FallsBack, TypeOK, CallInv
<1>5. CASE Headers(c)
  <2>1. CASE Ends(c)
    BY <1>0, <1>5, <2>1, EndsInv DEF Headers, Expires
  <2>2. CASE pc' = [pc EXCEPT ![c] = "reading"]
             /\ UNCHANGED <<page, req, reply, replayed, relative, outdated, ran>>
    BY <1>5, <2>2 DEF Headers, world, TypeOK, PCs, RunsAsOwner, NonceInv, CallInv, MintInv
  <2> QED
    BY <1>5, <2>1, <2>2 DEF Headers, Expires
<1>6. CASE Unread(c) \/ LockHeard(c) \/ Answered(c)
  <2>1. gate' \in BOOLEAN /\ Passes(c) /\ UNCHANGED <<nonce, mint, heartbeat, world, history>>
    BY <1>0, <1>6 DEF Unread, LockHeard, Answered
  <2> QED
    BY <2>1 DEF Passes, world, history, TypeOK, PCs, RunsAsOwner, NonceInv, CallInv, MintInv
<1>7. CASE NotCurrent(c) \/ LoggedOut(c) \/ StillStale(c) \/ NoReplay(c) \/ BodyRead(c) \/ BodyFails(c)
  <2>1. /\ Ends(c) /\ page' \in {"live", "stale", "gone"} /\ gate' \in BOOLEAN
        /\ UNCHANGED <<nonce, mint, heartbeat, world, foreign>>
    BY <1>0, <1>7 DEF NotCurrent, LoggedOut, StillStale, NoReplay, BodyRead, BodyFails, Expires
  <2> QED
    BY <2>1, EndsInv
<1>8. CASE Heals(c)
  <2>1. /\ mint' \in [stage : {"idle", "mint", "verify"}, cookie : Cookies, nonce : Nonces,
                       answer : Replies \cup Users \cup {None}]
        /\ mint'.stage # "idle"
        /\ mint'.answer = "own" => mint'.nonce.user = "own"
    BY <1>8, Fixed DEF Heals, TypeOK, NoMint, NonceInv, Users, Cookies
  <2> QED
    BY <1>8, <2>1 DEF Heals, world, history, TypeOK, PCs, RunsAsOwner, NonceInv, CallInv, MintInv
<1>9. CASE Replays(c)
  <2>1. ran[c] = 0 \/ c \notin Writes
    BY <1>9 DEF Replays, CallInv
  <2> QED
    BY <1>0, <1>9, <2>1, LeavesInv DEF Replays, TypeOK, CallInv
<1>10. CASE Refuses(c)
  <2>1. PICK a \in Replies \ {"ok"} : reply' = [reply EXCEPT ![c] = a]
    BY <1>10 DEF Refuses, Replies
  <2> QED
    <3>1. TypeOK' /\ RunsAsOwner'
      BY <1>10, <2>1 DEF Refuses, world, history, TypeOK, RunsAsOwner
    <3>2. pc[c] = "sent" /\ reply[c] = None
          /\ UNCHANGED <<pc, req, ran, relative, nonce, mint>>
      BY <1>10 DEF Refuses, history
    <3>3. NonceInv' /\ MintInv'
      BY <3>2 DEF NonceInv, MintInv
    <3>4. CallInv'
      BY <2>1, <3>2, Fixed DEF CallInv, TypeOK, Replies
    <3> QED
      BY <3>1, <3>3, <3>4
<1>11. CASE Runs(c)
  <2>1. foreign' = foreign
    BY <1>11 DEF Runs, Valid, NonceInv
  <2> QED
    <3>1. TypeOK' /\ RunsAsOwner'
      BY <1>11, <2>1 DEF Runs, TypeOK, RunsAsOwner, Replies
    <3>2. /\ pc[c] = "sent" /\ reply[c] = None
          /\ reply' = [reply EXCEPT ![c] = "ok"] /\ ran' = [ran EXCEPT ![c] = @ + 1]
          /\ UNCHANGED <<pc, req, relative, nonce, mint>>
      BY <1>11 DEF Runs
    <3>3. NonceInv' /\ MintInv'
      BY <3>2 DEF NonceInv, MintInv
    <3>4. CallInv'
      BY <3>2, Fixed DEF CallInv, TypeOK, Replies
    <3> QED
      BY <3>1, <3>3, <3>4
<1> QED
  BY <1>1, <1>2, <1>3, <1>4, <1>5, <1>6, <1>7, <1>8, <1>9, <1>10, <1>11 DEF CallStep

\* Mints, heartbeats, and what the server and the session do.
LEMMA OtherStep ==
  ASSUME Inv,
         \/ MintStep \/ HeartbeatArrives \/ ServeMint \/ ServeVerify \/ ServeHeartbeat
         \/ \E who \in Cookies : SessionChanges(who)
         \/ MarkerChanges \/ NoncesExpire \/ PolicyChanges \/ LockChanges
  PROVE  Inv'
<1> USE DEF Inv
<1>0. page \in {"live", "stale", "gone"} /\ Noticed \in {"live", "stale", "gone"}
      /\ nonce \in Nonces /\ nonce.user = "own"
  BY DEF TypeOK, Noticed, NonceInv
<1>1. CASE MintLosesPage
  BY <1>0, <1>1, MintEndsInv DEF MintLosesPage
<1>2. CASE MintFails
  BY <1>0, <1>2, MintEndsInv DEF MintFails
<1>3. CASE MintInstalls
  BY <1>0, <1>3, MintEndsInv DEF MintInstalls, TypeOK, NonceInv
<1>4. CASE MintVerifies
  <2>1. /\ mint' \in [stage : {"idle", "mint", "verify"}, cookie : Cookies, nonce : Nonces,
                       answer : Replies \cup Users \cup {None}]
        /\ mint'.stage # "idle" /\ mint'.answer # "own"
    BY <1>4, Fixed DEF MintVerifies, TypeOK, Users
  <2> QED
    BY <1>4, <2>1 DEF MintVerifies, call, world, history, TypeOK, RunsAsOwner, NonceInv, CallInv, MintInv
<1>5. CASE HeartbeatArrives
  <2>1. page' \in {"live", "stale", "gone"} /\ nonce' \in Nonces /\ nonce'.user = "own"
    BY <1>0, <1>5 DEF HeartbeatArrives, TypeOK, Nonces, Users
  <2>2. heartbeat' \in [user : Cookies \cup {"none"}, period : 0 .. MaxEvents]
    BY <1>5, ApiClientAssumption DEF HeartbeatArrives, NoHeartbeat
  <2> QED
    BY <1>5, <2>1, <2>2 DEF HeartbeatArrives, call, world, history, TypeOK, RunsAsOwner, NonceInv,
       CallInv, MintInv
<1>6. CASE ServeMint
  <2>1. /\ mint' \in [stage : {"idle", "mint", "verify"}, cookie : Cookies, nonce : Nonces,
                       answer : Replies \cup Users \cup {None}]
        /\ mint'.stage # "idle" /\ mint'.answer # "own"
    <3>1. period \in 0 .. MaxEvents
      BY ApiClientAssumption DEF TypeOK
    <3> QED
      BY <1>6, <3>1 DEF ServeMint, TypeOK, Nonces, Cookies, Users, Replies
  <2> QED
    BY <1>6, <2>1 DEF ServeMint, call, world, history, TypeOK, RunsAsOwner, NonceInv, CallInv, MintInv
<1>7. CASE ServeVerify
  <2>1. /\ mint' \in [stage : {"idle", "mint", "verify"}, cookie : Cookies, nonce : Nonces,
                       answer : Replies \cup Users \cup {None}]
        /\ mint'.stage # "idle"
        /\ mint'.answer = "own" => mint'.nonce.user = "own"
    BY <1>7 DEF ServeVerify, Valid, TypeOK, Nonces, Cookies, Users, Replies
  <2> QED
    BY <1>7, <2>1 DEF ServeVerify, call, world, history, TypeOK, RunsAsOwner, NonceInv, CallInv, MintInv
<1>8. CASE ServeHeartbeat
  BY <1>8, ApiClientAssumption DEF ServeHeartbeat, Happens, call, history, TypeOK, Cookies, RunsAsOwner,
     NonceInv, CallInv, MintInv
<1>9. CASE \E who \in Cookies : SessionChanges(who)
  BY <1>9, ApiClientAssumption DEF SessionChanges, Happens, call, history, TypeOK, RunsAsOwner,
     NonceInv, CallInv, MintInv
<1>10. CASE MarkerChanges \/ LockChanges
  <2>1. /\ events' \in 0 .. MaxEvents /\ period \in 0 .. events'
        /\ page' \in {"live", "stale", "gone"}
    BY <1>10, ApiClientAssumption DEF MarkerChanges, LockChanges, Happens, TypeOK
  <2>3. locked' \in BOOLEAN
    BY <1>10, Zenon DEF MarkerChanges, LockChanges, TypeOK
  <2>2. UNCHANGED <<nonce, gate, pc, req, reply, replayed, relative, outdated,
                    mint, heartbeat, cookie, period, ran, foreign>>
    BY <1>10 DEF MarkerChanges, LockChanges, call, history
  <2> QED
    BY <2>1, <2>2, <2>3 DEF TypeOK, RunsAsOwner, NonceInv, CallInv, MintInv
<1>11. CASE NoncesExpire
  <2>1. events' \in 0 .. MaxEvents /\ period' \in 0 .. events'
    BY <1>11, ApiClientAssumption DEF NoncesExpire, Happens, TypeOK
  <2>2. UNCHANGED <<page, nonce, gate, pc, req, reply, replayed, relative, outdated,
                    mint, heartbeat, cookie, locked, ran, foreign>>
    BY <1>11 DEF NoncesExpire, call, history
  <2> QED
    BY <2>1, <2>2 DEF TypeOK, RunsAsOwner, NonceInv, CallInv, MintInv
<1>12. CASE PolicyChanges
  <2>1. outdated' \subseteq Calls
    BY <1>12, ApiClientAssumption DEF PolicyChanges
  <2>2. /\ events' \in 0 .. MaxEvents /\ period \in 0 .. events'
        /\ UNCHANGED <<page, nonce, gate, pc, req, reply, replayed, relative,
                       mint, heartbeat, cookie, period, locked, ran, foreign>>
    BY <1>12, ApiClientAssumption DEF PolicyChanges, Happens, history, TypeOK
  <2> QED
    <3>1. TypeOK' /\ RunsAsOwner'
      BY <2>1, <2>2 DEF TypeOK, RunsAsOwner
    <3>2. NonceInv' /\ CallInv' /\ MintInv'
      BY <2>2 DEF NonceInv, CallInv, MintInv
    <3> QED
      BY <3>1, <3>2
<1> QED
  BY <1>1, <1>2, <1>3, <1>4, <1>5, <1>6, <1>7, <1>8, <1>9, <1>10, <1>11, <1>12 DEF MintStep

LEMMA StepInv == Inv /\ [Next]_vars => Inv'
<1>1. ASSUME Inv, Next PROVE Inv'
  BY <1>1, CallInvStep, OtherStep DEF Next
<1>2. ASSUME Inv, UNCHANGED vars PROVE Inv'
  BY <1>2 DEF vars, call, world, history, Inv, TypeOK, RunsAsOwner, NonceInv, CallInv, MintInv
<1> QED
  BY <1>1, <1>2

\* The invariant holds of every page, whatever it calls and whoever signs in
\* (api-client.ts, nonce.ts).
THEOREM Invariance == Spec => []Inv
  BY InitInv, StepInv, PTL DEF Spec

\* The server never runs a request of this page as another user: the page
\* holds and sends its own user's nonces only.
THEOREM OwnerOnly == Spec => []RunsAsOwner
<1>1. Inv => RunsAsOwner
  BY DEF Inv
<1> QED
  BY <1>1, Invariance, PTL

\* A write runs at most once, through fallbacks, timeouts and replays.
THEOREM WritesOnce == Spec => []WritesRunOnce
<1>1. Inv => WritesRunOnce
  <2>1. ASSUME Inv, NEW c \in Writes PROVE ran[c] = 0 \/ ran[c] = 1
    BY <2>1 DEF Inv, CallInv
  <2> QED
    BY <2>1 DEF WritesRunOnce
<1> QED
  BY <1>1, Invariance, PTL

\* A write answered with a refusal did not run in an earlier attempt either.
THEOREM RefusalSound == Spec => []RefusedDidNotRun
<1>1. Inv => RefusedDidNotRun
  BY DEF Inv, CallInv, RefusedDidNotRun
<1> QED
  BY <1>1, Invariance, PTL
=============================================================================
