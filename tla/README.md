# PressedMail client: specifications, model checks and proofs

PressedMail is a WordPress mail plugin. The repository holds its browser client
(`src/apps/wp-pressedmail/src`, TypeScript and React), vendored packages
(`src/packages`), a theme system and build scripts. The WordPress server is not in the
repository: it appears here only as the client uses it.

This directory holds TLA+ models of the client's coordination logic, the TLC runs that
check them, and TLAPS proofs about them. `PROJECT.json` lists components, runs, seeded
faults, findings, hazards and theorems, and maps every modelled definition to source
lines. Paths below are relative to `src/apps/wp-pressedmail/src` unless they begin
with `src/`.

    tlc -workers 2 -config MCNormalSend.cfg MCNormalSend
    tlapm NormalSendProofs.tla

## 1. Inventory

One browser holds several pages (tabs) of the application. Each page is a single
JavaScript thread; the hard behaviour comes from what happens between two `await`s and
between pages. The pages share `localStorage`, Web Locks and a BroadcastChannel. Pages
close, crash, are frozen in the back-forward cache, lose their user to another login in
the same browser, and lose replies.

| Component | State | Operations | How it interacts | What is hard, and what makes it correct |
|---|---|---|---|---|
| Normal send (`services/normal-send.service.ts`) | one key per (account, payload hash) in `localStorage`; the page's `inFlight` and `acceptedIntents` maps | `sendNormalEmail`, `sendLocked`, `acknowledgeNormalSend` | Web Lock per key; POST and status requests; a dialog; the composer that closes | A message leaves twice only if the author agreed. Interleaved tabs, crashes between storing, posting and answering, a dialog open while the first send completes, damaged storage, another user's login |
| Scheduled list intent (same file, `hooks/compose/v2/useComposeForm.ts`) | one key per (account, request hash); `scheduledIntents` | retain, acknowledge, `submitScheduledEmail` | Web Lock; one POST that the server deduplicates by key | Every retry carries the same key until the composer closed |
| Sync driver (`hooks/useSyncDriver.ts`) | module variables: `mountCount`, `pendingClaim`, `releaseLeadership`, `wakePending`, `tickTimer`, `inFlight`, waits, throttles, counters | mount/unmount, wake, kick, tick, visibility and page handlers | a Web Lock elects one tab; `sync-driver.service` requests; tab channel | Exactly one visible tab drives; nobody in view is left out; the loop never dies; server waits are honoured |
| Sync requests (`services/sync-driver.service.ts`) | none | one POST each | called by the driver and by pages | Their answers drive the loop |
| Principal storage (`lib/principal-storage.ts`) | the active-principal marker, the page's captured value, scoped keys | establish, invalidate, purge, cache policies | read by every guarded write | A page never acts for a user it no longer serves, and never disturbs another session |
| Tab channel (`lib/tab-channel.ts`) | leader flag, belief about the other leader, freshness | announce, resign, hello, relay | BroadcastChannel | Late messages must not erase newer belief |
| Request client (`lib/api-client.ts`, `lib/nonce.ts`) | nonce, in-flight mint, the page's principal | `apiFetch`, heal and replay once, heartbeat nonces | every service; cookies and nonces of the browser | Sign-ins, expiring nonces and lost answers between any two awaits. Nothing runs as another user; no write runs twice; every call ends |
| Process queue (`hooks/useProcessQueue.ts`) | store: tasks, when their request began, in-flight flag, interval, last relays, a fence against old ones | subscribe, poll, refresh, relay, cancel | the leader polls and relays to followers | An older snapshot never replaces a newer one; a tab that shows running work keeps looking; a refresh fetches |
| Body prefetch (`services/implementations/prefetch.service.ts`, `hooks/useVisibleBodyPrefetch.ts`) | queue, in-flight map, slots, clicks at work | ask, click, start, answer, clean up, cancel, destroy, warm a batch | message service, cache | Callbacks that run turns after a cancel. One read per message, limits hold, no slot leaks, a click hears why it failed, background work yields to it |
| Connection state (`services/implementations/connection-state.service.ts`) | breaker, notice episode | success, failure, transient | request client and UI | Cooldowns and notices reset exactly when they should |
| Settings autosave (`hooks/useAutosaveSetting.ts`, `hooks/useUserPreferences.ts`) | confirmed value, version, timer | change, save, rollback | settings endpoint | A rollback never discards a newer confirmed value |
| Mail operations, bulk actions (`layouts/shared/hooks/useMailOperations.ts`, `lib/bulk-*.ts`) | optimistic removals, undo | apply, roll back | inbox, process queue | A failed batch restores exactly what it removed |
| Compose form and drafts (`useComposeForm.ts`, `ComposerContext.tsx`) | compose session, operation gate, bound draft, queue of saves | timed, manual and leaving saves; close, dialog, leave, discard, send | normal send, draft endpoint, navigation | Saves that land after the user left, reopened, sent or discarded. One draft per session; none comes back after a send; no close clears words the server lacks |
| Mailbox lock (`lib/mailbox-lock.ts`) | locked flag, subscribers | lock on 423, unlock | request client, driver | A lock met by any request closes the gate; only an unlock that ran opens it |
| Inbox state (`services/implementations/{inbox,folder,message}.service.ts`) | lists, pages, the active view | load, page, reconcile | cache, request client | An answer for an abandoned view is dropped |
| Cache and search (`services/implementations/{cache,search,sync}.service.ts`) | generations, entries, the running search | put, invalidate, search | inbox | A superseded search never shows |
| Notifications (`layouts/shared/hooks/use*Notification*.ts`) | seen sets, pauses | poll, relay, alert | tab channel | One alert per message and browser |
| Threading, grouping, selection | none, or a reducer | pure functions | inbox | Grouping loses and duplicates nothing |
| UI, rich text editor, vendored packages, build | - | - | - | not protocol; not modelled |

`PROJECT.json` "hazards" lists where each of these can go wrong, line by line, and the
properties that guard it, or why none does yet.

## 2. Modules

| Module | Models | Role |
|---|---|---|
| `SendConsent` | what sending promises the author | abstract specification |
| `NormalSend` | `sendNormalEmail`, `sendLocked`, `acknowledgeNormalSend`, the composer around them | implements `SendConsent` |
| `ScheduledList` | `retainScheduledListIntent`, `submitScheduledEmail`, `acknowledgeScheduledListIntent`, the purges of `principal-storage.ts` | implements `SendConsent` with a weaker waiver |
| `TabElection` | `useSyncDriver.ts`, whatever its clock says | leadership and the loop |
| `SyncPacing` | the clock of `useSyncDriver.ts` | refines `TabElection`: adds variables, decides its choices |
| `ProcessQueue` | `useProcessQueue.ts` in one tab, among any others | the activity list and its relays |
| `ApiClient` | `api-client.ts`, `nonce.ts`, the flag of `mailbox-lock.ts` in one page | requests, heal and replay |
| `PrefetchQueue` | `prefetch.service.ts` and the warm loop over it | body reads |
| `DraftsFolder` | what the composer promises of the Drafts folder | abstract specification |
| `ComposeDrafts` | the save queue of `ComposerContext.tsx`, the gate, saves and ways out of `useComposeForm.ts` | drafts; implements `DraftsFolder` |
| `<module>Proofs` | `NormalSend`, `ScheduledList`, `SyncPacing` (with it `TabElection`), `ProcessQueue`, `ApiClient`, `PrefetchQueue`, `ComposeDrafts` | theorems |
| `ComposeWordsProofs` | `ComposeDrafts`, on top of `ComposeDraftsProofs` | theorems about words, and the refinement |
| `MC<module>` for each but `SendConsent` and `DraftsFolder` | | instances for TLC |

### NormalSend

One authored message is one storage key and one Web Lock. A *caller* is one activation
of `sendNormalEmail` with its composer.

* `intent` is the `localStorage` value: no key, an attempt key, or `Corrupt`, a value that
  fails the parser. `lock` is the holder of the Web Lock. `marker`, `epoch` and `cap` are
  the active-principal marker, how often pages of this user wrote it, and the value each
  page captured; `Current` is `isStoragePrincipalCurrent`.
* `pc` follows the `await`s: `hash` (fingerprint), `want` (`navigator.locks.request`),
  `joined` (sharing another caller's promise in `inFlight`), `status1`, `confirm` (the
  dialog), `status2`, `persisted` (key stored, POST not yet sent), `post`, `recheck` (the
  status read after an unreadable POST), `done`, `ack`.
* One action is one run of code between two awaits: `GrantFirst` is the lock callback when
  storage is empty (draw a key, store it, read it back); `GrantExisting` starts the status
  read; `FirstStatus`, `Agree`, `Decline`, `SecondStatusRetry`, `SecondStatusSettled` are
  the branch on a retryable outcome; `Transmit`, `Receipt`, `PostLost` the POST; `Throw`
  and `StoredThenThrow` every error path, storage left as each leaves it.
* `CloseComposer`, `LeaveComposer`, `AckGrant`, `AckFails` are the composer after the
  receipt and `acknowledgeNormalSend`.
* `LoadPage` is a reload, a crash or a sign-in: the page's memory goes, the browser frees
  its lock, its requests may still arrive. `PrincipalChanges` ends the session; the purges
  keep `normal-send-intent:` keys. `StorageDamaged` is anything else writing the key.
* The server (`Arrive`, `Lose`, `Settle`, `Answer`) is external: a POST may arrive late, or
  never, may settle to accepted, uncertain or failed, and uncertain may turn out accepted.
  An answer is computed at one moment and acted on later.
* `used`, `posted`, `acked`, `waived`, `consent`, `late` are history. No guard reads them,
  except that a fresh key is not in `used` (`randomUUID`).

Taken as data: the fingerprint's canonical form and hash (identity of the message), the
outcome record (its retry class), wording.

### SendConsent and its two implementations

`SendConsent` has four actions: `Send` (only when every earlier attempt is closed), `Deliver`,
`Acknowledge`, `Waive`. `NormalSend` implements it with `sent <- posted`, `delivered <-` the
attempts the server accepted, `waived <-` the attempts the author agreed to send over
(`KeepsPromise`).

In `ScheduledList` nobody is asked. It implements the same promise with `waived <- purged`
and with *strays* left out of `sent` and `delivered` (`PromiseUnlessPurged`). A stray is a
key purged while a composer already held it and before its request left. So the property
says that a purge is the only thing that lets one request carry two keys. In this model a
page's `Invalidate` may be late, after the same user signed in again, as a frozen tab does;
`OtherUserLoads` is another user's page. Both lock callbacks await nothing, so each is one
step and the lock has no variable.

### TabElection

`page` is what the browser does with a tab (closed, hidden, visible, in the back-forward
cache); the other variables are the driver's module variables, named in comments. `holder`
is the browser's side of the lock and `held` the page's (`releaseLeadership` set): between a
yield and `Release` they differ. A `Sandboxed` tab's lock requests are refused, and
`claimLeadership`'s catch makes it lead without a lock.

A tick is `advance`, then perhaps `drain`, perhaps `body`, then `settle` (the remaining
code, waiting for the turn beside the advance), then `ending` (the `finally`). `beside` is
`parallelBodyTurn`. Whatever the clock decides (throttled or not, a wait still running) is a
choice, so every property holds for every clock. Not in this module: the waits themselves
(`SyncPacing`), failure counters, notices.

### SyncPacing

Each action conjoins one of `TabElection` with what the handler does to the clock, so every
behaviour of it is one of `TabElection`'s (theorem `Paces`) and nothing proved there is lost.
`due` is when the armed timer fires, `hold` what is left of `notBefore`, `rested` the time since
`lastTickEndedAt`. Time is in units of the model and the same for all tabs (`Pass`); a timer is
never early and may be late, as in a machine that slept. Which wait an answer asks for
(`holdOff`, `backoffDelay`) and whether the next look is brisk or idle are choices.

`own` and `heard` are history: whether the last tick, and the request that was told to wait,
began after the driver was last mounted. The two properties are about those waits, because for
the others they are false (section 7).

### ProcessQueue

The server's queue is known by its version: `log[v]` is the set of unfinished tasks after `v`
changes. A list, an answer and a relay are the version they were read at. `began[x]` is the
version as millisecond `x` began, so a snapshot for a request of time `x` is at least that new:
`Honest`. Events may share a millisecond.

Tabs meet in relays only. `HearRelay` accepts any honest relay, late, repeated or out of order;
`RelaysAreHonest` shows that this tab's own relays are honest as well, and `HonestyLasts` that they
stay so on their way: each tab may rely on the others. That replaces a model of every tab with its channels by one of a single tab, and
covers any number of them and the replay to a tab that says hello.

Each entry is `poll` followed by `reschedule`: `StartPoll` when the request leaves,
`StandDown` for the early returns. `AnswerShows` is the answer's way to the list, and, in a
leader, to the channel. Choices: whether a tab believes in a leader (`isFollowingLeader`)
and when the interval fires. Left out: the interval's period, loading and error, the flag
`cancel` puts on a row (the property compares moments instead).

### ApiClient

`apiFetch` checks the same two things after every `await`: that the page's principal is still
the one captured before the first attempt, and that the cache revision a read was bound to
still holds. So a call has a state per await: `sent`, `reading` (the headers are there, an
error's body is read), `healing` (it waits for the mint), `healed` or `unhealed`, `body` (the
caller reads). `replayed` marks the attempt after the heal, `relative` the fallback URL.

* `nonce` is the runtime nonce, known by its user and the period it was made in; `mint` is
  `refreshInFlight` with its two stages, the mint proper and the verification of whose nonce it
  is; `heartbeat` an answered heartbeat or another tab's relay of it.
* `page` is `stale` when storage has another marker that nobody looked at yet, `gone` once a
  check noticed. `gate` is the locked flag.
* The server runs a request only when the nonce belongs to the cookie's user and to the
  current period. The cookie, nonces, marker, cache revision and mailbox lock change at any
  moment, `MaxEvents` times.
* `GivesUp` is the time limit, the caller's abort or a failed connection; the server may have
  run the request, and may still.

Left out: the limits as times, `announcePermissionDenied`, wording.

### PrefetchQueue

Calls of `fetchDetail` are numbered. The queue is sorted after every push with a stable sort, so it
is the set `queued` read by (priority, number). A task of the page runs to its end: `running` is
`processQueue` in its loop, one action per turn. What settled promises still have to do are
actions of their own that run before the next task: `CleansUp` is the `promise.finally` of
`fetchDetail`, which deletes the in-flight entry of its message *whichever call it belongs to by
then*, and `Finishes` the `finally` of the loop, two links later. Code of the task that
cancels may call the service before those run; that gap is where entries are lost
(`unlisted`).

`isHealthy` of the connection state is a choice, and which messages a page wants warmed is
one too. The application asks as "user-selected" only, besides the default;
`cancelBackground` is called by `InboxContext.tsx`, while `cancelForFolder` and `destroy`
are part of the service's interface without a caller there. Left out: the lookup of a
message reference when it fails, the pause between warm batches, the content of a body.

### ComposeDrafts

The compose data outlives the forms that edit it. A *session* is one value of
`composeSessionVersionRef`; a *form* is one mounted `useComposeForm` with refs of its own. An old
form's promises go on after it unmounted, so every continuation checks whose session it is now.

* `queueDraftSave` keeps one running and one waiting save per session; a save that joins gives
  the waiting one its content (`Queue`), and the next starts when the one before settles, with
  the draft that one wrote (`Started`). A *leaving* save captured its words and still runs when
  the session has ended; any other is dropped.
* A save is `sent`, then `stored` by the server, then `saved` once the answer is heard; or
  `failed`, `late` (given up while the server is still at work) or `lost` (stored, never heard).
  A save replaces the draft it names, and is refused with `DRAFT_DELETED` if that is gone.
* `gate` is `operationGateRef`. An operation claims it, waits for its save (`saving`) or for the
  queue to drain (`draining`), asks the server (`requested`), and releases it.
* `Closes`, `Deletes`, `DialogSaves`, `KeepsEditing`, `Leaves`, `Sends` are the handlers up
  to their first await; `DrainsOn`, `CloseEnds`, `DialogCloseEnds`, `GoesOn`, `Ends`,
  `Fails` what comes after.
* What a settled promise still has to do runs before the next event (`Idle`).

* An operation the user turned away from (by leaving, or by Keep Editing) is `adrift`: its
  continuation still runs, and still reads whatever form is open by then.

`DraftsFolder` is what the user sees of all this: a set of drafts, each of a session, the
sessions that are `gone` (sent or thrown away) and those `unheard` (one of their saves was given
up on). It has four actions: `Store` (in the place of the session's draft, never of a newer
one), `Take` (the message and its draft go), `Doubt` (nobody heard that it was taken) and
`GiveUp`. `KeepsFolder` reads it off `drafts`, the stages of the saves and those of the sends
and discards. It implies `OneDraft`, which the runs check as a conjunct of `Core`.

Words are version numbers: every edit makes a new one. React's rendering is taken as done
before the next event. Left out: emptying the message by editing, scheduled edits, undo
send, attachments and image uploads, send confirmation, deletion of the open draft from the
list, returning to a composer that was left; one tab.

## 3. Runs

| Run | Result | What it shows | Bounds |
|---|---|---|---|
| `normal_send` | pass | the inductive invariant and every safety property of `NormalSend`, and that it implements `SendConsent` | 3 composers (two in one tab, one in another), 2 keys, 2 markers; symmetry on keys and on the two composers; 512,087 states |
| `normal_send_live` | pass | a send that asked for the lock ends, unless some composer's dialog stays open holding it (`SendEnds`) | 2 composers in 2 tabs, 2 keys, 1 marker; no symmetry; 105,101 states |
| `tab_election` | pass | the inductive invariant (with it, no loop dies), nobody in view left out, no wake forgotten, no tick over another; deadlock checked | an ordinary and a sandboxed tab, 2 mounts each, two requests allowed; 203,000 states |
| `tab_election_live` | pass | one leader at most, in view; someone leads; the leader keeps ticking; deadlock checked | two ordinary tabs, 2 mounts each; 66,781 states |
| `sync_pacing` | pass | a wait told to a request of this mount is kept to the moment; the inductive invariant with the clock; deadlock checked | an ordinary and a sandboxed tab, 1 mount each; waits of 2 units, rest of 1, looks after 1 and 2, breath 0; 1,985,697 states |
| `process_queue` | pass | no older list, honest relays, a poller that lives, cancels kept; the inductive invariant | 2 tasks (symmetric), clock to 2, 2 changes of the queue, 2 subscribers, relays fresh for 1; 2,431,197 states |
| `process_queue_refresh` | violation | finding 1 | 1 task, 1 change, clock to 1, 1 subscriber |
| `scheduled_list` | pass | at most one open key, stored; a purge is the only way to a second row | as `normal_send`; 471,924 states |
| `api_client` | pass | nothing runs as another user, no write runs twice, a refusal heard is true, every call ends; the inductive invariant; deadlock checked | a cached read and an unlocking write, 2 events; 236,077 states |
| `prefetch_queue` | pass | one read per message, no click fails silently, warming yields to clicks, every promise settles; the inductive invariant (with it, the limits hold and no slot leaks); deadlock checked | 2 messages, 3 calls of two priorities, limits 1 and 2 for the code's 2 and 4; 828,500 states |
| `compose_drafts` | pass | one draft per session, none left by a send or discard, no close clears words the server lacks, no save replaces newer words by older, and `ComposeDrafts` implements `DraftsFolder`; the inductive invariant | 2 saves, 2 closes, discards or sends, 2 forms, 2 edits; 2,171,807 states |
| `compose_keep_editing` | violation | finding 2 | as `compose_drafts` |

**Why the bounds suffice.** Two tabs and three composers give every kind of pair: sharing
one page's promise, two composers one after the other in a page, two pages. Two keys are
what a duplicate needs. Two markers are needed for "the same user again"; a page that holds
an older one behaves the same whatever its number. Two mounts separate first, further and
last. In `sync_pacing` a wait is longer than the rest, so there is a moment inside it when a
return or an action may start a tick or arm one at the wrong time; one mount is enough
because a wait of an earlier mount is outside the properties. In `process_queue` two tasks
let one end while another runs, three moments let two requests and a relay be of three ages,
and two versions let a list be stale. In `api_client` a read and a write that share one mint
reach every branch of `apiFetch`; an event that changes the session and one that expires
nonces are what a heal under another user needs. In `prefetch_queue` one slot and one more
for clicks are enough for a click to overtake, and three calls for one message to be listed,
cancelled and asked for again. In `compose_drafts` two saves are one that runs and one that
waits, two operations one that is left and one of the next form. A third edit gives 5,639,806 states
and several times the work; that instance passes as well, and it is the one that refuted an
earlier form of `ClosedWordsAreSafe`, which two edits did not (section 5). The safety properties are
also proved (section 5) for all of these numbers, so for them the bounds matter only to TLC.

**Deadlock.** The send models stop when keys and markers run out, which only the bounds
cause, so these runs do not check it; nor does the queue's, where clock and versions are
bounded, nor the composer's, where saves and edits are. The election never stops, nor do its
clock, the request client and the prefetch queue: these are checked.

**Seeded faults.** Each property of a passing run has an operator marked "Seeded fault": a
definition changed as a plausible bug would change it (a dropped check, a lock never
returned, a wake forgotten). Put in the definition's place, it makes TLC find that property
violated. `PROJECT.json` "mutants" lists them.

## 4. Fairness

`SendEnds`, `SomeoneLeads`, `LeaderTicks`, `CallsEnd` and `CallsSettle` need it.

* `NormalSend!FairSpec`. Hashing ends: it is a promise of the running page. The browser serves
  lock requests first come first served, so a waiter is not overtaken for ever although the
  lock is taken in between: strong fairness on the grants. `apiFetch` gives each request a
  timeout, so a caller that waits gets a reply or an error: weak fairness on `Replied`, which
  always has `Throw` or `PostLost` to fall back on when no answer comes. The author owes no
  answer to the dialog, the server owes no settlement. A closed page never answers either;
  reloading it ends its send.
* `TabElection!FairSpec`. The lock manager frees a released lock, refuses or grants a request
  in turn; an armed timer fires while the page runs; requests end for the same reason as
  above. Nothing the user does is fair: tabs may stay hidden or be closed.
* `ApiClient!FairSpec`. The page runs, so a call whose promise settled goes on and its time limit
  fires (`GivesUp`). The mint, its verification and the reading of a body have no limit of their
  own in the code: for these the assumption is that the browser ends a fetch whose connection is
  dead. The server owes no answer.
* `PrefetchQueue!FairSpec`. The loop and the callbacks are code of the running page, and
  `apiFetch` answers every read, if with its timeout. Nobody owes a click, and no cancel comes by
  itself.

`CallsEnd` fails if a mint that ended did not tell those who wait; `CallsSettle` leaves out
the item whose in-flight entry was deleted, which a later click can take out of the queue
without settling it. `ComposeDrafts` has no liveness property: `OneRuns` and `GateInv` say
what progress rests on there, that a waiting save has a running one and a shut gate an
operation still at work.

`SendEnds` names the one thing that can hold a send back for ever: the dialog is awaited
inside the lock callback, so while one tab's author is away, every other tab's send of
that very message waits. The property makes the exception explicit.

## 5. Proofs

The eight proof modules are checked by tlapm with Z3, Zenon and LS4 to the last leaf. They
hold for any number of tabs, composers, keys, markers, mounts, tasks, calls, messages, saves
and any durations, under the named assumptions on constants (`NormalSendAssumption` and so
on: composers have a tab, the null values are not keys, bounds are naturals), which TLC
evaluates on each run.

**NormalSend.** `OneOpenAttempt` is not inductive alone: to see that a second POST cannot
leave, one must know what every caller inside the lock holds. `Inv` adds

* `LockInv`: the holder of the lock is exactly the caller inside `sendLocked`, so two callers
  never reason about the stored key at once;
* `KeyInv`: keys are fresh and travel only as the code passes them, so a new key differs from
  anything on the wire or at the server;
* `PersistedInv`: once a key is persisted nothing else is open, and its POST is still to
  come. This carries the argument from the decision to send to the POST;
* `ConsentInv`: between dialog and new key the author's agreement concerns the stored key,
  and `SecondStatusRetry` compares storage once more. This is why replacing it may count as
  waived;
* `ReceiptInv`, `LateInv`: answers speak of what the server knew. Acceptance is final, so a
  remembered "accepted" stays true and a status read after the author agreed shows an
  acceptance that came before.

From it: `Typing`, `OneOpen`, `OpenIsStored`, `AckSound`, the action properties `RecheckHolds`
and `KeptUntilResolved`, and `Refinement`: `Spec => Promise!Spec`, where `Transmit` is `Send`,
`Settle` is `Deliver`, `AckGrant` is `Acknowledge`, `SecondStatusRetry` is `Waive` and all else
stutters.

**ScheduledList.** `LiveInv` (a key drawn and neither acknowledged nor purged is unique and
stored) replaces the lock argument; `KeyInv` and `CallerInv` say how keys travel. `Typing`,
`OneOpen`, `OpenIsStored`, `Refinement` follow. In the refinement a purge waives at most one
key, because `LiveInv` allows one live key at most.

**TabElection** (first part of `SyncPacingProofs`). `LockInv` ties the browser's holder to the page's `held`, `leader` and
being in view; `ClaimInv` says when a request may be queued; `LoopInv` covers timers and the
turn beside the advance. With them `NobodyLeftOut`, `WakeIsQueued` and `LoopAlive` (a
mounted driver has a timer or a tick that will arm one) are inductive together. `OneLeader`
and the action property `NoOverlap` follow.

**SyncPacing.** `Paces` (`PacedSpec => Spec`) makes every theorem on `TabElection` hold
here. `WaitIsExact` is not inductive: a grant arms a short timer unless the tab was switched
to. So `WaitInv` adds that a tab that has ticked since its mount queues for the lock only
with its wake pending, and then runs the wake, which arms the timer for the rest of the
wait; and that a tick past its advance has no wait left. `ExactWait` and the action property
`WaitIsKept` follow: a tick starts from a handler that checks the wait, or from a timer that
is due when the wait is over. Breath, looks, rest and waits are any numbers, and
`ParallelSync` either value.

**ProcessQueue.** `ClockInv`: every moment remembered has come, and `began` grows with it.
`NewsInv`: the answer on its way is honest, nothing held is newer than the server, and the
newest news is what is shown. `Freshness` rests on them: an answer or a relay goes up only
when it began no earlier than what is shown, and `began` is monotone. `Honesty` needs the
request's own moment in the relay (the seeded fault dates it when posted). `HonestyLasts` adds
that an honest relay stays honest on its way, whatever the delay. The two together discharge
what each tab assumes of the others (`HearRelay`), step by step, for any number of tabs. `PollerLives` is
by the cases of `Rescheduled`, and `CancelKept` by `clicked <= ignore`.

**ApiClient.** `RunsAsOwner` needs `NonceInv`: every nonce the page holds or sends is its
own user's, and a verification answered "own" speaks of a nonce of that user, so
`MintInstalls` may install it. The server then refuses whatever leaves under another cookie.
For the writes, `CallInv` counts: a write ran as often as its answer says, which is what
`Leaves` may forget, because a write is sent again only after "stale", an answer that comes
without running it. `MintInv` (whoever waits has a mint out) is the safety part of
`CallsEnd`. Theorems `OwnerOnly`, `WritesOnce`, `RefusalSound`.

**PrefetchQueue.** `Stages` and `Listing` say where an item is and that it is listed under
its message unless its entry was deleted for another's sake; from them, with the stable
order, `OneReadPerMessage`. `SlotsCounted` makes `activeCount` a cardinality, so
`SlotsBounded` follows from `HasRoom` at each start, and `NoIdleSlot` (between tasks nothing
waits that could start) from the loop's exit. `ClickSeen` carries `WarmYields`. Theorems
`ReadOnce`, `Bounded`, `ToldWhy`, `WarmingYields`.

**ComposeDrafts.** `OneDraft` follows from `Folder` (what the folder holds of a session is
what its last save stored) and that from `Binding`: the draft a save will replace is the one
the session's last landed save wrote, or one from before it. That is inductive because the
saves of a session settle in order, one at a time (`OneRuns`), so the save that settles is
the last one landed and the binding moves with it, in the pane, in the waiting save and in a
send's snapshot. `NoDraftLeftBehind` adds `Asking` and `GateInv`: when the server is asked,
no save of the session is left, and none can join, because the gate stays shut. All of this is
`Core`, inductive by itself. Theorems `CoreInvariance`, `DraftsOnce`, `NothingLeft`.

**ComposeDrafts, the words** (`ComposeWordsProofs`). `ClosedWordsAreSafe` compares what a close
clears with what the server holds, two promises later and perhaps in another form. `Inv` is
`Core` and `WordsInv`, four parts that need one another:

* `WordsGrow`: words only grow along the saves of a session, from a replaced draft to the
  draft that replaces it, and up to what the pane shows. `NeverOlderWords` is this read as an
  action property: a save that lands holds words no older than the draft it replaces;
* `RefsTrue`: when the form's refs say that the words shown are saved, or handed to a save, a
  draft exists or the newest save of the session has just these words, so a close that skips
  its own save may;
* `GateKept`: in a form where the user turned away from no close, one operation at most is at
  work, and the shut gate is its own: nothing but its end opens it, and a shut gate lets no edit
  in;
* `ClosesCover`: the save that a close waits for took every word of the form; a dialog close
  is still its form's, will fail, or has nothing to clear.

`ClosedWordsAreSafe` excepts two situations, `Disturbed` and `Replaced` (section 7). They came
from this proof: the property as first stated was not a consequence of any invariant found,
and with one edit more TLC showed why. Theorems `Invariance` (`Spec => []Inv`), `ClosedWords`,
`NeverOlder`.

**ComposeDrafts implements DraftsFolder.** `Refinement`: `Spec => Promise!Spec`. A step is a
stutter when it leaves the folder, the lost saves and the taken operations what they were
(`SavesQuiet`, `OpsQuiet`): true of every step that only queues, starts, hears or drops a save,
or begins or moves on an operation. `Stores` is `Store`: that the draft replaced is no newer is
`WordsGrow`, that no other of the session stays is `OneDraft` *after* the step, that the
session is not gone is `NoDraftLeftBehind` after it. `ServerTakes` is `Take`, with `Binding` for
the draft that goes; `SaveFails` is `GiveUp` when the server may have stored the save, and
`Fails` is `Doubt` when the server had taken the message, unless another save, or another
send or discard, of that session says so already: then they are stutters.

**Model-checked only.** `SendEnds`, `SomeoneLeads`, `LeaderTicks`, `CallsEnd`,
`CallsSettle`: liveness needs ENABLED and fairness, which is outside the prover's reach; TLC
checks them on the instances above. Every other property of a passing run is a theorem, or a
conjunct of one. Induction over data and RECURSIVE
operators are also out of the prover's reach; these modules use neither.

## 6. Findings

1. `process_queue_refresh` (`hooks/useProcessQueue.ts:191`). "User-driven refreshes always fetch"
   (line 188), but one that finds a poll out is dropped. When that poll fails, or was answered
   with an idle list from before, no request is out and none will be sent: work just
   started stays unseen until something else happens.
2. `compose_keep_editing` (`hooks/compose/v2/useComposeForm.ts:4275`). "Keep Editing is the
   one path that always ends an operation" (lines 4309-4310), but it only opens the gate.
   Save Draft in the dialog, Keep Editing while the save is out, and more words: when the
   save lands, the close goes on, clears the form and closes. The server holds the words of
   before.

## 7. Known limits of the code the models show

The models contain these behaviours; the properties say what holds beside them.

* A tab that yields the lead does not abort its request, so the next leader's runs beside it
  (`useSyncDriver.ts:289`; the header says one request at a time). Within one tab
  `NoOverlapInTab` holds.
* The first mount arms the timer for 800 ms whatever wait is left from before
  (`useSyncDriver.ts:873`, and the comment at 205). `WaitIsExact` and `WaitKept` are about
  waits told to this mount.
* The purge at the end of a session keeps only `normal-send-intent:` keys, so a
  scheduled-list key goes before its composer closed (`principal-storage.ts:261`); and a
  page of the same user's previous session that notices late purges by user, not by session
  (483). `PromiseUnlessPurged` takes both as waivers.
* The answer to a replay is read for a stale nonce only: a 423 met by it does not raise the gate
  (`api-client.ts:706`). The next request does.
* A read whose in-flight entry a cancelled call's cleanup deleted can be asked for twice,
  and its promise can be left behind by a click (`prefetch.service.ts:254`).
* A click that shares a background read keeps its priority and hears null when that read
  fails (221).
* A waiting save that is not a leaving one is dropped when the session ends; and the save of
  a composer that was left at once can fail after another message has replaced the compose
  data (`useComposeForm.ts:4555`, 4597).
* After a lost reply to a save, the next Save names a draft that is gone, and closes the composer
  on `DRAFT_DELETED` (2157).
* A send that finds the save it awaited failed ends without a word when that was a timed
  save (2671).
* The gate is a name, not an identity: after Keep Editing, the end of the abandoned close
  opens the gate of a later one (`releaseComposeOperation`, 2359). If that end is a failed save,
  the author types on while the later close still waits for a save without the new words, and
  the close then clears them. `ClosedWordsAreSafe` excepts a form in which a close was turned
  away from (`Disturbed`).
* A dialog close that was turned away from and outlived its form ends the session under the
  form that is open by then. A save of the session before still counts in `activeSavesRef`, so
  the new form's close believes "the save still running holds every word" (3952-3953) of a save that
  is not of its session, and may clear words no save took. `ClosedWordsAreSafe` excepts an
  operation whose session was replaced so (`Replaced`).

## 8. Not modelled, and the plan

The components above without a module are listed in `PROJECT.json` as `not_modelled` or
`partly`, each with its reason. UI, editor, vendored packages and build scripts stay out.
The models cover the coordination code; most lines of the repository are components, settings
pages, styles and vendored code, for which there is no protocol to state.
`ProcessQueue` has no liveness property: that a covered follower polls again once relays stop
needs a clock without a bound. In order of importance:

1. `TabChannel`: belief about the leader (announce, resign, hello, freshness) over a channel that
   delays messages: three tabs with a specification of their own, and an abstract
   one-leader specification that `TabElection` implements.
2. `SyncNotices`: the failure, timeout and no-progress counters of the driver, its notices, and
   the rest of 180 s (`RUN_MAX_GAP_MS`) that is taken for an absence although a wait may be 600 s.
3. `Autosave` (versions and rollback), `ConnectionState` (breaker and cooldowns), the cache
   policies of `principal-storage.ts`, `MailOperations` (optimistic removal, rollback,
   undo).
4. The rest of the composer: scheduled edits, undo send, attachments.
5. Inbox views, cache generations, search supersession, notifications.
6. Pure operators (grouping, threading, selection) against reference definitions.

To prove next: that `ApiClient` implements an abstract client that runs each write at most once
and each call as one user, and `TabElection` an abstract one-leader specification.

The list of runs is meant to stay at a dozen: a new module's run takes the place of
`tab_election`, whose properties `sync_pacing` can check, or of a violation run
whose finding is settled.
