---------------------------- MODULE PrefetchQueue ----------------------------
(***************************************************************************)
(* The queue that reads message bodies for the reading pane:               *)
(* services/implementations/prefetch.service.ts, with the loop of          *)
(* hooks/useVisibleBodyPrefetch.ts that warms a page ahead of a click.     *)
(*                                                                         *)
(* The service runs on one thread.  A call of it and everything it does    *)
(* synchronously is one task; what a settled promise still has to do (its  *)
(* finally callbacks) runs in microtasks after that task and before the    *)
(* next timer, event or answer.  Code of the task that cancels may call     *)
(* the service in between: that gap is in the model.  Who waited for an     *)
(* answer asks again from a timer or some microtasks later, when what the   *)
(* answer left to do is done (InboxContext runDetailFetch, selectMessage).  *)
(*                                                                         *)
(* Calls are numbered in the order they are made.  The queue is sorted by  *)
(* priority with a stable sort after every push, and nothing else reorders *)
(* it, so it is the set `queued' read by (priority, number of the call).   *)
(***************************************************************************)
EXTENDS Naturals, FiniteSets

CONSTANTS Messages,       \* the identity keys of messages
          Folders,        \* the folders, each the set of its messages
          Asked,          \* the priorities the callers ask with
          MaxCalls,       \* bound: calls of fetchDetail
          MaxConcurrent,  \* MAX_CONCURRENT
          MaxClicks,      \* MAX_CONCURRENT_USER_SELECTED
          None            \* no entry

Priorities == {"user-selected", "visible", "background"}

ASSUME PrefetchAssumption ==
    /\ Asked \subseteq Priorities
    /\ Folders \subseteq SUBSET Messages
    /\ MaxCalls \in Nat
    /\ MaxConcurrent \in Nat \ {0}
    /\ MaxClicks \in Nat
    /\ MaxConcurrent <= MaxClicks
    /\ None \notin Nat

VARIABLES
    made,         \* the number of calls so far
    key,          \* the message each call asks for
    priority,     \* the FetchPriority it asks with
    owner,        \* the call whose promise it was given
    promise,      \* per call: its promise, "waiting" until it settles
    queued,       \* the calls in this.queue
    fetching,     \* the calls whose request is out
    ending,       \* the calls answered, the finally of processQueue not run yet
    activeCount,  \* this.activeCount
    clicking,     \* this.userSelectedActive
    inFlight,     \* this.inFlight: the call listed for each message
    cleanups,     \* the calls settled whose promise.finally has not run yet
    running,      \* processQueue is in its loop
    cached,       \* the messages with a body in the cache
    warming,      \* the messages of the warm batch that is out
    destroyed,    \* this.destroyed
    cancelled,    \* history: calls taken out of the queue by a cancel
    unlisted      \* history: calls whose entry was deleted for another call's sake

vars == <<made, key, priority, owner, promise, queued, fetching, ending,
          activeCount, clicking, inFlight, cleanups, running, cached, warming,
          destroyed, cancelled, unlisted>>

asks == <<made, key, priority, owner>>
world == <<cached, warming>>

Calls == 1 .. MaxCalls
Outcomes == {"null", "failed", "pending", "partial", "detail"}

Weight == [p \in Priorities |->
              CASE p = "user-selected" -> 0
                [] p = "visible"       -> 1
                [] p = "background"    -> 2]

Clicks == {c \in 1 .. made : priority[c] = "user-selected"}

\* The place of a call in the sorted queue.
Before(c, d) == \/ Weight[priority[c]] < Weight[priority[d]]
                \/ Weight[priority[c]] = Weight[priority[d]] /\ c <= d

IsHead(c) == c \in queued /\ \A d \in queued : Before(c, d)

Init ==
    /\ made = 0
    /\ key = [c \in Calls |-> None]
    /\ priority = [c \in Calls |-> "background"]
    /\ owner = [c \in Calls |-> c]
    /\ promise = [c \in Calls |-> "unused"]
    /\ queued = {} /\ fetching = {} /\ ending = {}
    /\ activeCount = 0
    /\ clicking = {}
    /\ inFlight = [m \in Messages |-> None]
    /\ cleanups = {}
    /\ running = FALSE
    /\ cached = {} /\ warming = {}
    /\ destroyed = FALSE
    /\ cancelled = {} /\ unlisted = {}

\* Nothing of an earlier task is left to run: an event, a timer or an answer
\* of the network may start a task of its own.
Idle == ~running /\ cleanups = {} /\ ending = {}

(***************************************************************************)
(* fetchDetail.                                                            *)
(***************************************************************************)

\* The next call c, for message m at priority p.
Asks(c, m, p) ==
    /\ ~running /\ ending = {}
    /\ made < MaxCalls
    /\ c = made + 1
    /\ made' = c
    /\ key' = [key EXCEPT ![c] = m]
    /\ priority' = [priority EXCEPT ![c] = p]

\* A promise that is settled when it is returned: null after destroy, and
\* null to a call nobody clicked when the connection state says the account is
\* unhealthy, as it may; the detail of a message in the cache.
AnsweredAtOnce(c, m, p) ==
    /\ Asks(c, m, p)
    /\ \/ /\ destroyed \/ p # "user-selected"
          /\ promise' = [promise EXCEPT ![c] = "null"]
       \/ /\ ~destroyed /\ m \in cached
          /\ promise' = [promise EXCEPT ![c] = "detail"]
    /\ UNCHANGED <<owner, queued, fetching, ending, activeCount, clicking,
                   inFlight, cleanups, running, world, destroyed, cancelled,
                   unlisted>>

NotAnswered(m) == ~destroyed /\ m \notin cached

\* The message is listed as in flight: the caller shares that promise,
\* whatever its priority.
Shares(c, m, p) ==
    /\ Asks(c, m, p)
    /\ NotAnswered(m)
    /\ inFlight[m] # None
    /\ owner' = [owner EXCEPT ![c] = inFlight[m]]
    /\ promise' = [promise EXCEPT ![c] = "shared"]
    /\ UNCHANGED <<queued, fetching, ending, activeCount, clicking, inFlight,
                   cleanups, running, world, destroyed, cancelled, unlisted>>

\* A new item.  A click takes whatever is queued for its message out of the
\* queue, without settling it.
Replaced(m, p) ==
    IF p = "user-selected" THEN {d \in queued : key[d] = m} ELSE {}

Queues(c, m, p) ==
    /\ Asks(c, m, p)
    /\ NotAnswered(m)
    /\ inFlight[m] = None
    /\ queued' = (queued \ Replaced(m, p)) \union {c}
    /\ promise' = [promise EXCEPT ![c] = "waiting"]
    /\ inFlight' = [inFlight EXCEPT ![m] = c]
    /\ running' = TRUE
    /\ UNCHANGED <<owner, fetching, ending, activeCount, clicking, cleanups,
                   world, destroyed, cancelled, unlisted>>

(***************************************************************************)
(* processQueue: one action per turn of its loop.                          *)
(***************************************************************************)

HasRoom(c) ==
    \/ activeCount < MaxConcurrent
    \/ priority[c] = "user-selected" /\ activeCount < MaxClicks

\* The item is shifted and its message is already in the cache.
ResolvesFromCache(c) ==
    /\ running /\ ~destroyed
    /\ IsHead(c) /\ HasRoom(c)
    /\ key[c] \in cached
    /\ queued' = queued \ {c}
    /\ promise' = [promise EXCEPT ![c] = "detail"]
    /\ cleanups' = cleanups \union {c}
    /\ UNCHANGED <<asks, fetching, ending, activeCount, clicking, inFlight,
                   running, world, destroyed, cancelled, unlisted>>

\* Seeded fault: the click is not noted.
StartsUnseen(c) ==
    /\ running /\ ~destroyed
    /\ IsHead(c) /\ HasRoom(c)
    /\ key[c] \notin cached
    /\ queued' = queued \ {c}
    /\ fetching' = fetching \union {c}
    /\ activeCount' = activeCount + 1
    /\ UNCHANGED <<asks, promise, ending, clicking, inFlight, cleanups,
                   running, world, destroyed, cancelled, unlisted>>

\* The item is shifted and its request leaves.
Starts(c) ==
    /\ running /\ ~destroyed
    /\ IsHead(c) /\ HasRoom(c)
    /\ key[c] \notin cached
    /\ queued' = queued \ {c}
    /\ fetching' = fetching \union {c}
    /\ activeCount' = activeCount + 1
    /\ clicking' = IF priority[c] = "user-selected"
                     THEN clicking \union {key[c]} ELSE clicking
    /\ UNCHANGED <<asks, promise, ending, inFlight, cleanups, running, world,
                   destroyed, cancelled, unlisted>>

\* The loop ends.
Rests ==
    /\ running
    /\ destroyed \/ ~\E c \in queued : IsHead(c) /\ HasRoom(c)
    /\ running' = FALSE
    /\ UNCHANGED <<asks, promise, queued, fetching, ending, activeCount,
                   clicking, inFlight, cleanups, world, destroyed, cancelled,
                   unlisted>>

(***************************************************************************)
(* executeSingleFetch and what processQueue chains to it.                  *)
(***************************************************************************)

\* Seeded fault: a click hears of a failure as the others do.
AnswersAlike(c) ==
    {"null"} \union (IF destroyed THEN {} ELSE {"pending", "partial", "detail"})

\* What the answer can settle the promise of call c with.  An answer with a
\* body that comes after destroy is dropped; a click is told of a failure and
\* reads its own timeout as pending; other calls are told null.
Answers(c) ==
    LET click == priority[c] = "user-selected"
        failure == IF click THEN {"failed", "pending"} ELSE {"null"}
    IN failure \union (IF destroyed THEN {"null"}
                       ELSE {"failed", "pending", "partial", "detail"})

\* A whole body is cached; a partial or pending one never is.
Answered(c, outcome) ==
    /\ Idle
    /\ c \in fetching
    /\ outcome \in Answers(c)
    /\ promise' = [promise EXCEPT ![c] = outcome]
    /\ cached' = IF outcome = "detail" THEN cached \union {key[c]} ELSE cached
    /\ fetching' = fetching \ {c}
    /\ ending' = ending \union {c}
    /\ cleanups' = cleanups \union {c}
    /\ UNCHANGED <<asks, queued, activeCount, clicking, inFlight, running,
                   warming, destroyed, cancelled, unlisted>>

\* promise.finally of fetchDetail: it deletes the entry of its message,
\* whichever call the entry is now.
CleansUp(c) ==
    /\ ~running
    /\ c \in cleanups
    /\ cleanups' = cleanups \ {c}
    /\ inFlight' = [inFlight EXCEPT ![key[c]] = None]
    /\ unlisted' = unlisted \union ({inFlight[key[c]]} \ {None, c})
    /\ UNCHANGED <<asks, promise, queued, fetching, ending, activeCount,
                   clicking, running, world, destroyed, cancelled>>

\* Seeded fault: the queue is not looked at again.
FinishesAsleep(c) ==
    /\ ~running
    /\ c \in ending \ cleanups
    /\ ending' = ending \ {c}
    /\ clicking' = IF priority[c] = "user-selected"
                     THEN clicking \ {key[c]} ELSE clicking
    /\ activeCount' = activeCount - 1
    /\ UNCHANGED <<asks, promise, queued, fetching, inFlight, cleanups,
                   running, world, destroyed, cancelled, unlisted>>

\* finally of processQueue: two links further down the chain than CleansUp.
Finishes(c) ==
    /\ ~running
    /\ c \in ending \ cleanups
    /\ ending' = ending \ {c}
    /\ clicking' = IF priority[c] = "user-selected"
                     THEN clicking \ {key[c]} ELSE clicking
    /\ activeCount' = activeCount - 1
    /\ running' = TRUE
    /\ UNCHANGED <<asks, promise, queued, fetching, inFlight, cleanups, world,
                   destroyed, cancelled, unlisted>>

(***************************************************************************)
(* cancelBackground, cancelForFolder and destroy.                          *)
(***************************************************************************)

Cancels(removed) ==
    /\ Idle
    /\ queued' = queued \ removed
    /\ promise' = [c \in Calls |-> IF c \in removed THEN "null" ELSE promise[c]]
    /\ inFlight' = [m \in Messages |->
                       IF \E c \in removed : key[c] = m THEN None
                       ELSE inFlight[m]]
    /\ cleanups' = cleanups \union removed
    /\ cancelled' = cancelled \union removed
    /\ unlisted' = unlisted
          \union ({inFlight[key[c]] : c \in removed} \ (removed \union {None}))
    /\ UNCHANGED <<asks, fetching, ending, activeCount, clicking, running,
                   world, destroyed>>

cancelBackground == Cancels({c \in queued : priority[c] = "background"})

\* Seeded fault: the entries of the folder's reads that are out go too.
cancelForFolderAll(f) ==
    /\ Idle
    /\ LET removed == {c \in queued : key[c] \in f}
       IN /\ queued' = queued \ removed
          /\ promise' = [c \in Calls |->
                            IF c \in removed THEN "null" ELSE promise[c]]
          /\ cleanups' = cleanups \union removed
          /\ cancelled' = cancelled \union removed
    /\ inFlight' = [m \in Messages |-> IF m \in f THEN None ELSE inFlight[m]]
    /\ UNCHANGED <<asks, fetching, ending, activeCount, clicking, running,
                   world, destroyed, unlisted>>

cancelForFolder(f) == Cancels({c \in queued : key[c] \in f})

\* Seeded fault: the queue is dropped without settling what is in it.
destroySilently ==
    /\ Idle
    /\ destroyed' = TRUE
    /\ queued' = {}
    /\ inFlight' = [m \in Messages |-> None]
    /\ UNCHANGED <<asks, promise, fetching, ending, activeCount, clicking,
                   cleanups, running, world, cancelled, unlisted>>

destroy ==
    /\ Idle
    /\ destroyed' = TRUE
    /\ promise' = [c \in Calls |-> IF c \in queued THEN "null" ELSE promise[c]]
    /\ queued' = {}
    /\ inFlight' = [m \in Messages |-> None]
    /\ cleanups' = cleanups \union queued
    /\ UNCHANGED <<asks, fetching, ending, activeCount, clicking, running,
                   world, cancelled, unlisted>>

(***************************************************************************)
(* The warm loop.                                                          *)
(***************************************************************************)

hasUserSelectedPending ==
    clicking # {} \/ \E c \in queued : priority[c] = "user-selected"

\* A batch leaves for messages without a body, unless a click is pending.
\* The calls of the batch do not go through the queue.
Warms(batch) ==
    /\ Idle
    /\ warming = {}
    /\ ~hasUserSelectedPending
    /\ ~destroyed
    /\ batch # {} /\ batch \intersect cached = {}
    /\ warming' = batch
    /\ UNCHANGED <<asks, promise, queued, fetching, ending, activeCount,
                   clicking, inFlight, cleanups, running, cached,
                   destroyed, cancelled, unlisted>>

\* The batch answers for some of them (all, none after a failure).
Warmed(bodies) ==
    /\ Idle
    /\ warming # {}
    /\ bodies \subseteq warming
    /\ warming' = {}
    /\ cached' = IF destroyed THEN cached ELSE cached \union bodies
    /\ UNCHANGED <<asks, promise, queued, fetching, ending, activeCount,
                   clicking, inFlight, cleanups, running, destroyed,
                   cancelled, unlisted>>

(***************************************************************************)
(* The cache, used through its interface.                                  *)
(***************************************************************************)

Evicts(m) ==
    /\ Idle
    /\ m \in cached
    /\ cached' = cached \ {m}
    /\ UNCHANGED <<asks, promise, queued, fetching, ending, activeCount,
                   clicking, inFlight, cleanups, running, warming,
                   destroyed, cancelled, unlisted>>

Next ==
    \/ \E c \in Calls, m \in Messages, p \in Asked :
          AnsweredAtOnce(c, m, p) \/ Shares(c, m, p) \/ Queues(c, m, p)
    \/ \E c \in Calls : \/ ResolvesFromCache(c) \/ Starts(c)
                        \/ CleansUp(c) \/ Finishes(c)
                        \/ \E o \in Outcomes : Answered(c, o)
    \/ Rests
    \/ cancelBackground \/ (\E f \in Folders : cancelForFolder(f)) \/ destroy
    \/ \E s \in SUBSET Messages : Warms(s) \/ Warmed(s)
    \/ \E m \in Messages : Evicts(m)

Spec == Init /\ [][Next]_vars

\* The loop and the microtasks run by themselves; apiFetch gives up on a
\* request after its timeout, so every request is answered.
FairSpec ==
    /\ Spec
    /\ \A c \in Calls : /\ WF_vars(ResolvesFromCache(c)) /\ WF_vars(Starts(c))
                        /\ WF_vars(CleansUp(c)) /\ WF_vars(Finishes(c))
                        /\ WF_vars(\E o \in Outcomes : Answered(c, o))
    /\ WF_vars(Rests)

-----------------------------------------------------------------------------
(***************************************************************************)
(* Properties.                                                             *)
(***************************************************************************)

TypeOK ==
    /\ made \in 0 .. MaxCalls
    /\ key \in [Calls -> Messages \union {None}]
    /\ \A c \in 1 .. made : key[c] \in Messages
    /\ priority \in [Calls -> Priorities]
    /\ owner \in [Calls -> Calls]
    /\ promise \in [Calls -> Outcomes \union {"unused", "waiting", "shared"}]
    /\ queued \subseteq 1 .. made
    /\ fetching \subseteq 1 .. made
    /\ ending \subseteq 1 .. made
    /\ cleanups \subseteq 1 .. made
    /\ activeCount \in Nat
    /\ clicking \subseteq Messages
    /\ inFlight \in [Messages -> Calls \union {None}]
    /\ running \in BOOLEAN /\ destroyed \in BOOLEAN
    /\ cached \subseteq Messages /\ warming \subseteq Messages
    /\ cancelled \subseteq 1 .. made /\ unlisted \subseteq 1 .. made

\* An item is queued, out or ending, and only one of them; its promise waits
\* until it is answered.
Stages ==
    /\ queued \intersect fetching = {}
    /\ queued \intersect ending = {}
    /\ fetching \intersect ending = {}
    /\ \A c \in queued \union fetching :
          promise[c] = "waiting" /\ c \notin cleanups
    /\ \A c \in ending \union cleanups : promise[c] \in Outcomes
    /\ \A c, d \in ending : c = d
    /\ \A c \in Calls : /\ promise[c] # "shared" => owner[c] = c
                        /\ c > made => promise[c] = "unused"

\* The entries of the in-flight map are the items that are queued or out (or
\* just settled): every such item is listed under its message, except one
\* whose entry a cancel or the late finally of a cancelled promise deleted for
\* another call.  What a second
\* call for a message relies on to share the first one's read.
Listing ==
    /\ \A m \in Messages : inFlight[m] # None =>
          /\ inFlight[m] \in queued \union fetching \union cleanups
          /\ key[inFlight[m]] = m
    /\ \A c \in queued \union fetching :
          destroyed \/ c \in unlisted \/ inFlight[key[c]] = c

\* A message is never queued or read twice at a time, but for an item that
\* lost its entry.
OneReadPerMessage ==
    \A c, d \in queued \union fetching \union ending :
        key[c] = key[d] => c = d \/ c \in unlisted \/ d \in unlisted

\* Every caller still waiting has an item that will answer it, before and
\* after cancels and destroy.
NoCallForgotten ==
    \A c \in 1 .. made :
        /\ promise[c] = "waiting" =>
              c \in queued \union fetching \union unlisted
        /\ promise[c] = "shared" =>
              promise[owner[c]] \in Outcomes \union {"waiting"}

\* The counter is the number of requests not yet ended: a slot is never leaked
\* and never freed twice, whatever settles and in whatever order.
SlotsCounted == activeCount = Cardinality(fetching \union ending)

\* Reads that no click asked for hold at most MAX_CONCURRENT slots, and clicks
\* raise the total to at most MAX_CONCURRENT_USER_SELECTED: the server has few
\* workers.
SlotsBounded ==
    /\ activeCount <= MaxClicks
    /\ Cardinality({c \in fetching \union ending :
                      priority[c] # "user-selected"}) <= MaxConcurrent

\* Between tasks no item waits that could start: a slot freed, a cancel or a
\* late push never leaves the queue asleep.
NoIdleSlot ==
    ~running /\ ~destroyed => \A c \in queued : ~HasRoom(c)

\* The service knows of every click whose read is out (the warm loop asks it),
\* but for a message read twice because an item lost its entry.
ClickSeen ==
    \A c \in fetching \union ending :
        priority[c] = "user-selected" =>
            \/ key[c] \in clicking
            \/ \E d \in unlisted : key[d] = key[c]

\* A click is told null, which the reading pane shows as an empty message,
\* only after destroy, after a cancel took it out of the queue, or when it
\* shares the promise of a call that nobody clicked.
ClickToldWhy ==
    \A c \in Clicks :
        (IF promise[c] = "shared" THEN promise[owner[c]] ELSE promise[c]) = "null"
            => \/ destroyed
               \/ owner[c] \in cancelled
               \/ priority[owner[c]] # "user-selected"

Inv ==
    /\ TypeOK /\ Stages /\ Listing /\ OneReadPerMessage /\ NoCallForgotten
    /\ SlotsCounted /\ SlotsBounded /\ NoIdleSlot /\ ClickSeen /\ ClickToldWhy

\* No warm batch leaves while somebody who clicked waits for a read, unless the
\* click shares the read of a call nobody clicked, or its message lost an entry.
WarmYields ==
    [][warming = {} /\ warming' # {} =>
          \A c \in Clicks :
              \/ promise[owner[c]] # "waiting"
              \/ priority[owner[c]] # "user-selected"
              \/ \E d \in unlisted : key[d] = key[owner[c]]]_vars

\* Every promise fetchDetail returns settles, unless its item lost its entry.
CallsSettle ==
    \A c \in Calls :
        promise[c] = "waiting" ~> promise[c] # "waiting" \/ c \in unlisted

=============================================================================
