---------------------------- MODULE ComposeDrafts ----------------------------
(***************************************************************************)
(* The drafts of the composer: the queue of draft saves in                 *)
(* context/composer/ComposerContext.tsx and, in                            *)
(* hooks/compose/v2/useComposeForm.ts, the operation gate, the saves, the  *)
(* ways out (close, discard dialog, leaving for another page), the discard *)
(* and the send, as far as they read or write the draft.                   *)
(*                                                                         *)
(* A session is one value of composeSessionVersionRef: it ends when the    *)
(* whole compose data is replaced, which opening a message and clearing    *)
(* the form both do.  A form is one mounted instance of useComposeForm.    *)
(* React renders and runs its effects before the next event here, so       *)
(* priorDraftRef is the draft named by the compose data.                   *)
(*                                                                         *)
(* The words of the message are a number: every edit makes a new one, 0 is *)
(* the empty message.  A draft on the server is named by the save that     *)
(* wrote it.                                                               *)
(***************************************************************************)
EXTENDS Naturals, FiniteSets

CONSTANTS MaxSaves,   \* bound: saves that get a promise of their own
          MaxOps,     \* bound: closes, discards and sends
          MaxForms,   \* bound: times a composer is opened
          MaxEdits,   \* bound: edits
          None        \* no draft, no save, nothing saved yet

ASSUME ComposeAssumption ==
    /\ {MaxSaves, MaxOps, MaxForms, MaxEdits} \subseteq Nat
    /\ None \notin Nat /\ None \notin {"delivery", "discard", "save-close"}

VARIABLES
    session,   \* composeSessionVersionRef
    form,      \* the last form that was mounted
    mounted,   \* mountedRef of that form
    words,     \* what the compose data holds
    prior,     \* priorDraftRef: the server draft bound to the session
    saved,     \* lastSavedDraftSnapshotRef of the form
    queuedAs,  \* queuedSnapshotRef of the form
    gate,      \* operationGateRef of the form
    dialog,    \* showDiscardDialog of the form
    save,      \* the saves, in the order of their promises
    saves,     \* how many there are
    op,        \* the closes, discards and sends, in order
    ops,       \* how many there are
    drafts,    \* the server's Drafts folder
    edits,     \* history: the number of edits
    adrift     \* history: closes at work that the user turned away from

vars == <<session, form, mounted, words, prior, saved, queuedAs, gate, dialog,
          save, saves, op, ops, drafts, edits, adrift>>

pane == <<session, form, mounted, words, prior, saved, queuedAs, dialog>>
queue == <<save, saves>>
work == <<op, ops>>
past == <<edits, adrift>>

Saves == 1 .. MaxSaves
Ops == 1 .. MaxOps

SaveKinds == {"timed", "manual", "leaving"}
SaveStages == {"waiting", "sent", "stored", "saved", "failed", "late", "lost",
               "dropped"}
OpKinds == {"close", "dialog", "leave", "discard", "send"}
OpStages == {"saving", "draining", "requested", "accepted", "done", "finished"}

NoSave == [session |-> 0, form |-> 0, kind |-> None, words |-> 0,
           prior |-> None, stage |-> None]
NoOp == [session |-> 0, form |-> 0, kind |-> None, stage |-> None,
         save |-> None, prior |-> None]

Made == 1 .. saves
Begun == 1 .. ops

(***************************************************************************)
(* The queue of draft saves: one runs, one waits.                          *)
(***************************************************************************)
Waits(s) == {t \in Made : save[t].session = s /\ save[t].stage = "waiting"}
Runs(s) == {t \in Made : save[t].session = s /\ save[t].stage \in {"sent", "stored"}}
Pending(s) == Waits(s) \cup Runs(s)

\* The promise of the last save queued; latestSavedDraft of the queue.
Last(S) == IF S = {} THEN None ELSE CHOOSE t \in S : \A u \in S : u <= t
Tail(s) == Last(Pending(s))
LatestSaved(s) == Last({t \in Made : save[t].session = s /\ save[t].stage = "saved"})

\* The promise the next save of the session will be given.
NextPromise(s) == IF Waits(s) # {} THEN Last(Waits(s)) ELSE saves + 1

Settled(t) == t # None => save[t].stage \notin {"waiting", "sent", "stored"}
Landed(t) == t # None => save[t].stage = "saved"

\* activeSavesRef: a save this form asked for has not settled.
Saving == \E t \in Made : save[t].form = form /\ ~Settled(t)

\* hasComposedDraftContent and hasUnsavedDraftChanges.
Dirty == words # 0 /\ saved # words

\* queueDraftSave by way of saveDraftToServer: a save that waits is given the
\* new content, its promise and its place stay.
Queue(kind) ==
    LET t == NextPromise(session)
        first == Pending(session) = {}
    IN  /\ t <= MaxSaves
        /\ saves' = IF t > saves THEN t ELSE saves
        /\ save' = [save EXCEPT ![t] =
                [session |-> session, form |-> form, kind |-> kind,
                 words |-> words, prior |-> prior,
                 stage |-> IF first THEN "sent" ELSE "waiting"]]
        /\ queuedAs' = words

\* Seeded fault: a save that outlives its session replaces the draft it knew
\* when it was queued.
StartedAsCaptured(u, t, st, now, w, p) ==
    LET s == save[u]
    IN  IF s.session = now
        THEN [s EXCEPT !.stage = "sent", !.prior = p,
                       !.words = IF s.kind = "leaving" THEN @ ELSE w]
        ELSE [s EXCEPT !.stage = IF s.kind = "leaving" THEN "sent" ELSE "dropped"]

\* A save that waited starts when the one before it settles as `st', with the
\* pane in session `now', holding `w' and bound to `p'.  In a pane that has
\* moved on only a leaving save still runs, and it replaces what the queue
\* saved last.
Started(u, t, st, now, w, p) ==
    LET s == save[u]
        latest == IF st = "saved" THEN t ELSE LatestSaved(s.session)
    IN  IF s.session = now
        THEN [s EXCEPT !.stage = "sent", !.prior = p,
                       !.words = IF s.kind = "leaving" THEN @ ELSE w]
        ELSE IF s.kind = "leaving"
        THEN [s EXCEPT !.stage = "sent",
                       !.prior = IF latest = None THEN @ ELSE latest]
        ELSE [s EXCEPT !.stage = "dropped"]

Settle(t, st, now, w, p) ==
    save' = [u \in Saves |->
                IF u = t THEN [save[t] EXCEPT !.stage = st]
                ELSE IF u \in Waits(save[t].session)
                THEN Started(u, t, st, now, w, p)
                ELSE save[u]]

(***************************************************************************)
(* The form.                                                               *)
(***************************************************************************)

\* clearForm and onClose, called by form f: the compose data is replaced
\* whoever holds it, the refs and the pane are only those of f.
ClearForm(f) ==
    /\ session' = session + 1
    /\ words' = 0
    /\ prior' = None
    /\ saved' = IF f = form THEN None ELSE saved
    /\ mounted' = (mounted /\ f # form)
    /\ dialog' = (dialog /\ f # form)
    /\ UNCHANGED <<form, queuedAs>>

GateOf(kind) == CASE kind = "send" -> "delivery"
                  [] kind = "discard" -> "discard"
                  [] OTHER -> "save-close"

\* claimComposeOperation, and the promise the operation then waits for.
Claim(kind, stage, t) ==
    /\ gate = None
    /\ ops < MaxOps
    /\ ops' = ops + 1
    /\ op' = [op EXCEPT ![ops + 1] =
            [session |-> session, form |-> form, kind |-> kind,
             stage |-> stage, save |-> t,
             prior |-> IF kind = "send" THEN prior ELSE None]]
    /\ gate' = GateOf(kind)

\* releaseComposeOperation, in the form that claimed.
Release(o) ==
    gate' = IF op[o].form = form /\ gate = GateOf(op[o].kind) THEN None
            ELSE gate

Done(o) == op' = [op EXCEPT ![o].stage = "done"]

\* saveDraftOnExplicitClose up to its first await.
SaveAndClose(kind) ==
    \/ /\ saved = words \/ (Saving /\ queuedAs = words)
       /\ Claim(kind, "draining", Tail(session))
       /\ UNCHANGED <<queue, queuedAs>>
    \/ /\ saved # words /\ ~(Saving /\ queuedAs = words)
       /\ Claim(kind, "saving", NextPromise(session))
       /\ Queue("leaving")

\* deletePriorDraftFromServer up to its first await.
Discard ==
    /\ Claim("discard", "draining", Tail(session))
    /\ UNCHANGED <<queue, queuedAs>>

Init ==
    /\ session = 0 /\ form = 0
    /\ mounted = FALSE
    /\ words = 0 /\ prior = None
    /\ saved = None /\ queuedAs = None
    /\ gate = None /\ dialog = FALSE
    /\ save = [t \in Saves |-> NoSave] /\ saves = 0
    /\ op = [o \in Ops |-> NoOp] /\ ops = 0
    /\ drafts = {}
    /\ edits = 0 /\ adrift = {}

\* Seeded fault: the composer opens still bound to the draft of the message
\* that was left.
OpensStillBound(d) ==
    /\ ~mounted
    /\ form < MaxForms
    /\ session' = session + 1
    /\ form' = form + 1
    /\ mounted' = TRUE
    /\ words' = IF d = None THEN 0 ELSE save[d].words
    /\ prior' = IF prior = None THEN d ELSE prior
    /\ saved' = IF d = None THEN None ELSE save[d].words
    /\ queuedAs' = None /\ gate' = None /\ dialog' = FALSE
    /\ UNCHANGED <<queue, work, drafts, past>>

\* A new message, or a draft of the list, opens in the composer: the compose
\* data is replaced and a new form mounts, with refs of its own.
Opens(d) ==
    /\ ~mounted
    /\ form < MaxForms
    /\ session' = session + 1
    /\ form' = form + 1
    /\ mounted' = TRUE
    /\ words' = IF d = None THEN 0 ELSE save[d].words
    /\ prior' = d
    /\ saved' = IF d = None THEN None ELSE save[d].words
    /\ queuedAs' = None /\ gate' = None /\ dialog' = FALSE
    /\ UNCHANGED <<queue, work, drafts, past>>

\* An edit.  The composer is inert while an operation holds the gate and under
\* the dialog.
Edits ==
    /\ mounted /\ gate = None /\ ~dialog
    /\ edits < MaxEdits
    /\ edits' = edits + 1
    /\ words' = edits + 1
    /\ UNCHANGED <<session, form, mounted, prior, saved, queuedAs, gate, dialog,
                   queue, work, drafts, adrift>>

(***************************************************************************)
(* Saves.                                                                  *)
(***************************************************************************)

\* autoSaveFailedKeyRef: the last timed save failed on these very words.
FailedOnThis ==
    LET t == Last({u \in Made : save[u].form = form /\ save[u].kind = "timed"
                                /\ Settled(u)})
    IN  t # None /\ save[t].stage # "saved" /\ save[t].words = words

\* runAutoSave: the idle clock ran out, or the tab is being left.
TimedSave(reason) ==
    /\ mounted /\ Dirty /\ gate = None /\ ~Saving
    /\ reason = "idle" => ~FailedOnThis
    /\ Queue("timed")
    /\ UNCHANGED <<session, form, mounted, words, prior, saved, gate, dialog,
                   work, drafts, past>>

\* ~isSavingDraft: the Save buttons are free while the form runs only timed
\* saves.
ButtonFree == \A t \in Made :
    save[t].form = form /\ save[t].stage \in {"sent", "stored"} => save[t].kind = "timed"

\* handleSaveDraft: the Save button.
ManualSave ==
    /\ mounted /\ ~dialog /\ gate = None /\ ButtonFree
    /\ Queue("manual")
    /\ UNCHANGED <<session, form, mounted, words, prior, saved, gate, dialog,
                   work, drafts, past>>

\* External: the server replaces the draft a save names, also when the client
\* no longer waits.
Stores(t) ==
    /\ t \in Made
    /\ save[t].prior = None \/ save[t].prior \in drafts
    /\ \/ save[t].stage = "sent" /\ save' = [save EXCEPT ![t].stage = "stored"]
       \/ save[t].stage = "late" /\ save' = [save EXCEPT ![t].stage = "lost"]
    /\ drafts' = (drafts \ {save[t].prior}) \cup {t}
    /\ UNCHANGED <<pane, gate, saves, work, past>>

\* The answer: performSaveDraft applies it to the session it belongs to, and
\* to the send of that session.
Saved(t) ==
    /\ t \in Made /\ save[t].stage = "stored"
    /\ LET mine == save[t].session = session
           p == IF mine THEN t ELSE prior
       IN  /\ prior' = p
           /\ saved' = IF mine THEN save[t].words ELSE saved
           /\ op' = [o \in Ops |->
                        IF /\ mine /\ op[o].kind = "send"
                           /\ op[o].session = session
                           /\ op[o].stage = "draining"
                        THEN [op[o] EXCEPT !.prior = t] ELSE op[o]]
           /\ Settle(t, "saved", session, words, p)
    /\ UNCHANGED <<session, form, mounted, words, queuedAs, gate, dialog,
                   saves, ops, drafts, past>>

\* The save fails: the server refused it, the reply is lost, or apiFetch gave
\* up on a request that is still at work.
SaveFails(t) ==
    /\ t \in Made
    /\ \E st \in {"failed", "late", "lost"} :
          /\ save[t].stage = IF st = "lost" THEN "stored" ELSE "sent"
          /\ Settle(t, st, session, words, prior)
    /\ UNCHANGED <<pane, gate, saves, work, drafts, past>>

\* DRAFT_DELETED: the draft to replace is gone.  Save closes the composer
\* (closeDeletedDraft), a timed save leaves it open.
SaveFindsNoDraft(t) ==
    /\ t \in Made /\ save[t].stage = "sent"
    /\ save[t].prior # None /\ save[t].prior \notin drafts
    /\ IF save[t].session = session /\ save[t].kind # "timed"
       THEN /\ ClearForm(save[t].form)
            /\ Settle(t, "failed", session + 1, 0, None)
       ELSE /\ Settle(t, "failed", session, words, prior)
            /\ UNCHANGED pane
    /\ UNCHANGED <<gate, saves, work, drafts, past>>

(***************************************************************************)
(* The ways out of the composer.                                           *)
(***************************************************************************)

\* handleDiscard: the close button.  The user's preferences decide what
\* becomes of unsaved words.
Closes ==
    /\ mounted /\ ~dialog /\ gate = None
    /\ \/ /\ Dirty
          /\ \/ SaveAndClose("close") /\ UNCHANGED dialog
             \/ Discard /\ UNCHANGED dialog
             \/ dialog' = TRUE /\ UNCHANGED <<gate, queue, queuedAs, work>>
          /\ UNCHANGED <<session, form, mounted, words, prior, saved>>
       \/ /\ ~Dirty /\ words # 0
          /\ ClearForm(form)
          /\ UNCHANGED <<gate, queue, work>>
       \/ /\ words = 0
          /\ Discard
          /\ UNCHANGED <<session, form, mounted, words, prior, saved, dialog>>
    /\ UNCHANGED <<drafts, past>>

\* handleDelete, and Delete Draft in the dialog (handleDiscardConfirm).
Deletes ==
    /\ mounted /\ gate = None
    /\ \/ /\ ~dialog /\ prior = None /\ words # 0
          /\ dialog' = TRUE
          /\ UNCHANGED <<gate, queue, queuedAs, work>>
       \/ /\ dialog' = FALSE
          /\ Discard
    /\ UNCHANGED <<session, form, mounted, words, prior, saved, drafts, past>>

\* Save Draft in the dialog (handleDiscardSaveAndClose): it stays open
\* meanwhile.
DialogSaves ==
    /\ mounted /\ dialog /\ ButtonFree
    /\ SaveAndClose("dialog")
    /\ UNCHANGED <<session, form, mounted, words, prior, saved, dialog, drafts,
                   past>>

\* The closes at work in this form.
Closing == {o \in Begun : /\ op[o].form = form /\ GateOf(op[o].kind) = "save-close"
                          /\ op[o].stage \in {"saving", "draining"}}

\* Keep Editing (handleDiscardCancel) drops the gate, whatever holds it.
KeepsEditing ==
    /\ mounted /\ dialog
    /\ dialog' = FALSE
    /\ gate' = None
    /\ adrift' = adrift \cup Closing
    /\ UNCHANGED <<session, form, mounted, words, prior, saved, queuedAs, queue,
                   work, drafts, edits>>

\* The navigation guard.  A destination that replaces the compose data waits
\* for the save (a close like any other); the rest leave at once.
Leaves ==
    /\ mounted
    /\ \/ /\ gate # None
          /\ mounted' = FALSE /\ dialog' = FALSE
          /\ adrift' = adrift \cup Closing
          /\ UNCHANGED <<session, form, words, prior, saved, queuedAs, gate, queue,
                         work>>
       \/ /\ gate = None /\ ~Dirty
          /\ ClearForm(form)
          /\ UNCHANGED <<gate, queue, work, adrift>>
       \/ /\ Dirty
          /\ \/ SaveAndClose("close") /\ UNCHANGED <<mounted, dialog>>
             \/ SaveAndClose("leave") /\ mounted' = FALSE /\ dialog' = FALSE
             \/ /\ gate = None /\ dialog' = TRUE
                /\ UNCHANGED <<mounted, gate, queue, queuedAs, work>>
          /\ UNCHANGED <<session, form, words, prior, saved, adrift>>
    /\ UNCHANGED <<drafts, edits>>

\* Seeded fault: the send does not wait for the saves at work.
SendsAtOnce ==
    /\ mounted /\ ~dialog /\ words # 0
    /\ Claim("send", "draining", None)
    /\ UNCHANGED <<pane, queue, drafts, past>>

\* handleSend up to its first await: the words are those of the click.
Sends ==
    /\ mounted /\ ~dialog /\ words # 0
    /\ Claim("send", "draining", Tail(session))
    /\ UNCHANGED <<pane, queue, drafts, past>>

(***************************************************************************)
(* What the operations do when what they waited for is there.              *)
(***************************************************************************)

\* drainDraftSaves looks for a newer save of its session.
DrainsOn(o) ==
    /\ o \in Begun /\ op[o].stage = "draining"
    /\ op[o].save # None /\ Settled(op[o].save)
    /\ Pending(op[o].session) # {}
    /\ op' = [op EXCEPT ![o].save = Tail(op[o].session)]
    /\ UNCHANGED <<pane, gate, queue, ops, drafts, past>>

Waited(o) ==
    /\ o \in Begun
    /\ \/ op[o].stage = "saving"
       \/ /\ op[o].stage = "draining"
          /\ op[o].save = None \/ Pending(op[o].session) = {}
    /\ Settled(op[o].save)

Owned(o) == op[o].session = session

\* saveDraftToServer's result, or waitForPendingSaves's.
Held(o) == Landed(op[o].save) /\ (op[o].stage = "draining" => Owned(o))

\* Seeded fault: a close does not ask whose session it is now.
CloseEndsAnyway(o) ==
    /\ Waited(o) /\ op[o].kind \in {"close", "leave"}
    /\ Release(o) /\ Done(o)
    /\ IF Held(o) THEN ClearForm(op[o].form) ELSE UNCHANGED pane
    /\ UNCHANGED <<queue, ops, drafts, past>>

\* A close by the button or by leaving: what comes after
\* saveDraftOnExplicitClose.
CloseEnds(o) ==
    /\ Waited(o) /\ op[o].kind \in {"close", "leave"}
    /\ Release(o) /\ Done(o)
    /\ IF Held(o) /\ Owned(o) THEN ClearForm(op[o].form) ELSE UNCHANGED pane
    /\ UNCHANGED <<queue, ops, drafts, past>>

\* A close by the dialog: it asks only whether the save landed.
DialogCloseEnds(o) ==
    /\ Waited(o) /\ op[o].kind = "dialog"
    /\ Release(o) /\ Done(o)
    /\ IF Held(o)
       THEN ClearForm(op[o].form)
       ELSE /\ dialog' = (dialog /\ op[o].form # form)
            /\ UNCHANGED <<session, form, mounted, words, prior, saved, queuedAs>>
    /\ UNCHANGED <<queue, ops, drafts, past>>

\* The discard and the send go on with the draft the drained saves left.
GoesOn(o) ==
    /\ Waited(o) /\ op[o].kind \in {"discard", "send"}
    /\ IF Held(o) /\ ~(op[o].kind = "discard" /\ prior = None)
       THEN /\ op' = [op EXCEPT ![o].stage = "requested",
                                ![o].prior = IF op[o].kind = "send" THEN @
                                             ELSE prior]
            /\ UNCHANGED <<gate, pane>>
       ELSE /\ Release(o) /\ Done(o)
            /\ IF Held(o) THEN ClearForm(op[o].form) ELSE UNCHANGED pane
    /\ UNCHANGED <<queue, ops, drafts, past>>

\* External: the server deletes the draft of a discard, or takes the message
\* and deletes its draft.
ServerTakes(o) ==
    /\ o \in Begun /\ op[o].stage = "requested"
    /\ op' = [op EXCEPT ![o].stage = "accepted"]
    /\ drafts' = drafts \ {op[o].prior}
    /\ UNCHANGED <<pane, gate, queue, ops, past>>

\* The answer to the discard or the send.
Ends(o) ==
    /\ o \in Begun /\ op[o].stage = "accepted"
    /\ Release(o)
    /\ op' = [op EXCEPT ![o].stage = "finished"]
    /\ IF Owned(o) THEN ClearForm(op[o].form) ELSE UNCHANGED pane
    /\ UNCHANGED <<queue, ops, drafts, past>>

\* Seeded fault: a failed request keeps the gate.
FailsShut(o) ==
    /\ o \in Begun /\ op[o].stage \in {"requested", "accepted"}
    /\ Done(o)
    /\ UNCHANGED <<pane, gate, queue, ops, drafts, past>>

\* The request was refused, or nobody knows what became of it: the draft and
\* the words stay.
Fails(o) ==
    /\ o \in Begun /\ op[o].stage \in {"requested", "accepted"}
    /\ Release(o) /\ Done(o)
    /\ UNCHANGED <<pane, queue, ops, drafts, past>>

\* What a settled promise still has to do runs before the next event, timer
\* or answer.
Idle == \A o \in Begun :
    op[o].stage \in {"saving", "draining"} => ~Settled(op[o].save)

User ==
    /\ Idle
    /\ \/ \E d \in drafts \cup {None} : Opens(d)
       \/ Edits \/ ManualSave \/ Closes \/ Deletes \/ DialogSaves
       \/ KeepsEditing \/ Leaves \/ Sends
       \/ \E reason \in {"idle", "leave"} : TimedSave(reason)

Server == \/ \E t \in Saves : Stores(t)
          \/ \E o \in Ops : ServerTakes(o)

Answers(t) == Idle /\ (Saved(t) \/ SaveFails(t) \/ SaveFindsNoDraft(t))

Replies(o) == Idle /\ (Ends(o) \/ Fails(o))

Continues(o) == DrainsOn(o) \/ CloseEnds(o) \/ DialogCloseEnds(o) \/ GoesOn(o)

Next == \/ User \/ Server
        \/ \E t \in Saves : Answers(t)
        \/ \E o \in Ops : Replies(o) \/ Continues(o)

Spec == Init /\ [][Next]_vars

(***************************************************************************)
(* Properties.                                                             *)
(***************************************************************************)

SaveRecords ==
    [session : Nat, form : Nat, kind : SaveKinds, words : Nat,
     prior : Saves \cup {None}, stage : SaveStages]

OpRecords ==
    [session : Nat, form : Nat, kind : OpKinds, stage : OpStages,
     save : Saves \cup {None}, prior : Saves \cup {None}]

TypeOK ==
    /\ {session, form, words, saves, ops, edits} \subseteq Nat
    /\ mounted \in BOOLEAN /\ dialog \in BOOLEAN
    /\ prior \in Saves \cup {None}
    /\ saved \in Nat \cup {None} /\ queuedAs \in Nat \cup {None}
    /\ gate \in {None, "delivery", "discard", "save-close"}
    /\ saves <= MaxSaves /\ ops <= MaxOps
    /\ save \in [Saves -> SaveRecords \cup {NoSave}]
    /\ op \in [Ops -> OpRecords \cup {NoOp}]
    /\ \A t \in Made : save[t] \in SaveRecords
    /\ \A o \in Begun : op[o] \in OpRecords
    /\ drafts \subseteq Made
    /\ adrift \subseteq Begun

\* Saves and operations belong to sessions and forms there have been.
Ages ==
    /\ \A t \in Made : save[t].session <= session
    /\ \A o \in Begun :
          /\ op[o].session <= session /\ op[o].form <= form
          /\ op[o].session = session => op[o].form = form

\* The saves of a session settle in the order of their promises, one at a
\* time, and a save waits only for one that runs: nobody is given a promise
\* that nothing will settle.
OneRuns ==
    /\ \A t, u \in Made :
          save[u].session = save[t].session /\ u < t =>
              /\ save[u].stage # "waiting"
              /\ save[u].stage \in {"sent", "stored"} => save[t].stage = "waiting"
    /\ \A t \in Made : save[t].stage = "waiting" => Runs(save[t].session) # {}

\* A draft that may be replaced from session s: the one its last landed save
\* wrote or, before any landed, one from before the session.
SavedIn(s) == {t \in Made : save[t].session = s /\ save[t].stage = "saved"}
Before(s, p) == p = None \/ (p \in Made /\ save[p].session < s)
BoundTo(s, p) == \/ SavedIn(s) = {} /\ Before(s, p)
                 \/ p \in SavedIn(s) /\ \A t \in SavedIn(s) : t <= p

Binding ==
    /\ BoundTo(session, prior)
    /\ \A t \in Made :
          /\ save[t].stage = "sent" => BoundTo(save[t].session, save[t].prior)
          /\ save[t].stage = "waiting" /\ SavedIn(save[t].session) = {} =>
                Before(save[t].session, save[t].prior)

\* The client cannot know whether the server stored this session's save.
Unheard(s) == \E t \in Made : save[t].session = s /\ save[t].stage \in {"late", "lost"}

\* What the Drafts folder holds of a session: what its last save stored.
Folder == \A d \in drafts :
    /\ save[d].stage \in {"stored", "saved", "lost"}
    /\ \/ Unheard(save[d].session)
       \/ \A t \in Made :
             save[t].session = save[d].session /\ save[t].stage \in {"stored", "saved"}
             => t <= d

\* A composer leaves one draft, not a trail of them: of what the saves of one
\* session stored, the Drafts folder holds at most one message, whatever was
\* edited, left and reopened meanwhile, as long as the client heard the answer
\* to each of them (queueDraftSave's chain, latestSavedDraft handed to the next
\* save, the leaving save that outlives its session).
OneDraft == \A d, e \in drafts :
    save[d].session = save[e].session => d = e \/ Unheard(save[d].session)

Active == {"saving", "draining", "requested", "accepted"}
Takes(o) == op[o].kind \in {"send", "discard"} /\ op[o].stage \in Active

\* The gate is shut while a send or a discard of the form is at work, and is
\* shut by something that is still at work: Keep Editing and the release of
\* another operation never open it early, and no end of one leaves it shut.
GateInv ==
    /\ \A o \in Begun : Takes(o) /\ op[o].form = form /\ mounted =>
          gate = GateOf(op[o].kind)
    /\ \A o, q \in Begun : Takes(o) /\ Takes(q) /\ op[o].form = op[q].form => o = q
    /\ dialog => mounted /\ gate \in {None, "save-close"}
    /\ gate # None => \E o \in Begun :
          /\ op[o].form = form /\ GateOf(op[o].kind) = gate
          /\ op[o].stage \in Active

\* A send or a discard asks the server once no save of its session is left,
\* with the draft those saves ended on.
Asking == \A o \in Begun : op[o].kind \in {"send", "discard"} =>
    /\ op[o].stage # "saving"
    /\ \/ op[o].stage = "draining" /\ op[o].save = None
       \/ op[o].stage \in {"requested", "accepted", "finished"}
       => Pending(op[o].session) = {}
    /\ \/ op[o].stage = "draining" /\ op[o].kind = "send" /\ Owned(o)
       \/ op[o].stage = "requested"
       => BoundTo(op[o].session, op[o].prior)
    /\ op[o].stage = "finished" => op[o].session < session

\* What was sent or thrown away stays away: once the server has taken a send
\* or a discard, no draft of that session is in the folder and none comes back,
\* unless the answer to one of its saves was never heard (handleSend and
\* deletePriorDraftFromServer drain the saves first and hold the gate).
NoDraftLeftBehind == \A o \in Begun :
    op[o].kind \in {"send", "discard"} /\ op[o].stage \in {"accepted", "finished"} =>
        \A d \in drafts : save[d].session = op[o].session => Unheard(op[o].session)

Core == /\ TypeOK /\ Ages /\ OneRuns /\ Binding /\ Folder /\ OneDraft /\ GateInv
        /\ Asking /\ NoDraftLeftBehind

\* The server holds, or held, what t saved.
Written(t) == t \in Made /\ save[t].stage \in {"stored", "saved", "lost"}

\* The words only grow: along the saves of a session, from a draft to the save
\* that replaces it, and from the draft the pane is bound to to the pane.
WordsGrow ==
    /\ words <= edits
    /\ prior # None => Written(prior) /\ save[prior].words <= words
    /\ \A t \in Made :
          /\ save[t].words <= edits
          /\ save[t].session = session =>
                /\ save[t].form = form /\ save[t].words <= words
                /\ \/ prior = None \/ save[prior].session = session
                   \/ save[prior].words <= save[t].words
          /\ save[t].prior # None =>
                Written(save[t].prior) /\ save[save[t].prior].words <= save[t].words
          /\ \A u \in Made : save[t].session = save[u].session /\ t < u =>
                save[t].words <= save[u].words

\* Words a save that landed holds, and the newest save of the pane's session.
OnFile == \E t \in Made : save[t].stage = "saved" /\ save[t].words = words
Newest(t) == /\ t \in Made /\ save[t].session = session
             /\ \A u \in Made : save[u].session = session => u <= t

\* What the refs of the form tell of the words is true.
RefsTrue ==
    /\ saved # None => saved <= edits
    /\ queuedAs # None => queuedAs <= edits
    /\ saved = words /\ words # 0 => prior # None /\ (dialog => OnFile)
    /\ queuedAs = words /\ words # 0 =>
          \E t \in Made : Newest(t) /\ save[t].words = words

\* The user turned away from a close of form f at work.  From then on the gate,
\* which knows an operation by its kind only, may open under the next one.
Disturbed(f) == \E q \in adrift : op[q].form = f

\* The form of o wrote on in another session: a close that was turned away
\* from ended its session under it.
Replaced(o) == \E t \in Made : save[t].form = op[o].form
                               /\ save[t].session # op[o].session

\* In a form where no close was turned away from, one operation is at work at
\* a time and the gate is its own.
GateKept ==
    /\ \A o \in Begun : GateOf(op[o].kind) = "save-close" =>
          op[o].stage \notin {"requested", "accepted"}
    /\ \A o \in Begun : op[o].stage \in Active /\ ~Disturbed(op[o].form) =>
          /\ op[o].form = form => gate = GateOf(op[o].kind)
          /\ \A q \in Begun : op[q].stage \in Active /\ op[q].form = op[o].form => q = o

\* The save close o waits for takes every word of its session.
Covers(o) ==
    \/ /\ op[o].stage = "saving"
       /\ op[o].save \in Made /\ save[op[o].save].kind = "leaving"
       /\ save[op[o].save].session = session /\ save[op[o].save].words = words
    \/ /\ op[o].stage = "draining"
       /\ \/ words = 0 \/ OnFile \/ Replaced(o)
          \/ Newest(op[o].save) /\ save[op[o].save].words = words

\* A close by the dialog, which does not ask whose session it is: it is still
\* its own, or the close will fail, or there is nothing to clear.
DialogHolds(o) ==
    \/ /\ Owned(o) /\ mounted /\ dialog
       /\ op[o].stage = "saving" =>
             \A t \in Pending(session) : save[t].kind = "timed" \/ t = op[o].save
    \/ ~Owned(o) /\ op[o].stage = "draining"
    \/ ~Owned(o) /\ op[o].save \in Made /\ Settled(op[o].save) /\ ~Landed(op[o].save)
    \/ /\ ~Owned(o) /\ op[o].form = form /\ mounted /\ dialog
       /\ words = 0 /\ \A t \in Made : save[t].session # session

AtWork(o) == /\ GateOf(op[o].kind) = "save-close"
             /\ op[o].stage \in {"saving", "draining"}

ClosesCover == \A o \in Begun : AtWork(o) /\ ~Disturbed(op[o].form) =>
    /\ Owned(o) => Covers(o)
    /\ op[o].kind = "dialog" => DialogHolds(o)

\* What becomes of the words.
WordsInv == WordsGrow /\ RefsTrue /\ GateKept /\ ClosesCover

Inv == Core /\ WordsInv

OnServer(w) == \E t \in Made : save[t].stage \in {"stored", "saved"} /\ save[t].words = w

\* A close clears no words the server does not hold: whatever was queued,
\* failed, left or opened since, the words a finished close wipes are those of
\* a save that landed.  Excepted are the forms where the user turned away from
\* a close at work (KeptWordsStay), or whose session such a close ended.
ClosedWordsAreSafe == [][\A o \in Ops :
    CloseEnds(o) \/ DialogCloseEnds(o) =>
        \/ words' = words \/ OnServer(words)
        \/ Disturbed(op[o].form) \/ Replaced(o)]_vars

\* A save never replaces a draft that holds newer words, whichever of them the
\* server takes last: the prior draft a save names (saveDraftToServer, and the
\* latest draft queueDraftSave hands a save that outlived its session) is one
\* its words were written on.
NeverOlderWords == [][\A d \in drafts \ drafts', e \in drafts' \ drafts :
    save[d].words <= save[e].words]_vars

\* What was given up on unanswered, and what the server took.
LostSaves == {t \in Made : save[t].stage \in {"late", "lost"}}
Taken == {o \in Begun : /\ op[o].kind \in {"send", "discard"}
                       /\ op[o].stage \in {"accepted", "finished"}}

\* The folder is all that is promised of it: one draft of a session, replaced
\* by newer words only, and none once its message was sent or thrown away (the
\* chain of queueDraftSave, the drain and the gate of handleSend and
\* deletePriorDraftFromServer).
Promise == INSTANCE DraftsFolder WITH
    folder <- {[id |-> d, session |-> save[d].session, words |-> save[d].words]
                  : d \in drafts},
    gone <- {op[o].session : o \in Taken},
    unheard <- {save[t].session : t \in LostSaves}
KeepsFolder == Promise!Spec

\* "Keep Editing is the one path that always ends an operation" (the comment
\* in handleDiscardCancel): the close it ended clears nothing the user wrote
\* since.  The code only opens the gate: the close goes on when its save lands.
KeptWordsStay == [][\A o \in adrift :
    CloseEnds(o) \/ DialogCloseEnds(o) => words' = words \/ OnServer(words)]_vars
=============================================================================
