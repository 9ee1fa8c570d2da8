---------------------------- MODULE DraftsFolder ----------------------------
(***************************************************************************)
(* What the composer promises of the user's Drafts folder, seen from the   *)
(* folder.  A session, one message in one composer, keeps one draft there: *)
(* each save of it replaces the one before and never by older words.  Once *)
(* the message is sent or thrown away its draft is gone and none comes     *)
(* back.  Only a session one of whose saves the client gave up on may      *)
(* leave more than one draft, and only of such a session may one return.   *)
(*                                                                         *)
(* Nothing here says how saves are queued, what the forms know, or who     *)
(* waits for whom: ComposeDrafts shows one way to keep the promise.        *)
(***************************************************************************)
EXTENDS Naturals

VARIABLES
    folder,   \* the drafts: [id, session, words]
    gone,     \* sessions whose message the server took or threw away
    unheard   \* sessions one of whose saves was given up on unanswered

vars == <<folder, gone, unheard>>

Added == folder' \ folder
Removed == folder \ folder'

Init == folder = {} /\ gone = {} /\ unheard = {}

\* A save puts e in the folder, in the place of at most one draft: the draft of
\* its session, and no newer one.
Store(e) ==
    /\ Added = {e}
    /\ \A d, c \in Removed : d = c
    /\ \A d \in Removed : d.words <= e.words
    /\ e.session \notin unheard =>
          /\ e.session \notin gone
          /\ \A d \in folder : d.session = e.session => d \in Removed
    /\ UNCHANGED <<gone, unheard>>

\* The server takes the message of session s, or throws it away, with its
\* draft: that of the session, or the one it was opened from.
Take(s) ==
    /\ gone' = gone \cup {s}
    /\ Added = {}
    /\ \A d, c \in Removed : d = c
    /\ \A d \in Removed : d.session <= s
    /\ s \notin unheard => \A d \in folder' : d.session # s
    /\ UNCHANGED unheard

\* Nobody heard that the message was taken: the author may go on with it.
Doubt(s) ==
    /\ gone' = gone \ {s}
    /\ UNCHANGED <<folder, unheard>>

\* The client gives up on a save that is at work.
GiveUp(s) ==
    /\ unheard' = unheard \cup {s}
    /\ UNCHANGED <<folder, gone>>

Next == \/ \E e \in Added : Store(e)
        \/ \E s \in gone' : Take(s)
        \/ \E s \in gone \ gone' : Doubt(s)
        \/ \E s \in unheard' \ unheard : GiveUp(s)

Spec == Init /\ [][Next]_vars
=============================================================================
