---------------------------- MODULE SendConsent ----------------------------
(***************************************************************************)
(* What a normal send promises its author about one authored message: the  *)
(* message leaves the browser a second time only after the first send was  *)
(* delivered and its composer closed, or after the author, told that the   *)
(* first send may already have been delivered, asked for another one.      *)
(*                                                                         *)
(* Nothing here says how many tabs there are, where the attempt key is     *)
(* kept, or what the network does: NormalSend shows one way to keep the    *)
(* promise.                                                                *)
(***************************************************************************)

CONSTANT Attempts          \* the attempt keys that may ever be drawn

VARIABLES
    sent,        \* attempts whose POST left a browser
    delivered,   \* attempts the server accepted for delivery
    acked,       \* attempts whose composer closed after their delivery
    waived       \* attempts the author agreed to send again over

vars == <<sent, delivered, acked, waived>>

Closed == acked \cup waived

Init == sent = {} /\ delivered = {} /\ acked = {} /\ waived = {}

\* A message leaves the browser only when every earlier attempt is closed.
Send(a) ==
    /\ a \notin sent \cup Closed
    /\ sent \subseteq Closed
    /\ sent' = sent \cup {a}
    /\ UNCHANGED <<delivered, acked, waived>>

\* The server accepts an attempt it was sent, however late.
Deliver(a) ==
    /\ a \in sent
    /\ delivered' = delivered \cup {a}
    /\ UNCHANGED <<sent, acked, waived>>

\* Closing the composer acknowledges a delivered attempt.
Acknowledge(a) ==
    /\ a \in delivered
    /\ acked' = acked \cup {a}
    /\ UNCHANGED <<sent, delivered, waived>>

\* The author accepts the risk of a duplicate.
Waive(a) ==
    /\ waived' = waived \cup {a}
    /\ UNCHANGED <<sent, delivered, acked>>

Next == \E a \in Attempts : Send(a) \/ Deliver(a) \/ Acknowledge(a) \/ Waive(a)

Spec == Init /\ [][Next]_vars
=============================================================================
