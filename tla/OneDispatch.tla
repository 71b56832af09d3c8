------------------------------ MODULE OneDispatch ------------------------------
(***************************************************************************)
(* What the email channel promises for one candidate and one posting: a    *)
(* single dispatch, of one message fixed when it begins, whose recorded    *)
(* status never claims more, or less, than what the mailbox may hold.      *)
(* EmailDispatch implements this module.                                   *)
(***************************************************************************)
CONSTANTS Messages,   \* what can be put in a mailbox
          NoMessage

VARIABLES status,     \* status of the record
          message,    \* the message being or having been dispatched
          mailbox     \* the messages the server accepted

vars == <<status, message, mailbox>>

Init ==
    /\ status = "absent"
    /\ message = NoMessage
    /\ mailbox = {}

Create ==
    /\ status = "absent"
    /\ status' = "draft"
    /\ UNCHANGED <<message, mailbox>>

\* The dispatch of m begins.
Begin(m) ==
    /\ status = "draft"
    /\ status' = "sending"
    /\ message' = m
    /\ UNCHANGED mailbox

\* The server takes the message; nobody may know it yet.
Accept ==
    /\ status = "sending"
    /\ mailbox = {}
    /\ mailbox' = {message}
    /\ UNCHANGED <<status, message>>

\* A final status, consistent with the mailbox.
Conclude(outcome) ==
    /\ status = "sending"
    /\ outcome = "sent" => mailbox = {message}
    /\ outcome = "failed" => mailbox = {}
    /\ status' = outcome
    /\ UNCHANGED <<message, mailbox>>

Next ==
    \/ Create
    \/ \E m \in Messages : Begin(m)
    \/ Accept
    \/ \E outcome \in {"sent", "failed", "unknown"} : Conclude(outcome)

Spec == Init /\ [][Next]_vars
================================================================================
