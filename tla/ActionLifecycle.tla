--------------------------- MODULE ActionLifecycle ---------------------------
(***************************************************************************)
(* The vocabulary of a governed Action: the states the domain layer lets   *)
(* it persist, the moves it allows between them, and what a tool receipt   *)
(* means for the Action, for the attempt row and for the reservation row.  *)
(* Constant-level: every module that touches an Action extends this one.   *)
(***************************************************************************)
EXTENDS Naturals

ActionStatus == {"proposed", "awaiting_approval", "authorized", "denied",
                 "executing", "succeeded", "failed", "unknown"}

\* _ACTION_TRANSITIONS as a set of pairs.
ActionTransitions ==
    ({"proposed"} \X {"awaiting_approval", "authorized", "denied"})
        \cup ({"awaiting_approval"} \X {"authorized", "denied"})
        \cup ({"authorized"} \X {"executing"})
        \cup ({"executing"} \X {"succeeded", "failed", "unknown"})
        \cup ({"unknown"} \X {"succeeded", "failed"})

\* The states GovernedToolGateway.execute accepts an Action in.
Executable == {"proposed", "awaiting_approval"}

\* States with no outgoing transition.
Settled == {"denied", "succeeded", "failed"}

ReceiptStatus == {"rejected", "accepted", "succeeded", "failed", "unknown"}

\* The Action state a receipt leads to.  Acceptance by the provider is not
\* evidence of the effect, so it is an unknown result.
ResultFromReceipt(receipt) ==
    IF receipt = "succeeded" THEN "succeeded"
    ELSE IF receipt \in {"failed", "rejected"} THEN "failed"
    ELSE "unknown"

ReservationStatus == {"none", "pending", "completed", "failed", "unknown", "accepted"}

\* The reservation row a receipt is filed under by complete().
FiledAs(receipt) ==
    IF receipt = "succeeded" THEN "completed"
    ELSE IF receipt = "rejected" THEN "failed"
    ELSE receipt

\* The receipt a finished reservation row is read back as.
CachedReceipt(row) == IF row = "completed" THEN "succeeded" ELSE "failed"
=============================================================================
