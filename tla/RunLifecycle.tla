---------------------------- MODULE RunLifecycle ----------------------------
(***************************************************************************)
(* The states of a Run and the moves the domain layer allows between them. *)
(* "none" stands for a Run that has not been requested.                    *)
(***************************************************************************)

RunStatus == {"pending", "running", "blocked", "awaiting_evidence",
              "succeeded", "failed", "cancelled"}

RunTerminal == {"succeeded", "failed", "cancelled"}

\* _RUN_TRANSITIONS as a set of pairs.
RunTransitions ==
    ({"pending"} \X {"running", "cancelled"})
        \cup ({"running"} \X {"blocked", "awaiting_evidence", "succeeded", "failed", "cancelled"})
        \cup ({"blocked"} \X {"running", "failed", "cancelled"})
        \cup ({"awaiting_evidence"} \X {"succeeded", "failed", "cancelled"})
=============================================================================
