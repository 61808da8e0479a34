-------------------------- MODULE MCEvidenceCapture --------------------------
(***************************************************************************)
(* An instance of EvidenceCapture for TLC.                                 *)
(***************************************************************************)
EXTENDS EvidenceCapture, TLC

CONSTANTS person, order

Found == [c \in Content |-> CASE c = person -> "pii" [] c = order -> "plain" [] OTHER -> "secret"]
=============================================================================
