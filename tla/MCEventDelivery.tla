--------------------------- MODULE MCEventDelivery ---------------------------
(***************************************************************************)
(* An instance of EventDelivery for TLC.                                   *)
(***************************************************************************)
EXTENDS EventDelivery, TLC

OneTenant == [e \in Event |-> CHOOSE t \in Tenant : TRUE]

\* The model checks no liveness, and events of a kind, relays and consumers are interchangeable.
Symmetry == Permutations(Fact) \cup Permutations(Envelope) \cup Permutations(Relay)
              \cup Permutations(Consumer)
=============================================================================
