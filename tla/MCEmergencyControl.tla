-------------------------- MODULE MCEmergencyControl --------------------------
(***************************************************************************)
(* An instance of EmergencyControl for TLC.                                *)
(***************************************************************************)
EXTENDS EmergencyControl, TLC

CONSTANTS ann, bob, idp, api, here

Claims(subject, principal, tenant, roles, type) ==
    [signed |-> TRUE, expired |-> FALSE, issuer |-> idp, audience |-> api, type |-> type,
     subject |-> subject, principal |-> principal, tenant |-> tenant, roles |-> roles]

Emergency == {"security_admin", "security_auditor", "break_glass", "operator"}

Tokens ==
    {Claims(ann, None, here, Emergency, "access"),
     Claims(ann, bob, here, Emergency, "access"),
     Claims(ann, None, here, Emergency, "id")}

Settings == [issuer |-> idp, audience |-> api, types |-> {"access", "at+jwt"}]
HereOnly == [g \in Gate |-> here]
EveryStop == [g \in Gate |-> Stop]
Interchangeable == Permutations(Request)
=============================================================================
