---------------------------- MODULE CandidateGate ----------------------------
(***************************************************************************)
(* What the Candidate lifecycle promises, and nothing of how: a Candidate  *)
(* reaches deployment through four parties that are pairwise different -   *)
(* the one who made it, the one who found it qualified, the one who        *)
(* approved it and the one who launches it - in that order, and a refused  *)
(* Candidate is never taken up again.                                      *)
(***************************************************************************)
CONSTANTS Candidate, Principal, NoOne
VARIABLES standing, maker, judge, approver, launched
gateVars == <<standing, maker, judge, approver, launched>>

Nobody == [c \in Candidate |-> NoOne]

Init ==
    /\ standing = [c \in Candidate |-> "none"]
    /\ maker = Nobody /\ judge = Nobody /\ approver = Nobody
    /\ launched = {}

Make(c, p) ==
    /\ standing[c] = "none"
    /\ standing' = [standing EXCEPT ![c] = "open"]
    /\ maker' = [maker EXCEPT ![c] = p]
    /\ UNCHANGED <<judge, approver, launched>>

Judge(c, p, verdict) ==
    /\ standing[c] = "open" /\ p # maker[c]
    /\ standing' = [standing EXCEPT ![c] = verdict]
    /\ judge' = [judge EXCEPT ![c] = p]
    /\ UNCHANGED <<maker, approver, launched>>

\* An approver may refuse a Candidate that was never judged, and approve only a qualified one.
Decide(c, p, verdict) ==
    /\ \/ standing[c] = "qualified"
       \/ standing[c] = "open" /\ verdict = "refused"
    /\ p \notin {maker[c], judge[c]}
    /\ standing' = [standing EXCEPT ![c] = verdict]
    /\ approver' = [approver EXCEPT ![c] = p]
    /\ UNCHANGED <<maker, judge, launched>>

Launch(c, p) ==
    /\ standing[c] = "approved"
    /\ p \notin {maker[c], judge[c], approver[c]}
    /\ launched' = launched \cup {<<c, p>>}
    /\ UNCHANGED <<standing, maker, judge, approver>>

Next == \E c \in Candidate, p \in Principal :
            \/ Make(c, p)
            \/ \E verdict \in {"qualified", "refused"} : Judge(c, p, verdict)
            \/ \E verdict \in {"approved", "refused"} : Decide(c, p, verdict)
            \/ Launch(c, p)

Spec == Init /\ [][Next]_gateVars
=============================================================================
