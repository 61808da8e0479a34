------------------------- MODULE MCReleaseExecution -------------------------
(***************************************************************************)
(* An instance of ReleaseExecution for TLC.                                *)
(***************************************************************************)
EXTENDS ReleaseExecution, TLC

CONSTANTS d1, base, m, q, salt

Half == [salt |-> salt, percent |-> 50]
Tenth == [salt |-> salt, percent |-> 10]

\* Both deployments are Candidates for one slot.  The first is under observation: two rules
\* are asked for, its promotion wants two samples, two reports and a mirrored request overlap.
SameSlot == [d \in Deployment |-> base]
Rules == [d \in Deployment |-> IF d = d1 THEN Allocation ELSE {Half}]
Policies == [d \in Deployment |-> {[min |-> 2, required |-> IF d = d1 THEN {m} ELSE {}]}]
AllRules == {Half, Tenth}
\* The request is above a tenth and below a half.
Third == [x \in {salt} \X Request |-> 3333]
PassAndBreach == {[op |-> "none", threshold |-> 0, value |-> 0],
                  [op |-> "gt", threshold |-> 1, value |-> 2]}
OnTheFirst == {<<d1, q>>}
CanaryOfTheFirst == {<<d1, "canary", m>>}

Interchangeable == Permutations(Reporter)

\* Commands of the second deployment are explored from the moments when nothing is being
\* reported or mirrored.
OneStoryAtATime ==
    (\E c \in Command : c.dep # d1 /\ work[c].phase # "none") =>
        /\ \A w \in Reporter \cup Pairs : recorder[w].pc = "idle"
        /\ \A p \in Pairs : pair[p].phase \in {"none", "done", "failed"}
=============================================================================
