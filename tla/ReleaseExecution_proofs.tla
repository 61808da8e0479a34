------------------------ MODULE ReleaseExecution_proofs ------------------------
(***************************************************************************)
(* ReleaseExecution, for every value of its constants: its type            *)
(* invariant, one active release per slot, the agreement of deployments    *)
(* and releases, promotion on stored samples, mirroring at most once, and  *)
(* replayable routes.  Then CandidateEvaluation: its type invariant, the   *)
(* evidence qualified Candidates rest on, and the promise of the gate.     *)
(***************************************************************************)
EXTENDS ReleaseExecution, CandidateEvaluation, TLAPS

\* A deployment's version tells how far it has come; only a canary binds a traffic rule.
RowHolds(row) ==
    /\ row.status # "failed"
    /\ row.status = "shadow" => row.version = 1 /\ row.allocation = NoAllocation
    /\ row.status = "canary" => row.version = 2
    /\ row.status = "stable" => row.version = 3
    /\ row.status = "rolled_back" => row.reason \in {"release", "guardrail"}

\* A row that was read is stale, or is what is stored.
ReadHolds(d, row) ==
    /\ row.version <= deployment[d].version
    /\ row.version = deployment[d].version => row = deployment[d]

WorkHolds(c) ==
    /\ work[c].phase \in {"gate", "save"} => ReadHolds(c.dep, work[c].row) /\ Admits(c, work[c].row)
    /\ work[c].phase = "insert" => \A r \in work[c].seen : release[r] # "absent"

GuardHolds ==
    guard.pc = "save" => ReadHolds(guard.dep, guard.row) /\ MayMove(guard.row, "rolled_back")

\* A promotion past its gate rests on samples; one that has saved has moved its deployment.
PromotionHolds(c) ==
    /\ work[c].phase \in {"save"} \cup Saved =>
         /\ c.dep \in aged
         /\ \A m \in c.policy.required : samples[<<c.dep, "canary", m>>] >= c.policy.min
    /\ work[c].phase \in Saved => deployment[c.dep].version >= 3

OnePromotion ==
    \A b, c \in ReleaseStable :
        b.dep = c.dep /\ work[b].phase \in Saved /\ work[c].phase \in Saved => b = c

\* Activations that are done are those that have a release; rollbacks have one to roll back.
ReleaseHolds(c) == work[c].phase = "done" <=> release[c] # "absent"
RollbackHolds(c) == work[c].phase # "none" => release[c.of] # "absent"

\* Somebody promoted a stable deployment, and rolled back one that says so.
DeploymentHolds(d) ==
    /\ deployment[d].status = "stable" =>
         \E c \in ReleaseStable : c.dep = d /\ work[c].phase \in Saved
    /\ deployment[d].status = "rolled_back" /\ deployment[d].reason = "release" =>
         \E b \in RollbackRelease : b.dep = d /\ work[b].phase \in Saved

ActiveHolds(c) ==
    release[c] = "active" =>
        \/ deployment[c.dep].status = "stable"
        \/ /\ deployment[c.dep].status = "rolled_back"
           /\ \/ deployment[c.dep].reason = "guardrail"
              \/ \E b \in RollbackRelease :
                   b.dep = c.dep /\ work[b].phase \in {"replace", "insert", "torn"}

ReleaseInv ==
    /\ \A d \in Deployment : RowHolds(deployment[d])
    /\ \A c \in Command : WorkHolds(c)
    /\ GuardHolds
    /\ \A c \in ReleaseStable : PromotionHolds(c)
    /\ OnePromotion
    /\ \A c \in Activating : ReleaseHolds(c)
    /\ \A c \in RollbackRelease : RollbackHolds(c)
    /\ \A d \in Deployment : DeploymentHolds(d)
    /\ \A c \in ReleaseStable : ActiveHolds(c)
    /\ OneActiveRelease

\* Counters never run ahead of the samples, and neither does what a recorder has read.
CounterHolds(x) == observation[x].count <= samples[x]
RecorderHolds(w) == recorder[w].pc = "seen" => recorder[w].count <= samples[recorder[w].counter]

\* What the phase of a pair tells about the request it mirrors.
PairHolds(q) ==
    /\ pair[q].phase \in {"none", "check", "execute"} => served[q] = 0
    /\ pair[q].phase \in {"compare", "observe", "done"} => served[q] = 1
    /\ served[q] <= 1
    /\ q \in comparison => served[q] = 1

MeasureInv ==
    /\ \A x \in Counter : CounterHolds(x)
    /\ \A w \in Reporter \cup Pairs : RecorderHolds(w)
    /\ \A q \in Pairs : PairHolds(q)

-----------------------------------------------------------------------------
(* Commands, rows and the records of executions.                            *)

LEMMA StableFields ==
    ASSUME NEW c \in ReleaseStable
    PROVE  /\ c \in Command /\ c \in Activating /\ c.action = "release_stable"
           /\ c.dep \in Deployment /\ c.policy.min \in Nat /\ c.policy.required \subseteq Metric
<1>1. PICK d \in Deployment : c \in [action : {"release_stable"}, dep : {d}, policy : PoliciesOf[d]]
  BY DEF ReleaseStable
<1>2. PoliciesOf[d] \subseteq [min : Nat \ {0}, required : SUBSET Metric]
  BY ReleaseAssumption DEF ReleaseAssumption
<1>3. QED
  BY <1>1, <1>2 DEF Command, Activating

LEMMA CanaryFields ==
    ASSUME NEW c \in EnterCanary
    PROVE  /\ c \in Command /\ c.action = "enter_canary" /\ c.dep \in Deployment
           /\ c.allocation \in Allocation
<1>1. PICK d \in Deployment : c \in [action : {"enter_canary"}, dep : {d}, allocation : RulesOf[d]]
  BY DEF EnterCanary
<1>2. RulesOf[d] \subseteq Allocation
  BY ReleaseAssumption DEF ReleaseAssumption
<1>3. QED
  BY <1>1, <1>2 DEF Command

LEMMA RollbackFields ==
    ASSUME NEW c \in RollbackRelease
    PROVE  /\ c \in Command /\ c \in Activating /\ c.action = "rollback_release"
           /\ c.of \in ReleaseStable /\ c.dep = c.of.dep /\ c.dep \in Deployment
<1>1. PICK s \in ReleaseStable : c = [action |-> "rollback_release", dep |-> s.dep, of |-> s]
  BY DEF RollbackRelease
<1>2. QED
  BY <1>1, StableFields DEF Command, Activating

\* The action of a command tells its kind.
LEMMA Kinds ==
    ASSUME NEW c \in Command
    PROVE  /\ c.dep \in Deployment
           /\ c.action \in {"enter_canary", "release_stable", "rollback_release"}
           /\ c.action = "enter_canary" => c \in EnterCanary /\ c \notin Activating
           /\ c.action = "release_stable" <=> c \in ReleaseStable
           /\ c.action = "rollback_release" <=> c \in RollbackRelease
BY StableFields, CanaryFields, RollbackFields DEF Command, Activating

WorkRow == [phase : Phase, row : Rows, seen : SUBSET Activating]

LEMMA WorkFields ==
    ASSUME NEW w \in WorkRow
    PROVE  w.phase \in Phase /\ w.row \in Rows /\ w.seen \subseteq Activating
BY DEF WorkRow

LEMMA RowFields ==
    ASSUME NEW row \in Rows
    PROVE  /\ row.status \in DeploymentStatus /\ row.version \in 1..4
           /\ row.allocation \in Allocation \cup {NoAllocation}
           /\ row.reason \in {"none", "release", "guardrail"}
BY DEF Rows

LEMMA NewRowHolds == NewRow \in Rows /\ RowHolds(NewRow) /\ NewRow.version = 1
BY DEF NewRow, Rows, RowHolds, DeploymentStatus

LEMMA UnstartedRow ==
    /\ Unstarted \in WorkRow /\ Unstarted.phase = "none"
    /\ \A p \in Phase : /\ [Unstarted EXCEPT !.phase = p] \in WorkRow
                        /\ [Unstarted EXCEPT !.phase = p].phase = p
BY NewRowHolds DEF Unstarted, WorkRow, Phase

\* A move keeps a row well formed: one version on.
LEMMA MovedRow ==
    ASSUME NEW row \in Rows, RowHolds(row), NEW target \in DeploymentStatus, MayMove(row, target)
    PROVE  /\ Moved(row, target) \in Rows
           /\ Moved(row, target).status = target /\ Moved(row, target).version = row.version + 1
           /\ Moved(row, target).allocation = row.allocation
           /\ Moved(row, target).reason = row.reason
<1>1. row.version + 1 \in 1..4
  BY RowFields DEF MayMove, RowHolds, DeploymentTransitions, DeploymentStatus
<1>2. PICK r : r = [row EXCEPT !.status = target]
  OBVIOUS
<1>3. /\ r \in Rows /\ r.status = target /\ r.version = row.version
      /\ r.allocation = row.allocation /\ r.reason = row.reason
  BY <1>2 DEF Rows
<1>4. Moved(row, target) = [r EXCEPT !.version = r.version + 1]
  BY <1>2, <1>3 DEF Moved, Rows
<1>5. QED
  BY <1>1, <1>3, <1>4 DEF Rows

LEMMA RolledBackRow ==
    ASSUME NEW row \in Rows, RowHolds(row), MayMove(row, "rolled_back"),
           NEW why \in {"release", "guardrail"}
    PROVE  /\ RolledBack(row, why) \in Rows /\ RowHolds(RolledBack(row, why))
           /\ RolledBack(row, why).status = "rolled_back" /\ RolledBack(row, why).reason = why
           /\ RolledBack(row, why).version = row.version + 1
           /\ RolledBack(row, why).allocation = row.allocation
<1> DEFINE moved == Moved(row, "rolled_back")
<1>1. /\ moved \in Rows /\ moved.status = "rolled_back" /\ moved.version = row.version + 1
      /\ moved.allocation = row.allocation
  BY MovedRow DEF DeploymentStatus
<1>2. RolledBack(row, why) = [moved EXCEPT !.reason = why]
  BY DEF RolledBack
<1> HIDE DEF moved
<1>3. QED
  BY <1>1, <1>2 DEF Rows, RowHolds

LEMMA NewDeploymentRow ==
    ASSUME NEW c \in Command, work[c].row \in Rows, RowHolds(work[c].row), Admits(c, work[c].row)
    PROVE  /\ NewDeployment(c) \in Rows /\ RowHolds(NewDeployment(c))
           /\ NewDeployment(c).version = work[c].row.version + 1
           /\ c.action = "enter_canary" =>
                work[c].row.status = "shadow" /\ NewDeployment(c).status = "canary"
           /\ c.action = "release_stable" =>
                /\ work[c].row.status = "canary" /\ NewDeployment(c).status = "stable"
                /\ NewDeployment(c).allocation = work[c].row.allocation
           /\ c.action = "rollback_release" =>
                /\ MayMove(work[c].row, "rolled_back")
                /\ NewDeployment(c).status = "rolled_back" /\ NewDeployment(c).reason = "release"
                /\ NewDeployment(c).allocation = work[c].row.allocation
<1> DEFINE row == work[c].row
           new == NewDeployment(c)
<1>1. CASE c.action = "enter_canary"
  <2> DEFINE moved == Moved(row, "canary")
  <2>1. MayMove(row, "canary") /\ new = [moved EXCEPT !.allocation = c.allocation]
    BY <1>1 DEF Admits, NewDeployment, EnteredCanary
  <2>2. row.status = "shadow"
    BY <2>1 DEF MayMove, DeploymentTransitions
  <2>3. moved \in Rows /\ moved.status = "canary" /\ moved.version = row.version + 1
    BY <2>1, MovedRow DEF DeploymentStatus
  <2>4. c.allocation \in Allocation
    BY <1>1, Kinds, CanaryFields
  <2> HIDE DEF moved
  <2>5. new \in Rows /\ new.status = "canary" /\ new.version = row.version + 1
    BY <2>1, <2>3, <2>4 DEF Rows
  <2>6. new.version = 2
    BY <2>2, <2>5 DEF RowHolds
  <2>7. QED
    BY <1>1, <2>2, <2>5, <2>6 DEF RowHolds
<1>2. CASE c.action = "release_stable"
  <2>1. row.status = "canary" /\ new = Moved(row, "stable")
    BY <1>2 DEF Admits, NewDeployment
  <2>2. MayMove(row, "stable") /\ row.version = 2
    BY <2>1 DEF MayMove, DeploymentTransitions, RowHolds
  <2>3. QED
    BY <1>2, <2>1, <2>2, MovedRow DEF DeploymentStatus, RowHolds
<1>3. CASE c.action = "rollback_release"
  <2>1. MayMove(row, "rolled_back") /\ new = RolledBack(row, "release")
    BY <1>3 DEF Admits, NewDeployment
  <2>2. QED
    BY <1>3, <2>1, RolledBackRow
<1>4. QED
  BY <1>1, <1>2, <1>3, Kinds

\* Every other command stays where it is.
OthersKept(c) == \A b \in Command : b # c => work'[b] = work[b]

LEMMA WorkType == TypeOK => work \in [Command -> WorkRow]
BY DEF TypeOK, WorkRow

LEMMA PhaseMoves ==
    ASSUME TypeOK, NEW c \in Command, NEW p \in Phase, Phases(c, p)
    PROVE  /\ work' \in [Command -> WorkRow] /\ OthersKept(c) /\ work'[c].phase = p
           /\ work'[c].row = work[c].row /\ work'[c].seen = work[c].seen
BY WorkType DEF Phases, OthersKept, WorkRow

LEMMA WorkFinishes ==
    ASSUME TypeOK, NEW c \in Command, NEW p \in Phase, Finishes(c, p)
    PROVE  work' \in [Command -> WorkRow] /\ OthersKept(c) /\ work'[c].phase = p
<1> DEFINE w == [Unstarted EXCEPT !.phase = p]
<1>1. w \in WorkRow /\ w.phase = p /\ work' = [work EXCEPT ![c] = w]
  BY UnstartedRow DEF Finishes
<1> HIDE DEF w
<1>2. QED
  BY <1>1, WorkType DEF OthersKept

LEMMA WorkEnds ==
    ASSUME TypeOK, NEW c \in Command, Ends(c)
    PROVE  /\ work' \in [Command -> WorkRow] /\ OthersKept(c)
           /\ work'[c].phase = IF work[c].phase \in {"replace", "insert"} THEN "torn" ELSE "failed"
BY WorkFinishes DEF Ends, Phase

-----------------------------------------------------------------------------
(* Frames.                                                                  *)

Inv == TypeOK /\ ReleaseInv /\ MeasureInv

LEMMA MeasureKept ==
    ASSUME MeasureInv, UNCHANGED measured
    PROVE  MeasureInv'
BY DEF MeasureInv, measured, CounterHolds, RecorderHolds, PairHolds

\* Steps of a shadow pair or of a report leave the releases alone; samples only grow.
LEMMA ReleaseKept ==
    ASSUME TypeOK, ReleaseInv, UNCHANGED released,
           \A x \in Counter : samples'[x] \in Nat /\ samples'[x] >= samples[x]
    PROVE  ReleaseInv'
<1>1. UNCHANGED <<deployment, release, work, guard, aged>>
  BY DEF released
<1>2. ASSUME NEW c \in ReleaseStable
      PROVE  PromotionHolds(c)'
  <2>1. PromotionHolds(c)
    BY DEF ReleaseInv
  <2>2. \A m \in c.policy.required : <<c.dep, "canary", m>> \in Counter
    BY StableFields DEF Counter, Stage
  <2>3. \A x \in Counter : samples[x] \in Nat
    BY DEF TypeOK
  <2>4. c.policy.min \in Nat
    BY StableFields
  <2>5. ASSUME NEW m \in c.policy.required, samples[<<c.dep, "canary", m>>] >= c.policy.min
        PROVE  samples'[<<c.dep, "canary", m>>] >= c.policy.min
    BY <2>2, <2>3, <2>4, <2>5
  <2>6. QED
    BY <1>1, <2>1, <2>5 DEF PromotionHolds
<1>3. \A c \in Command : WorkHolds(c)'
  BY <1>1 DEF ReleaseInv, WorkHolds, ReadHolds
<1>4. GuardHolds' /\ OnePromotion' /\ OneActiveRelease'
  BY <1>1 DEF ReleaseInv, GuardHolds, ReadHolds, OnePromotion, OneActiveRelease, ActiveIn
<1>5. /\ \A d \in Deployment : RowHolds(deployment[d])' /\ DeploymentHolds(d)'
      /\ \A c \in Activating : ReleaseHolds(c)'
      /\ \A c \in RollbackRelease : RollbackHolds(c)'
      /\ \A c \in ReleaseStable : ActiveHolds(c)'
  BY <1>1 DEF ReleaseInv, RowHolds, DeploymentHolds, ReleaseHolds, RollbackHolds, ActiveHolds
<1>6. QED
  BY <1>2, <1>3, <1>4, <1>5 DEF ReleaseInv

\* A command moves on without writing a deployment or a release.
LEMMA CommandMoves ==
    ASSUME Inv, NEW c \in Command, work' \in [Command -> WorkRow], OthersKept(c),
           UNCHANGED <<deployment, release, guard, aged, measured>>, faults' \in 0..MaxFaults,
           WorkHolds(c)',
           c \in ReleaseStable => PromotionHolds(c)',
           work[c].phase \in Saved <=> work'[c].phase \in Saved,
           work[c].phase # "done" /\ work'[c].phase # "done",
           c \in RollbackRelease => release[c.of] # "absent"
    PROVE  Inv'
<1>1. TypeOK'
  BY DEF Inv, TypeOK, WorkRow, measured
<1>2. MeasureInv'
  BY MeasureKept DEF Inv
<1>3. \A b \in Command : WorkHolds(b)'
  <2>1. ASSUME NEW b \in Command, b # c
        PROVE  WorkHolds(b)'
    BY <2>1 DEF Inv, ReleaseInv, WorkHolds, ReadHolds, OthersKept
  <2>2. QED
    BY <2>1
<1>4. \A b \in Command : work[b].phase \in Saved <=> work'[b].phase \in Saved
  BY DEF OthersKept
<1>5. \A b \in Command : work[b].phase = "done" <=> work'[b].phase = "done"
  BY DEF OthersKept
<1>6. \A b \in ReleaseStable : PromotionHolds(b)'
  <2>1. ASSUME NEW b \in ReleaseStable, b # c
        PROVE  PromotionHolds(b)'
    BY <2>1, StableFields DEF Inv, ReleaseInv, PromotionHolds, OthersKept, measured
  <2>2. QED
    BY <2>1
<1>7. GuardHolds' /\ OneActiveRelease' /\ \A d \in Deployment : RowHolds(deployment[d])'
  BY DEF Inv, ReleaseInv, GuardHolds, ReadHolds, OneActiveRelease, ActiveIn, RowHolds
<1>8. OnePromotion'
  BY <1>4, StableFields DEF Inv, ReleaseInv, OnePromotion
<1>9. \A b \in Activating : ReleaseHolds(b)'
  BY <1>5 DEF Inv, ReleaseInv, ReleaseHolds, Command, Activating
<1>10. \A b \in RollbackRelease : RollbackHolds(b)'
  BY RollbackFields DEF Inv, ReleaseInv, RollbackHolds, OthersKept
<1>11. \A d \in Deployment : DeploymentHolds(d)'
  BY <1>4, StableFields, RollbackFields DEF Inv, ReleaseInv, DeploymentHolds
<1>12. \A b \in ReleaseStable : ActiveHolds(b)'
  <2>1. \A b \in Command : work[b].phase \in {"replace", "insert", "torn"} =>
                           work'[b].phase \in {"replace", "insert", "torn"}
    BY <1>4, <1>5 DEF Saved
  <2>2. QED
    BY <2>1, RollbackFields DEF Inv, ReleaseInv, ActiveHolds
<1>13. QED
  BY <1>1, <1>2, <1>3, <1>6, <1>7, <1>8, <1>9, <1>10, <1>11, <1>12 DEF Inv, ReleaseInv

\* A command that ends.
LEMMA CommandEnds ==
    ASSUME Inv, NEW c \in Command, Ends(c),
           work[c].phase \notin {"none", "done", "failed", "torn"},
           UNCHANGED <<deployment, release, guard, aged, measured>>, faults' \in 0..MaxFaults
    PROVE  Inv'
<1>1. /\ work' \in [Command -> WorkRow] /\ OthersKept(c)
      /\ work'[c].phase = IF work[c].phase \in {"replace", "insert"} THEN "torn" ELSE "failed"
  BY WorkEnds DEF Inv
<1>2. WorkHolds(c)'
  BY <1>1 DEF WorkHolds
<1>3. c \in ReleaseStable => PromotionHolds(c)'
  BY <1>1 DEF Inv, ReleaseInv, PromotionHolds, Saved, measured
<1>4. c \in RollbackRelease => release[c.of] # "absent"
  BY DEF Inv, ReleaseInv, RollbackHolds
<1>5. QED
  BY <1>1, <1>2, <1>3, <1>4, WorkFields, CommandMoves DEF Saved, Inv, TypeOK, WorkRow, Phase

-----------------------------------------------------------------------------
(* Release commands.                                                        *)

LEMMA DispatchInv ==
    ASSUME Inv, NEW c \in Command, Dispatch(c)
    PROVE  Inv'
<1>1. UNCHANGED <<deployment, release, guard, aged, measured>> /\ faults' \in 0..MaxFaults
  BY DEF Dispatch, Inv, TypeOK
<1>2. PICK p \in {"release", "read"} : Phases(c, p)
  BY DEF Dispatch
<1>3. work' \in [Command -> WorkRow] /\ OthersKept(c) /\ work'[c].phase = p
  BY <1>2, PhaseMoves DEF Inv, Phase
<1>4. WorkHolds(c)' /\ (c \in ReleaseStable => PromotionHolds(c)')
  BY <1>3 DEF WorkHolds, PromotionHolds, Saved
<1>5. c \in RollbackRelease => release[c.of] # "absent"
  BY RollbackFields DEF Dispatch, CanaryRequested, StableRequested, RollbackRequested
<1>6. work[c].phase = "none"
  BY DEF Dispatch
<1>7. QED
  BY <1>1, <1>3, <1>4, <1>5, <1>6, CommandMoves DEF Saved

LEMMA ReadReleaseInv ==
    ASSUME Inv, NEW c \in Command, ReadRelease(c)
    PROVE  Inv'
<1>1. /\ UNCHANGED <<deployment, release, guard, aged, measured>> /\ faults' \in 0..MaxFaults
      /\ work[c].phase = "release"
  BY DEF ReadRelease, Inv, TypeOK
<1>2. CASE Ends(c)
  BY <1>1, <1>2, CommandEnds
<1>3. CASE Phases(c, "read")
  <2>1. work' \in [Command -> WorkRow] /\ OthersKept(c) /\ work'[c].phase = "read"
    BY <1>3, PhaseMoves DEF Inv, Phase
  <2>2. WorkHolds(c)' /\ (c \in ReleaseStable => PromotionHolds(c)')
    BY <2>1 DEF WorkHolds, PromotionHolds, Saved
  <2>3. c \in RollbackRelease => release[c.of] # "absent"
    BY <1>1 DEF Inv, ReleaseInv, RollbackHolds
  <2>4. QED
    BY <1>1, <2>1, <2>2, <2>3, CommandMoves DEF Saved
<1>4. QED
  BY <1>2, <1>3 DEF ReadRelease

LEMMA ReadDeploymentInv ==
    ASSUME Inv, NEW c \in Command, ReadDeployment(c)
    PROVE  Inv'
<1>1. /\ UNCHANGED <<deployment, release, guard, aged, measured>> /\ faults' \in 0..MaxFaults
      /\ work[c].phase = "read" /\ c.dep \in Deployment
  BY Kinds DEF ReadDeployment, Inv, TypeOK
<1>2. CASE ~Admits(c, deployment[c.dep])
  BY <1>1, <1>2, CommandEnds DEF ReadDeployment
<1>3. CASE Admits(c, deployment[c.dep])
  <2> DEFINE row == deployment[c.dep]
             p == IF c.action = "release_stable" THEN "gate" ELSE "save"
  <2>1. work' = [work EXCEPT ![c].row = row, ![c].phase = p]
    BY <1>3 DEF ReadDeployment
  <2>2. row \in Rows /\ p \in Phase
    BY <1>1 DEF Inv, TypeOK, Phase
  <2>3. /\ work' \in [Command -> WorkRow] /\ OthersKept(c)
        /\ work'[c].phase = p /\ work'[c].row = row
    BY <2>1, <2>2, WorkType DEF Inv, OthersKept, WorkRow
  <2>4. WorkHolds(c)'
    <3>1. ReadHolds(c.dep, row)' /\ Admits(c, row)
      BY <1>1, <1>3, <2>2, RowFields DEF ReadHolds
    <3>2. QED
      BY <1>1, <2>3, <3>1 DEF WorkHolds, ReadHolds
  <2>5. c \in ReleaseStable => PromotionHolds(c)'
    BY <2>3, StableFields DEF PromotionHolds, Saved
  <2>6. c \in RollbackRelease => release[c.of] # "absent"
    BY <1>1 DEF Inv, ReleaseInv, RollbackHolds
  <2>7. QED
    BY <1>1, <2>3, <2>4, <2>5, <2>6, CommandMoves DEF Saved
<1>4. QED
  BY <1>2, <1>3

LEMMA PromotionGateInv ==
    ASSUME Inv, NEW c \in Command, PromotionGate(c)
    PROVE  Inv'
<1>1. /\ UNCHANGED <<deployment, release, guard, aged, measured>> /\ faults' \in 0..MaxFaults
      /\ work[c].phase = "gate"
  BY DEF PromotionGate, Inv, TypeOK
<1>2. CASE ~GatePasses(c)
  BY <1>1, <1>2, CommandEnds DEF PromotionGate
<1>3. CASE GatePasses(c)
  <2>1. /\ work' \in [Command -> WorkRow] /\ OthersKept(c) /\ work'[c].phase = "save"
        /\ work'[c].row = work[c].row
    BY <1>3, PhaseMoves DEF PromotionGate, Inv, Phase
  <2>2. WorkHolds(c)'
    BY <1>1, <2>1 DEF Inv, ReleaseInv, WorkHolds, ReadHolds
  <2>3. ASSUME c \in ReleaseStable
        PROVE  PromotionHolds(c)'
    <3>1. ASSUME NEW m \in c.policy.required
          PROVE  samples[<<c.dep, "canary", m>>] >= c.policy.min
      <4> DEFINE x == <<c.dep, "canary", m>>
      <4>1. x \in Counter /\ c.policy.min \in Nat
        BY <2>3, StableFields DEF Counter, Stage
      <4>2. observation[x].count \in Nat /\ samples[x] \in Nat
        BY <4>1 DEF Inv, TypeOK
      <4>3. observation[x].count >= c.policy.min
        BY <1>3 DEF GatePasses
      <4>4. observation[x].count <= samples[x]
        BY <4>1 DEF Inv, MeasureInv, CounterHolds
      <4>5. QED
        BY <4>1, <4>2, <4>3, <4>4
    <3>2. QED
      BY <1>1, <1>3, <2>1, <3>1 DEF PromotionHolds, GatePasses, Saved, measured
  <2>4. c \in RollbackRelease => release[c.of] # "absent"
    BY <1>1 DEF Inv, ReleaseInv, RollbackHolds
  <2>5. QED
    BY <1>1, <2>1, <2>2, <2>3, <2>4, CommandMoves DEF Saved
<1>4. QED
  BY <1>2, <1>3

LEMMA DeactivateSeenInv ==
    ASSUME Inv, NEW c \in Command, DeactivateSeen(c)
    PROVE  Inv'
<1>1. /\ UNCHANGED <<deployment, release, guard, aged, measured>> /\ faults' \in 0..MaxFaults
      /\ work[c].phase = "replace"
  BY DEF DeactivateSeen, Inv, TypeOK
<1> DEFINE seen == ActiveIn(SlotOf[c.dep])
<1>2. seen \in SUBSET Activating /\ \A r \in seen : release[r] = "active"
  BY DEF ActiveIn, InSlot
<1>3. work' = [work EXCEPT ![c].phase = "insert", ![c].seen = seen]
  BY DEF DeactivateSeen
<1> HIDE DEF seen
<1>4. /\ work' \in [Command -> WorkRow] /\ OthersKept(c)
      /\ work'[c].phase = "insert" /\ work'[c].seen = seen
  BY <1>2, <1>3, WorkType DEF Inv, OthersKept, WorkRow, Phase
<1>5. WorkHolds(c)'
  BY <1>1, <1>2, <1>4 DEF WorkHolds
<1>6. c \in ReleaseStable => PromotionHolds(c)'
  BY <1>1, <1>4 DEF Inv, ReleaseInv, PromotionHolds, Saved, measured
<1>7. c \in RollbackRelease => release[c.of] # "absent"
  BY <1>1 DEF Inv, ReleaseInv, RollbackHolds
<1>8. QED
  BY <1>1, <1>4, <1>5, <1>6, <1>7, CommandMoves DEF Saved

LEMMA CommandDiesInv ==
    ASSUME Inv, NEW c \in Command, CommandDies(c)
    PROVE  Inv'
<1>1. faults' \in 0..MaxFaults
  BY ReleaseAssumption DEF ReleaseAssumption, CommandDies, Fault, Inv, TypeOK
<1>2. QED
  BY <1>1, CommandEnds DEF CommandDies

\* A deployment is written: one version on, and whoever has read it holds a stale row.
Writes(d, new) ==
    /\ deployment' = [deployment EXCEPT ![d] = new]
    /\ new \in Rows /\ RowHolds(new) /\ new.version = deployment[d].version + 1

LEMMA DeploymentWritten ==
    ASSUME Inv, NEW d \in Deployment, NEW new, Writes(d, new)
    PROVE  /\ deployment' \in [Deployment -> Rows] /\ deployment'[d] = new
           /\ \A e \in Deployment : e # d => deployment'[e] = deployment[e]
           /\ \A e \in Deployment : RowHolds(deployment'[e])
           /\ \A e \in Deployment : deployment'[e].version >= deployment[e].version
           /\ \A e \in Deployment, row \in Rows : ReadHolds(e, row) => ReadHolds(e, row)'
<1>1. deployment \in [Deployment -> Rows]
  BY DEF Inv, TypeOK
<1>2. /\ deployment' \in [Deployment -> Rows] /\ deployment'[d] = new
      /\ \A e \in Deployment : e # d => deployment'[e] = deployment[e]
  BY <1>1 DEF Writes
<1>3. \A e \in Deployment : RowHolds(deployment'[e])
  BY <1>2 DEF Writes, Inv, ReleaseInv
<1>4. \A e \in Deployment : deployment[e].version \in 1..4
  BY <1>1, RowFields
<1>5. deployment'[d].version = deployment[d].version + 1
  BY <1>2 DEF Writes
<1>6. \A e \in Deployment : deployment'[e].version >= deployment[e].version
  BY <1>2, <1>4, <1>5
<1>7. ASSUME NEW e \in Deployment, NEW row \in Rows, ReadHolds(e, row)
      PROVE  ReadHolds(e, row)'
  <2>1. CASE e # d
    BY <1>2, <1>7, <2>1 DEF ReadHolds
  <2>2. CASE e = d
    <3>1. row.version \in 1..4 /\ row.version <= deployment[d].version
      BY <1>7, <2>2, RowFields DEF ReadHolds
    <3>2. QED
      BY <1>4, <1>5, <2>2, <3>1 DEF ReadHolds
  <2>3. QED
    BY <2>1, <2>2
<1>8. QED
  BY <1>2, <1>3, <1>6, <1>7

\* What a command holds stays good when its row is not written by itself.
LEMMA WorkKept ==
    ASSUME Inv, NEW c \in Command, work'[c] = work[c],
           \A e \in Deployment, row \in Rows : ReadHolds(e, row) => ReadHolds(e, row)',
           \A r \in Activating : release[r] # "absent" => release'[r] # "absent"
    PROVE  WorkHolds(c)'
<1>1. work[c].row \in Rows /\ work[c].seen \subseteq Activating /\ c.dep \in Deployment
  BY WorkType, WorkFields, Kinds DEF Inv
<1>2. WorkHolds(c)
  BY DEF Inv, ReleaseInv
<1>3. PICK row \in Rows : row = work[c].row
  BY <1>1
<1>4. ReadHolds(c.dep, row) => ReadHolds(c.dep, row)'
  BY <1>1
<1>5. ReadHolds(c.dep, work[c].row) => ReadHolds(c.dep, work[c].row)'
  BY <1>3, <1>4 DEF ReadHolds
<1>6. QED
  BY <1>1, <1>2, <1>5 DEF WorkHolds

LEMMA PromotionKept ==
    ASSUME Inv, NEW c \in ReleaseStable, work'[c] = work[c], UNCHANGED <<aged, samples>>,
           \A e \in Deployment : deployment'[e].version >= deployment[e].version,
           deployment' \in [Deployment -> Rows]
    PROVE  PromotionHolds(c)'
<1>1. c.dep \in Deployment /\ PromotionHolds(c)
  BY StableFields DEF Inv, ReleaseInv
<1>2. deployment[c.dep].version \in 1..4 /\ deployment'[c.dep].version \in 1..4
  BY <1>1, RowFields DEF Inv, TypeOK
<1>3. deployment[c.dep].version >= 3 => deployment'[c.dep].version >= 3
  BY <1>1, <1>2
<1>4. QED
  BY <1>1, <1>3 DEF PromotionHolds

LEMMA SaveDeploymentInv ==
    ASSUME Inv, NEW c \in Command, SaveDeployment(c)
    PROVE  Inv'
<1>1. /\ UNCHANGED <<release, guard, aged, measured>> /\ faults' \in 0..MaxFaults
      /\ work[c].phase = "save" /\ c.dep \in Deployment
  BY Kinds DEF SaveDeployment, Inv, TypeOK
<1>2. CASE ~Unchanged(c.dep, work[c].row)
  BY <1>1, <1>2, CommandEnds DEF SaveDeployment
<1>3. CASE Unchanged(c.dep, work[c].row)
  <2> DEFINE old == deployment[c.dep]
             p == IF c.action = "enter_canary" THEN "done" ELSE "replace"
  <2>1. PICK new : new = NewDeployment(c)
    OBVIOUS
  <2>2. work[c].row = old /\ Admits(c, work[c].row)
    BY <1>1, <1>3 DEF Inv, ReleaseInv, WorkHolds, ReadHolds, Unchanged
  <2>3. old \in Rows /\ RowHolds(old)
    BY <1>1 DEF Inv, TypeOK, ReleaseInv
  <2>4. /\ new \in Rows /\ RowHolds(new) /\ new.version = old.version + 1
        /\ c.action = "enter_canary" => old.status = "shadow" /\ new.status = "canary"
        /\ c.action = "release_stable" => old.status = "canary" /\ new.status = "stable"
        /\ c.action = "rollback_release" =>
             /\ MayMove(old, "rolled_back")
             /\ new.status = "rolled_back" /\ new.reason = "release"
    BY <2>1, <2>2, <2>3, NewDeploymentRow
  <2>5. Writes(c.dep, new) /\ Finishes(c, p)
    BY <1>3, <2>1, <2>4 DEF SaveDeployment, Writes
  <2>6. /\ deployment' \in [Deployment -> Rows] /\ deployment'[c.dep] = new
        /\ \A e \in Deployment : e # c.dep => deployment'[e] = deployment[e]
        /\ \A e \in Deployment : RowHolds(deployment'[e])
        /\ \A e \in Deployment : deployment'[e].version >= deployment[e].version
        /\ \A e \in Deployment, row \in Rows : ReadHolds(e, row) => ReadHolds(e, row)'
    BY <1>1, <2>5, DeploymentWritten
  <2>7. work' \in [Command -> WorkRow] /\ OthersKept(c) /\ work'[c].phase = p
    BY <2>5, WorkFinishes DEF Inv, Phase
  <2>8. TypeOK'
    BY <1>1, <2>6, <2>7 DEF Inv, TypeOK, WorkRow, measured
  <2>9. \A b \in Command : WorkHolds(b)'
    <3>1. WorkHolds(c)'
      BY <2>7 DEF WorkHolds
    <3>2. ASSUME NEW b \in Command, b # c
          PROVE  WorkHolds(b)'
      BY <1>1, <2>6, <2>7, <3>2, WorkKept DEF OthersKept
    <3>3. QED
      BY <3>1, <3>2
  <2>10. GuardHolds'
    <3>1. guard.dep \in Deployment /\ guard.row \in Rows
      BY DEF Inv, TypeOK
    <3>2. PICK row \in Rows : row = guard.row
      BY <3>1
    <3>3. ReadHolds(guard.dep, row) => ReadHolds(guard.dep, row)'
      BY <1>1, <2>6, <3>1 DEF ReadHolds
    <3>4. QED
      BY <1>1, <3>2, <3>3 DEF Inv, ReleaseInv, GuardHolds, ReadHolds
  <2>11. ASSUME NEW b \in ReleaseStable
         PROVE  PromotionHolds(b)'
    <3>1. CASE b # c
      BY <1>1, <2>6, <2>7, <3>1, StableFields, PromotionKept DEF OthersKept, measured
    <3>2. CASE b = c
      <4>1. new.version = 3
        BY <2>3, <2>4, <3>2, StableFields DEF RowHolds
      <4>2. QED
        BY <1>1, <2>6, <3>2, <4>1 DEF Inv, ReleaseInv, PromotionHolds, measured
    <3>3. QED
      BY <3>1, <3>2
  <2>12. OnePromotion'
    <3>1. ASSUME NEW b \in ReleaseStable, c \in ReleaseStable, b # c, b.dep = c.dep
          PROVE  work[b].phase \notin Saved
      <4>1. old.version = 2
        BY <2>3, <2>4, <3>1, StableFields DEF RowHolds
      <4>2. QED
        BY <3>1, <4>1 DEF Inv, ReleaseInv, PromotionHolds
    <3>2. \A b \in ReleaseStable : b # c => work'[b] = work[b]
      BY <2>7, StableFields DEF OthersKept
    <3>3. QED
      BY <3>1, <3>2 DEF Inv, ReleaseInv, OnePromotion
  <2>13. \A b \in Activating : ReleaseHolds(b)'
    <3>1. \A b \in Activating : b = c => p = "replace"
      BY Kinds
    <3>2. QED
      BY <1>1, <2>7, <3>1 DEF Inv, ReleaseInv, ReleaseHolds, OthersKept, Command, Activating
  <2>14. \A b \in RollbackRelease : RollbackHolds(b)'
    BY <1>1, <2>7, RollbackFields DEF Inv, ReleaseInv, RollbackHolds, OthersKept
  <2>15. ASSUME NEW d \in Deployment
         PROVE  DeploymentHolds(d)'
    <3>1. \A b \in Command : work[b].phase \in Saved => work'[b].phase \in Saved
      BY <1>1, <2>7 DEF OthersKept, Saved
    <3>2. CASE d # c.dep
      BY <2>6, <3>1, <3>2, StableFields, RollbackFields DEF Inv, ReleaseInv, DeploymentHolds
    <3>3. CASE d = c.dep
      <4>1. new.status = "stable" => c \in ReleaseStable /\ work'[c].phase \in Saved
        BY <2>4, <2>7, Kinds DEF Saved
      <4>2. new.status = "rolled_back" => c \in RollbackRelease /\ work'[c].phase \in Saved
        BY <2>4, <2>7, Kinds DEF Saved
      <4>3. QED
        BY <2>6, <3>3, <4>1, <4>2 DEF DeploymentHolds
    <3>4. QED
      BY <3>2, <3>3
  <2>16. ASSUME NEW b \in ReleaseStable
         PROVE  ActiveHolds(b)'
    <3>1. b.dep \in Deployment /\ ActiveHolds(b)
      BY StableFields DEF Inv, ReleaseInv
    <3>2. CASE b.dep # c.dep
      <4>1. \A r \in RollbackRelease : r.dep = b.dep => work'[r] = work[r]
        BY <2>7, <3>2, RollbackFields DEF OthersKept
      <4>2. QED
        BY <1>1, <2>6, <3>1, <3>2, <4>1 DEF ActiveHolds
    <3>3. CASE b.dep = c.dep /\ release[b] = "active"
      <4>1. old.status \in {"stable", "rolled_back"}
        BY <3>1, <3>3 DEF ActiveHolds
      <4>2. c.action = "rollback_release"
        BY <2>4, <4>1, Kinds
      <4>3. c \in RollbackRelease /\ work'[c].phase = "replace" /\ new.status = "rolled_back"
        BY <2>4, <2>7, <4>2, Kinds
      <4>4. QED
        BY <2>6, <3>3, <4>3 DEF ActiveHolds
    <3>4. QED
      BY <1>1, <3>2, <3>3 DEF ActiveHolds
  <2>17. OneActiveRelease'
    BY <1>1 DEF Inv, ReleaseInv, OneActiveRelease, ActiveIn
  <2>18. QED
    BY <1>1, <2>6, <2>8, <2>9, <2>10, <2>11, <2>12, <2>13, <2>14, <2>15, <2>16, <2>17, MeasureKept
       DEF Inv, ReleaseInv
<1>4. QED
  BY <1>2, <1>3

LEMMA InsertReleaseInv ==
    ASSUME Inv, NEW c \in Command, InsertRelease(c)
    PROVE  Inv'
<1>1. /\ UNCHANGED <<deployment, guard, aged, measured>> /\ faults' \in 0..MaxFaults
      /\ work[c].phase = "insert" /\ c.dep \in Deployment
  BY Kinds DEF InsertRelease, Inv, TypeOK
<1>2. CASE ~SlotIsFree(c)
  BY <1>1, <1>2, CommandEnds DEF InsertRelease
<1>3. CASE SlotIsFree(c)
  <2> DEFINE seen == work[c].seen
  <2>1. Finishes(c, "done")
    BY <1>3 DEF InsertRelease
  <2>2. work' \in [Command -> WorkRow] /\ OthersKept(c) /\ work'[c].phase = "done"
    BY <2>1, WorkFinishes DEF Inv, Phase
  <2>3. release \in [Activating -> {"absent", "active", "inactive"}]
    BY DEF Inv, TypeOK
  <2>4. release' = [r \in Activating |->
                      IF r = c THEN "active" ELSE IF r \in seen THEN "inactive" ELSE release[r]]
    BY <1>3 DEF InsertRelease
  <2>5. /\ release' \in [Activating -> {"absent", "active", "inactive"}]
        /\ c \in Activating => release'[c] = "active"
        /\ \A r \in Activating : r # c /\ r \in seen => release'[r] = "inactive"
        /\ \A r \in Activating : r # c /\ r \notin seen => release'[r] = release[r]
    BY <2>3, <2>4
  <2>6. seen \subseteq Activating /\ \A r \in seen : release[r] # "absent"
    BY <1>1, WorkType, WorkFields DEF Inv, ReleaseInv, WorkHolds
  <2>7. \A r \in Activating : r # c => (release'[r] = "absent" <=> release[r] = "absent")
    BY <2>5, <2>6
  <2>8. TypeOK'
    BY <1>1, <2>2, <2>5 DEF Inv, TypeOK, WorkRow, measured
  <2>9. \A b \in Command : WorkHolds(b)'
    <3>1. \A e \in Deployment, row \in Rows : ReadHolds(e, row) => ReadHolds(e, row)'
      BY <1>1 DEF ReadHolds
    <3>2. \A r \in Activating : release[r] # "absent" => release'[r] # "absent"
      BY <2>5, <2>7
    <3>3. WorkHolds(c)'
      BY <2>2 DEF WorkHolds
    <3>4. ASSUME NEW b \in Command, b # c
          PROVE  WorkHolds(b)'
      BY <2>2, <3>1, <3>2, <3>4, WorkKept DEF OthersKept
    <3>5. QED
      BY <3>3, <3>4
  <2>10. GuardHolds' /\ \A d \in Deployment : RowHolds(deployment[d])'
    BY <1>1 DEF Inv, ReleaseInv, GuardHolds, ReadHolds, RowHolds
  <2>11. \A b \in Command : work'[b].phase \in Saved <=> work[b].phase \in Saved
    BY <1>1, <2>2 DEF OthersKept, Saved
  <2>12. ASSUME NEW b \in ReleaseStable
         PROVE  PromotionHolds(b)'
    <3>1. b \in Command /\ PromotionHolds(b)
      BY StableFields DEF Inv, ReleaseInv
    <3>2. work'[b].phase \in {"save"} \cup Saved => work[b].phase \in {"save"} \cup Saved
      BY <2>2, <2>11, <3>1 DEF OthersKept
    <3>3. QED
      BY <1>1, <2>11, <3>1, <3>2 DEF PromotionHolds, measured
  <2>13. OnePromotion'
    BY <2>11, StableFields DEF Inv, ReleaseInv, OnePromotion
  <2>14. \A b \in Activating : ReleaseHolds(b)'
    BY <2>2, <2>5, <2>7 DEF Inv, ReleaseInv, ReleaseHolds, OthersKept, Command, Activating
  <2>15. ASSUME NEW b \in RollbackRelease
         PROVE  RollbackHolds(b)'
    <3>1. b \in Command /\ b.of \in Activating /\ RollbackHolds(b)
      BY RollbackFields, StableFields DEF Inv, ReleaseInv
    <3>2. work'[b].phase # "none" => work[b].phase # "none"
      BY <1>1, <2>2, <3>1 DEF OthersKept
    <3>3. QED
      BY <2>5, <2>7, <3>1, <3>2 DEF RollbackHolds
  <2>16. \A d \in Deployment : DeploymentHolds(d)'
    BY <1>1, <2>11, StableFields, RollbackFields DEF Inv, ReleaseInv, DeploymentHolds
  <2>17. ASSUME NEW b \in ReleaseStable, release'[b] = "active"
         PROVE  ActiveHolds(b)'
    <3>1. b \in Activating /\ b \in Command /\ b.dep \in Deployment
      BY StableFields
    <3>2. CASE b = c
      <4> DEFINE row == deployment[c.dep]
      <4>1. row.version >= 3 /\ RowHolds(row) /\ row \in Rows /\ DeploymentHolds(c.dep)
        BY <1>1, <3>2 DEF Inv, ReleaseInv, TypeOK, PromotionHolds, Saved
      <4>2. row.status \in {"stable", "rolled_back"}
        BY <4>1, RowFields DEF RowHolds, DeploymentStatus
      <4>3. ~(row.status = "rolled_back" /\ row.reason = "release")
        <5> SUFFICES ASSUME row.status = "rolled_back", row.reason = "release"
                     PROVE  FALSE
          OBVIOUS
        <5>1. PICK r \in RollbackRelease : r.dep = c.dep /\ work[r].phase \in Saved
          BY <4>1 DEF DeploymentHolds
        <5>2. r.of \in ReleaseStable /\ r.of \in Activating /\ r.of.dep = c.dep
          BY <5>1, RollbackFields, StableFields
        <5>3. work[r.of].phase = "done"
          BY <5>1, <5>2 DEF Inv, ReleaseInv, RollbackHolds, ReleaseHolds, Saved
        <5>4. r.of = c
          BY <1>1, <3>2, <5>2, <5>3 DEF Inv, ReleaseInv, OnePromotion, Saved
        <5>5. QED
          BY <1>1, <5>3, <5>4
      <4>4. QED
        BY <1>1, <3>2, <4>1, <4>2, <4>3 DEF ActiveHolds, RowHolds
    <3>3. CASE b # c
      <4>1. b \notin seen /\ release[b] = "active" /\ ActiveHolds(b)
        BY <2>5, <2>17, <3>1, <3>3 DEF Inv, ReleaseInv
      <4>2. b \in ActiveIn(SlotOf[b.dep])
        BY <3>1, <4>1 DEF ActiveIn, InSlot
      <4>3. b.dep # c.dep
        BY <1>3, <4>1, <4>2 DEF SlotIsFree
      <4>4. \A r \in RollbackRelease : r.dep = b.dep => work'[r] = work[r]
        BY <2>2, <4>3, RollbackFields DEF OthersKept
      <4>5. QED
        BY <1>1, <4>1, <4>4 DEF ActiveHolds
    <3>4. QED
      BY <3>2, <3>3
  <2>18. ASSUME NEW slot \in Slot, NEW a \in ActiveIn(slot)', NEW b \in ActiveIn(slot)'
         PROVE  a = b
    <3>1. /\ a \in Activating /\ SlotOf[a.dep] = slot /\ release'[a] = "active"
          /\ b \in Activating /\ SlotOf[b.dep] = slot /\ release'[b] = "active"
      BY <2>18 DEF ActiveIn, InSlot
    <3>2. \A r \in {a, b} : r # c => r \in ActiveIn(slot) /\ r \notin seen
      BY <2>5, <3>1 DEF ActiveIn, InSlot
    <3>3. CASE a # c /\ b # c
      BY <3>2, <3>3 DEF Inv, ReleaseInv, OneActiveRelease
    <3>4. CASE slot = SlotOf[c.dep]
      BY <1>3, <3>2, <3>4 DEF SlotIsFree
    <3>5. QED
      BY <3>1, <3>3, <3>4
  <2>19. OneActiveRelease'
    BY <2>18 DEF OneActiveRelease
  <2>20. \A b \in ReleaseStable : ActiveHolds(b)'
    BY <2>17 DEF ActiveHolds
  <2>21. QED
    BY <1>1, <2>8, <2>9, <2>10, <2>12, <2>13, <2>14, <2>15, <2>16, <2>19, <2>20, MeasureKept
       DEF Inv, ReleaseInv
<1>4. QED
  BY <1>2, <1>3

-----------------------------------------------------------------------------
(* The window and the guardrail.                                            *)

\* The window runs out, or the guardrail moves on without writing.
LEMMA WatchersMove ==
    ASSUME Inv, UNCHANGED <<deployment, release, work, measured, faults>>,
           aged \subseteq aged', aged' \subseteq Deployment,
           guard' \in [pc : {"idle", "breached", "save"}, dep : Deployment, row : Rows],
           GuardHolds'
    PROVE  Inv'
<1>1. TypeOK' /\ MeasureInv'
  BY MeasureKept DEF Inv, TypeOK, measured
<1>2. \A c \in ReleaseStable : PromotionHolds(c)'
  BY DEF Inv, ReleaseInv, PromotionHolds, measured
<1>3. \A c \in Command : WorkHolds(c)'
  BY DEF Inv, ReleaseInv, WorkHolds, ReadHolds
<1>4. OnePromotion' /\ OneActiveRelease'
  BY DEF Inv, ReleaseInv, OnePromotion, OneActiveRelease, ActiveIn
<1>5. /\ \A d \in Deployment : RowHolds(deployment[d])' /\ DeploymentHolds(d)'
      /\ \A c \in Activating : ReleaseHolds(c)'
      /\ \A c \in RollbackRelease : RollbackHolds(c)'
      /\ \A c \in ReleaseStable : ActiveHolds(c)'
  BY DEF Inv, ReleaseInv, RowHolds, DeploymentHolds, ReleaseHolds, RollbackHolds, ActiveHolds
<1>6. QED
  BY <1>1, <1>2, <1>3, <1>4, <1>5 DEF Inv, ReleaseInv

GuardRow == [pc : {"idle", "breached", "save"}, dep : Deployment, row : Rows]

LEMMA NoGuardRow == NoGuard \in GuardRow /\ NoGuard.pc = "idle"
BY NewRowHolds, ReleaseAssumption DEF NoGuard, GuardRow, ReleaseAssumption

LEMMA WindowElapsesInv ==
    ASSUME Inv, NEW d \in Deployment, WindowElapses(d)
    PROVE  Inv'
<1>1. /\ UNCHANGED <<deployment, release, work, guard, measured, faults>>
      /\ aged \subseteq aged' /\ aged' \subseteq Deployment
  BY DEF WindowElapses, Inv, TypeOK
<1>2. GuardHolds' /\ guard' \in [pc : {"idle", "breached", "save"}, dep : Deployment, row : Rows]
  BY <1>1 DEF Inv, ReleaseInv, TypeOK, GuardHolds, ReadHolds
<1>3. QED
  BY <1>1, <1>2, WatchersMove

LEMMA GuardBreachedInv ==
    ASSUME Inv, NEW x \in Counter, GuardBreached(x)
    PROVE  Inv'
<1>1. UNCHANGED <<deployment, release, work, aged, measured, faults>> /\ aged \subseteq Deployment
  BY DEF GuardBreached, Inv, TypeOK
<1>2. guard \in GuardRow /\ x[1] \in Deployment
  BY DEF Inv, TypeOK, GuardRow, Counter
<1>3. guard' = [guard EXCEPT !.pc = "breached", !.dep = x[1]]
  BY DEF GuardBreached
<1>4. guard' \in GuardRow /\ guard'.pc = "breached"
  BY <1>2, <1>3 DEF GuardRow
<1>5. QED
  BY <1>1, <1>4, WatchersMove DEF GuardHolds, GuardRow

LEMMA GuardLoadInv ==
    ASSUME Inv, GuardLoad
    PROVE  Inv'
<1>1. UNCHANGED <<deployment, release, work, aged, measured, faults>> /\ aged \subseteq Deployment
  BY DEF GuardLoad, Inv, TypeOK
<1>2. guard \in GuardRow /\ guard.dep \in Deployment /\ deployment[guard.dep] \in Rows
  BY DEF Inv, TypeOK, GuardRow
<1>3. CASE ~MayMove(deployment[guard.dep], "rolled_back")
  <2>1. guard' = NoGuard
    BY <1>3 DEF GuardLoad
  <2>2. QED
    BY <1>1, <2>1, NoGuardRow, WatchersMove DEF GuardHolds, GuardRow
<1>4. CASE MayMove(deployment[guard.dep], "rolled_back")
  <2>1. guard' = [guard EXCEPT !.pc = "save", !.row = deployment[guard.dep]]
    BY <1>4 DEF GuardLoad
  <2>2. /\ guard' \in GuardRow /\ guard'.pc = "save" /\ guard'.dep = guard.dep
        /\ guard'.row = deployment[guard.dep]
    BY <1>2, <2>1 DEF GuardRow
  <2>3. GuardHolds'
    BY <1>1, <1>2, <1>4, <2>2, RowFields DEF GuardHolds, ReadHolds
  <2>4. QED
    BY <1>1, <2>2, <2>3, WatchersMove DEF GuardRow
<1>5. QED
  BY <1>3, <1>4

LEMMA GuardSaveInv ==
    ASSUME Inv, GuardSave
    PROVE  Inv'
<1>1. /\ UNCHANGED <<release, work, aged, measured, faults>> /\ guard' = NoGuard
      /\ guard.pc = "save" /\ guard.dep \in Deployment /\ aged \subseteq Deployment
      /\ NoGuard \in [pc : {"idle", "breached", "save"}, dep : Deployment, row : Rows]
  BY NoGuardRow DEF GuardSave, Inv, TypeOK, GuardRow
<1>2. GuardHolds'
  BY <1>1, NoGuardRow DEF GuardHolds
<1>3. CASE ~Unchanged(guard.dep, guard.row)
  <2>1. deployment' = deployment
    BY <1>3 DEF GuardSave
  <2>2. QED
    BY <1>1, <1>2, <2>1, WatchersMove
<1>4. CASE Unchanged(guard.dep, guard.row)
  <2> DEFINE d == guard.dep
             old == deployment[d]
  <2>1. guard.row = old /\ MayMove(old, "rolled_back")
    BY <1>1, <1>4 DEF Inv, ReleaseInv, GuardHolds, ReadHolds, Unchanged
  <2>2. old \in Rows /\ RowHolds(old)
    BY <1>1 DEF Inv, ReleaseInv, TypeOK
  <2>3. PICK new : new = RolledBack(old, "guardrail")
    OBVIOUS
  <2>4. /\ new \in Rows /\ RowHolds(new) /\ new.version = old.version + 1
        /\ new.status = "rolled_back" /\ new.reason = "guardrail"
    BY <2>1, <2>2, <2>3, RolledBackRow
  <2>5. Writes(d, new)
    BY <1>4, <2>1, <2>3, <2>4 DEF GuardSave, Writes
  <2>6. /\ deployment' \in [Deployment -> Rows] /\ deployment'[d] = new
        /\ \A e \in Deployment : e # d => deployment'[e] = deployment[e]
        /\ \A e \in Deployment : RowHolds(deployment'[e])
        /\ \A e \in Deployment : deployment'[e].version >= deployment[e].version
        /\ \A e \in Deployment, row \in Rows : ReadHolds(e, row) => ReadHolds(e, row)'
    BY <1>1, <2>5, DeploymentWritten
  <2>7. TypeOK' /\ MeasureInv'
    BY <1>1, <2>6, MeasureKept DEF Inv, TypeOK, measured
  <2>8. ASSUME NEW c \in Command
        PROVE  WorkHolds(c)'
    BY <1>1, <2>6, WorkKept
  <2>9. ASSUME NEW c \in ReleaseStable
        PROVE  PromotionHolds(c)'
    BY <1>1, <2>6, PromotionKept DEF measured
  <2>10. OnePromotion' /\ OneActiveRelease'
    BY <1>1 DEF Inv, ReleaseInv, OnePromotion, OneActiveRelease, ActiveIn
  <2>11. /\ \A c \in Activating : ReleaseHolds(c)'
         /\ \A c \in RollbackRelease : RollbackHolds(c)'
    BY <1>1 DEF Inv, ReleaseInv, ReleaseHolds, RollbackHolds
  <2>12. ASSUME NEW e \in Deployment
         PROVE  DeploymentHolds(e)'
    BY <1>1, <2>4, <2>6 DEF Inv, ReleaseInv, DeploymentHolds
  <2>13. ASSUME NEW c \in ReleaseStable
         PROVE  ActiveHolds(c)'
    BY <1>1, <2>4, <2>6, StableFields DEF Inv, ReleaseInv, ActiveHolds
  <2>14. QED
    BY <1>2, <2>6, <2>7, <2>8, <2>9, <2>10, <2>11, <2>12, <2>13 DEF Inv, ReleaseInv
<1>5. QED
  BY <1>3, <1>4

-----------------------------------------------------------------------------
(* Observations and shadow pairs.                                           *)

RecorderRow == [pc : {"idle", "checked", "seen"}, counter : Counter, breached : BOOLEAN,
                count : Nat, breaches : Nat]
PairRow == [phase : PairPhase, todo : SUBSET Metric]
Recording == Reporter \cup Pairs

LEMMA QuietRow == Quiet \in RecorderRow /\ Quiet.pc = "idle"
<1>1. PICK d \in Deployment, m \in Metric : TRUE
  BY ReleaseAssumption DEF ReleaseAssumption
<1>2. <<d, "shadow", m>> \in Counter
  BY DEF Counter, Stage
<1>3. (CHOOSE x \in Counter : TRUE) \in Counter
  BY <1>2
<1>4. QED
  BY <1>3 DEF Quiet, RecorderRow

\* What a step of one recorder and one pair must keep.
MeasureType ==
    /\ observation \in [Counter -> [count : Nat, breaches : Nat]]
    /\ comparison \subseteq Pairs
    /\ pair \in [Pairs -> PairRow]
    /\ recorder \in [Recording -> RecorderRow]
    /\ samples \in [Counter -> Nat]
    /\ served \in [Pairs -> Nat]
    /\ faults \in 0..MaxFaults

LEMMA MeasureTyped == TypeOK => MeasureType
BY DEF TypeOK, MeasureType, PairRow, RecorderRow, Recording

LEMMA MeasureMoves ==
    ASSUME Inv, UNCHANGED released, MeasureType', MeasureInv',
           \A x \in Counter : samples'[x] \in Nat /\ samples'[x] >= samples[x]
    PROVE  Inv'
<1>1. ReleaseInv'
  BY ReleaseKept DEF Inv
<1>2. UNCHANGED <<deployment, release, work, guard, aged>>
  BY DEF released
<1>3. TypeOK'
  BY <1>2 DEF Inv, TypeOK, MeasureType, PairRow, RecorderRow, Recording
<1>4. QED
  BY <1>1, <1>3 DEF Inv

LEMMA SamplesAreKept ==
    ASSUME Inv, UNCHANGED samples
    PROVE  \A x \in Counter : samples'[x] \in Nat /\ samples'[x] >= samples[x]
BY DEF Inv, TypeOK

LEMMA RecorderFields ==
    ASSUME NEW r \in RecorderRow
    PROVE  /\ r.pc \in {"idle", "checked", "seen"} /\ r.counter \in Counter
           /\ r.breached \in BOOLEAN /\ r.count \in Nat /\ r.breaches \in Nat
BY DEF RecorderRow

LEMMA RecorderChecks ==
    ASSUME Inv, NEW w \in Recording, NEW x \in Counter, NEW b \in BOOLEAN, Checks(w, x, b)
    PROVE  /\ recorder' \in [Recording -> RecorderRow] /\ recorder'[w].pc = "checked"
           /\ \A v \in Recording : v # w => recorder'[v] = recorder[v]
<1>1. recorder \in [Recording -> RecorderRow]
  BY MeasureTyped DEF Inv, MeasureType
<1>2. recorder' = [recorder EXCEPT ![w].pc = "checked", ![w].counter = x, ![w].breached = b]
  BY DEF Checks
<1>3. QED
  BY <1>1, <1>2 DEF RecorderRow

\* Recorders that stay, or have not read, hold nothing that is too high.
LEMMA RecordersKept ==
    ASSUME Inv, NEW w \in Recording, UNCHANGED <<observation, samples>>,
           recorder'[w].pc # "seen",
           \A v \in Recording : v # w => recorder'[v] = recorder[v]
    PROVE  (\A x \in Counter : CounterHolds(x)') /\ (\A v \in Recording : RecorderHolds(v)')
<1>1. \A x \in Counter : CounterHolds(x)'
  BY DEF Inv, MeasureInv, CounterHolds
<1>2. ASSUME NEW v \in Recording
      PROVE  RecorderHolds(v)'
  BY DEF Inv, MeasureInv, RecorderHolds, Recording
<1>3. QED
  BY <1>1, <1>2

LEMMA GuardrailDecides ==
    ASSUME NEW sample \in Sample
    PROVE  GuardrailBreached(sample) \in BOOLEAN
<1>1. sample.op \in {"none", "lt", "gt", "lte", "gte"}
  BY ReleaseAssumption DEF ReleaseAssumption
<1>2. CASE sample.op = "none"
  BY <1>2 DEF GuardrailBreached
<1>3. CASE sample.op = "lt"
  BY <1>3 DEF GuardrailBreached
<1>4. CASE sample.op = "gt"
  BY <1>4 DEF GuardrailBreached
<1>5. CASE sample.op = "lte"
  BY <1>5 DEF GuardrailBreached
<1>6. CASE sample.op = "gte"
  BY <1>6 DEF GuardrailBreached
<1>7. QED
  BY <1>1, <1>2, <1>3, <1>4, <1>5, <1>6

LEMMA ReportObservationInv ==
    ASSUME Inv, NEW w \in Reporter, NEW x \in Reported, NEW sample \in Sample,
           ReportObservation(w, x, sample)
    PROVE  Inv'
<1>1. /\ UNCHANGED released /\ UNCHANGED samples
      /\ UNCHANGED <<observation, comparison, pair, samples, served, faults>>
  BY DEF ReportObservation, released
<1>2. x \in Counter /\ w \in Recording
  BY ReleaseAssumption DEF ReleaseAssumption, Counter, Stage, Recording
<1>3. GuardrailBreached(sample) \in BOOLEAN
  BY GuardrailDecides
<1>4. Checks(w, x, GuardrailBreached(sample))
  BY DEF ReportObservation
<1>5. /\ recorder' \in [Recording -> RecorderRow] /\ recorder'[w].pc = "checked"
      /\ \A v \in Recording : v # w => recorder'[v] = recorder[v]
  BY <1>2, <1>3, <1>4, RecorderChecks
<1>6. MeasureType'
  BY <1>1, <1>5, MeasureTyped DEF Inv, MeasureType
<1>7. MeasureInv'
  BY <1>1, <1>2, <1>5, RecordersKept DEF Inv, MeasureInv, PairHolds, Recording
<1>8. QED
  BY <1>1, <1>6, <1>7, SamplesAreKept, MeasureMoves

LEMMA GetObservationInv ==
    ASSUME Inv, NEW w \in Recording, GetObservation(w)
    PROVE  Inv'
<1>1. /\ UNCHANGED released /\ UNCHANGED samples
      /\ UNCHANGED <<observation, comparison, pair, samples, served, faults>>
  BY DEF GetObservation, released
<1> DEFINE x == recorder[w].counter
           n == observation[x].count
           k == observation[x].breaches
<1>2. recorder \in [Recording -> RecorderRow] /\ x \in Counter
  BY MeasureTyped, RecorderFields DEF Inv, MeasureType
<1>3. n \in Nat /\ k \in Nat /\ n <= samples[x]
  BY <1>2 DEF Inv, TypeOK, MeasureInv, CounterHolds
<1>4. recorder' = [recorder EXCEPT ![w].pc = "seen", ![w].count = n, ![w].breaches = k]
  BY DEF GetObservation
<1>5. /\ recorder' \in [Recording -> RecorderRow]
      /\ recorder'[w].count = n /\ recorder'[w].counter = x
      /\ \A v \in Recording : v # w => recorder'[v] = recorder[v]
  BY <1>2, <1>3, <1>4 DEF RecorderRow
<1>6. MeasureType'
  BY <1>1, <1>5, MeasureTyped DEF Inv, MeasureType
<1>7. ASSUME NEW v \in Recording
      PROVE  RecorderHolds(v)'
  BY <1>1, <1>3, <1>5 DEF Inv, MeasureInv, RecorderHolds, Recording
<1>8. MeasureInv'
  BY <1>1, <1>7 DEF Inv, MeasureInv, CounterHolds, PairHolds, Recording
<1>9. QED
  BY <1>1, <1>6, <1>8, SamplesAreKept, MeasureMoves

LEMMA SaveObservationInv ==
    ASSUME Inv, NEW w \in Recording, SaveObservation(w)
    PROVE  Inv'
<1> DEFINE x == recorder[w].counter
<1>1. /\ UNCHANGED released /\ UNCHANGED <<comparison, served, faults>>
      /\ recorder[w].pc = "seen"
      /\ samples' = [samples EXCEPT ![x] = @ + 1]
      /\ recorder' = [recorder EXCEPT ![w] = Quiet]
      /\ pair' = IF w \in Pairs THEN [pair EXCEPT ![w].todo = @ \ {x[3]}] ELSE pair
  BY DEF SaveObservation, released
<1>2. MeasureType /\ recorder[w] \in RecorderRow /\ x \in Counter
  BY MeasureTyped, RecorderFields DEF Inv, MeasureType
<1>3. recorder[w].count \in Nat /\ recorder[w].count <= samples[x]
  BY <1>1, <1>2, RecorderFields DEF Inv, MeasureInv, RecorderHolds, Recording
<1>4. PICK new : new = NextObservation(recorder[w])
  OBVIOUS
<1>5. new \in [count : Nat, breaches : Nat] /\ new.count = recorder[w].count + 1
  BY <1>2, <1>4, RecorderFields DEF NextObservation
<1>6. observation' = [observation EXCEPT ![x] = new]
  BY <1>4 DEF SaveObservation
<1>7. /\ observation' \in [Counter -> [count : Nat, breaches : Nat]] /\ observation'[x] = new
      /\ \A y \in Counter : y # x => observation'[y] = observation[y]
  BY <1>2, <1>5, <1>6 DEF MeasureType
<1>8. /\ samples' \in [Counter -> Nat] /\ samples'[x] = samples[x] + 1 /\ samples[x] \in Nat
      /\ \A y \in Counter : y # x => samples'[y] = samples[y]
  BY <1>1, <1>2 DEF MeasureType
<1>9. /\ recorder' \in [Recording -> RecorderRow] /\ recorder'[w].pc = "idle"
      /\ \A v \in Recording : v # w => recorder'[v] = recorder[v]
  BY <1>1, <1>2, QuietRow DEF MeasureType
<1>10. pair' \in [Pairs -> PairRow] /\ \A q \in Pairs : pair'[q].phase = pair[q].phase
  BY <1>1, <1>2 DEF MeasureType, PairRow
<1>11. \A y \in Counter : samples'[y] \in Nat /\ samples[y] \in Nat /\ samples'[y] >= samples[y]
  BY <1>2, <1>8 DEF MeasureType
<1>12. MeasureType'
  BY <1>1, <1>2, <1>7, <1>8, <1>9, <1>10 DEF MeasureType
<1>13. ASSUME NEW y \in Counter
       PROVE  CounterHolds(y)'
  BY <1>3, <1>5, <1>7, <1>8 DEF Inv, MeasureInv, CounterHolds
<1>14. ASSUME NEW v \in Recording
       PROVE  RecorderHolds(v)'
  <2>1. CASE v = w
    BY <1>9, <2>1 DEF RecorderHolds
  <2>2. CASE v # w
    <3>1. recorder'[v] = recorder[v] /\ recorder[v].counter \in Counter /\ recorder[v].count \in Nat
      BY <1>2, <1>9, <2>2, RecorderFields DEF MeasureType
    <3>2. RecorderHolds(v)
      BY DEF Inv, MeasureInv, Recording
    <3>3. QED
      BY <1>11, <3>1, <3>2 DEF RecorderHolds
  <2>3. QED
    BY <2>1, <2>2
<1>15. \A q \in Pairs : PairHolds(q)'
  BY <1>1, <1>10 DEF Inv, MeasureInv, PairHolds
<1>16. MeasureInv'
  BY <1>13, <1>14, <1>15 DEF MeasureInv, Recording
<1>17. QED
  BY <1>1, <1>11, <1>12, <1>16, MeasureMoves

\* One pair goes to another phase.
PairGoes(q, p) ==
    /\ pair' \in [Pairs -> PairRow] /\ pair'[q].phase = p
    /\ \A r \in Pairs : r # q => pair'[r] = pair[r]

LEMMA PairPhaseGoes ==
    ASSUME Inv, NEW q \in Pairs, NEW p \in PairPhase, PairPhases(q, p)
    PROVE  PairGoes(q, p)
<1>1. pair \in [Pairs -> PairRow]
  BY MeasureTyped DEF Inv, MeasureType
<1>2. QED
  BY <1>1 DEF PairPhases, PairGoes, PairRow

\* A pair moves on and, where it says so, has served its request or stored its comparison.
LEMMA PairMoves ==
    ASSUME Inv, NEW q \in Pairs, NEW p, PairGoes(q, p), UNCHANGED <<released, observation, samples>>,
           faults' \in 0..MaxFaults, served' \in [Pairs -> Nat], comparison' \subseteq Pairs,
           \A r \in Pairs : r # q => served'[r] = served[r] /\ (r \in comparison' <=> r \in comparison),
           PairHolds(q)',
           recorder' \in [Recording -> RecorderRow],
           recorder' = recorder \/ recorder'[q].pc # "seen",
           \A v \in Recording : v # q => recorder'[v] = recorder[v]
    PROVE  Inv'
<1>1. UNCHANGED released /\ UNCHANGED <<observation, samples>> /\ q \in Recording
  BY DEF Recording
<1>2. MeasureType'
  BY <1>1, MeasureTyped DEF Inv, MeasureType, PairGoes
<1>3. (\A x \in Counter : CounterHolds(x)') /\ (\A v \in Recording : RecorderHolds(v)')
  <2>1. CASE recorder' = recorder
    BY <1>1, <2>1 DEF Inv, MeasureInv, CounterHolds, RecorderHolds, Recording
  <2>2. CASE recorder'[q].pc # "seen"
    BY <1>1, <2>2, RecordersKept
  <2>3. QED
    BY <2>1, <2>2
<1>4. ASSUME NEW r \in Pairs
      PROVE  PairHolds(r)'
  BY DEF PairGoes, Inv, MeasureInv, PairHolds
<1>5. MeasureInv'
  BY <1>3, <1>4 DEF MeasureInv, Recording
<1>6. QED
  BY <1>1, <1>2, <1>5, SamplesAreKept, MeasureMoves

\* Steps that only change the phase.
LEMMA PairTurns ==
    ASSUME Inv, NEW q \in Pairs, NEW p \in PairPhase, PairPhases(q, p),
           UNCHANGED <<released, observation, comparison, samples, served>>,
           faults' \in 0..MaxFaults,
           recorder' = recorder \/ recorder' = [recorder EXCEPT ![q] = Quiet],
           p \in {"check", "execute"} => pair[q].phase \in {"none", "check"},
           p # "none", p # "compare", p # "observe",
           p = "done" => pair[q].phase = "observe"
    PROVE  Inv'
<1>1. PairGoes(q, p)
  BY PairPhaseGoes
<1>2. recorder \in [Recording -> RecorderRow] /\ q \in Recording
  BY MeasureTyped DEF Inv, MeasureType, Recording
<1>3. /\ recorder' \in [Recording -> RecorderRow]
      /\ recorder' = recorder \/ recorder'[q].pc # "seen"
      /\ \A v \in Recording : v # q => recorder'[v] = recorder[v]
  BY <1>2, QuietRow
<1>4. served' \in [Pairs -> Nat] /\ comparison' \subseteq Pairs
  BY DEF Inv, TypeOK
<1>5. PairHolds(q)'
  BY <1>1 DEF PairGoes, Inv, MeasureInv, PairHolds
<1>6. QED
  BY <1>1, <1>3, <1>4, <1>5, PairMoves

LEMMA DispatchShadowInv ==
    ASSUME Inv, NEW q \in Pairs, DispatchShadow(q)
    PROVE  Inv'
<1>1. faults' \in 0..MaxFaults
  BY DEF DispatchShadow, Inv, TypeOK
<1>2. QED
  BY <1>1, PairTurns DEF DispatchShadow, PairPhase

LEMMA CheckPairInv ==
    ASSUME Inv, NEW q \in Pairs, CheckPair(q)
    PROVE  Inv'
<1>1. /\ faults' \in 0..MaxFaults /\ pair[q].phase = "check"
      /\ UNCHANGED <<released, observation, comparison, recorder, samples, served>>
  BY DEF CheckPair, Inv, TypeOK
<1>2. PICK p \in {"execute", "failed"} : PairPhases(q, p)
  BY DEF CheckPair
<1>3. QED
  BY <1>1, <1>2, PairTurns DEF PairPhase

LEMMA ExecutePairInv ==
    ASSUME Inv, NEW q \in Pairs, ExecutePair(q)
    PROVE  Inv'
<1>1. /\ faults' \in 0..MaxFaults /\ pair[q].phase = "execute"
      /\ UNCHANGED <<released, observation, comparison, recorder, samples>>
      /\ served' = [served EXCEPT ![q] = @ + 1]
  BY DEF ExecutePair, Inv, TypeOK
<1>2. PairGoes(q, "compare")
  BY PairPhaseGoes DEF ExecutePair, PairPhase
<1>3. served \in [Pairs -> Nat] /\ comparison \subseteq Pairs /\ recorder \in [Recording -> RecorderRow]
  BY MeasureTyped DEF Inv, MeasureType
<1>4. /\ served' \in [Pairs -> Nat] /\ served'[q] = served[q] + 1
      /\ \A r \in Pairs : r # q => served'[r] = served[r]
  BY <1>1, <1>3
<1>5. served[q] = 0
  BY <1>1 DEF Inv, MeasureInv, PairHolds
<1>6. PairHolds(q)'
  BY <1>2, <1>4, <1>5 DEF PairGoes, PairHolds
<1>7. QED
  BY <1>1, <1>2, <1>3, <1>4, <1>6, PairMoves

LEMMA StoreComparisonInv ==
    ASSUME Inv, NEW q \in Pairs, StoreComparison(q)
    PROVE  Inv'
<1>1. /\ faults' \in 0..MaxFaults /\ pair[q].phase = "compare"
      /\ UNCHANGED <<released, observation, recorder, samples, served>>
      /\ comparison' = comparison \cup {q}
  BY DEF StoreComparison, Inv, TypeOK
<1>2. /\ served \in [Pairs -> Nat] /\ comparison \subseteq Pairs
      /\ recorder \in [Recording -> RecorderRow] /\ pair \in [Pairs -> PairRow]
  BY MeasureTyped DEF Inv, MeasureType
<1>3. PICK p \in {"failed", "observe"} : PairGoes(q, p)
  <2>1. CASE q \in comparison
    BY <2>1, PairPhaseGoes DEF StoreComparison, PairPhase
  <2>2. CASE q \notin comparison
    <3>1. pair' = [pair EXCEPT ![q].phase = "observe", ![q].todo = Metric]
      BY <2>2 DEF StoreComparison
    <3>2. PairGoes(q, "observe")
      BY <1>2, <3>1 DEF PairGoes, PairRow, PairPhase
    <3>3. QED
      BY <3>2
  <2>3. QED
    BY <2>1, <2>2
<1>4. PairHolds(q)'
  BY <1>1, <1>3 DEF PairGoes, Inv, MeasureInv, PairHolds
<1>5. QED
  BY <1>1, <1>2, <1>3, <1>4, PairMoves

LEMMA ObservePairInv ==
    ASSUME Inv, NEW q \in Pairs, ObservePair(q)
    PROVE  Inv'
<1>1. /\ faults' \in 0..MaxFaults /\ pair[q].phase = "observe"
      /\ UNCHANGED <<released, observation, comparison, samples, served>>
  BY DEF ObservePair, Inv, TypeOK
<1>2. CASE \E p \in {"done", "failed"} : PairPhases(q, p) /\ UNCHANGED recorder
  BY <1>1, <1>2, PairTurns DEF PairPhase
<1>3. CASE \E m \in pair[q].todo : Checks(q, <<q[1], "shadow", m>>, FALSE) /\ UNCHANGED pair
  <2>1. PICK m \in pair[q].todo : Checks(q, <<q[1], "shadow", m>>, FALSE) /\ UNCHANGED pair
    BY <1>3
  <2>2. MeasureType /\ pair[q] \in PairRow /\ q \in Recording
    BY MeasureTyped DEF Inv, MeasureType, Recording
  <2>3. <<q[1], "shadow", m>> \in Counter
    <3>1. m \in Metric
      BY <2>1, <2>2 DEF PairRow
    <3>2. q[1] \in Deployment
      BY ReleaseAssumption DEF ReleaseAssumption
    <3>3. QED
      BY <3>1, <3>2 DEF Counter, Stage
  <2>4. /\ recorder' \in [Recording -> RecorderRow] /\ recorder'[q].pc = "checked"
        /\ \A v \in Recording : v # q => recorder'[v] = recorder[v]
    BY <2>1, <2>2, <2>3, RecorderChecks
  <2>5. PairGoes(q, "observe")
    BY <1>1, <2>1, <2>2 DEF PairGoes, MeasureType
  <2>6. PairHolds(q)'
    BY <1>1, <2>1 DEF Inv, MeasureInv, PairHolds
  <2>7. QED
    BY <1>1, <2>2, <2>4, <2>5, <2>6, PairMoves DEF MeasureType
<1>4. QED
  BY <1>2, <1>3 DEF ObservePair

LEMMA PairDiesInv ==
    ASSUME Inv, NEW q \in Pairs, PairDies(q)
    PROVE  Inv'
<1>1. faults' \in 0..MaxFaults
  BY ReleaseAssumption DEF ReleaseAssumption, PairDies, Fault, Inv, TypeOK
<1>2. QED
  BY <1>1, PairTurns DEF PairDies, AfterPairDied, PairPhase

-----------------------------------------------------------------------------
LEMMA InitInv == Init => Inv
<1> SUFFICES ASSUME Init PROVE Inv
  OBVIOUS
<1>1. MeasureType
  BY QuietRow, ReleaseAssumption
     DEF Init, MeasureType, NoSamples, Recording, PairRow, PairPhase, ReleaseAssumption
<1>2. TypeOK
  BY <1>1, NewRowHolds, UnstartedRow, NoGuardRow
     DEF Init, TypeOK, MeasureType, Recording, RecorderRow, PairRow, WorkRow, GuardRow
<1>3. \A c \in Command : work[c].phase = "none"
  BY UnstartedRow DEF Init
<1>4. \A c \in Activating : release[c] = "absent"
  BY DEF Init
<1>5. \A d \in Deployment : deployment[d] = NewRow
  BY DEF Init
<1>6. /\ \A d \in Deployment : RowHolds(deployment[d]) /\ DeploymentHolds(d)
      /\ \A c \in Command : WorkHolds(c)
  BY <1>3, <1>5, NewRowHolds DEF NewRow, DeploymentHolds, WorkHolds
<1>7. GuardHolds
  BY NoGuardRow DEF Init, GuardHolds
<1>8. \A c \in ReleaseStable : PromotionHolds(c) /\ ActiveHolds(c)
  BY <1>3, <1>4, StableFields DEF PromotionHolds, ActiveHolds, Saved
<1>9. OnePromotion /\ OneActiveRelease
  BY <1>3, <1>4, StableFields DEF OnePromotion, OneActiveRelease, ActiveIn, InSlot, Saved
<1>10. (\A c \in Activating : ReleaseHolds(c)) /\ (\A c \in RollbackRelease : RollbackHolds(c))
  BY <1>3, <1>4, RollbackFields DEF ReleaseHolds, RollbackHolds, Command, Activating
<1>11. MeasureInv
  BY QuietRow DEF Init, MeasureInv, CounterHolds, RecorderHolds, PairHolds, NoSamples
<1>12. QED
  BY <1>2, <1>6, <1>7, <1>8, <1>9, <1>10, <1>11 DEF Inv, ReleaseInv

LEMMA StutterInv ==
    ASSUME Inv, UNCHANGED vars
    PROVE  Inv'
<1>1. /\ UNCHANGED <<deployment, release, work, guard, aged>> /\ UNCHANGED measured
      /\ UNCHANGED faults
  BY DEF vars, measured
<1>2. aged \subseteq Deployment /\ guard \in GuardRow
  BY DEF Inv, TypeOK, GuardRow
<1>3. GuardHolds'
  BY <1>1 DEF Inv, ReleaseInv, GuardHolds, ReadHolds
<1>4. QED
  BY <1>1, <1>2, <1>3, WatchersMove DEF GuardRow

LEMMA NextInv ==
    ASSUME Inv, [Next]_vars
    PROVE  Inv'
<1>1. ASSUME NEW c \in Command, Dispatch(c) \/ Execute(c) \/ CommandDies(c)
      PROVE  Inv'
  BY <1>1, DispatchInv, ReadReleaseInv, ReadDeploymentInv, PromotionGateInv, SaveDeploymentInv,
     DeactivateSeenInv, InsertReleaseInv, CommandDiesInv DEF Execute
<1>2. ASSUME NEW q \in Pairs, DispatchShadow(q) \/ ShadowPair(q) \/ PairDies(q)
      PROVE  Inv'
  BY <1>2, DispatchShadowInv, CheckPairInv, ExecutePairInv, StoreComparisonInv, ObservePairInv,
     PairDiesInv DEF ShadowPair
<1>3. ASSUME NEW w \in Reporter \cup Pairs, GetObservation(w) \/ SaveObservation(w)
      PROVE  Inv'
  BY <1>3, GetObservationInv, SaveObservationInv DEF Recording
<1>4. QED
  BY <1>1, <1>2, <1>3, WindowElapsesInv, ReportObservationInv, GuardBreachedInv, GuardLoadInv,
     GuardSaveInv, StutterInv DEF Next

LEMMA Inductive == Spec => []Inv
<1>1. Inv /\ [Next]_vars => Inv'
  BY NextInv
<1>2. QED
  BY <1>1, InitInv, PTL DEF Spec

-----------------------------------------------------------------------------
(* Theorems.                                                                *)

\* Tables, executions and histories hold values the code knows; no deployment passes its fourth
\* version, whoever races whom and whoever dies.
THEOREM ReleaseTypeCorrect == Spec => []TypeOK
<1>1. Inv => TypeOK
  BY DEF Inv
<1>2. QED
  BY <1>1, Inductive, PTL

\* add_release: the unique index leaves a stable slot one active release, for any number of
\* deployments, slots, promotions and rollbacks.
THEOREM OneReleaseIsActive == Spec => []OneActiveRelease
<1>1. Inv => OneActiveRelease
  BY DEF Inv, ReleaseInv
<1>2. QED
  BY <1>1, Inductive, PTL

\* release_stable and rollback write deployments and releases in two transactions, and die
\* between them: the two tables tell the same story up to the half that was torn off.
THEOREM TablesAgree == Spec => []RecordsAgree
<1>1. Inv => RecordsAgree
  <2> SUFFICES ASSUME Inv PROVE RecordsAgree
    OBVIOUS
  <2>1. ASSUME NEW d \in Deployment, deployment[d].status = "stable"
        PROVE  \E c \in ReleaseStable :
                  /\ c.dep = d /\ work[c].phase \in Saved
                  /\ work[c].phase = "done" => release[c] # "absent"
                  /\ \A b \in ReleaseStable : b.dep = d /\ work[b].phase \in Saved => b = c
    <3>1. PICK c \in ReleaseStable : c.dep = d /\ work[c].phase \in Saved
      BY <2>1 DEF Inv, ReleaseInv, DeploymentHolds
    <3>2. work[c].phase = "done" => release[c] # "absent"
      BY StableFields DEF Inv, ReleaseInv, ReleaseHolds
    <3>3. \A b \in ReleaseStable : b.dep = d /\ work[b].phase \in Saved => b = c
      BY <3>1 DEF Inv, ReleaseInv, OnePromotion
    <3>4. QED
      BY <3>1, <3>2, <3>3
  <2>2. \A c \in ReleaseStable : ActiveHolds(c)
    BY DEF Inv, ReleaseInv
  <2>3. QED
    BY <2>1, <2>2 DEF RecordsAgree, ActiveHolds
<1>2. QED
  BY <1>1, Inductive, PTL

\* _assert_promotion_gate: a promotion that went through rests on samples that were stored in
\* canary, although counters are overwritten without a version check.
THEOREM PromotedOnSamples == Spec => []ReleasedOnSamples
<1>1. Inv => ReleasedOnSamples
  BY DEF Inv, ReleaseInv, PromotionHolds, ReleasedOnSamples
<1>2. QED
  BY <1>1, Inductive, PTL

\* execute_shadow_pair: for any set of mirrored requests, the stable version serves each at most
\* once, and no comparison is stored of one it has not served.
THEOREM MirroredOnce == Spec => []StableServedOnce
<1>1. Inv => StableServedOnce
  BY DEF Inv, MeasureInv, PairHolds, StableServedOnce
<1>2. QED
  BY <1>1, Inductive, PTL

\* A write of a deployment keeps a bound rule, and no write leads from canary to canary.
LEMMA WriteKeepsRoute ==
    ASSUME NEW old \in Rows, NEW new \in Rows, RowHolds(old), NEW q,
           new.allocation = old.allocation \/ old.status = "shadow",
           new.status # "canary" \/ old.status = "shadow"
    PROVE  /\ "refused" \notin {Route(old, q), Route(new, q)} => Route(new, q) = Route(old, q)
           /\ old.allocation # NoAllocation => new.allocation = old.allocation
BY DEF Route, RowHolds

LEMMA RouteStep ==
    ASSUME Inv, Next, NEW d \in Deployment, NEW q \in Request
    PROVE  /\ "refused" \notin {Route(deployment[d], q), Route(deployment'[d], q)} =>
                Route(deployment'[d], q) = Route(deployment[d], q)
           /\ deployment[d].allocation # NoAllocation =>
                deployment'[d].allocation = deployment[d].allocation
<1> DEFINE old == deployment[d]
           Kept == /\ "refused" \notin {Route(old, q), Route(deployment'[d], q)} =>
                        Route(deployment'[d], q) = Route(old, q)
                   /\ old.allocation # NoAllocation => deployment'[d].allocation = old.allocation
<1>1. deployment \in [Deployment -> Rows] /\ old \in Rows /\ RowHolds(old)
  BY DEF Inv, TypeOK, ReleaseInv
<1>2. CASE deployment'[d] = old
  BY <1>2
<1>3. ASSUME NEW c \in Command, SaveDeployment(c), deployment'[d] # old
      PROVE  Kept
  <2>1. /\ work[c].phase = "save" /\ Unchanged(c.dep, work[c].row) /\ c.dep \in Deployment
        /\ deployment' = [deployment EXCEPT ![c.dep] = NewDeployment(c)]
    BY <1>3, Kinds DEF SaveDeployment
  <2>2. d = c.dep /\ deployment'[d] = NewDeployment(c)
    BY <1>1, <1>3, <2>1
  <2>3. work[c].row = old /\ Admits(c, work[c].row)
    BY <2>1, <2>2 DEF Inv, ReleaseInv, WorkHolds, ReadHolds, Unchanged
  <2>4. PICK new : new = NewDeployment(c)
    OBVIOUS
  <2>5. /\ new \in Rows
        /\ new.allocation = old.allocation \/ old.status = "shadow"
        /\ new.status # "canary" \/ old.status = "shadow"
    BY <1>1, <2>3, <2>4, Kinds, NewDeploymentRow
  <2>6. QED
    BY <1>1, <2>2, <2>4, <2>5, WriteKeepsRoute
<1>4. ASSUME GuardSave, deployment'[d] # old
      PROVE  Kept
  <2>1. /\ guard.pc = "save" /\ Unchanged(guard.dep, guard.row) /\ guard.dep \in Deployment
        /\ deployment' = [deployment EXCEPT ![guard.dep] = RolledBack(guard.row, "guardrail")]
    BY <1>4 DEF GuardSave, Inv, TypeOK
  <2>2. d = guard.dep /\ deployment'[d] = RolledBack(guard.row, "guardrail")
    BY <1>1, <1>4, <2>1
  <2>3. guard.row = old /\ MayMove(old, "rolled_back")
    BY <2>1, <2>2 DEF Inv, ReleaseInv, GuardHolds, ReadHolds, Unchanged
  <2>4. PICK new : new = RolledBack(old, "guardrail")
    OBVIOUS
  <2>5. new \in Rows /\ new.allocation = old.allocation /\ new.status # "canary"
    BY <1>1, <2>3, <2>4, RolledBackRow
  <2>6. QED
    BY <1>1, <2>2, <2>3, <2>4, <2>5, WriteKeepsRoute
<1>5. deployment' = deployment \/ GuardSave \/ \E c \in Command : SaveDeployment(c)
  BY DEF Next, Execute, Dispatch, ReadRelease, ReadDeployment, PromotionGate, DeactivateSeen,
         InsertRelease, CommandDies, WindowElapses, ReportObservation, GetObservation,
         SaveObservation, DispatchShadow, ShadowPair, CheckPair, ExecutePair, StoreComparison,
         ObservePair, PairDies, GuardBreached, GuardLoad, released
<1>6. QED
  BY <1>2, <1>3, <1>4, <1>5

\* enter_canary and save_deployment: whatever commands race, a request is routed the same way as
\* long as its deployment is in canary, and the rule that was bound stays stored.
THEOREM RoutesReplay == Spec => RouteIsReplayable
<1>1. Inv /\ [Next]_vars =>
        [\A d \in Deployment : \A q \in Request :
            /\ "refused" \notin {Route(deployment[d], q), Route(deployment'[d], q)} =>
                  Route(deployment'[d], q) = Route(deployment[d], q)
            /\ deployment[d].allocation # NoAllocation =>
                  deployment'[d].allocation = deployment[d].allocation]_vars
  BY RouteStep
<1>2. QED
  BY <1>1, Inductive, PTL DEF Spec, RouteIsReplayable


-----------------------------------------------------------------------------
(***************************************************************************)
(* CandidateEvaluation, which ends where a release begins: with the shadow *)
(* deployment of an approved Candidate.                                    *)
(***************************************************************************)
USE EvaluationAssumption

\* The version of a Candidate tells how far it has come.
Sound(row) ==
    /\ row.status = "none" <=> row = Absent
    /\ row.status # "none" => row.generator \in Principal /\ row.version # 0
    /\ row.status = "draft" => row.version = 1
    /\ row.status = "evaluating" => row.version = 2
    /\ row.status = "awaiting_approval" => row.version = 3
    /\ row.status = "approved" => row.version = 4

\* One sample of Trials is part of another.
Below(a, b) == \A s \in DOMAIN NoTrials : a[s] <= b[s]

\* A stored assessment of the Candidate's Trials by p that met the gate.
Backed(c, p, sampled, kept) ==
    \E r \in kept :
        /\ r.cand = c /\ r.grader = p /\ r.decision = "met"
        /\ r.decision = Assess(Policy, r.sample)
        /\ Below(r.sample, sampled[c])

\* Where a call has its submission saved, and where it holds a row it has read.
Evaluating == {"trial", "read", "sample", "assess", "save"}
WithRow == {"submit_save", "sample", "assess", "save", "decide_save"}

\* A row that was read is the stored one or an older version of it.
CandidateRead(row, stored) ==
    /\ Sound(row) /\ row.status # "none"
    /\ row.version <= stored.version
    /\ row.version = stored.version => row = stored

\* What a call knows of the rows, the Trials and the records at each point.
Knows(y, rows, sampled, kept) ==
    /\ y.pc # "idle" => y.by \in Principal /\ rows[y.cand].status # "none"
    /\ y.pc \in WithRow => CandidateRead(y.row, rows[y.cand])
    /\ y.pc \in Evaluating => rows[y.cand].status \in {"evaluating", "rejected"}
    /\ y.pc \in {"submit", "submit_save"} => y.tries = 0
    /\ y.pc = "submit_save" => y.row.status = "draft"
    /\ y.pc = "trial" => y.tries < TrialBudget
    /\ y.pc \in {"sample", "assess", "save"} => y.row.status \in {"evaluating", "rejected"}
    /\ y.pc \in {"assess", "save"} => Below(y.sample, sampled[y.cand])
    /\ y.pc = "save" =>
         /\ y.row.status = "evaluating" /\ MayGrade(y.row, y.by)
         /\ y.verdict \in {"awaiting_approval", "rejected"}
         /\ y.verdict = "awaiting_approval" => Backed(y.cand, y.by, sampled, kept)
    /\ y.pc \in {"decide", "decide_save"} => y.verdict \in {"approved", "rejected"}
    /\ y.pc = "decide_save" => MayDecide(y.row, y.by) /\ MayBecome(y.row, y.verdict)
    /\ y.pc = "deploy" => MayDeploy(rows[y.cand], y.by)

\* A Candidate is evaluated by one call at most: the one whose submission was saved.
OneEvaluator ==
    \A k, o \in Caller : call[k].pc \in Evaluating /\ call[o].pc \in Evaluating
                           /\ call[k].cand = call[o].cand => k = o

\* The inductive invariant.
EvaluationInv ==
    /\ EvaluationTypeOK
    /\ \A c \in Candidate : Sound(candidate[c])
    /\ \A k \in Caller : Knows(call[k], candidate, trials, records)
    /\ OneEvaluator
    /\ QualifiedOnEvidence

-----------------------------------------------------------------------------
(* Rows, samples and calls.                                                 *)

\* The activity may run Trials at all.
LEMMA Budget == TrialBudget \in Nat /\ 0 < TrialBudget
BY DEF EvaluationAssumption, TrialBudget

\* What a move does to a row, unsigned and signed.
LEMMA MovedCandidate ==
    ASSUME NEW row \in CandidateRows, NEW target \in CandidateStatus, row.version # 4,
           NEW p \in Principal
    PROVE  /\ MovedOn(row, target) \in CandidateRows /\ Signed(row, target, p) \in CandidateRows
           /\ Decided(row, target, p) \in CandidateRows
           /\ \A w \in {MovedOn(row, target), Signed(row, target, p),
                      Decided(row, target, p)} :
                /\ w.status = target /\ w.version = row.version + 1 /\ w.generator = row.generator
           /\ MovedOn(row, target).grader = row.grader /\ MovedOn(row, target).approver = row.approver
           /\ Signed(row, target, p).grader = p /\ Signed(row, target, p).approver = row.approver
           /\ Decided(row, target, p).grader = row.grader /\ Decided(row, target, p).approver = p
<1>1. row.version \in 0..3 /\ row.version + 1 \in 0..4
  BY DEF CandidateRows
<1>2. /\ MovedOn(row, target) \in CandidateRows
      /\ MovedOn(row, target).status = target /\ MovedOn(row, target).version = row.version + 1
      /\ MovedOn(row, target).generator = row.generator /\ MovedOn(row, target).grader = row.grader
      /\ MovedOn(row, target).approver = row.approver
  BY <1>1 DEF MovedOn, CandidateRows
<1>3. QED
  BY <1>2 DEF Signed, Decided, CandidateRows

\* A legal move of a sound row leads to a sound row of the next version.
LEMMA SoundMove ==
    ASSUME NEW row \in CandidateRows, Sound(row), NEW target \in CandidateStatus,
           MayBecome(row, target),
           NEW w \in CandidateRows, w.status = target, w.version = row.version + 1,
           w.generator = row.generator
    PROVE  /\ Sound(w) /\ row.version # 4 /\ row.status \notin {"none", "approved", "rejected"}
           /\ target # "none"
<1>1. row.version \in 0..4
  BY DEF CandidateRows
<1>2. QED
  BY <1>1 DEF Sound, MayBecome, CandidateTransitions, Absent

LEMMA AbsentRow == Absent \in CandidateRows /\ Absent.status = "none" /\ Sound(Absent)
BY DEF Absent, CandidateRows, CandidateStatus, Sound

LEMMA NoTrialsSample == NoTrials \in Samples /\ DOMAIN NoTrials = {"passed", "failed", "invalid"}
BY DEF NoTrials, Samples

LEMMA BelowTransitive ==
    ASSUME NEW a \in Samples, NEW b \in Samples, NEW c \in Samples, Below(a, b), Below(b, c)
    PROVE  Below(a, c)
<1>1. \A x \in Samples, s \in DOMAIN NoTrials : x[s] \in Nat
  BY NoTrialsSample DEF Samples
<1>2. QED
  BY <1>1 DEF Below

LEMMA BelowReflexive == ASSUME NEW a \in Samples PROVE Below(a, a)
<1>1. \A s \in DOMAIN NoTrials : a[s] \in Nat
  BY NoTrialsSample DEF Samples
<1>2. QED
  BY <1>1 DEF Below

\* One more Trial.
LEMMA OneMore ==
    ASSUME NEW a \in Samples, NEW o \in {"passed", "failed", "invalid"}
    PROVE  [a EXCEPT ![o] = @ + 1] \in Samples /\ Below(a, [a EXCEPT ![o] = @ + 1])
<1>1. \A s \in DOMAIN NoTrials : a[s] \in Nat
  BY NoTrialsSample DEF Samples
<1>2. [a EXCEPT ![o] = @ + 1] \in Samples
  BY <1>1, NoTrialsSample DEF Samples
<1>3. QED
  BY <1>1, <1>2, NoTrialsSample DEF Below, Samples

LEMMA IdleCall ==
    Idle \in Calls /\ Idle.pc = "idle" /\ Idle.tries = 0
<1>1. (CHOOSE c \in Candidate : TRUE) \in Candidate
  BY DEF EvaluationAssumption
<1>2. QED
  BY <1>1, Budget, AbsentRow, NoTrialsSample DEF Idle, Calls

-----------------------------------------------------------------------------
(* What a step leaves true.                                                 *)

\* A call that did not move still knows what it knew: rows are replaced by later versions and
\* only before they are approved, Trials and records are added.
LEMMA Remains ==
    ASSUME NEW y \in Calls, NEW rows \in [Candidate -> CandidateRows],
           NEW rows2 \in [Candidate -> CandidateRows],
           NEW sampled \in [Candidate -> Samples], NEW sampled2 \in [Candidate -> Samples],
           NEW kept \in SUBSET EvaluationRecord, NEW kept2, kept \subseteq kept2,
           Knows(y, rows, sampled, kept),
           \A c \in Candidate : Below(sampled[c], sampled2[c]),
           \A c \in Candidate : \/ rows2[c] = rows[c]
                                \/ /\ rows[c].version < rows2[c].version
                                   /\ rows[c].status # "approved" /\ rows2[c].status # "none",
           y.pc \in Evaluating => rows2[y.cand].status \in {"evaluating", "rejected"}
    PROVE  Knows(y, rows2, sampled2, kept2)
<1> DEFINE c == y.cand
<1>1. c \in Candidate /\ y.row \in CandidateRows /\ y.sample \in Samples
  BY DEF Calls
<1>2. y.pc # "idle" => y.by \in Principal /\ rows2[c].status # "none"
  BY <1>1 DEF Knows
<1>3. y.pc \in WithRow => CandidateRead(y.row, rows2[c])
  <2>1. y.row.version \in Nat /\ rows[c].version \in Nat /\ rows2[c].version \in Nat
    <3>1. \A z \in CandidateRows : z.version \in Nat
      BY DEF CandidateRows
    <3>2. QED
      BY <1>1, <3>1
  <2>2. QED
    BY <1>1, <2>1 DEF Knows, CandidateRead
<1>4. y.pc \in {"assess", "save"} => Below(y.sample, sampled2[c])
  BY <1>1, BelowTransitive DEF Knows
<1>5. ASSUME NEW p, Backed(c, p, sampled, kept) PROVE Backed(c, p, sampled2, kept2)
  <2>1. PICK r \in kept : /\ r.cand = c /\ r.grader = p /\ r.decision = "met"
                          /\ r.decision = Assess(Policy, r.sample)
                          /\ Below(r.sample, sampled[c])
    BY <1>5 DEF Backed
  <2>2. r.sample \in Samples
    BY DEF EvaluationRecord
  <2>3. Below(r.sample, sampled2[c])
    BY <1>1, <2>1, <2>2, BelowTransitive
  <2>4. QED
    BY <2>1, <2>3 DEF Backed
<1>6. y.pc = "deploy" => MayDeploy(rows2[c], y.by)
  BY <1>1 DEF Knows, MayDeploy
<1>7. QED
  BY <1>2, <1>3, <1>4, <1>5, <1>6 DEF Knows

\* The tables and variables a step of a call does not type by itself.
RestOK ==
    /\ proposals \subseteq Proposal
    /\ deployments \subseteq Candidate \X Principal
    /\ workflow \in [Candidate -> {"none", "evaluating", "awaiting_approval", "promoting",
                                   "shadow", "rejected", "failed"}]
    /\ attempts \in [Candidate -> 0..2]
    /\ lease \in [Candidate -> Caller \cup {NoCaller}]
    /\ signalled \subseteq Candidate
    /\ added \in 0..MaxAdded
    /\ failures \in 0..MaxFailures

\* Calls after a step: one that moved knows what it has to, and evaluates only what it did
\* before or what nobody evaluates.
CallsMove ==
    /\ call' \in [Caller -> Calls]
    /\ \A k \in Caller :
         \/ call'[k] = call[k]
         \/ /\ Knows(call'[k], candidate', trials', records')
            /\ call'[k].pc \in Evaluating =>
                 \/ call[k].pc \in Evaluating /\ call'[k].cand = call[k].cand
                 \/ \A o \in Caller : call[o].pc \in Evaluating => call[o].cand # call'[k].cand
    /\ \A k, o \in Caller : call'[k] # call[k] /\ call'[o] # call[o] => k = o

\* One evaluator per Candidate, after a step.
LEMMA EvaluatorsMove ==
    ASSUME OneEvaluator, CallsMove
    PROVE  OneEvaluator'
BY DEF OneEvaluator, CallsMove

\* Evidence is not lost.
LEMMA BackedStays ==
    ASSUME EvaluationTypeOK, trials' \in [Candidate -> Samples],
           \A c \in Candidate : Below(trials[c], trials'[c]), records \subseteq records',
           NEW c \in Candidate, NEW p, Backed(c, p, trials, records)
    PROVE  Backed(c, p, trials', records')
<1>1. PICK r \in records : /\ r.cand = c /\ r.grader = p /\ r.decision = "met"
                           /\ r.decision = Assess(Policy, r.sample)
                           /\ Below(r.sample, trials[c])
  BY DEF Backed
<1>2. r.sample \in Samples /\ trials[c] \in Samples
  BY DEF EvaluationRecord, EvaluationTypeOK
<1>3. Below(r.sample, trials'[c])
  BY <1>1, <1>2, BelowTransitive
<1>4. QED
  BY <1>1, <1>3 DEF Backed

LEMMA QualifiedIsBacked ==
    QualifiedOnEvidence <=>
        \A c \in Candidate : candidate[c].status \in {"awaiting_approval", "approved"} =>
                                 Backed(c, candidate[c].grader, trials, records)
BY DEF QualifiedOnEvidence, Backed, Below

\* A step that writes no row of a Candidate.
LEMMA QuietStep ==
    ASSUME EvaluationInv, RestOK', CallsMove, UNCHANGED candidate,
           trials' \in [Candidate -> Samples],
           \A c \in Candidate : Below(trials[c], trials'[c]),
           records \subseteq records', records' \subseteq EvaluationRecord
    PROVE  EvaluationInv'
<1>1. EvaluationTypeOK'
  BY DEF EvaluationInv, EvaluationTypeOK, RestOK, CallsMove
<1>2. ASSUME NEW k \in Caller PROVE Knows(call'[k], candidate', trials', records')
  <2>1. CASE call'[k] = call[k]
    <3>1. call[k] \in Calls /\ Knows(call[k], candidate, trials, records)
      BY DEF EvaluationInv, EvaluationTypeOK
    <3>2. call[k].pc \in Evaluating => candidate[call[k].cand].status \in {"evaluating", "rejected"}
      BY <3>1 DEF Knows
    <3>3. Knows(call[k], candidate, trials', records')
      BY <3>1, <3>2, Remains DEF EvaluationInv, EvaluationTypeOK
    <3>4. QED
      BY <2>1, <3>3
  <2>2. QED
    BY <2>1 DEF CallsMove
<1>3. QualifiedOnEvidence'
  <2>1. \A c \in Candidate : candidate[c].status \in {"awaiting_approval", "approved"} =>
          Backed(c, candidate[c].grader, trials', records')
    BY QualifiedIsBacked, BackedStays DEF EvaluationInv
  <2>2. QED
    BY <2>1 DEF QualifiedOnEvidence, Backed, Below
<1>4. OneEvaluator'
  BY EvaluatorsMove DEF EvaluationInv
<1>5. QED
  BY <1>1, <1>2, <1>3, <1>4 DEF EvaluationInv

\* A step that writes the row of one Candidate.
LEMMA RowStep ==
    ASSUME EvaluationInv, RestOK', CallsMove, UNCHANGED <<trials, records>>,
           NEW c \in Candidate, NEW w \in CandidateRows, candidate' = [candidate EXCEPT ![c] = w],
           Sound(w), w.status # "none", candidate[c].status # "approved",
           candidate[c].version < w.version,
           w.status \in {"awaiting_approval", "approved"} => Backed(c, w.grader, trials, records),
           w.status \in {"evaluating", "rejected"} \/
             \A k \in Caller : call[k].pc \in Evaluating /\ call[k].cand = c => call'[k] # call[k]
    PROVE  EvaluationInv'
<1>1. EvaluationTypeOK'
  BY DEF EvaluationInv, EvaluationTypeOK, RestOK, CallsMove
<1>2. \A d \in Candidate : candidate'[d] = IF d = c THEN w ELSE candidate[d]
  BY DEF EvaluationInv, EvaluationTypeOK
<1>3. ASSUME NEW k \in Caller PROVE Knows(call'[k], candidate', trials', records')
  <2>1. CASE call'[k] = call[k]
    <3>1. call[k] \in Calls /\ Knows(call[k], candidate, trials, records) /\ call[k].cand \in Candidate
      BY DEF EvaluationInv, EvaluationTypeOK, Calls
    <3>2. call[k].pc \in Evaluating => candidate'[call[k].cand].status \in {"evaluating", "rejected"}
      BY <1>2, <2>1, <3>1 DEF Knows
    <3>3. \A d \in Candidate : Below(trials[d], trials[d])
      BY BelowReflexive DEF EvaluationInv, EvaluationTypeOK
    <3>4. \A d \in Candidate :
            \/ candidate'[d] = candidate[d]
            \/ /\ candidate[d].version < candidate'[d].version
               /\ candidate[d].status # "approved" /\ candidate'[d].status # "none"
      BY <1>2
    <3>5. /\ candidate \in [Candidate -> CandidateRows] /\ candidate' \in [Candidate -> CandidateRows]
          /\ trials \in [Candidate -> Samples] /\ records \in SUBSET EvaluationRecord
      BY <1>1 DEF EvaluationInv, EvaluationTypeOK
    <3>6. Knows(call[k], candidate', trials, records)
      BY <3>1, <3>2, <3>3, <3>4, <3>5, Remains
    <3>7. QED
      BY <2>1, <3>6
  <2>2. QED
    BY <2>1 DEF CallsMove
<1>4. QualifiedOnEvidence'
  <2>1. \A d \in Candidate : candidate'[d].status \in {"awaiting_approval", "approved"} =>
          Backed(d, candidate'[d].grader, trials, records)
    BY <1>2, QualifiedIsBacked DEF EvaluationInv
  <2>2. QED
    BY <2>1 DEF QualifiedOnEvidence, Backed, Below
<1>5. OneEvaluator'
  BY EvaluatorsMove DEF EvaluationInv
<1>6. \A d \in Candidate : Sound(candidate'[d])
  BY <1>2 DEF EvaluationInv
<1>7. QED
  BY <1>1, <1>3, <1>4, <1>5, <1>6 DEF EvaluationInv, Sound

-----------------------------------------------------------------------------
(* The steps.                                                               *)

\* A call that changes and knows what it has to, or returns.
LEMMA OneCallMoves ==
    ASSUME EvaluationInv, NEW k \in Caller, NEW x \in Calls,
           call' = [call EXCEPT ![k] = x], Knows(x, candidate', trials', records'),
           x.pc \in Evaluating =>
             \/ call[k].pc \in Evaluating /\ x.cand = call[k].cand
             \/ \A o \in Caller : call[o].pc \in Evaluating => call[o].cand # x.cand
    PROVE  CallsMove
<1>1. call' \in [Caller -> Calls] /\ call'[k] = x /\ \A o \in Caller \ {k} : call'[o] = call[o]
  BY DEF EvaluationInv, EvaluationTypeOK
<1>2. QED
  BY <1>1 DEF CallsMove

LEMMA Returns ==
    ASSUME EvaluationInv, NEW k \in Caller, Return(k)
    PROVE  CallsMove
<1>1. Idle \in Calls /\ Idle.pc = "idle"
  BY IdleCall
<1>2. Knows(Idle, candidate', trials', records')
  BY <1>1 DEF Knows, WithRow, Evaluating
<1>3. QED
  BY <1>1, <1>2, OneCallMoves DEF Return, Evaluating

LEMMA CallsRest ==
    ASSUME EvaluationInv, UNCHANGED call
    PROVE  CallsMove
BY DEF EvaluationInv, EvaluationTypeOK, CallsMove

\* What the workflow hears of the end of a call.
LEMMA ReportedTyped ==
    ASSUME EvaluationTypeOK, NEW k \in Caller,
           NEW phase \in {"evaluating", "awaiting_approval", "shadow", "rejected", "failed"},
           WorkflowHears(k, phase)
    PROVE  /\ workflow' \in [Candidate -> {"none", "evaluating", "awaiting_approval", "promoting",
                                           "shadow", "rejected", "failed"}]
           /\ lease' \in [Candidate -> Caller \cup {NoCaller}]
<1>1. CASE lease[call[k].cand] = k
  BY <1>1 DEF WorkflowHears, EvaluationTypeOK
<1>2. CASE lease[call[k].cand] # k
  BY <1>2 DEF WorkflowHears, EvaluationTypeOK
<1>3. QED
  BY <1>1, <1>2

LEMMA RaiseTyped ==
    ASSUME EvaluationTypeOK, NEW k \in Caller, Raise(k)
    PROVE  /\ workflow' \in [Candidate -> {"none", "evaluating", "awaiting_approval", "promoting",
                                           "shadow", "rejected", "failed"}]
           /\ lease' \in [Candidate -> Caller \cup {NoCaller}]
<1>1. AfterFailure(call[k].cand) \in {"evaluating", "failed"}
  BY DEF AfterFailure
<1>2. QED
  BY <1>1, ReportedTyped DEF Raise

\* A step of a call that leaves every row of every table alone.
LEMMA TablesRest ==
    ASSUME EvaluationInv, UNCHANGED tables, CallsMove,
           workflow' \in [Candidate -> {"none", "evaluating", "awaiting_approval", "promoting",
                                        "shadow", "rejected", "failed"}],
           lease' \in [Candidate -> Caller \cup {NoCaller}],
           attempts' \in [Candidate -> 0..2], signalled' \subseteq Candidate,
             failures' \in 0..MaxFailures
    PROVE  EvaluationInv'
<1>1. RestOK'
  BY DEF EvaluationInv, EvaluationTypeOK, RestOK, tables
<1>2. /\ trials' \in [Candidate -> Samples] /\ records' \subseteq EvaluationRecord
      /\ \A c \in Candidate : Below(trials[c], trials'[c])
  BY BelowReflexive DEF EvaluationInv, EvaluationTypeOK, tables
<1>3. QED
  BY <1>1, <1>2, QuietStep DEF tables

LEMMA RaiseStep ==
    ASSUME EvaluationInv, NEW k \in Caller, Raise(k),
           UNCHANGED <<tables, attempts, signalled>>, failures' \in 0..MaxFailures
    PROVE  EvaluationInv'
<1>1. CallsMove
  BY Returns DEF Raise
<1>2. QED
  BY <1>1, RaiseTyped, TablesRest DEF EvaluationInv, EvaluationTypeOK

\* A request or an attempt begins.
LEMMA BeginMoves ==
    ASSUME EvaluationInv, NEW k \in Caller, NEW c \in Candidate,
           NEW p \in Principal, UNCHANGED tables,
           NEW op \in {"evaluate", "evaluation_activity", "decide", "promote", "promotion_activity"},
           NEW pc \in {"submit", "decide", "promote"},
           NEW verdict \in {"none", "approved", "rejected"}, Begin(k, op, c, p, pc, verdict),
           pc = "decide" => verdict # "none"
    PROVE  CallsMove
<1> DEFINE x == [Idle EXCEPT !.op = op, !.cand = c, !.by = p, !.pc = pc, !.verdict = verdict]
<1>1. x \in Calls /\ x.pc = pc /\ x.cand = c /\ x.by = p /\ x.verdict = verdict /\ x.tries = 0
  BY IdleCall DEF Calls
<1>2. call' = [call EXCEPT ![k] = x]
  BY DEF Begin
<1> HIDE DEF x
<1>3. candidate[c].status # "none" /\ UNCHANGED candidate
  BY DEF Begin, EvaluationInv, Sound, tables
<1>4. Knows(x, candidate', trials', records')
  BY <1>1, <1>3 DEF Knows, WithRow, Evaluating
<1>5. QED
  BY <1>1, <1>2, <1>4, OneCallMoves DEF Evaluating

LEMMA RequestStep ==
    ASSUME EvaluationInv, NEW k \in Caller, NEW c \in Candidate,
           NEW p \in Principal, ApiRequest(k, c, p)
    PROVE  EvaluationInv'
<1>1. CallsMove /\ UNCHANGED <<tables, orchestration, failures>>
  <2>1. CASE ApiEvaluate(k, c, p)
    BY <2>1, BeginMoves DEF ApiEvaluate
  <2>2. CASE ApiPromote(k, c, p)
    BY <2>2, BeginMoves DEF ApiPromote
  <2>3. ASSUME NEW verdict \in {"approved", "rejected"}, ApiDecide(k, c, p, verdict)
        PROVE  CallsMove /\ UNCHANGED <<tables, orchestration, failures>>
    BY <2>3, BeginMoves DEF ApiDecide
  <2>4. QED
    BY <2>1, <2>2, <2>3 DEF ApiRequest
<1>2. QED
  BY <1>1, TablesRest DEF EvaluationInv, EvaluationTypeOK, orchestration

LEMMA AttemptStep ==
    ASSUME EvaluationInv, NEW k \in Caller, NEW c \in Candidate, Attempt(k, c)
    PROVE  EvaluationInv'
<1>1. WorkerGrader \in Principal /\ WorkerExecutor \in Principal
  BY DEF EvaluationAssumption
<1>2. CASE EvaluationAttempt(k, c)
  <2>1. CallsMove /\ UNCHANGED <<tables, workflow, signalled, failures>>
    BY <1>1, <1>2, BeginMoves DEF EvaluationAttempt
  <2>2. ASSUME NEW n \in 0..2 PROVE Min({n + 1, 2}) \in 0..2
    <3>1. n + 1 \in 0..2 \/ n + 1 = 3
      OBVIOUS
    <3>2. \E m \in {n + 1, 2} : \A y \in {n + 1, 2} : m <= y
      <4>1. CASE n + 1 \in 0..2
        BY <4>1
      <4>2. CASE n + 1 = 3
        BY <4>2
      <4>3. QED
        BY <3>1, <4>1, <4>2
    <3>3. Min({n + 1, 2}) \in {n + 1, 2} /\ Min({n + 1, 2}) <= 2
      BY <3>2 DEF Min
    <3>4. QED
      BY <3>1, <3>3
  <2>3. attempts' \in [Candidate -> 0..2] /\ lease' \in [Candidate -> Caller \cup {NoCaller}]
    BY <1>2, <2>2 DEF EvaluationAttempt, EvaluationInv, EvaluationTypeOK
  <2>4. QED
    BY <2>1, <2>3, TablesRest DEF EvaluationInv, EvaluationTypeOK
<1>3. CASE PromotionAttempt(k, c)
  <2>1. CallsMove /\ UNCHANGED <<tables, attempts, signalled, failures>>
    BY <1>1, <1>3, BeginMoves DEF PromotionAttempt
  <2>2. /\ workflow' \in [Candidate -> {"none", "evaluating", "awaiting_approval", "promoting",
                                        "shadow", "rejected", "failed"}]
        /\ lease' \in [Candidate -> Caller \cup {NoCaller}]
    BY <1>3 DEF PromotionAttempt, EvaluationInv, EvaluationTypeOK
  <2>3. QED
    BY <2>1, <2>2, TablesRest DEF EvaluationInv, EvaluationTypeOK
<1>4. QED
  BY <1>2, <1>3 DEF Attempt

\* What EvaluationInv says of one call and the row it works on.
LEMMA OneCall ==
    ASSUME EvaluationInv, NEW k \in Caller
    PROVE  /\ call[k] \in Calls /\ Knows(call[k], candidate, trials, records)
           /\ call[k].cand \in Candidate /\ call[k].row \in CandidateRows /\ call[k].sample \in Samples
           /\ call[k].tries \in 0..TrialBudget /\ Stored(k) \in CandidateRows /\ Sound(Stored(k))
           /\ trials[call[k].cand] \in Samples
BY DEF EvaluationInv, EvaluationTypeOK, Calls, Stored

\* A row that was just read.
LEMMA JustRead ==
    ASSUME NEW row \in CandidateRows, Sound(row), row.status # "none"
    PROVE  CandidateRead(row, row)
<1>1. row.version \in Nat
  BY DEF CandidateRows
<1>2. QED
  BY <1>1 DEF CandidateRead

LEMMA SubmitReadStep ==
    ASSUME EvaluationInv, NEW k \in Caller, SubmitRead(k)
    PROVE  EvaluationInv'
<1>1. CASE MayBecome(Stored(k), "evaluating")
  <2> DEFINE x == [call[k] EXCEPT !.pc = "submit_save", !.row = Stored(k)]
  <2>1. /\ x \in Calls /\ x.pc = "submit_save" /\ x.cand = call[k].cand /\ x.by = call[k].by
        /\ x.row = Stored(k) /\ x.tries = call[k].tries
    BY OneCall DEF Calls
  <2>2. call' = [call EXCEPT ![k] = x] /\ UNCHANGED <<workflow, lease>>
    BY <1>1 DEF SubmitRead, EvaluationInv, EvaluationTypeOK
  <2> HIDE DEF x
  <2>3. UNCHANGED tables /\ call[k].pc = "submit"
    BY DEF SubmitRead
  <2>4. /\ Stored(k).status = "draft" /\ call[k].by \in Principal /\ call[k].tries = 0
        /\ CandidateRead(Stored(k), Stored(k))
    BY <1>1, <2>3, OneCall, JustRead DEF MayBecome, CandidateTransitions, Knows
  <2>5. Knows(x, candidate', trials', records')
    BY <2>1, <2>3, <2>4 DEF Knows, WithRow, Evaluating, Stored, tables
  <2>6. CallsMove
    BY <2>1, <2>2, <2>5, OneCallMoves DEF Evaluating
  <2>7. QED
    BY <2>2, <2>3, <2>6, TablesRest DEF SubmitRead, EvaluationInv, EvaluationTypeOK
<1>2. CASE ~MayBecome(Stored(k), "evaluating")
  BY <1>2, RaiseStep DEF SubmitRead, EvaluationInv, EvaluationTypeOK
<1>3. QED
  BY <1>1, <1>2

\* The row a call writes is the stored one moved on: what it read is still stored.
LEMMA StillStored ==
    ASSUME EvaluationInv, NEW k \in Caller, call[k].pc \in WithRow, VersionHolds(k)
    PROVE  call[k].row = Stored(k)
BY OneCall DEF VersionHolds, Knows, CandidateRead, Stored

LEMMA SubmitSaveStep ==
    ASSUME EvaluationInv, NEW k \in Caller, SubmitSave(k)
    PROVE  EvaluationInv'
<1>1. CASE VersionHolds(k)
  <2> DEFINE next == IF call[k].op = "evaluate" THEN "read" ELSE "trial"
             x == [call[k] EXCEPT !.row = Absent, !.pc = next]
             w == MovedOn(call[k].row, "evaluating")
  <2>1. /\ x \in Calls /\ x.pc \in {"read", "trial"} /\ x.cand = call[k].cand /\ x.by = call[k].by
        /\ x.tries = call[k].tries
    BY OneCall, AbsentRow DEF Calls
  <2>2. call' = [call EXCEPT ![k] = x]
    BY <1>1 DEF SubmitSave, EvaluationInv, EvaluationTypeOK
  <2> HIDE DEF x
  <2>3. /\ call[k].pc = "submit_save" /\ UNCHANGED <<workflow, lease>>
        /\ UNCHANGED <<proposals, trials, records, deployments, attempts, signalled, failures, added>>
    BY <1>1 DEF SubmitSave
  <2>4. /\ call[k].row = Stored(k) /\ Stored(k).status = "draft" /\ call[k].by \in Principal
        /\ call[k].tries = 0 /\ Stored(k).version = 1
    BY <1>1, <2>3, OneCall, StillStored DEF WithRow, Knows, Sound
  <2>5. /\ w \in CandidateRows /\ w.status = "evaluating" /\ w.version = Stored(k).version + 1
        /\ w.generator = Stored(k).generator
    BY <2>4, OneCall, MovedCandidate, EvaluationAssumption DEF CandidateStatus, EvaluationAssumption
  <2>6. Sound(w)
    BY <2>4, <2>5, OneCall, SoundMove DEF MayBecome, CandidateTransitions, CandidateStatus
  <2>7. candidate' = [candidate EXCEPT ![call[k].cand] = w]
    BY <1>1 DEF SubmitSave, Save
  <2> HIDE DEF w
  <2>8. candidate'[call[k].cand] = w
    BY <2>7, OneCall DEF EvaluationInv, EvaluationTypeOK
  <2>9. Knows(x, candidate', trials', records')
    BY <2>1, <2>3, <2>4, <2>5, <2>8, Budget DEF Knows, WithRow, Evaluating
  <2>10. \A o \in Caller : call[o].pc \in Evaluating => call[o].cand # call[k].cand
    BY <2>4, OneCall DEF Knows, Stored
  <2>11. CallsMove
    BY <2>1, <2>2, <2>9, <2>10, OneCallMoves
  <2>12. RestOK'
    BY <2>3 DEF RestOK, EvaluationInv, EvaluationTypeOK
  <2>13. candidate[call[k].cand].status # "approved" /\ candidate[call[k].cand].version < w.version
    BY <2>4, <2>5 DEF Stored
  <2>14. QED
    BY <2>3, <2>5, <2>6, <2>7, <2>11, <2>12, <2>13, OneCall, RowStep
<1>2. CASE ~VersionHolds(k)
  BY <1>2, RaiseStep DEF SubmitSave, EvaluationInv, EvaluationTypeOK, tables
<1>3. QED
  BY <1>1, <1>2

\* The Trials of a Candidate after one more.
LEMMA TrialsGrow ==
    ASSUME EvaluationTypeOK, NEW c \in Candidate, NEW o \in TrialOutcomes,
           trials' = [trials EXCEPT ![c][o] = @ + 1]
    PROVE  trials' \in [Candidate -> Samples] /\ \A d \in Candidate : Below(trials[d], trials'[d])
<1>1. /\ trials[c] \in Samples /\ o \in {"passed", "failed", "invalid"}
      /\ trials \in [Candidate -> Samples]
  BY DEF EvaluationTypeOK, EvaluationAssumption
<1>2. /\ [trials[c] EXCEPT ![o] = @ + 1] \in Samples
      /\ Below(trials[c], [trials[c] EXCEPT ![o] = @ + 1])
  BY <1>1, OneMore
<1>3. trials' = [trials EXCEPT ![c] = [trials[c] EXCEPT ![o] = @ + 1]]
  OBVIOUS
<1>4. trials' \in [Candidate -> Samples]
  BY <1>1, <1>2, <1>3
<1>5. \A d \in Candidate \ {c} : trials'[d] = trials[d] /\ Below(trials[d], trials[d])
  BY <1>1, <1>3, BelowReflexive
<1>6. trials'[c] = [trials[c] EXCEPT ![o] = @ + 1]
  BY <1>1, <1>3
<1>7. QED
  BY <1>2, <1>4, <1>5, <1>6

LEMMA RunTrialStep ==
    ASSUME EvaluationInv, NEW k \in Caller, NEW o \in TrialOutcomes,
           RunTrial(k, o)
    PROVE  EvaluationInv'
<1> DEFINE x == [call[k] EXCEPT !.pc = "read", !.tries = @ + 1]
<1>1. /\ call[k].pc = "trial" /\ trials' = [trials EXCEPT ![call[k].cand][o] = @ + 1]
      /\ UNCHANGED <<proposals, candidate, records, deployments, orchestration, failures, added>>
  BY DEF RunTrial
<1>2. call[k].tries < TrialBudget
  BY <1>1, OneCall DEF Knows
<1>3. call[k].tries + 1 \in 0..TrialBudget
  BY <1>2, OneCall, Budget
<1>4. x \in Calls /\ x.pc = "read" /\ x.cand = call[k].cand /\ x.by = call[k].by
  BY <1>3, OneCall DEF Calls
<1>5. call' = [call EXCEPT ![k] = x]
  BY DEF RunTrial, EvaluationInv, EvaluationTypeOK
<1> HIDE DEF x
<1>6. trials' \in [Candidate -> Samples] /\ \A d \in Candidate : Below(trials[d], trials'[d])
  BY <1>1, OneCall, TrialsGrow DEF EvaluationInv
<1>7. Knows(x, candidate', trials', records')
  BY <1>1, <1>4, OneCall DEF Knows, WithRow, Evaluating
<1>8. CallsMove
  BY <1>1, <1>4, <1>5, <1>7, OneCallMoves DEF Evaluating
<1>9. RestOK'
  BY <1>1 DEF RestOK, EvaluationInv, EvaluationTypeOK, orchestration
<1>10. records \subseteq records' /\ records' \subseteq EvaluationRecord /\ UNCHANGED candidate
  BY <1>1 DEF EvaluationInv, EvaluationTypeOK
<1>11. QED
  BY <1>6, <1>8, <1>9, <1>10, QuietStep

LEMMA AddTrialStep ==
    ASSUME EvaluationInv, NEW c \in Candidate, NEW o \in TrialOutcomes,
           AddTrial(c, o)
    PROVE  EvaluationInv'
<1>1. /\ trials' = [trials EXCEPT ![c][o] = @ + 1] /\ added < MaxAdded /\ added' = added + 1
      /\ UNCHANGED <<proposals, candidate, records, deployments, orchestration, call, failures>>
  BY DEF AddTrial
<1>2. trials' \in [Candidate -> Samples] /\ \A d \in Candidate : Below(trials[d], trials'[d])
  BY <1>1, TrialsGrow DEF EvaluationInv
<1>3. CallsMove
  BY <1>1, CallsRest
<1>4. added' \in 0..MaxAdded
  BY <1>1 DEF EvaluationInv, EvaluationTypeOK, EvaluationAssumption
<1>5. RestOK'
  BY <1>1, <1>4 DEF RestOK, EvaluationInv, EvaluationTypeOK, orchestration
<1>6. records \subseteq records' /\ records' \subseteq EvaluationRecord /\ UNCHANGED candidate
  BY <1>1 DEF EvaluationInv, EvaluationTypeOK
<1>7. QED
  BY <1>2, <1>3, <1>5, <1>6, QuietStep

LEMMA CompleteReadStep ==
    ASSUME EvaluationInv, NEW k \in Caller, CompleteRead(k)
    PROVE  EvaluationInv'
<1> DEFINE x == [call[k] EXCEPT !.pc = "sample", !.row = Stored(k)]
<1>1. call[k].pc = "read" /\ UNCHANGED <<tables, orchestration, failures>>
  BY DEF CompleteRead
<1>2. /\ x \in Calls /\ x.pc = "sample" /\ x.cand = call[k].cand /\ x.by = call[k].by
      /\ x.row = Stored(k)
  BY OneCall DEF Calls
<1>3. call' = [call EXCEPT ![k] = x]
  BY DEF CompleteRead, EvaluationInv, EvaluationTypeOK
<1> HIDE DEF x
<1>4. /\ Stored(k).status \in {"evaluating", "rejected"} /\ call[k].by \in Principal
      /\ CandidateRead(Stored(k), Stored(k))
  BY <1>1, OneCall, JustRead DEF Knows, Evaluating, Stored
<1>5. Knows(x, candidate', trials', records')
  BY <1>1, <1>2, <1>4 DEF Knows, WithRow, Evaluating, Stored, tables
<1>6. CallsMove
  BY <1>1, <1>2, <1>3, <1>5, OneCallMoves DEF Evaluating
<1>7. QED
  BY <1>1, <1>6, TablesRest DEF EvaluationInv, EvaluationTypeOK, orchestration

LEMMA ReadTrialsStep ==
    ASSUME EvaluationInv, NEW k \in Caller, ReadTrials(k)
    PROVE  EvaluationInv'
<1> DEFINE stored == trials[call[k].cand]
<1>1. CASE stored # NoTrials
  <2> DEFINE x == [call[k] EXCEPT !.pc = "assess", !.sample = stored]
  <2>1. /\ call[k].pc = "sample" /\ UNCHANGED <<tables, attempts, signalled, failures>>
        /\ UNCHANGED <<workflow, lease>>
    BY <1>1 DEF ReadTrials
  <2>2. /\ x \in Calls /\ x.pc = "assess" /\ x.cand = call[k].cand /\ x.by = call[k].by
        /\ x.row = call[k].row /\ x.sample = stored
    BY OneCall DEF Calls
  <2>3. call' = [call EXCEPT ![k] = x]
    BY <1>1 DEF ReadTrials, EvaluationInv, EvaluationTypeOK
  <2> HIDE DEF x
  <2>4. Below(stored, stored)
    BY OneCall, BelowReflexive
  <2>5. Knows(x, candidate', trials', records')
    BY <2>1, <2>2, <2>4, OneCall DEF Knows, WithRow, Evaluating, tables
  <2>6. CallsMove
    BY <2>1, <2>2, <2>3, <2>5, OneCallMoves DEF Evaluating
  <2>7. QED
    BY <2>1, <2>6, TablesRest DEF EvaluationInv, EvaluationTypeOK
<1>2. CASE stored = NoTrials
  BY <1>2, RaiseStep DEF ReadTrials, EvaluationInv, EvaluationTypeOK
<1>3. QED
  BY <1>1, <1>2

\* The gate answers with one of its three verdicts.
LEMMA AssessVerdict == ASSUME NEW sample PROVE Assess(Policy, sample) \in Verdicts
BY DEF Assess, Verdicts

\* Calls after an assessment that decided nothing: the endpoint is back, the activity is at its
\* next Trial or has failed.
LEMMA IncompleteMoves ==
    ASSUME EvaluationInv, NEW k \in Caller, call[k].pc = "assess",
           Incomplete(k), UNCHANGED candidate
    PROVE  /\ CallsMove
           /\ workflow' \in [Candidate -> {"none", "evaluating", "awaiting_approval", "promoting",
                                           "shadow", "rejected", "failed"}]
           /\ lease' \in [Candidate -> Caller \cup {NoCaller}]
<1>1. CASE call[k].op = "evaluate"
  BY <1>1, Returns DEF Incomplete, EvaluationInv, EvaluationTypeOK
<1>2. CASE call[k].op # "evaluate" /\ call[k].tries < TrialBudget
  <2> DEFINE x == [call[k] EXCEPT !.pc = "trial", !.row = Absent, !.sample = NoTrials]
  <2>1. /\ x \in Calls /\ x.pc = "trial" /\ x.cand = call[k].cand /\ x.by = call[k].by
        /\ x.tries = call[k].tries
    BY OneCall, AbsentRow, NoTrialsSample DEF Calls
  <2>2. call' = [call EXCEPT ![k] = x] /\ UNCHANGED <<workflow, lease>>
    BY <1>2 DEF Incomplete, EvaluationInv, EvaluationTypeOK
  <2> HIDE DEF x
  <2>3. Knows(x, candidate', trials', records')
    BY <1>2, <2>1, OneCall DEF Knows, WithRow, Evaluating
  <2>4. CallsMove
    BY <2>1, <2>2, <2>3, OneCallMoves DEF Evaluating
  <2>5. QED
    BY <2>2, <2>4 DEF EvaluationInv, EvaluationTypeOK
<1>3. CASE call[k].op # "evaluate" /\ ~(call[k].tries < TrialBudget)
  BY <1>3, Returns, ReportedTyped DEF Incomplete, EvaluationInv
<1>4. QED
  BY <1>1, <1>2, <1>3

LEMMA RecordAssessmentStep ==
    ASSUME EvaluationInv, NEW k \in Caller, RecordAssessment(k)
    PROVE  EvaluationInv'
<1> DEFINE r == EvidenceOf(k)
           target == Conclusion(Decision(k))
<1>1. /\ call[k].pc = "assess" /\ records' = records \cup {r}
      /\ UNCHANGED <<proposals, candidate, trials, deployments, attempts, signalled, failures, added>>
  BY DEF RecordAssessment, StoreRecord
<1>2. call[k].by \in Principal
  BY <1>1, OneCall DEF Knows
<1>3. /\ r \in EvaluationRecord /\ r.cand = call[k].cand /\ r.grader = call[k].by
      /\ r.sample = call[k].sample /\ r.decision = Assess(Policy, call[k].sample)
  BY <1>2, OneCall, AssessVerdict DEF EvidenceOf, EvaluationRecord, Decision
<1> HIDE DEF r
<1>4. /\ CallsMove
      /\ workflow' \in [Candidate -> {"none", "evaluating", "awaiting_approval", "promoting",
                                      "shadow", "rejected", "failed"}]
      /\ lease' \in [Candidate -> Caller \cup {NoCaller}]
  <2>1. CASE Incomplete(k)
    BY <1>1, <2>1, IncompleteMoves
  <2>2. CASE Raise(k)
    BY <2>2, Returns, RaiseTyped DEF Raise, EvaluationInv
  <2>3. ASSUME Decision(k) # "insufficient_sample", MayGrade(call[k].row, call[k].by),
               MayBecome(call[k].row, target), UNCHANGED <<workflow, lease>>,
               call' = [call EXCEPT ![k].pc = "save", ![k].verdict = target]
        PROVE  CallsMove
    <3> DEFINE x == [call[k] EXCEPT !.pc = "save", !.verdict = target]
    <3>1. target \in {"awaiting_approval", "rejected"}
      BY DEF Conclusion
    <3>2. /\ x \in Calls /\ x.pc = "save" /\ x.cand = call[k].cand /\ x.by = call[k].by
          /\ x.row = call[k].row /\ x.sample = call[k].sample /\ x.verdict = target
      BY <3>1, OneCall DEF Calls
    <3>3. call' = [call EXCEPT ![k] = x]
      BY <2>3 DEF EvaluationInv, EvaluationTypeOK
    <3> HIDE DEF x
    <3>4. call[k].row.status = "evaluating"
      BY <1>1, <2>3, OneCall DEF Knows, MayBecome, CandidateTransitions
    <3>5. target = "awaiting_approval" => Backed(call[k].cand, call[k].by, trials', records')
      <4>1. Below(call[k].sample, trials[call[k].cand])
        BY <1>1, OneCall DEF Knows
      <4>2. target = "awaiting_approval" => r.decision = "met"
        BY <1>3 DEF Conclusion, Decision
      <4>3. QED
        BY <1>1, <1>3, <4>1, <4>2 DEF Backed
    <3>6. Knows(x, candidate', trials', records')
      BY <1>1, <2>3, <3>1, <3>2, <3>4, <3>5, OneCall DEF Knows, WithRow, Evaluating
    <3>7. QED
      BY <1>1, <3>2, <3>3, <3>6, OneCallMoves DEF Evaluating
  <2>4. QED
    BY <2>1, <2>2, <2>3 DEF RecordAssessment, EvaluationInv, EvaluationTypeOK
<1>5. RestOK'
  BY <1>1, <1>4 DEF RestOK, EvaluationInv, EvaluationTypeOK
<1>6. /\ records \subseteq records' /\ records' \subseteq EvaluationRecord
      /\ trials' \in [Candidate -> Samples] /\ \A c \in Candidate : Below(trials[c], trials'[c])
  BY <1>1, <1>3, BelowReflexive DEF EvaluationInv, EvaluationTypeOK
<1>7. QED
  BY <1>1, <1>4, <1>5, <1>6, QuietStep

\* The row of a verdict: it qualifies a Candidate only on evidence.
LEMMA VerdictRow ==
    ASSUME EvaluationInv, NEW k \in Caller, call[k].pc = "save", VersionHolds(k),
           NEW w, w = Signed(call[k].row, call[k].verdict, call[k].by)
    PROVE  /\ w \in CandidateRows /\ Sound(w) /\ w.status = call[k].verdict
           /\ w.status \in {"awaiting_approval", "rejected"} /\ w.version = Stored(k).version + 1
           /\ w.generator = Stored(k).generator /\ w.approver = Stored(k).approver
           /\ w.grader = call[k].by /\ call[k].by \in Principal
           /\ call[k].by # Stored(k).generator
           /\ Stored(k).status = "evaluating" /\ Stored(k).version \in Nat
           /\ w.status = "awaiting_approval" => Backed(call[k].cand, w.grader, trials, records)
<1>1. /\ call[k].row = Stored(k) /\ Stored(k).status = "evaluating" /\ Stored(k).version = 2
      /\ call[k].by \in Principal /\ call[k].verdict \in {"awaiting_approval", "rejected"}
      /\ MayGrade(Stored(k), call[k].by)
      /\ call[k].verdict = "awaiting_approval" =>
           Backed(call[k].cand, call[k].by, trials, records)
  BY OneCall, StillStored DEF WithRow, Knows, Sound
<1>2. call[k].verdict \in CandidateStatus /\ MayBecome(Stored(k), call[k].verdict)
  BY <1>1 DEF CandidateStatus, MayBecome, CandidateTransitions
<1>3. /\ w \in CandidateRows /\ w.status = call[k].verdict /\ w.version = Stored(k).version + 1
      /\ w.generator = Stored(k).generator /\ w.approver = Stored(k).approver
      /\ w.grader = call[k].by
  BY <1>1, <1>2, OneCall, MovedCandidate
<1>4. Sound(w)
  BY <1>2, <1>3, OneCall, SoundMove
<1>5. QED
  BY <1>1, <1>3, <1>4 DEF MayGrade

LEMMA SaveVerdictStep ==
    ASSUME EvaluationInv, NEW k \in Caller, SaveVerdict(k)
    PROVE  EvaluationInv'
<1>1. CASE VersionHolds(k)
  <2>1. PICK w : w = Signed(call[k].row, call[k].verdict, call[k].by)
    OBVIOUS
  <2>2. /\ call[k].pc = "save" /\ candidate' = [candidate EXCEPT ![call[k].cand] = w]
        /\ Return(k) /\ WorkflowHears(k, call[k].verdict)
        /\ UNCHANGED <<proposals, trials, records, deployments, attempts, signalled, failures, added>>
    BY <1>1, <2>1 DEF SaveVerdict, Save
  <2>3. /\ w \in CandidateRows /\ Sound(w) /\ w.status = call[k].verdict
        /\ w.status \in {"awaiting_approval", "rejected"} /\ w.version = Stored(k).version + 1
        /\ Stored(k).status = "evaluating" /\ Stored(k).version \in Nat
        /\ w.status = "awaiting_approval" => Backed(call[k].cand, w.grader, trials, records)
    BY <1>1, <2>1, <2>2, VerdictRow
  <2>4. CallsMove
    BY <2>2, Returns
  <2>5. RestOK'
    BY <2>2, <2>3, ReportedTyped DEF RestOK, EvaluationInv, EvaluationTypeOK
  <2>6. \A o \in Caller : call[o].pc \in Evaluating /\ call[o].cand = call[k].cand =>
          call'[o] # call[o]
    <3>1. \A o \in Caller : call[o].pc \in Evaluating /\ call[o].cand = call[k].cand => o = k
      BY <2>2 DEF EvaluationInv, OneEvaluator, Evaluating
    <3>2. call'[k].pc = "idle"
      BY <2>2, IdleCall DEF Return, EvaluationInv, EvaluationTypeOK
    <3>3. QED
      BY <2>2, <3>1, <3>2
  <2>7. candidate[call[k].cand].status # "approved" /\ candidate[call[k].cand].version < w.version
    BY <2>3 DEF Stored
  <2>8. QED
    BY <2>2, <2>3, <2>4, <2>5, <2>6, <2>7, OneCall, RowStep
<1>2. CASE ~VersionHolds(k)
  BY <1>2, RaiseStep DEF SaveVerdict, EvaluationInv, EvaluationTypeOK, tables
<1>3. QED
  BY <1>1, <1>2

LEMMA DecideReadStep ==
    ASSUME EvaluationInv, NEW k \in Caller, DecideRead(k)
    PROVE  EvaluationInv'
<1>1. call[k].pc = "decide" /\ UNCHANGED <<tables, orchestration, failures>>
  BY DEF DecideRead
<1>2. CallsMove
  <2>1. CASE MayDecide(Stored(k), call[k].by) /\ MayBecome(Stored(k), call[k].verdict)
    <3> DEFINE x == [call[k] EXCEPT !.pc = "decide_save", !.row = Stored(k)]
    <3>1. /\ x \in Calls /\ x.pc = "decide_save" /\ x.cand = call[k].cand /\ x.by = call[k].by
          /\ x.row = Stored(k) /\ x.verdict = call[k].verdict
      BY OneCall DEF Calls
    <3>2. call' = [call EXCEPT ![k] = x]
      BY <2>1 DEF DecideRead, EvaluationInv, EvaluationTypeOK
    <3> HIDE DEF x
    <3>3. CandidateRead(Stored(k), Stored(k))
      BY <1>1, OneCall, JustRead DEF Knows, Stored
    <3>4. Knows(x, candidate', trials', records')
      BY <1>1, <2>1, <3>1, <3>3, OneCall DEF Knows, WithRow, Evaluating, Stored, tables
    <3>5. QED
      BY <3>1, <3>2, <3>4, OneCallMoves DEF Evaluating
  <2>2. CASE \/ ~MayDecide(Stored(k), call[k].by)
             \/ ~MayBecome(Stored(k), call[k].verdict)
    BY <2>2, Returns DEF DecideRead
  <2>3. QED
    BY <2>1, <2>2
<1>3. QED
  BY <1>1, <1>2, TablesRest DEF EvaluationInv, EvaluationTypeOK, orchestration

\* The row of a decision: it approves a Candidate only after the evaluation qualified it.
LEMMA DecisionRow ==
    ASSUME EvaluationInv, NEW k \in Caller, call[k].pc = "decide_save",
           VersionHolds(k), NEW w, w = Decided(call[k].row, call[k].verdict, call[k].by)
    PROVE  /\ w \in CandidateRows /\ Sound(w) /\ w.status = call[k].verdict
           /\ w.status \in {"approved", "rejected"} /\ w.version = Stored(k).version + 1
           /\ w.generator = Stored(k).generator /\ w.grader = Stored(k).grader
           /\ w.approver = call[k].by /\ call[k].by \in Principal
           /\ call[k].by \notin {Stored(k).generator, Stored(k).grader}
           /\ Stored(k).status \in {"draft", "evaluating", "awaiting_approval"}
           /\ Stored(k).version \in Nat
           /\ w.status = "approved" => Stored(k).status = "awaiting_approval"
<1>1. /\ call[k].row = Stored(k) /\ call[k].by \in Principal
      /\ call[k].verdict \in {"approved", "rejected"}
      /\ MayDecide(Stored(k), call[k].by) /\ MayBecome(Stored(k), call[k].verdict)
  BY OneCall, StillStored DEF WithRow, Knows
<1>2. /\ call[k].verdict \in CandidateStatus /\ Stored(k).version \in 1..3
      /\ Stored(k).status \in {"draft", "evaluating", "awaiting_approval"}
      /\ call[k].verdict = "approved" => Stored(k).status = "awaiting_approval"
  BY <1>1, OneCall DEF CandidateStatus, MayBecome, CandidateTransitions, Sound
<1>3. /\ w \in CandidateRows /\ w.status = call[k].verdict /\ w.version = Stored(k).version + 1
      /\ w.generator = Stored(k).generator /\ w.grader = Stored(k).grader
      /\ w.approver = call[k].by
  BY <1>1, <1>2, OneCall, MovedCandidate
<1>4. Sound(w)
  BY <1>1, <1>2, <1>3, OneCall, SoundMove
<1>5. QED
  BY <1>1, <1>2, <1>3, <1>4 DEF MayDecide

LEMMA DecideSaveStep ==
    ASSUME EvaluationInv, NEW k \in Caller, DecideSave(k)
    PROVE  EvaluationInv'
<1>1. /\ call[k].pc = "decide_save" /\ CallsMove
      /\ UNCHANGED <<proposals, trials, records, deployments, orchestration, failures, added>>
  BY Returns DEF DecideSave
<1>2. CASE VersionHolds(k)
  <2>1. PICK w : w = Decided(call[k].row, call[k].verdict, call[k].by)
    OBVIOUS
  <2>2. candidate' = [candidate EXCEPT ![call[k].cand] = w]
    BY <1>2, <2>1 DEF DecideSave, Save
  <2>3. /\ w \in CandidateRows /\ Sound(w) /\ w.status \in {"approved", "rejected"}
        /\ w.version = Stored(k).version + 1 /\ w.grader = Stored(k).grader
        /\ Stored(k).status \in {"draft", "evaluating", "awaiting_approval"}
        /\ Stored(k).version \in Nat
        /\ w.status = "approved" => Stored(k).status = "awaiting_approval"
    BY <1>1, <1>2, <2>1, DecisionRow
  <2>4. RestOK'
    BY <1>1 DEF RestOK, EvaluationInv, EvaluationTypeOK, orchestration
  <2>5. w.status = "approved" => Backed(call[k].cand, w.grader, trials, records)
    BY <2>3, OneCall, QualifiedIsBacked DEF EvaluationInv, Stored
  <2>6. w.status = "approved" =>
          \A o \in Caller : ~(call[o].pc \in Evaluating /\ call[o].cand = call[k].cand)
    BY <2>3, OneCall DEF Knows, Stored
  <2>7. candidate[call[k].cand].status # "approved" /\ candidate[call[k].cand].version < w.version
    BY <2>3 DEF Stored
  <2>8. QED
    BY <1>1, <2>2, <2>3, <2>4, <2>5, <2>6, <2>7, OneCall, RowStep
<1>3. CASE ~VersionHolds(k)
  BY <1>1, <1>3, TablesRest DEF DecideSave, EvaluationInv, EvaluationTypeOK, orchestration, tables
<1>4. QED
  BY <1>2, <1>3

LEMMA PromoteReadStep ==
    ASSUME EvaluationInv, NEW k \in Caller, PromoteRead(k)
    PROVE  EvaluationInv'
<1>1. CASE MayDeploy(Stored(k), call[k].by)
  <2> DEFINE x == [call[k] EXCEPT !.pc = "deploy"]
  <2>1. /\ call[k].pc = "promote" /\ UNCHANGED <<tables, attempts, signalled, failures>>
        /\ UNCHANGED <<workflow, lease>>
    BY <1>1 DEF PromoteRead
  <2>2. x \in Calls /\ x.pc = "deploy" /\ x.cand = call[k].cand /\ x.by = call[k].by
    BY OneCall DEF Calls
  <2>3. call' = [call EXCEPT ![k] = x]
    BY <1>1 DEF PromoteRead, Goto, EvaluationInv, EvaluationTypeOK
  <2> HIDE DEF x
  <2>4. Knows(x, candidate', trials', records')
    BY <1>1, <2>1, <2>2, OneCall DEF Knows, WithRow, Evaluating, Stored, tables
  <2>5. CallsMove
    BY <2>2, <2>3, <2>4, OneCallMoves DEF Evaluating
  <2>6. QED
    BY <2>1, <2>5, TablesRest DEF EvaluationInv, EvaluationTypeOK
<1>2. CASE ~MayDeploy(Stored(k), call[k].by)
  BY <1>2, RaiseStep DEF PromoteRead, EvaluationInv, EvaluationTypeOK
<1>3. QED
  BY <1>1, <1>2

LEMMA DeployStep ==
    ASSUME EvaluationInv, NEW k \in Caller, Deploy(k)
    PROVE  EvaluationInv'
<1>1. /\ call[k].pc = "deploy" /\ Return(k) /\ WorkflowHears(k, "shadow")
      /\ deployments' = deployments \cup {<<call[k].cand, call[k].by>>}
      /\ UNCHANGED <<proposals, candidate, trials, records, attempts, signalled, failures, added>>
  BY DEF Deploy
<1>2. call[k].by \in Principal
  BY <1>1, OneCall DEF Knows
<1>3. CallsMove
  BY <1>1, Returns
<1>4. RestOK'
  BY <1>1, <1>2, OneCall, ReportedTyped DEF RestOK, EvaluationInv, EvaluationTypeOK
<1>5. /\ trials' \in [Candidate -> Samples] /\ records' \subseteq EvaluationRecord
      /\ records \subseteq records' /\ \A c \in Candidate : Below(trials[c], trials'[c])
  BY <1>1, BelowReflexive DEF EvaluationInv, EvaluationTypeOK
<1>6. QED
  BY <1>1, <1>3, <1>4, <1>5, QuietStep

LEMMA FaultStep ==
    ASSUME EvaluationInv, NEW k \in Caller, EvaluatorRaises(k) \/ Crash(k)
    PROVE  EvaluationInv'
<1>1. failures' \in 0..MaxFailures
  BY DEF EvaluatorRaises, Crash, Failure, EvaluationInv, EvaluationTypeOK, EvaluationAssumption
<1>2. QED
  BY <1>1, RaiseStep DEF EvaluatorRaises, Crash

LEMMA WorkflowStep ==
    ASSUME EvaluationInv, NEW c \in Candidate,
           StartWorkflow(c) \/ ApprovalDecided(c) \/ AttemptTimesOut(c)
    PROVE  EvaluationInv'
<1>1. UNCHANGED <<tables, call, attempts>>
  BY DEF StartWorkflow, ApprovalDecided, AttemptTimesOut
<1>2. CallsMove
  BY <1>1, CallsRest
<1>3. CASE StartWorkflow(c)
  BY <1>1, <1>2, <1>3, TablesRest DEF StartWorkflow, EvaluationInv, EvaluationTypeOK
<1>4. CASE ApprovalDecided(c)
  BY <1>1, <1>2, <1>4, TablesRest DEF ApprovalDecided, EvaluationInv, EvaluationTypeOK
<1>5. CASE AttemptTimesOut(c)
  <2>1. failures' \in 0..MaxFailures
    BY <1>5 DEF AttemptTimesOut, Failure, EvaluationInv, EvaluationTypeOK, EvaluationAssumption
  <2>2. AfterFailure(c) \in {"evaluating", "failed"}
    BY DEF AfterFailure
  <2>3. /\ workflow' \in [Candidate -> {"none", "evaluating", "awaiting_approval", "promoting",
                                        "shadow", "rejected", "failed"}]
        /\ lease' \in [Candidate -> Caller \cup {NoCaller}] /\ UNCHANGED signalled
    BY <1>5, <2>2 DEF AttemptTimesOut, EvaluationInv, EvaluationTypeOK
  <2>4. QED
    BY <1>1, <1>2, <2>1, <2>3, TablesRest DEF EvaluationInv, EvaluationTypeOK
<1>6. QED
  BY <1>3, <1>4, <1>5

LEMMA ProposeStep ==
    ASSUME EvaluationInv, NEW target, NEW suite \in Suite,
           ProposeImprovement(target, suite)
    PROVE  EvaluationInv'
<1>1. UNCHANGED <<candidate, trials, records, deployments, orchestration, call, failures, added>>
  BY DEF ProposeImprovement
<1>2. [target |-> target, suite |-> suite] \in Proposal
  BY DEF ProposeImprovement, TargetAllowed, Proposal
<1>3. proposals' \subseteq Proposal
  BY <1>2 DEF ProposeImprovement, AddProposal, EvaluationInv, EvaluationTypeOK
<1>4. CallsMove
  BY <1>1, CallsRest
<1>5. RestOK'
  BY <1>1, <1>3 DEF RestOK, EvaluationInv, EvaluationTypeOK, orchestration
<1>6. /\ trials' \in [Candidate -> Samples] /\ records' \subseteq EvaluationRecord
      /\ records \subseteq records' /\ \A c \in Candidate : Below(trials[c], trials'[c])
  BY <1>1, BelowReflexive DEF EvaluationInv, EvaluationTypeOK
<1>7. QED
  BY <1>1, <1>4, <1>5, <1>6, QuietStep

\* The row of a registered Candidate.
LEMMA MadeCandidate ==
    ASSUME NEW p \in Principal, NEW w, w = NewCandidate(p)
    PROVE  /\ w \in CandidateRows /\ Sound(w) /\ w.status = "draft" /\ w.version = 1 /\ w.generator = p
           /\ w.grader = NoOne /\ w.approver = NoOne
<1>1. /\ w \in CandidateRows /\ w.status = "draft" /\ w.version = 1 /\ w.generator = p
      /\ w.grader = NoOne /\ w.approver = NoOne
  <2>1. /\ w = [status |-> "draft", version |-> 1, generator |-> p, grader |-> NoOne,
                approver |-> NoOne]
    BY DEF NewCandidate, Absent
  <2>2. QED
    BY <2>1 DEF CandidateRows, CandidateStatus
<1>2. QED
  BY <1>1, AbsentRow DEF Sound

LEMMA ApiCandidateStep ==
    ASSUME EvaluationInv, NEW c \in Candidate, NEW p \in Principal,
           NEW proposal, NEW suite, ApiCandidate(c, p, proposal, suite)
    PROVE  EvaluationInv'
<1>1. PICK w : w = NewCandidate(p)
  OBVIOUS
<1>2. /\ candidate[c] = Absent /\ candidate' = [candidate EXCEPT ![c] = w]
      /\ UNCHANGED <<proposals, trials, records, deployments, orchestration, call, failures, added>>
  BY <1>1 DEF ApiCandidate, RegisterCandidate, AddCandidate
<1>3. w \in CandidateRows /\ Sound(w) /\ w.status = "draft" /\ w.version = 1
  BY <1>1, MadeCandidate
<1>4. candidate[c].status = "none" /\ candidate[c].version = 0
  BY <1>2 DEF Absent
<1>5. CallsMove
  BY <1>2, CallsRest
<1>6. RestOK'
  BY <1>2 DEF RestOK, EvaluationInv, EvaluationTypeOK, orchestration
<1>7. \A k \in Caller : ~(call[k].pc \in Evaluating /\ call[k].cand = c)
  BY <1>4, OneCall DEF Knows
<1>8. /\ candidate[c].status # "approved" /\ candidate[c].version < w.version
      /\ w.status \notin {"none", "awaiting_approval", "approved"} /\ UNCHANGED <<trials, records>>
  BY <1>2, <1>3, <1>4
<1>9. QED
  BY <1>2, <1>3, <1>5, <1>6, <1>7, <1>8, RowStep

-----------------------------------------------------------------------------
LEMMA EvaluationBegins ==
    ASSUME EvaluationInit
    PROVE  EvaluationInv
<1>1. EvaluationTypeOK
  BY AbsentRow, NoTrialsSample, IdleCall DEF EvaluationInit, EvaluationTypeOK, EvaluationAssumption
<1>2. \A c \in Candidate : Sound(candidate[c]) /\ candidate[c].status = "none"
  BY AbsentRow DEF EvaluationInit
<1>3. \A k \in Caller : call[k].pc = "idle"
  BY IdleCall DEF EvaluationInit
<1>4. QED
  BY <1>1, <1>2, <1>3 DEF EvaluationInv, Knows, OneEvaluator, QualifiedOnEvidence, WithRow, Evaluating

LEMMA EvaluationKept ==
    ASSUME EvaluationInv, [EvaluationNext]_evaluationVars
    PROVE  EvaluationInv'
<1>1. ASSUME NEW target \in Target, NEW suite \in Suite, ProposeImprovement(target, suite)
      PROVE  EvaluationInv'
  BY <1>1, ProposeStep
<1>2. ASSUME NEW c \in Candidate, NEW p \in Principal, NEW proposal \in proposals,
             NEW suite \in Suite, ApiCandidate(c, p, proposal, suite)
      PROVE  EvaluationInv'
  BY <1>2, ApiCandidateStep
<1>3. ASSUME NEW k \in Caller, Step(k) PROVE EvaluationInv'
  <2>1. CASE Evaluation(k)
    BY <2>1, SubmitReadStep, SubmitSaveStep, RunTrialStep, CompleteReadStep, ReadTrialsStep,
       RecordAssessmentStep, SaveVerdictStep DEF Evaluation
  <2>2. CASE Approval(k) \/ Promotion(k)
    BY <2>2, DecideReadStep, DecideSaveStep, PromoteReadStep, DeployStep DEF Approval, Promotion
  <2>3. QED
    BY <1>3, <2>1, <2>2 DEF Step
<1>4. ASSUME NEW k \in Caller, EvaluatorRaises(k) \/ Crash(k) PROVE EvaluationInv'
  BY <1>4, FaultStep
<1>5. ASSUME NEW k \in Caller, NEW c \in Candidate, Attempt(k, c) PROVE EvaluationInv'
  BY <1>5, AttemptStep
<1>6. ASSUME NEW k \in Caller, NEW c \in Candidate, NEW p \in Principal, ApiRequest(k, c, p)
      PROVE  EvaluationInv'
  BY <1>6, RequestStep
<1>7. ASSUME NEW c \in Candidate, StartWorkflow(c) \/ ApprovalDecided(c) \/ AttemptTimesOut(c)
      PROVE  EvaluationInv'
  BY <1>7, WorkflowStep
<1>8. ASSUME NEW c \in Candidate, NEW o \in TrialOutcomes, AddTrial(c, o) PROVE EvaluationInv'
  BY <1>8, AddTrialStep
<1>9. CASE UNCHANGED evaluationVars
  <2>1. UNCHANGED tables /\ UNCHANGED <<orchestration, call, failures>>
    BY <1>9 DEF evaluationVars, tables, orchestration
  <2>2. CallsMove
    BY <2>1, CallsRest
  <2>3. QED
    BY <2>1, <2>2, TablesRest DEF EvaluationInv, EvaluationTypeOK, orchestration
<1>10. QED
  BY <1>1, <1>2, <1>3, <1>4, <1>5, <1>6, <1>7, <1>8, <1>9 DEF EvaluationNext

LEMMA EvaluationInductive == EvaluationSpec => []EvaluationInv
<1>1. EvaluationInit => EvaluationInv
  BY EvaluationBegins
<1>2. EvaluationInv /\ [EvaluationNext]_evaluationVars => EvaluationInv'
  BY EvaluationKept
<1>3. QED
  BY <1>1, <1>2, PTL DEF EvaluationSpec

\* Proposals, Candidates, Trials, workflows and calls are well typed, with versions, attempts
\* and Trials within their bounds, for any number of Candidates, principals and callers.
THEOREM EvaluationTypeCorrect == EvaluationSpec => []EvaluationTypeOK
<1>1. EvaluationInv => EvaluationTypeOK
  BY DEF EvaluationInv
<1>2. QED
  BY <1>1, EvaluationInductive, PTL

\* A Candidate that waits for approval or has it rests on a stored assessment of its own Trials,
\* by its grader, that met the confidence gate, although complete_evaluation writes the record
\* and the row in two transactions: a call reads its sample after the Candidate was its own to
\* evaluate, and Trials and records only grow.
THEOREM QualifiedRestsOnEvidence == EvaluationSpec => []QualifiedOnEvidence
<1>1. EvaluationInv => QualifiedOnEvidence
  BY DEF EvaluationInv
<1>2. QED
  BY <1>1, EvaluationInductive, PTL

-----------------------------------------------------------------------------
(* The promise of CandidateGate.                                            *)

\* What the gate sees of a status, and of the signatures.
StandingOf(status) ==
    CASE status \in {"draft", "evaluating"} -> "open"
      [] status = "awaiting_approval"       -> "qualified"
      [] status = "rejected"                -> "refused"
      [] OTHER                              -> status

Makers == [c \in Candidate |-> candidate[c].generator]
Judges == [c \in Candidate |-> candidate[c].grader]
ApprovedBy == [c \in Candidate |-> candidate[c].approver]

LEMMA StandingTold ==
    /\ StandingOf("none") = "none" /\ StandingOf("draft") = "open"
    /\ StandingOf("evaluating") = "open" /\ StandingOf("awaiting_approval") = "qualified"
    /\ StandingOf("rejected") = "refused" /\ StandingOf("approved") = "approved"
BY DEF StandingOf

LEMMA StandingAt ==
    ASSUME NEW c \in Candidate
    PROVE  /\ Standing[c] = StandingOf(candidate[c].status)
           /\ Makers[c] = candidate[c].generator /\ Judges[c] = candidate[c].grader
           /\ ApprovedBy[c] = candidate[c].approver
BY DEF Standing, StandingOf, Makers, Judges, ApprovedBy

\* A function with another value at one place.
Revised(f, c, v) == [f EXCEPT ![c] = v]

LEMMA RevisedIs ==
    ASSUME NEW f, NEW g, NEW S, NEW c \in S, NEW v,
           f = [d \in S |-> f[d]], g = [d \in S |-> g[d]],
           \A d \in S : g[d] = IF d = c THEN v ELSE f[d]
    PROVE  g = Revised(f, c, v)
<1>1. Revised(f, c, v) = [d \in S |-> IF d = c THEN v ELSE f[d]]
  BY DEF Revised
<1>2. QED
  BY <1>1

\* What a written row shows of the gate.
LEMMA GateMoves ==
    ASSUME EvaluationTypeOK, NEW c \in Candidate, NEW w \in CandidateRows,
           candidate' = [candidate EXCEPT ![c] = w]
    PROVE  /\ Standing' = Revised(Standing, c, StandingOf(w.status))
           /\ Makers' = Revised(Makers, c, w.generator)
           /\ Judges' = Revised(Judges, c, w.grader)
           /\ ApprovedBy' = Revised(ApprovedBy, c, w.approver)
<1>1. \A d \in Candidate : candidate'[d] = IF d = c THEN w ELSE candidate[d]
  BY DEF EvaluationTypeOK
<1>2. Standing' = Revised(Standing, c, StandingOf(w.status))
  <2>1. /\ Standing = [d \in Candidate |-> StandingOf(candidate[d].status)]
        /\ Standing' = [d \in Candidate |-> StandingOf(candidate'[d].status)]
    BY DEF Standing, StandingOf
  <2>2. \A d \in Candidate :
          Standing'[d] = IF d = c THEN StandingOf(w.status) ELSE Standing[d]
    BY <1>1, <2>1
  <2>3. Standing = [d \in Candidate |-> Standing[d]] /\ Standing' = [d \in Candidate |-> Standing'[d]]
    BY <2>1
  <2>4. QED
    BY <2>2, <2>3, RevisedIs
<1>3. Makers' = Revised(Makers, c, w.generator)
  <2>1. /\ Makers = [d \in Candidate |-> Makers[d]] /\ Makers' = [d \in Candidate |-> Makers'[d]]
        /\ \A d \in Candidate : Makers'[d] = IF d = c THEN w.generator ELSE Makers[d]
    BY <1>1 DEF Makers
  <2>2. QED
    BY <2>1, RevisedIs
<1>4. Judges' = Revised(Judges, c, w.grader)
  <2>1. /\ Judges = [d \in Candidate |-> Judges[d]] /\ Judges' = [d \in Candidate |-> Judges'[d]]
        /\ \A d \in Candidate : Judges'[d] = IF d = c THEN w.grader ELSE Judges[d]
    BY <1>1 DEF Judges
  <2>2. QED
    BY <2>1, RevisedIs
<1>5. ApprovedBy' = Revised(ApprovedBy, c, w.approver)
  <2>1. /\ ApprovedBy = [d \in Candidate |-> ApprovedBy[d]]
        /\ ApprovedBy' = [d \in Candidate |-> ApprovedBy'[d]]
        /\ \A d \in Candidate : ApprovedBy'[d] = IF d = c THEN w.approver ELSE ApprovedBy[d]
    BY <1>1 DEF ApprovedBy
  <2>2. QED
    BY <2>1, RevisedIs
<1>6. QED
  BY <1>2, <1>3, <1>4, <1>5

LEMMA GateRests ==
    ASSUME UNCHANGED <<candidate, deployments>>
    PROVE  UNCHANGED Gate!gateVars
BY DEF Gate!gateVars, Standing

\* Registration makes, a saved verdict judges, a saved decision decides, a deployment launches;
\* a submission and everything else is not seen.
LEMMA GateStep ==
    ASSUME EvaluationInv, [EvaluationNext]_evaluationVars
    PROVE  [Gate!Next]_(Gate!gateVars)
<1>1. ASSUME NEW c \in Candidate, NEW p \in Principal, NEW proposal \in proposals,
             NEW suite \in Suite, ApiCandidate(c, p, proposal, suite)
      PROVE  Gate!Make(c, p)
  <2>1. PICK w : w = NewCandidate(p)
    OBVIOUS
  <2>2. /\ candidate[c] = Absent /\ candidate' = [candidate EXCEPT ![c] = w]
        /\ UNCHANGED deployments
    BY <1>1, <2>1 DEF ApiCandidate, RegisterCandidate, AddCandidate
  <2>3. /\ w \in CandidateRows /\ w.status = "draft" /\ w.generator = p
        /\ w.grader = NoOne /\ w.approver = NoOne
    BY <2>1, MadeCandidate
  <2>4. Standing[c] = "none" /\ Judges[c] = NoOne /\ ApprovedBy[c] = NoOne
    BY <2>2, StandingAt, StandingTold DEF Absent
  <2>5. /\ Standing' = Revised(Standing, c, "open") /\ Makers' = Revised(Makers, c, p)
        /\ Judges' = Revised(Judges, c, NoOne) /\ ApprovedBy' = Revised(ApprovedBy, c, NoOne)
    BY <2>2, <2>3, GateMoves, StandingTold DEF EvaluationInv
  <2>6. UNCHANGED <<Judges, ApprovedBy>>
    <3>1. Judges' = Revised(Judges, c, Judges[c]) /\ ApprovedBy' = Revised(ApprovedBy, c, ApprovedBy[c])
      BY <2>4, <2>5
    <3>2. QED
      BY <3>1 DEF Judges, ApprovedBy, Revised
  <2>7. QED
    BY <2>2, <2>4, <2>5, <2>6 DEF Gate!Make, Revised, Makers, Judges, ApprovedBy
<1>2. ASSUME NEW k \in Caller, SubmitSave(k) PROVE UNCHANGED Gate!gateVars
  <2>1. CASE VersionHolds(k)
    <3>1. PICK w : w = MovedOn(call[k].row, "evaluating")
      OBVIOUS
    <3>2. /\ call[k].pc = "submit_save" /\ UNCHANGED deployments
          /\ candidate' = [candidate EXCEPT ![call[k].cand] = w]
      BY <1>2, <2>1, <3>1 DEF SubmitSave, Save
    <3>3. call[k].row = Stored(k) /\ Stored(k).status = "draft" /\ Stored(k).version = 1
      BY <2>1, <3>2, OneCall, StillStored DEF WithRow, Knows, Sound
    <3>4. /\ w \in CandidateRows /\ w.status = "evaluating" /\ w.generator = Stored(k).generator
          /\ w.grader = Stored(k).grader /\ w.approver = Stored(k).approver
      BY <3>1, <3>3, OneCall, MovedCandidate DEF CandidateStatus, EvaluationAssumption
    <3>5. call[k].cand \in Candidate /\ Stored(k) = candidate[call[k].cand]
      BY OneCall DEF Stored
    <3>6. UNCHANGED <<Standing, Makers, Judges, ApprovedBy>>
      <4>1. \A d \in Candidate : candidate'[d] = IF d = call[k].cand THEN w ELSE candidate[d]
        BY <3>2 DEF EvaluationInv, EvaluationTypeOK
      <4>2. UNCHANGED <<Makers, Judges, ApprovedBy>>
        BY <3>4, <3>5, <4>1 DEF Makers, Judges, ApprovedBy
      <4>3. UNCHANGED Standing
        BY <3>3, <3>4, <3>5, <4>1 DEF Standing
      <4>4. QED
        BY <4>2, <4>3
    <3>7. QED
      BY <3>2, <3>6 DEF Gate!gateVars, Makers, Judges, ApprovedBy
  <2>2. CASE ~VersionHolds(k)
    BY <1>2, <2>2, GateRests DEF SubmitSave
  <2>3. QED
    BY <2>1, <2>2
<1>3. ASSUME NEW k \in Caller, SaveVerdict(k) PROVE [Gate!Next]_(Gate!gateVars)
  <2>1. CASE VersionHolds(k)
    <3>1. PICK w : w = Signed(call[k].row, call[k].verdict, call[k].by)
      OBVIOUS
    <3>2. PICK c \in Candidate : c = call[k].cand
      BY OneCall
    <3>3. /\ call[k].pc = "save" /\ UNCHANGED deployments /\ candidate' = [candidate EXCEPT ![c] = w]
      BY <1>3, <2>1, <3>1, <3>2 DEF SaveVerdict, Save
    <3>4. /\ w \in CandidateRows /\ w.status \in {"awaiting_approval", "rejected"}
          /\ w.generator = candidate[c].generator /\ w.approver = candidate[c].approver
          /\ w.grader = call[k].by /\ call[k].by \in Principal
          /\ call[k].by # candidate[c].generator /\ candidate[c].status = "evaluating"
      BY <2>1, <3>1, <3>2, <3>3, VerdictRow DEF Stored
    <3>5. PICK verdict \in {"qualified", "refused"} : verdict = StandingOf(w.status)
      BY <3>4, StandingTold
    <3>6. /\ Standing[c] = "open" /\ Makers[c] = candidate[c].generator
          /\ ApprovedBy[c] = candidate[c].approver
      BY <3>4, StandingAt, StandingTold
    <3>7. /\ Standing' = Revised(Standing, c, verdict)
          /\ Judges' = Revised(Judges, c, call[k].by)
          /\ Makers' = Revised(Makers, c, Makers[c])
          /\ ApprovedBy' = Revised(ApprovedBy, c, ApprovedBy[c])
      BY <3>3, <3>4, <3>5, <3>6, GateMoves DEF EvaluationInv
    <3>8. UNCHANGED <<Makers, ApprovedBy>>
      BY <3>7 DEF Makers, ApprovedBy, Revised
    <3>9. Gate!Judge(c, call[k].by, verdict)
      BY <3>3, <3>4, <3>6, <3>7, <3>8 DEF Gate!Judge, Revised, Makers, Judges, ApprovedBy
    <3>10. QED
      BY <3>4, <3>9 DEF Gate!Next
  <2>2. CASE ~VersionHolds(k)
    BY <1>3, <2>2, GateRests DEF SaveVerdict
  <2>3. QED
    BY <2>1, <2>2
<1>4. ASSUME NEW k \in Caller, DecideSave(k) PROVE [Gate!Next]_(Gate!gateVars)
  <2>1. CASE VersionHolds(k)
    <3>1. PICK w : w = Decided(call[k].row, call[k].verdict, call[k].by)
      OBVIOUS
    <3>2. PICK c \in Candidate : c = call[k].cand
      BY OneCall
    <3>3. /\ call[k].pc = "decide_save" /\ UNCHANGED deployments
          /\ candidate' = [candidate EXCEPT ![c] = w]
      BY <1>4, <2>1, <3>1, <3>2 DEF DecideSave, Save
    <3>4. /\ w \in CandidateRows /\ w.status \in {"approved", "rejected"}
          /\ w.generator = candidate[c].generator /\ w.grader = candidate[c].grader
          /\ w.approver = call[k].by /\ call[k].by \in Principal
          /\ call[k].by \notin {candidate[c].generator, candidate[c].grader}
          /\ candidate[c].status \in {"draft", "evaluating", "awaiting_approval"}
          /\ w.status = "approved" => candidate[c].status = "awaiting_approval"
      BY <2>1, <3>1, <3>2, <3>3, DecisionRow DEF Stored
    <3>5. PICK verdict \in {"approved", "refused"} : verdict = StandingOf(w.status)
      BY <3>4, StandingTold
    <3>6. /\ Standing[c] = StandingOf(candidate[c].status) /\ Makers[c] = candidate[c].generator
          /\ Judges[c] = candidate[c].grader
      BY StandingAt
    <3>7. Standing[c] = "qualified" \/ (Standing[c] = "open" /\ verdict = "refused")
      BY <3>4, <3>5, <3>6, StandingTold
    <3>8. /\ Standing' = Revised(Standing, c, verdict)
          /\ ApprovedBy' = Revised(ApprovedBy, c, call[k].by)
          /\ Makers' = Revised(Makers, c, Makers[c]) /\ Judges' = Revised(Judges, c, Judges[c])
      <4>1. /\ Standing' = Revised(Standing, c, StandingOf(w.status))
            /\ Makers' = Revised(Makers, c, w.generator) /\ Judges' = Revised(Judges, c, w.grader)
            /\ ApprovedBy' = Revised(ApprovedBy, c, w.approver)
        BY <3>3, <3>4, GateMoves DEF EvaluationInv
      <4>2. QED
        BY <3>4, <3>5, <3>6, <4>1
    <3>9. UNCHANGED <<Makers, Judges>>
      BY <3>8 DEF Makers, Judges, Revised
    <3>10. Gate!Decide(c, call[k].by, verdict)
      BY <3>3, <3>4, <3>6, <3>7, <3>8, <3>9 DEF Gate!Decide, Revised, Makers, Judges, ApprovedBy
    <3>11. QED
      BY <3>4, <3>10 DEF Gate!Next
  <2>2. CASE ~VersionHolds(k)
    BY <1>4, <2>2, GateRests DEF DecideSave
  <2>3. QED
    BY <2>1, <2>2
<1>5. ASSUME NEW k \in Caller, Deploy(k) PROVE Gate!Next
  <2>1. PICK c \in Candidate : c = call[k].cand
    BY OneCall
  <2>2. /\ call[k].pc = "deploy" /\ UNCHANGED candidate
        /\ deployments' = deployments \cup {<<c, call[k].by>>}
    BY <1>5, <2>1 DEF Deploy
  <2>3. /\ call[k].by \in Principal /\ candidate[c].status = "approved"
        /\ call[k].by \notin {candidate[c].generator, candidate[c].grader, candidate[c].approver}
    BY <2>1, <2>2, OneCall DEF Knows, MayDeploy
  <2>4. Standing[c] = "approved" /\ UNCHANGED <<Standing, Makers, Judges, ApprovedBy>>
    BY <2>2, <2>3, StandingAt, StandingTold DEF Standing, Makers, Judges, ApprovedBy
  <2>5. Gate!Launch(c, call[k].by)
    BY <2>2, <2>3, <2>4 DEF Gate!Launch, Makers, Judges, ApprovedBy
  <2>6. QED
    BY <2>3, <2>5 DEF Gate!Next
<1>6. ASSUME NEW k \in Caller,
             \/ SubmitRead(k) \/ (\E o \in TrialOutcomes : RunTrial(k, o)) \/ CompleteRead(k)
             \/ ReadTrials(k) \/ RecordAssessment(k) \/ DecideRead(k) \/ PromoteRead(k)
             \/ EvaluatorRaises(k) \/ Crash(k)
      PROVE  UNCHANGED <<candidate, deployments>>
  BY <1>6 DEF SubmitRead, RunTrial, CompleteRead, ReadTrials, RecordAssessment, DecideRead,
              PromoteRead, EvaluatorRaises, Crash, tables
<1>7. ASSUME NEW k \in Caller, NEW c \in Candidate,
             Attempt(k, c) \/ (\E p \in Principal : ApiRequest(k, c, p))
      PROVE  UNCHANGED <<candidate, deployments>>
  BY <1>7 DEF Attempt, EvaluationAttempt, PromotionAttempt, ApiRequest, ApiEvaluate, ApiDecide,
              ApiPromote, tables
<1>8. ASSUME NEW c \in Candidate,
             \/ StartWorkflow(c) \/ ApprovalDecided(c) \/ AttemptTimesOut(c)
             \/ \E o \in TrialOutcomes : AddTrial(c, o)
      PROVE  UNCHANGED <<candidate, deployments>>
  BY <1>8 DEF StartWorkflow, ApprovalDecided, AttemptTimesOut, AddTrial, tables
<1>9. ASSUME NEW target, NEW suite, ProposeImprovement(target, suite)
      PROVE  UNCHANGED <<candidate, deployments>>
  BY <1>9 DEF ProposeImprovement
<1>10. UNCHANGED evaluationVars => UNCHANGED <<candidate, deployments>>
  BY DEF evaluationVars
<1>11. ASSUME NEW k \in Caller, Step(k) PROVE [Gate!Next]_(Gate!gateVars)
  BY <1>2, <1>3, <1>4, <1>5, <1>6, <1>11, GateRests DEF Step, Evaluation, Approval, Promotion
<1>12. QED
  <2>1. ASSUME NEW c \in Candidate, NEW p \in Principal, Gate!Make(c, p) PROVE Gate!Next
    BY <2>1 DEF Gate!Next
  <2>2. QED
    BY <1>1, <1>6, <1>7, <1>8, <1>9, <1>10, <1>11, <2>1, GateRests DEF EvaluationNext

\* However evaluations, decisions and promotions interleave, retry and die, the service
\* implements CandidateGate: generator, grader, approver and executor of a deployed Candidate
\* are pairwise different and a rejected Candidate stays rejected.  A row is written only in
\* the version that was read (_save_versioned), so what was checked still holds.
THEOREM GateRefined == EvaluationSpec => GateIsKept
<1>1. EvaluationInit => Gate!Init
  <2>1. ASSUME EvaluationInit PROVE \A c \in Candidate : candidate[c] = Absent
    BY <2>1 DEF EvaluationInit
  <2>2. ASSUME EvaluationInit PROVE Standing = [c \in Candidate |-> "none"]
    BY <2>1, <2>2 DEF Standing, Absent
  <2>3. QED
    BY <2>1, <2>2 DEF EvaluationInit, Gate!Init, Gate!Nobody, Absent
<1>2. EvaluationInv /\ [EvaluationNext]_evaluationVars => [Gate!Next]_(Gate!gateVars)
  BY GateStep
<1>3. QED
  BY <1>1, <1>2, EvaluationInductive, PTL DEF EvaluationSpec, GateIsKept, Gate!Spec
=============================================================================
