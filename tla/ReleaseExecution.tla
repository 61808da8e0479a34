--------------------------- MODULE ReleaseExecution ---------------------------
(***************************************************************************)
(* From a shadow deployment to the version a stable slot serves, and back. *)
(*                                                                         *)
(* Release commands are dispatched by the API and executed by one durable  *)
(* workflow each, in one attempt; its use case is a sequence of            *)
(* transactions.  A deployment is written with the version it was read     *)
(* with, or not at all; observation counters are written as they were      *)
(* computed.  The releases of one stable slot are serialised by a partial  *)
(* unique index, so a transaction that did not see a committed active      *)
(* release aborts.  Workers may die between any two transactions.          *)
(*                                                                         *)
(* A slot is named by the version it serves first (the baseline of its     *)
(* Candidates).  External: Temporal, PostgreSQL, the clock, the subjects.  *)
(***************************************************************************)
EXTENDS Integers, FiniteSets

CONSTANTS
    Deployment, Slot, SlotOf,   \* the baseline_version_id of a deployment's Candidate
    Conflicted,                 \* deployments whose Candidate the executor had a part in
    Allocation, NoAllocation,   \* traffic rules: a salt and a percentage
    Percentile,                 \* what sha256 makes of a salt and a request
    RulesOf,                    \* rules that canary commands ask for, by deployment
    Metric, MinConsecutive,
    PoliciesOf,                 \* promotion policies that commands ask for, by deployment
    Request, Pairs,             \* request references; which deployment mirrors which
    Reporter, Reported,         \* concurrent calls of POST /observations, counters they name
    Sample,                     \* what they report: a value and the rule it is held against
    MaxSamples, MaxFaults       \* bounds: reports per counter; crashes

ASSUME ReleaseAssumption ==
    /\ Deployment # {} /\ Metric # {}
    /\ SlotOf \in [Deployment -> Slot] /\ Conflicted \subseteq Deployment
    /\ \A rule \in Allocation : rule.percent \in 1..100
    /\ NoAllocation \notin Allocation /\ RulesOf \in [Deployment -> SUBSET Allocation]
    /\ PoliciesOf \in [Deployment -> SUBSET [min : Nat \ {0}, required : SUBSET Metric]]
    /\ Sample \subseteq [op : {"none", "lt", "gt", "lte", "gte"}, threshold : Int, value : Int]
    /\ MinConsecutive \in Nat \ {0} /\ Reported \subseteq Deployment \X {"shadow", "canary"} \X Metric
    /\ MaxSamples \in Nat /\ MaxFaults \in Nat
    /\ Pairs \subseteq Deployment \X Request /\ Reporter \cap Pairs = {}

VARIABLES
    deployment,   \* deployments table
    release,      \* releases table, by the command that inserted the row
    observation,  \* deployment_observations
    comparison,   \* shadow_comparisons
    work,         \* execution of every release command
    pair,         \* execution of every shadow pair
    recorder,     \* record_observation calls in flight
    guard,        \* rollback_if_breached in flight
    aged,         \* deployments whose canary observation window has elapsed
    samples,      \* history: samples stored per counter
    served,       \* history: times the stable version served a mirrored request
    faults

vars == <<deployment, release, observation, comparison, work, pair, recorder, guard, aged,
          samples, served, faults>>

Stage == {"shadow", "canary"}
DeploymentStatus == {"shadow", "canary", "stable", "failed", "rolled_back"}
DeploymentTransitions ==
    {<<"shadow", "canary">>, <<"shadow", "failed">>, <<"shadow", "rolled_back">>,
     <<"canary", "stable">>, <<"canary", "failed">>, <<"canary", "rolled_back">>,
     <<"stable", "rolled_back">>}

\* ReleaseCommandInput: a command is identified by its action, target and payload digest.
EnterCanary == UNION {[action : {"enter_canary"}, dep : {d}, allocation : RulesOf[d]] :
                        d \in Deployment}
ReleaseStable == UNION {[action : {"release_stable"}, dep : {d}, policy : PoliciesOf[d]] :
                        d \in Deployment}
RollbackRelease == {[action |-> "rollback_release", dep |-> c.dep, of |-> c] : c \in ReleaseStable}
Command == EnterCanary \cup ReleaseStable \cup RollbackRelease
Activating == ReleaseStable \cup RollbackRelease

Rows == [status : DeploymentStatus, version : 1..4, allocation : Allocation \cup {NoAllocation},
         reason : {"none", "release", "guardrail"}]
NewRow == [status |-> "shadow", version |-> 1, allocation |-> NoAllocation, reason |-> "none"]

Phase == {"none", "release", "read", "gate", "save", "replace", "insert", "done", "failed", "torn"}
PairPhase == {"none", "check", "execute", "compare", "observe", "done", "failed"}
Counter == Deployment \X Stage \X Metric
Quiet == [pc |-> "idle", counter |-> CHOOSE c \in Counter : TRUE, breached |-> FALSE,
          count |-> 0, breaches |-> 0]
Unstarted == [phase |-> "none", row |-> NewRow, seen |-> {}]
NoSamples == [count |-> 0, breaches |-> 0]
NoGuard == [pc |-> "idle", dep |-> CHOOSE d \in Deployment : TRUE, row |-> NewRow]

\* Tables, executions and histories hold values the code knows, and no command is past its
\* last phase.
TypeOK ==
    /\ deployment \in [Deployment -> Rows]
    /\ release \in [Activating -> {"absent", "active", "inactive"}]
    /\ observation \in [Counter -> [count : Nat, breaches : Nat]]
    /\ comparison \subseteq Pairs
    /\ work \in [Command -> [phase : Phase, row : Rows, seen : SUBSET Activating]]
    /\ pair \in [Pairs -> [phase : PairPhase, todo : SUBSET Metric]]
    /\ recorder \in [Reporter \cup Pairs ->
                       [pc : {"idle", "checked", "seen"}, counter : Counter, breached : BOOLEAN,
                        count : Nat, breaches : Nat]]
    /\ guard \in [pc : {"idle", "breached", "save"}, dep : Deployment, row : Rows]
    /\ aged \subseteq Deployment
    /\ samples \in [Counter -> Nat]
    /\ served \in [Pairs -> Nat]
    /\ faults \in 0..MaxFaults

Init ==
    /\ deployment = [d \in Deployment |-> NewRow]
    /\ release = [c \in Activating |-> "absent"]
    /\ observation = [c \in Counter |-> NoSamples]
    /\ comparison = {}
    /\ work = [c \in Command |-> Unstarted]
    /\ pair = [q \in Pairs |-> [phase |-> "none", todo |-> {}]]
    /\ recorder = [w \in Reporter \cup Pairs |-> Quiet]
    /\ guard = NoGuard
    /\ aged = {}
    /\ samples = [c \in Counter |-> 0]
    /\ served = [q \in Pairs |-> 0]
    /\ faults = 0

measured == <<observation, comparison, pair, recorder, samples, served>>

-----------------------------------------------------------------------------
(* The Deployment aggregate and its row.                                    *)

MayMove(row, target) == <<row.status, target>> \in DeploymentTransitions
Moved(row, target) == [row EXCEPT !.status = target, !.version = @ + 1]
\* enter_canary binds the traffic rule.
EnteredCanary(row, allocation) == [Moved(row, "canary") EXCEPT !.allocation = allocation]
RolledBack(row, why) == [Moved(row, "rolled_back") EXCEPT !.reason = why]

\* Mutant: the row is written whatever version it has by now.
LastWriterWins(d, row) == TRUE

\* save_deployment: compare and swap on the version that was read.
Unchanged(d, row) == deployment[d].version = row.version

\* The window of observation, counted from the entry into canary, runs out.
WindowElapses(d) ==
    /\ deployment[d].status = "canary" /\ d \notin aged
    /\ aged' = aged \cup {d}
    /\ UNCHANGED <<deployment, release, work, guard, measured, faults>>

-----------------------------------------------------------------------------
(* Release commands.                                                        *)

InSlot(slot) == {c \in Activating : SlotOf[c.dep] = slot}
ActiveIn(slot) == {c \in InSlot(slot) : release[c] = "active"}

Phases(c, phase) == work' = [work EXCEPT ![c].phase = phase]

\* The API looks at the status before it dispatches.
CanaryRequested(c) == c.action = "enter_canary" /\ deployment[c.dep].status = "shadow"
StableRequested(c) == c.action = "release_stable" /\ deployment[c.dep].status = "canary"
RollbackRequested(c) == c.action = "rollback_release" /\ release[c.of] = "active"

\* REJECT_DUPLICATE: a command that was ever started is not started again, also not when it
\* failed.
Dispatch(c) ==
    /\ CanaryRequested(c) \/ StableRequested(c) \/ RollbackRequested(c)
    /\ work[c].phase = "none"
    /\ Phases(c, IF c.action = "rollback_release" THEN "release" ELSE "read")
    /\ UNCHANGED <<deployment, release, guard, aged, measured, faults>>

Finishes(c, phase) == work' = [work EXCEPT ![c] = [Unstarted EXCEPT !.phase = phase]]

\* The activity raises or dies; what it has committed stays.
Ends(c) == Finishes(c, IF work[c].phase \in {"replace", "insert"} THEN "torn" ELSE "failed")

\* rollback: get_active_release.
ReadRelease(c) ==
    /\ work[c].phase = "release"
    /\ IF release[c.of] = "active" THEN Phases(c, "read") ELSE Ends(c)
    /\ UNCHANGED <<deployment, release, guard, aged, measured, faults>>

\* What the use case makes of the deployment it loads: the canary entry asks for an executor
\* independent of the Candidate's parties, promotion and rollback do not.
Admits(c, row) ==
    CASE c.action = "enter_canary"     -> MayMove(row, "canary") /\ c.dep \notin Conflicted
      [] c.action = "release_stable"   -> row.status = "canary"
      [] c.action = "rollback_release" -> MayMove(row, "rolled_back")

ReadDeployment(c) ==
    /\ work[c].phase = "read"
    /\ IF Admits(c, deployment[c.dep])
       THEN work' = [work EXCEPT ![c].row = deployment[c.dep],
                         ![c].phase = IF c.action = "release_stable" THEN "gate" ELSE "save"]
       ELSE Ends(c)
    /\ UNCHANGED <<deployment, release, guard, aged, measured, faults>>

\* Mutant: a metric that has no counter is skipped.
SkipsMissing(c) ==
    /\ c.dep \in aged
    /\ \A m \in c.policy.required :
         observation[<<c.dep, "canary", m>>].count \in {0} \cup {n \in Nat : n >= c.policy.min}

\* _assert_promotion_gate: the window has run out and every required metric has its samples.
\* Breaches are not looked at.
GatePasses(c) ==
    /\ c.dep \in aged
    /\ \A m \in c.policy.required : observation[<<c.dep, "canary", m>>].count >= c.policy.min

PromotionGate(c) ==
    /\ work[c].phase = "gate"
    /\ IF GatePasses(c) THEN Phases(c, "save") ELSE Ends(c)
    /\ UNCHANGED <<deployment, release, guard, aged, measured, faults>>

NewDeployment(c) ==
    CASE c.action = "enter_canary"     -> EnteredCanary(work[c].row, c.allocation)
      [] c.action = "release_stable"   -> Moved(work[c].row, "stable")
      [] c.action = "rollback_release" -> RolledBack(work[c].row, "release")

SaveDeployment(c) ==
    /\ work[c].phase = "save"
    /\ IF Unchanged(c.dep, work[c].row)
       THEN /\ deployment' = [deployment EXCEPT ![c.dep] = NewDeployment(c)]
            /\ Finishes(c, IF c.action = "enter_canary" THEN "done" ELSE "replace")
       ELSE Ends(c) /\ UNCHANGED deployment
    /\ UNCHANGED <<release, guard, aged, measured, faults>>

\* add_release, a transaction of its own.  Its UPDATE deactivates the releases it sees...
DeactivateSeen(c) ==
    /\ work[c].phase = "replace"
    /\ work' = [work EXCEPT ![c].phase = "insert", ![c].seen = ActiveIn(SlotOf[c.dep])]
    /\ UNCHANGED <<deployment, release, guard, aged, measured, faults>>

\* Mutant: no unique index on the active release of a slot.
NoUniqueIndex(c) == TRUE

\* ...and its INSERT violates uq_releases_active_stable_slot if another one has come since.
SlotIsFree(c) == ActiveIn(SlotOf[c.dep]) \subseteq work[c].seen

InsertRelease(c) ==
    /\ work[c].phase = "insert"
    /\ IF SlotIsFree(c)
       THEN /\ release' = [r \in Activating |->
                             IF r = c THEN "active"
                             ELSE IF r \in work[c].seen THEN "inactive" ELSE release[r]]
            /\ Finishes(c, "done")
       ELSE Ends(c) /\ UNCHANGED release
    /\ UNCHANGED <<deployment, guard, aged, measured, faults>>

Fault == faults < MaxFaults /\ faults' = faults + 1

CommandDies(c) ==
    /\ work[c].phase \notin {"none", "done", "failed", "torn"}
    /\ Fault
    /\ Ends(c)
    /\ UNCHANGED <<deployment, release, guard, aged, measured>>

Execute(c) == ReadRelease(c) \/ ReadDeployment(c) \/ PromotionGate(c) \/ SaveDeployment(c)
                 \/ DeactivateSeen(c) \/ InsertRelease(c)

-----------------------------------------------------------------------------
(* record_observation.                                                      *)

\* _guardrail_breached.
GuardrailBreached(sample) ==
    CASE sample.op = "none" -> FALSE
      [] sample.op = "lt"   -> sample.value < sample.threshold
      [] sample.op = "gt"   -> sample.value > sample.threshold
      [] sample.op = "lte"  -> sample.value <= sample.threshold
      [] sample.op = "gte"  -> sample.value >= sample.threshold

\* The stage is compared with the status, the counter read, its successor stored.
Checks(w, counter, breached) ==
    recorder' = [recorder EXCEPT ![w].pc = "checked", ![w].counter = counter,
                                 ![w].breached = breached]

StageMatches(counter) == deployment[counter[1]].status = counter[2]

\* Reports on a counter, stored or in flight: bounded.
Reports(counter) ==
    samples[counter] + Cardinality({w \in Reporter : /\ recorder[w].pc # "idle"
                                                     /\ recorder[w].counter = counter})

ReportObservation(w, counter, sample) ==
    /\ recorder[w].pc = "idle"
    /\ Reports(counter) < MaxSamples
    /\ StageMatches(counter)
    /\ Checks(w, counter, GuardrailBreached(sample))
    /\ UNCHANGED <<deployment, release, work, guard, aged, observation, comparison, pair, samples,
                   served, faults>>

GetObservation(w) ==
    LET stored == observation[recorder[w].counter]
    IN  /\ recorder[w].pc = "checked"
        /\ recorder' = [recorder EXCEPT ![w].pc = "seen", ![w].count = stored.count,
                                        ![w].breaches = stored.breaches]
        /\ UNCHANGED <<deployment, release, work, guard, aged, observation, comparison, pair,
                       samples, served, faults>>

\* One more sample; consecutive breaches add up, a pass resets them.
NextObservation(r) == [count |-> r.count + 1, breaches |-> IF r.breached THEN r.breaches + 1 ELSE 0]

\* save_observation overwrites: samples stored since the read are lost.
SaveObservation(w) ==
    LET counter == recorder[w].counter
    IN  /\ recorder[w].pc = "seen"
        /\ observation' = [observation EXCEPT ![counter] = NextObservation(recorder[w])]
        /\ samples' = [samples EXCEPT ![counter] = @ + 1]
        /\ recorder' = [recorder EXCEPT ![w] = Quiet]
        /\ pair' = IF w \in Pairs THEN [pair EXCEPT ![w].todo = @ \ {counter[3]}] ELSE pair
        /\ UNCHANGED <<deployment, release, work, guard, aged, comparison, served, faults>>

-----------------------------------------------------------------------------
(* execute_shadow_pair.                                                     *)

PairPhases(q, phase) == pair' = [pair EXCEPT ![q].phase = phase]
released == <<deployment, release, work, guard, aged>>

ShadowRequested(q) == deployment[q[1]].status = "shadow"

DispatchShadow(q) ==
    /\ ShadowRequested(q)
    /\ pair[q].phase = "none"
    /\ PairPhases(q, "check")
    /\ UNCHANGED <<released, observation, comparison, recorder, samples, served, faults>>

CheckPair(q) ==
    /\ pair[q].phase = "check"
    /\ PairPhases(q, IF deployment[q[1]].status = "shadow" THEN "execute" ELSE "failed")
    /\ UNCHANGED <<released, observation, comparison, recorder, samples, served, faults>>

\* The stable version serves the request for real, the Candidate without external effects.
ExecutePair(q) ==
    /\ pair[q].phase = "execute"
    /\ served' = [served EXCEPT ![q] = @ + 1]
    /\ PairPhases(q, "compare")
    /\ UNCHANGED <<released, observation, comparison, recorder, samples, faults>>

\* add_shadow_comparison: uq_shadow_comparisons_request.
StoreComparison(q) ==
    /\ pair[q].phase = "compare"
    /\ IF q \in comparison
       THEN PairPhases(q, "failed")
       ELSE pair' = [pair EXCEPT ![q].phase = "observe", ![q].todo = Metric]
    /\ comparison' = comparison \cup {q}
    /\ UNCHANGED <<released, observation, recorder, samples, served, faults>>

\* One observation per metric, each refused once the deployment has left shadow.
ObservePair(q) ==
    /\ pair[q].phase = "observe" /\ recorder[q].pc = "idle"
    /\ \/ /\ pair[q].todo = {}
          /\ PairPhases(q, "done")
          /\ UNCHANGED recorder
       \/ \E m \in pair[q].todo :
            IF StageMatches(<<q[1], "shadow", m>>)
            THEN Checks(q, <<q[1], "shadow", m>>, FALSE) /\ UNCHANGED pair
            ELSE PairPhases(q, "failed") /\ UNCHANGED recorder
    /\ UNCHANGED <<released, observation, comparison, samples, served, faults>>

\* Mutant: the workflow retries a pair that died.
PairIsRetried(q) == "check"

\* One attempt: a pair that died is not executed again.
AfterPairDied(q) == "failed"

PairDies(q) ==
    /\ pair[q].phase \notin {"none", "done", "failed"}
    /\ Fault
    /\ PairPhases(q, AfterPairDied(q))
    /\ recorder' = [recorder EXCEPT ![q] = Quiet]
    /\ UNCHANGED <<released, observation, comparison, samples, served>>

ShadowPair(q) == CheckPair(q) \/ ExecutePair(q) \/ StoreComparison(q) \/ ObservePair(q)

-----------------------------------------------------------------------------
(* rollback_if_breached and rollback_deployment: of the service; no worker  *)
(* calls them.                                                              *)

GuardBreached(counter) ==
    /\ guard.pc = "idle"
    /\ observation[counter].breaches >= MinConsecutive
    /\ guard' = [guard EXCEPT !.pc = "breached", !.dep = counter[1]]
    /\ UNCHANGED <<deployment, release, work, aged, measured, faults>>

GuardLoad ==
    /\ guard.pc = "breached"
    /\ guard' = IF MayMove(deployment[guard.dep], "rolled_back")
                THEN [guard EXCEPT !.pc = "save", !.row = deployment[guard.dep]]
                ELSE NoGuard
    /\ UNCHANGED <<deployment, release, work, aged, measured, faults>>

\* The deployment is rolled back; its release, if it has one, stays active.
GuardSave ==
    /\ guard.pc = "save"
    /\ deployment' = IF Unchanged(guard.dep, guard.row)
                     THEN [deployment EXCEPT ![guard.dep] = RolledBack(guard.row, "guardrail")]
                     ELSE deployment
    /\ guard' = NoGuard
    /\ UNCHANGED <<release, work, aged, measured, faults>>

-----------------------------------------------------------------------------
(* Routing of live requests, a query.                                       *)

\* TrafficAllocation.assign, in hundredths of a percent.
Assign(rule, q) == IF Percentile[rule.salt, q] < rule.percent * 100 THEN "candidate" ELSE "stable"

\* resolve_request_route: of a canary with a rule.
Route(row, q) ==
    IF row.status = "canary" /\ row.allocation # NoAllocation
    THEN Assign(row.allocation, q) ELSE "refused"

-----------------------------------------------------------------------------
Next ==
    \/ \E c \in Command : Dispatch(c) \/ Execute(c) \/ CommandDies(c)
    \/ \E d \in Deployment : WindowElapses(d)
    \/ \E w \in Reporter, c \in Reported, sample \in Sample : ReportObservation(w, c, sample)
    \/ \E w \in Reporter \cup Pairs : GetObservation(w) \/ SaveObservation(w)
    \/ \E q \in Pairs : DispatchShadow(q) \/ ShadowPair(q) \/ PairDies(q)
    \/ \E c \in Counter : GuardBreached(c)
    \/ GuardLoad \/ GuardSave

Spec == Init /\ [][Next]_vars

-----------------------------------------------------------------------------
(* Properties.                                                              *)

\* A stable slot never has two active releases, however promotions and rollbacks of the
\* slot's Candidates overlap (add_release, uq_releases_active_stable_slot).
OneActiveRelease == \A slot \in Slot : \A a, b \in ActiveIn(slot) : a = b

Saved == {"replace", "insert", "done", "torn"}

\* The deployments and releases tables agree although they are written in two transactions:
\* a stable deployment was put there by one promotion, which has stored its release, is about
\* to, or was torn apart; the deployment of an active promotion is stable, or was rolled back
\* by a rollback of that release whose second half is missing, or by a guardrail
\* (release_stable, rollback, rollback_deployment).
RecordsAgree ==
    /\ \A d \in Deployment :
         deployment[d].status = "stable" =>
            \E c \in ReleaseStable :
                /\ c.dep = d /\ work[c].phase \in Saved
                /\ work[c].phase = "done" => release[c] # "absent"
                /\ \A b \in ReleaseStable : b.dep = d /\ work[b].phase \in Saved => b = c
    /\ \A c \in ReleaseStable :
         release[c] = "active" =>
            \/ deployment[c.dep].status = "stable"
            \/ /\ deployment[c.dep].status = "rolled_back"
               /\ \/ deployment[c.dep].reason = "guardrail"
                  \/ \E b \in RollbackRelease :
                       b.dep = c.dep /\ work[b].phase \in {"replace", "insert", "torn"}

\* What goes stable was really observed in canary: when its counters say that a required
\* metric has enough samples, at least as many were stored in that stage, although counters
\* are read, incremented and overwritten without a version check, and shadow pairs write
\* while the deployment moves on (_assert_promotion_gate, record_observation).
ReleasedOnSamples ==
    \A c \in ReleaseStable :
        work[c].phase \in Saved =>
            /\ c.dep \in aged
            /\ \A m \in c.policy.required : samples[<<c.dep, "canary", m>>] >= c.policy.min

\* A request that is routed again while its deployment is in canary goes the same way, and
\* the stored rule explains it afterwards, also when two canary commands with different rules
\* race (enter_canary, save_deployment, resolve_request_route).
RouteIsReplayable ==
    [][\A d \in Deployment : \A q \in Request :
          /\ "refused" \notin {Route(deployment[d], q), Route(deployment'[d], q)} =>
                Route(deployment'[d], q) = Route(deployment[d], q)
          /\ deployment[d].allocation # NoAllocation =>
                deployment'[d].allocation = deployment[d].allocation]_vars

\* Mirroring a request makes the stable version serve it at most once, whoever dispatches it
\* again and wherever the worker dies, and no comparison is stored of a request it has not
\* served (execute_shadow_pair, REJECT_DUPLICATE, no retry).
StableServedOnce ==
    \A q \in Pairs : served[q] <= 1 /\ (q \in comparison => served[q] = 1)
=============================================================================
