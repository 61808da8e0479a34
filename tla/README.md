# Autonoesis: TLA+ models and proofs

Autonoesis runs Goals for tenants: a Goal is activated, a Run is requested for it, a durable
workflow plans and executes the Run, Tasks propose Actions, Actions go through a governed tool
gateway to external providers, evidence of the outcome is captured and verified, and improvement
candidates are evaluated and released. This directory models the parts of it whose correctness
depends on the order in which concurrent callers, crashes, retries and operators act.

## Inventory

| Part (code) | State it keeps | Operations | What makes it correct |
|---|---|---|---|
| Governed Action lifecycle (`domain/execution.py`) | Action status and `optimistic_version`; ApprovalRequest with reviews | `transition_to`, `decide`, `authorizes` | only legal moves; a settled Action is final; dual review by distinct principals |
| Governed execution use cases (`application/execution.py` 620-914, 1224-1265) | rows of Actions, approvals, attempts | `request_approval`, `decide_approval`, `execute_governed_action`, `reconcile_unknown_action` | a late call never overwrites what others decided meanwhile |
| Tool gateway (`runtime-kernel/tools.py`) | none of its own: a call's locals | `execute`: gates, reservation, egress, completion | every gate is passed before a request leaves; acceptance is not success |
| Reservations, delegation, egress (`adapters/execution_gateway.py`) | `idempotency_records`, `budget_ledger`, `delegations` | `reserve`, `complete`, `revoke`, `authorize` | one request per key; charged once; within the budget |
| Kill switches (`adapters/kill_switch_store.py`) | rows per dimension and target | `activate`, `deactivate`, `is_blocked` | new calls stop while a switch is on |
| Policy, shadow guard (`adapters/governance.py`, `shadow_write_guard.py`) | policy version; deployment of a Run | `authorize`, `assert_writable` | no write from a Shadow Run |
| Goal, Run, Task, Outcome (`domain/goals.py`, `application/execution.py`) | statuses with versions | `activate_goal`, `request_run`, `create_validated_plan`, `start_task`, `complete_run`, `satisfy_or_fail_goal`, `cancel_run`, `take_over_run` | a Goal is satisfied only by verified Outcomes; concurrent Runs within the limit |
| Dispatcher and reconciler (`worker/dispatcher.py`) | unpublished outbox events; Temporal's workflows | `poll_once`, `reconcile_once` | every requested Run gets one workflow |
| Durable workflows (`worker/workflows.py`, `activities.py`) | approval, cancel, pause, takeover signals; phase | `run`, signals, activities | signals are never lost; the Run's row agrees with the workflow's result |
| Outbox, inbox, audit chain (`adapters/outbox.py`, `persistence.py` 2284-2375) | outbox rows, inbox slots, the tenant's audit chain | `_record_fact`, `publish`, `poll_and_publish`, `receive` | a linear chain; delivery at least once, duplicates recognised |
| Evidence (`application/execution.py` 970-1222, `evidence_store.py`) | capture sagas, objects under retention, evidence and deletion rows | capture, recovery, commit, deletion | no evidence row without its object; deleted is gone; stored is committed |
| Candidates and evaluation (`application/evolution.py`, `domain/improvement.py`, `evaluation/`, `graders.py`) | candidate, Trial and evaluation rows; the lifecycle workflow | propose, register, evaluate, decide, promote | four independent parties in order; a verdict rests on its Trials |
| Deployments and releases (`application/evolution.py`, `worker/workflows.py`, `api/release_dispatch.py`, `shadow_dispatch.py`) | deployment, release, observation, comparison rows; release workflows | canary, stable, rollback, observe, mirror, route | one active release per slot; tables agree; enough samples; a request is served once |
| Capability packs (`application/packs.py`, `capability/`, two stores) | pack rows, stable channels, an index of goal types | install, enable, disable, revoke, pin; goal type and subject lookup | what is handed out is signed, allowlisted and not revoked, except where the memory store falls back |
| Emergency control (`kill_switch_store.py`, `emergency_authorization.py`, `api/main.py`) | tenant and platform switches, platform trail, authorizations | activate, deactivate, issue, review, `is_blocked` | the trail's events tell the switch; no gap in a handover; independent hands |
| Memory and context (`memory/`, `context/`, `persistence.py` 747-901) | memory rows, ledger, deletion edges, projections, context snapshots | write, delete, `prepare_run_context` | forgotten stays out; a deletion is total; a context declares its flaws |
| Telemetry, SDKs, cockpit, infrastructure and the rest | see `PROJECT.json` | | |

How they interact: use cases of `GoalExecutionApplication` are called by the HTTP API and by the
workflow's activities; each is one database transaction, except `execute_governed_action`, which
reads in one transaction, runs the gateway with no transaction open, and writes in a second one.
The gateway asks catalog, delegation, policy, kill switch, credential broker and reservation store
in this order, one `await` each. `add_run` writes an outbox event with the Run; the dispatcher turns
it into a workflow; signals from the API reach the workflow through Temporal. `CandidateLifecycleService`
opens no transaction around its calls of the repository, so each of them is one; so do the pack service and the
capture of Evidence. Release and shadow commands are dispatched by the API and executed by workflows of their
own. Every change of a row appends to the tenant's audit chain and to the outbox in its transaction.

What is hard here is listed in `PROJECT.json` under `hazards`, each at its line: calls on one Action
that interleave between any two awaits, values read in the first transaction and used much later
(the Action, the approval, the shadow binding), a worker that dies between the provider's effect and
`complete()`, requests that take effect after the caller gave up, budget checks at the limit, the
dispatcher's crash windows and limited batches, use cases that decide on rows they do not lock, signals that
arrive while an activity runs, activities whose answer is lost, envelopes published twice, captures that die
between two stores, promotions in two transactions, checks of a revocation, a switch or a deletion that are
stale when they are used.

## Modules

| Module | Models | Kind |
|---|---|---|
| `ActionLifecycle` | Action states and moves; what a receipt means for the Action and for its reservation row | constant operators |
| `EffectLedger` | what governed execution promises: charged once within the budget, applied at most once and only after the charge | abstract specification |
| `GovernedExecution` | approvals, `execute_governed_action`, the gateway, reservations, egress, reconciliation, and the surroundings that change meanwhile | specification |
| `MCGovernedExecution` | instances of it for TLC | model checking |
| `GovernedExecution_proofs` | typing, at-most-once, refinement of `EffectLedger`; finality, kill switch, shadow, approvals, truth of success | proofs |
| `RunLifecycle` | states and moves of a Run | constant operators |
| `RunDispatch` | the request event, the dispatcher, the reconciler and Temporal's workflow IDs | specification |
| `MCRunDispatch` | instances of it for TLC | model checking |
| `RunDispatch_proofs` | typing, one execution per Run, no request dropped; of `EventDelivery`: typing, linear audit chains, refinement of `Delivery` | proofs |
| `GoalRun` | the use cases on Goals, Runs, Plans, Tasks, Evidence and Outcomes, as interleaved transactions | specification |
| `MCGoalRun` | instances of it for TLC | model checking |
| `GoalRun_proofs` | grounded success, order of Tasks, legal moves, one decision per Goal | proofs |
| `GoalRunWorkflow` | the durable workflow of one Run, its signals, activities and retries | specification |
| `MCGoalRunWorkflow` | instance of it for TLC | model checking |
| `GoalRunWorkflow_proofs` | typing, approval before execution, agreement of result and rows, control before evaluation; of `PackCatalog`: typing, only trusted packs are used | proofs |
| `CandidateGate` | what the Candidate lifecycle promises: four different parties, in order | abstract specification |
| `EvaluationHarness` | graders, their pipeline, one Trial, the confidence gate | constant operators |
| `CandidateEvaluation` | proposal to shadow deployment, by API calls and the lifecycle workflow | specification |
| `ReleaseExecution` | shadow, canary, stable, rollback, observations, mirrored requests, routing | specification |
| `ReleaseExecution_proofs` | typing, one active release, agreement of the tables, samples, single service, replayable routes; of `CandidateEvaluation`: typing, evidence of qualified Candidates, refinement of `CandidateGate` | proofs |
| `Delivery` | what outbox and inbox promise together | abstract specification |
| `EventDelivery` | audit chain, outbox, relay, channel, inbox | specification |
| `EvidenceCapture` | capture saga, object store, deletion | specification |
| `EvidenceCapture_proofs` | typing, verified Evidence is backed, deleted bytes are gone | proofs |
| `PackManifest` | versions, ranges, parsing, signature and supply-chain check | constant operators |
| `PackCatalog` | lifecycle of packs over the two stores, and what their readers are handed | specification |
| `EmergencyControl` | tenant and platform switches, authorizations, the gateway's check | specification |
| `EmergencyControl_proofs` | typing, truth of the trail, independent hands, no gap in a handover | proofs |
| `ContextAssembly` | freshness, access, conflicts, injections, assembly, Write Gate | constant operators |
| `MemoryContext` | memory rows, deletion cascade, contexts of Runs | specification |
| `MemoryContext_proofs` | typing, forgotten stays out, total deletion, vetted contexts; what conflict detection finds | proofs |
| `MC...` of these | instances of them for TLC | model checking |

`GoalRun` refers to `GovernedExecution` for the end of an Action and to `EvidenceCapture` for a capture,
`GoalRunWorkflow` to `GoalRun` for what its activities do; each of them takes what the other module promises as one
step. `CandidateEvaluation` ends where `ReleaseExecution` begins: with a shadow deployment. Three proof modules
extend two components each and prove the theorems of both: `RunDispatch_proofs` also those of `EventDelivery`, whose
outbox carries the requests, `GoalRunWorkflow_proofs` those of `PackCatalog`, whose packs define the goal types, and
`ReleaseExecution_proofs` those of `CandidateEvaluation`, whose Candidates are deployed. So that a module can extend
both, the second component's specification has names of its own (`DeliverySpec`, `CatalogSpec`, `EvaluationSpec`).

### GovernedExecution and the code

A *worker* is one call of `execute_governed_action`; its `pc` is the await it stands at and `req` the
copies it read (`act`, `base` = the `optimistic_version`, the approval's `id`, `status`, `bound`
policy version) together with what its command names (`asked` policy version, `cost`).

| Action | Code |
|---|---|
| `Load` | first transaction and the argument checks of `execute` |
| `ShadowGuard` | `SqlShadowWriteGuard.assert_writable` |
| `CheckDelegation` | catalog, live delegation, operation, scope, schema, risk and L4 gates |
| `CheckPolicy`, `CheckKillSwitch`, `CheckApproval` | the gates in the gateway's order, the credential's scope and expiry with the last; a refusal is `_reject`, which makes the Action denied |
| `Reserve` | `_reserve` under its advisory lock, row and ledger entry in one transaction; `_existing_decision` for a row already there |
| `Send`, `Await`, `Verify` | `egress.execute` leaving, its answer, `egress.verify`; exceptions mapped as the handler does |
| `Complete` | `complete()`, update guarded by `status = 'pending'`, and `_result_from_receipt` |
| `Commit` | second transaction with its version comparison |
| `Crash` | the process dies, or a port raises: only rows survive |
| `RequestApproval`, `DecideApproval`, `Reconcile` | the use cases, one transaction each |
| `ActivateSwitch`, `DeactivateSwitch`, `RevokeDelegation`, `LeaveShadow`, `PolicyChanges`, `ApprovalExpires` | what changes around a call |
| `ProviderApplies`, `ProviderDrops` | external: a request that left may take effect at any later time, or never |

Abstractions. An Action's digest, tool, operation and parameters never change, so they are the
Action itself; the idempotency key is one to one with it. The static gates (catalog, operation,
scope, schema, risk reclassification, L4) are the constant set `Admissible`: they are functions of
the Action and of an immutable tool version. Time is the set `expired`. Policy is a version and a set of
refusals. Whether the issued credential fits is a choice. Reviews are the sequence the code keeps, so that an approval
may count a principal twice unless the code forbids it. Audit records and evidence rows of the tool receipt change nothing that is read again
and are left out. A command replayed under its key changes no state.
`held` and `reconciled` are history variables: no action reads them.

### RunDispatch and the code

A *dispatcher* is a worker process in `run_dispatch_and_reconcile_loop`; its `pc` is the await it stands
at, `todo` the rest of the list it iterates over, `current` the Run it will mark or restart, `snapshot`
the Run states a reconciliation read.

| Action | Code |
|---|---|
| `Poll` | `list_pending`, with the events of terminal Runs marked in the same transaction |
| `Dispatch`, `Mark`, `EndPoll` | the body of `poll_once`, `mark_dispatched`, the loop's counter |
| `List`, `Observe`, `Restart`, `EndReconcile` | `list_reconciliation_runs` and the body of `reconcile_once` |
| `Crash` | process death, and every exception the loop does not catch: it ends the worker's task group |
| `RequestRun` | `add_run`: Run and event in one transaction |
| `OperatorMovesRun`, `WorkflowMovesRun`, `WorkflowCloses` | the takeover and cancel endpoints; the workflow's activities; its end, with the Run in any state |

`start` (`StartReturns`, `StartRaises`) is refused by the process for another risk pool and by Temporal for
a closed workflow, uses a running one, and may lose its request or its answer. A process bound to a pool
has a Temporal namespace of its own, so workflows of other pools are missing to it. The loop's counter
is kept modulo `ReconcileEvery`. Temporal keeps closed workflows: its retention period is not modelled.

### GoalRun and the code

Rows are functions from identifiers to statuses. A *client* is a caller with a transaction open; `tx` is what
it has read: the operation, the row and the status it saw, and for a save the status it will write.

| Action | Code |
|---|---|
| `CreateGoal`, `ActivateGoal`, `DeadlinePasses` | `create_goal`, `activate_goal`; the deadline of the Goal |
| `CountRuns`, `AddRun` | `request_run`: the count of active Runs, then the insert |
| `PrepareRunContext` | `prepare_run_context`; the snapshot is unique per Run |
| `ReadPendingRun`, `SavePlan` | `create_validated_plan`: Plan, Tasks and running Run in one save |
| `StartTask`, `CompleteTask` | `start_task`, which passes through ready, and `complete_task` |
| `ReadRunningTask`, `AddAction`, `SettleAction` | `propose_action`; the end of the Action, detailed in `GovernedExecution` |
| `CaptureEvidence`, `VerifyOutcome` | `capture_authoritative_evidence`; `verify_outcome` with `TrustedOutcomeVerifier` |
| `ReadWork`, `ReadOutcomes` | the reads of `complete_run`; its save is `SaveRun` |
| `ReadRun`, `SaveRun` | `cancel_run`, `fail_run`, `take_over_run` through `_transition_run`; `save_run` |
| `SatisfyGoal`, `ReadEndedRuns`, `FailGoal` | `satisfy_or_fail_goal` |
| `Rollback` | a version conflict, an exception or a crash |

A use case is split into read and write where another commit in between can matter: it writes a row other
than the one it read, or its condition may cease to hold. Where it writes the row it has read and its other
conditions are stable (a succeeded Task or Run and a recorded Outcome stay so), a successful commit is
equivalent to one step. Versions are not kept: no use case returns a Run or Goal to a status it has left, so
comparing statuses is comparing versions. An Action is open until it has succeeded or is closed (denied,
failed). What the authority observes, and whether Evidence is still valid when verified, is a choice.

### GoalRunWorkflow and the code

`pc` is the await the workflow stands at: an activity, a wait, or nothing (`starting`, `closed`, `asserting`
when the assertion at workflows.py:164 has failed the workflow task). `after` is where `_apply_control` goes on
once a pause ends, `left` the attempts of the running activity, `looked` the approval it loads. Temporal runs
the code between two awaits to the end after it has run the handlers of the signals that arrived, so this code
is one step that sees all earlier signals.

| Action | Code |
|---|---|
| `Begin` | the start of `run`, which plans unless it continues |
| `Wake`, `Expire` | the three `wait_condition`s, met or timed out, and what follows each |
| `Return` | an activity commits and answers, and `run` goes on: `prepare_run`, `execute_run`, `evaluate_run` (its two transactions are `evaluating` and `satisfying`), `cancel_run`, `reject_run`, `take_over_run` |
| `LoadReturns` | `load_approval` and the decision on its answer |
| `Fail` | an attempt raises, times out or dies, before or after its commit; the last one fails the workflow |
| `RetryAssertion` | the failed workflow task is tried again when a signal has come that lets it pass |
| `ApprovalDecided`, `CancelSignal`, `PauseSignal`, `ResumeSignal`, `TakeOverSignal` | the signal handlers |
| `OperatorMoves`, `OperatorFailsGoal` | the API's cancel and takeover, which send no signal; a Goal failed by another caller |
| `WorkProgresses`, `ApprovalMoves`, `DeadlinePasses` | Tasks and Outcomes (module `GoalRun`), decisions on approvals, the clock |

Abstractions. The use cases behind the activities are those of `GoalRun`, each one step here: what a Run's Tasks and
Outcomes amount to is `work`. The resume generation is kept as whether it has grown since the wait began. An
expired approval is a rejected one: the workflow treats them alike. Approvals of other Runs are taken as approved,
the worst case. `execute_run` starts all Tasks or none, as only the first start matters to the workflow.
The `patched` marker, heartbeats and the phase query change nothing.

### CandidateEvaluation and the code

A *caller* is a request of the API or an attempt of a workflow activity; `pc` is the transaction it does next and it
carries the row it has read. `EvaluationHarness` gives what one Trial may come to: `OutcomesAssumption` evaluates it over
every valid configuration of the graders.

| Action | Code |
|---|---|
| `ProposeImprovement`, `ApiCandidate` | `propose_improvement` and `register_candidate` behind their endpoints, with the forbidden targets and the improvement policy |
| `SubmitRead`, `SubmitSave` | `submit_for_evaluation`: read, and save compared with the version read |
| `RunTrial`, `EvaluatorRaises`, `Incomplete` | the loop of the activity `evaluate_candidate` with its budget of attempts |
| `CompleteRead`, `ReadTrials`, `RecordAssessment`, `SaveVerdict` | `complete_evaluation`, one step per transaction |
| `DecideRead`, `DecideSave`, `PromoteRead`, `Deploy` | `decide`, `begin_shadow` |
| `StartWorkflow`, `EvaluationAttempt`, `PromotionAttempt`, `ApprovalDecided`, `AttemptTimesOut` | `CandidateLifecycleWorkflow` and what Temporal does with its activities |
| `AddTrial`, `Crash` | Trials others store; a process that dies |

Trials are counted by status; that each was run on the Candidate and its suite, which the code checks, is in `RunSuite`.

### ReleaseExecution and the code

A *command* is identified by what its workflow id is made of; `work` is the execution of its workflow, with the row it has
read. A *pair* is a mirrored request.

| Action | Code |
|---|---|
| `Dispatch` | the endpoints' check of the status, `dispatch` with REJECT_DUPLICATE |
| `ReadRelease`, `ReadDeployment`, `PromotionGate`, `SaveDeployment` | `promote_to_canary`, `release_stable`, `rollback` up to `save_deployment` |
| `DeactivateSeen`, `InsertRelease` | the two statements of `add_release`; the partial unique index |
| `ReportObservation`, `GetObservation`, `SaveObservation` | `record_observation`: check, read, overwrite |
| `DispatchShadow`, `CheckPair`, `ExecutePair`, `StoreComparison`, `ObservePair` | `execute_shadow_pair` and its dispatch |
| `GuardBreached`, `GuardLoad`, `GuardSave` | `rollback_if_breached`, `rollback_deployment`; nothing in the repository calls them, the service offers them |
| `CommandDies`, `PairDies`, `WindowElapses` | a worker dies; the clock |

### EventDelivery, EvidenceCapture and the code

`EventDelivery`: `Begin`, `LockChain`, `CommitFact`, `CommitEnvelope` and `Abort` are a business transaction with `_add_audit`
under the tenant's advisory lock and its outbox row, whose timestamp is taken at the begin; `PollOutbox`, `Publish`, `PublishFails`,
`CommitPoll`, `PollRaises`, `RelayDies` are `poll_and_publish`; `Receive`, `Reserve`, `Handle`, `CommitReceipt`, `ReceiptLost` are
`receive`. A unique key makes a later inserter wait for an earlier one. `receive` calls its handler with a message id and no
session (outbox.py:146), so what the handler does is a step of its own that stays when the receive transaction is lost:
`Delivery` promises handling at least once, again only after a lost receipt, never at two consumers at once and never once
the slot is committed. It does not promise exactly once (ADR-0006 does not either), and it does not promise arrival. The
channel may deliver anything it accepted, any number of times.

`EvidenceCapture`: `BeginCapture`, `LoadSaga`, `Recover`, `Restore`, `Observe`, `StartSaga`, `StoreArtifact`, `VerifyArtifact` and
`CommitCapture` are `capture_authoritative_evidence` call by call; `BeginDeletion`, `RequestDeletion`, `Erase`,
`FinalizeDeletion` are `request_evidence_deletion`; `CaptureDies` and `DeletionDies` are crashes, and `Erase` may fail before or
after the bytes are gone. Time is the end of the retention period. `retained_until` is fixed with the intent, so it may pass at
any moment after it: while the saga is pending, between the read and the put of a recovery, and while deletions run.

That a recovery cannot bring deleted bytes back rests on the object store, not on the application: `put_object` names
COMPLIANCE mode and `retained_until`, and S3 refuses a date that has passed (`PutAccepted`, external). A deletion needs
`now >= retained_until` on the worker's clock; the model takes the two clocks for one. The mutant without the lock date shows
the race. `head_object` and `put_object` are one step: what a put after a stale head could do, namely store bytes that
somebody has deleted meanwhile, needs a date that has passed. The object store of the unit tests, `InMemoryObjectStore`,
refuses no such put and would let the race through.

### PackCatalog, EmergencyControl, MemoryContext and the code

`PackCatalog`: a caller goes through the calls of the store that `install_pack`, `enable_pack` and `set_stable_channel` make;
`Disable`, `Revoke` and `Bootstrap` are single calls. Where the PostgreSQL store and the store in memory differ (bootstrap, order of
listing, index of goal types, channels, fallback) both are there, chosen by `store`. On PostgreSQL a starting process verifies and
installs the pack of its environment (`Bootstrap`); on the memory store it registers it unverified, for all tenants
(`registered`, api/main.py:333-334), and `list_capability_packs` and `get_goal_type` fall back to it where the tenant has no
listable pack, or none that answers (memory.py:193, 296-299), also after the tenant's own pack was revoked. `UsedIsTrusted` names
this exception: it claims trust of everything else. Readers are operators: what they are handed is stated of every reachable
state.

`EmergencyControl`: a step is a statement at READ COMMITTED. `lock` is the row lock of `SELECT ... FOR UPDATE`. `CheckFirst` and
`CheckSecond` are the two queries of `is_blocked`; `covered` is history. A token is the claims it carries. `trail` holds the rows of
`platform_audit_events` in the order of their commits, which the table does not keep: `list_audit` orders by `created_at`, taken
before the transaction begins (kill_switch_store.py:203, 248, 294-297), so a deactivation that waited may be listed before the
activation it closes. The property therefore reads the trail as a collection of events, each of one row of the switch.

`MemoryContext`: `WriteLook`, `Admit`, `RecordWrite` are `MemoryWriteService.write` on the listing it was given, with the record of
kind WRITE or MERGE it makes after the store has committed; `DeleteLook`, `DeleteExisting`, `Tombstone` the statements of
`delete_memory`; `Prepare`, `ReadMemory`, `AssembleContext`, `InsertContext` those of `prepare_run_context`; `CreatePlan` the binding of
the snapshot by `create_validated_plan`. `Derive` and `Project` are external: the repository has readers of edges and projections
and no writer; an edge has no foreign key, so it may name a memory before it is stored. An edge, or a child, that appears after a
running deletion has collected its set and only then escapes it (`Escapes`) is `late`: what the code does not promise of it,
`DeletionIsTotal` does not claim. Nothing in the repository passes `add_memory` as the store of `MemoryWriteService`: that this is
how observations are stored, and the only way, is an assumption. Facts the command marks lax are outside what `ContextIsVetted` says of
freshness. What `assemble` does with facts, references and memories is `ContextAssembly`; the facts it keeps stay at the
positions the command gave them, which is the order `detect` goes by.

## Runs

| Run | Instance | Shows |
|---|---|---|
| `governed_write` | 1 dual-review write Action, 2 workers, 2 principals, 1 switch, 2 policy versions | at most one effect; only governed effects; recorded success is real; kill switch and shadow hold; settled is final |
| `governed_budget` | 2 Actions of one Run, 2 workers, costs 1 and 2, budget 2 | `EffectLedger` is implemented: charged once, within the budget |
| `run_dispatch` | 2 processes of one pool, 2 Runs, the older one of a pool without a process, poll limit 1, 2 faults | one execution per Run; no request dropped; every served Run gets a workflow |
| `goal_run` | 1 Goal, 2 Runs, limit 1, 2 Tasks in order, 1 Action, 2 criteria, 2 clients | grounded success; Tasks in order; earned satisfaction; one decision per Goal |
| `goal_workflow` | 1 Run of either risk, 1 approval of its own and 1 of another Run, 3 signals, 1 continuation | approval before execution; the result agrees with the rows; control before evaluation; cancellation and deadline end the workflow |
| `candidate_evaluation` | 1 Candidate, 4 principals of overlapping roles, 2 callers, 1 added Trial, 1 fault | `CandidateGate` is implemented; qualified on evidence; the evaluation ends |
| `release_execution` | 2 deployments of one slot, 2 traffic rules, 1 metric, 2 reporters, 1 mirrored request, 1 fault | one active release; deployments and releases agree; enough samples; replayable routes; served once |
| `event_delivery` | 2 facts and 2 envelopes of one tenant, 2 relays of batch 2, 2 consumers, 1 fault | a linear chain; `Delivery` is implemented: at least once, duplicates recognised |
| `evidence_capture` | 1 key, 1 Evidence by hand, 3 contents (plain, personal, secret), 2 captures, 2 deletions, 2 faults | verified is backed; deleted is gone; stored is committed |
| `pack_catalog` | 5 manifests of 2 packs: a prerelease, a release, other content under its version signed anew and forged, a dependent pack; 2 callers; both stores, that in memory with and without a registered pack, forged or dependent | what is handed out is trusted, the registered pack excepted |
| `emergency_control` | 2 principals who share a token's subject, 1 authorization, 2 requests, 1 check, 2 rows of each kind | the trail's events tell the switch; no gap in a handover; independent hands |
| `memory_context` | 4 memories, 2 of them legacy, a chain of derivations, 1 Run, 2 commands with stale, contradicting and marked facts, 1 set of roles, 2 callers | forgotten stays out; a deletion is total; a context is vetted |

Bounds. Two workers are enough for every pairwise race on an Action, and a worker that retires may
be used again, so an Action sees any number of calls in sequence and two at once; the theorems
lift the bound. One write Action with two principals exercises the dual review; two policy versions
an approval bound to an old one. Costs 1 and 2 with a budget of 2 make the budget hold either both
small charges or one large one. `MaxPolicy`, `Costs` and `Reviewable` bound what is enumerated;
versions and attempts need no bound, as an Action is moved a fixed number of times. Workers are
interchangeable, and so are principals: the symmetry is sound because no definition names one
(the temporal property `SettledIsFinal` is a safety property of single steps, `ImplementsLedger`
a step simulation).

In `run_dispatch` a poll limit of 1 and one foreign event stand for the 100 of the code: the younger Run
is never polled while the older one's event stays, so the reconciler has to start it. The reconcile limit
of 2 covers all Runs there; beyond it a Run may be missed. `MaxFaults` bounds crashes and lost calls to
Temporal together; `MaxFailures` is the same bound in `EventDelivery` and `CandidateEvaluation`.

In `goal_run` two clients give every pair of overlapping transactions, each followed by any number of others.
The first Run has two dependent Tasks; the Plan of the second has no Task and is refused, so it stays pending
until it is cancelled: it is there for the races on the Goal. Two criteria separate an Outcome observed
from all verified. Clients and criteria are interchangeable. Nothing is unbounded: statuses only move forward.

In `goal_workflow` three signals are enough for pause, resume and one more, or an approval between two others;
one continuation for the guard at its limit and for a Run that continues past its approval.

In `candidate_evaluation` one principal may generate and grade, another grade, approve and execute, so that every check of
separation has somebody to refuse; the policy decides on one Trial and leaves a split open, so both the budget of attempts
and the added Trial matter. In `release_execution` the constraint `OneStoryAtATime` explores the commands of the second
deployment only from moments when nothing is being reported or mirrored on the first: the two share the slot and nothing
else, and the constraint keeps every interleaving of their commands. A rule of a tenth and one of a half put the request
on different sides. In `event_delivery` a batch of two lets one row fail and the other pass, and two relays
poll the same rows; one fault is a lost poll, a lost receipt or a failing publisher. In `evidence_capture` two captures of one key
overlap each other, two deletions and the end of the retention period, and two faults let the first die and its successor or
a deletion fail as well. In `emergency_control` two rows are
enough for a switch to be replaced by another. In `memory_context` the chain of three makes the cascade recursive. Callers, reporters,
requests, relays, consumers and events of a kind are interchangeable where the cfg says SYMMETRY; no run with a liveness property uses it.

Deadlock is checked where something is always left to do (`governed_write`, `run_dispatch`, `pack_catalog`,
`emergency_control`, `memory_context`, `candidate_evaluation`); in the others it is not: when every Action, Goal, command or
capture is settled, the system rests.

Fairness. `GovernedExecution`, `GoalRun`, `ReleaseExecution`, `EventDelivery`, `PackCatalog`, `EmergencyControl` and
`MemoryContext` assume none: their properties are safety properties. `RunDispatch` assumes weak fairness of each process's loop: it is a `while True`
whose steps are awaits that return or raise, and a process that dies is started again. Faults are finitely many
(`MaxFaults`, `MaxFailures`), that is, Temporal and the database are reachable in the end. Nothing is assumed of operators and workflows.
`GoalRunWorkflow` assumes weak fairness of the workflow's own steps: Temporal runs every activation, every
attempt ends by its `start_to_close_timeout`, and attempts are finitely many. It is not assumed that an
activity ever succeeds, that a signal comes or that the deadline passes. `CandidateEvaluation` assumes weak fairness of a call
that runs, and strong fairness of the attempts a workflow waits for, as Temporal schedules them also while the API keeps
the callers busy. Of `EventDelivery` nothing is assumed, as nothing in the repository but its tests runs a relay or a consumer.
`EvidenceCapture` assumes that calls go on and, for `StoredIsCommitted`, that a client repeats its key until it is
answered: recovery is on the retry path and nowhere else.

## Proofs

All theorems hold for every value of the constants allowed by `ConstantsAssumption` (any sets of
Actions, workers, principals, Runs and switches, any costs and budget), `DispatchAssumption` (any
Runs, processes, pools, limits and number of faults), `GoalRunAssumption` (any Goals, Runs, Plans,
Actions, criteria, limits and clients), `WorkflowAssumption` (any approvals, any limits on
continuations and signals), `EvidenceAssumption` (any keys, contents, classifications, callers,
deletions and number of faults), `EmergencyAssumption` (any principals, tokens, authorizations, requests and
checks), `ReleaseAssumption` (any deployments, slots, rules, policies, metrics, samples, reporters and mirrored
requests), `MemoryAssumption` with `AgesAssumption` (any memories, Runs, commands with facts in any number and
order, callers and ages), `DeliveryAssumption` (any facts, envelopes, tenants, relays, consumers, batch size and number of
faults), `CatalogAssumption` (any manifests, allowlists and concurrent calls) and `EvaluationAssumption` (any Candidates,
principals, roles, suites, targets, callers, and any policy of the confidence gate). TLC evaluates each of
them on the runs of its component.

| Theorem | Statement | Inductive argument |
|---|---|---|
| `TypeCorrect` | `Spec => []TypeOK` | `TypeOK` is inductive |
| `EffectAtMostOnce` | `Spec => [](AtMostOnceEffect /\ HolderOwnsReservation)` | `OnceInv`: a holder's row is pending and holders of one row are one; what was sent has a row; a holder that has not sent has sent nothing. Without the last two, a step of `Send` could add a second request |
| `LedgerRefined` | `Spec => ImplementsLedger` | under `OnceInv`, a successful `Reserve` is `ChargeOnce`, `ProviderApplies` is `TakeEffect`, every other step leaves the ledger alone |
| `SettledStaysSettled` | `Spec => SettledIsFinal` | `FreshInv`: what a call read is not newer than the row, and if the versions agree the Action is still executable, because every move of an Action raises its version |
| `KillSwitchHolds` | `Spec => []KillSwitchStopsNewCalls` | `HeldIsOn`: a switch held since the load is on now, so the gate sees it |
| `ShadowHolds` | `Spec => []ShadowRunsNeverWrite` | `WriterIsLive`: a write past the guard belongs to a Run that left Shadow, which it never re-enters |
| `OnlyGovernedEffects` | `Spec => []EffectsAreGoverned` | `ClearedInv`: the stale copy of an approval that says approved agrees with the row, as an approved approval is final; `ReviewsCounted` gives the number of reviews |
| `SuccessIsReal` | `Spec => []SucceededIsReal` | `SuccessInv`: receipts, results and completed rows that say succeeded are about an effect that took place, and effects are never undone |
| `DispatchTypeCorrect` | `Spec => []TypeOK` (RunDispatch) | `TypeOK` is inductive |
| `ExecutedOnce` | `Spec => []OneExecution` | `ExecutionsCounted`: a Run has one execution exactly when Temporal knows its workflow, which it never forgets |
| `NoRequestDropped` | `Spec => []PublishedIsStarted` | `MarkIsEarned`: a process at the mark saw the start accepted; needed because the mark is a step of its own |
| `GoalRunTypeCorrect` | `Spec => []TypeOK` (GoalRun) | `TypeOK` is inductive |
| `SuccessRestsOnEvidence` | `Spec => []SuccessIsGrounded` | `ReadsHold`: what an open completion has read is still true, because succeeded Tasks, verified Outcomes, captured Evidence and succeeded Actions are stable (`Monotone`); `VerdictsAreGrounded` and `EvidenceIsReal` lead from the Outcome to the Action |
| `PlansAreFollowed`, `SatisfactionEarned` | `Spec => []PlanIsFollowed`, `Spec => []SatisfactionIsEarned` | the same invariant: a started Run never becomes pending again, a succeeded Run stays succeeded |
| `RunsMoveLegally` | `Spec => RunMovesLegally`, which no run checks | `ReadsHold` says an open save was legal for the status it read; `IdsAreFresh` says the Run being inserted does not exist |
| `GoalsDecidedOnce` | `Spec => GoalDecidedOnce` | an open failure has seen an active Goal |
| `WorkflowTypeCorrect` | `Spec => []TypeOK` (GoalRunWorkflow) | `TypeOK` is inductive; the guard on continuing keeps the counter within its limit |
| `ExecutionIsApproved` | `Spec => []ApprovedBeforeExecution` | `ApprovalInv`: before the approval the command still asks for one (`requires` is dropped only by continuing), and a pause remembers on which side of it the workflow stands; an approved approval is final |
| `ResultIsRecorded` | `Spec => []ResultMatchesRun` | `ResultInv`: an open workflow has no result, and between the two transactions of `evaluate_run` the Run has succeeded; terminal Runs do not move |
| `ControlPrecedesEvaluation` | `Spec => ControlBeforeEvaluation` | only the return of `execute_run` leads from execution to evaluation, through `_apply_control` |
| `EvidenceTypeCorrect` | `Spec => []TypeOK` (EvidenceCapture) | `TypeOK /\ CaptureInv` is inductive: a step of a call needs that its key is one |
| `VerifiedBacked`, `DeletedGone` | `Spec => []VerifiedIsBacked`, `Spec => []DeletedIsGone` | `CaptureInv`: every call past the start or the load of its saga carries the saga's content (`CallHolds`), what is stored is what the saga announced (`SagaHolds`), bytes of committed Evidence are there until a deletion after the retention period (`BytesHold`), and a deletion that reports bytes gone comes after the end of retention (`ErasureHolds`), from which moment no call in flight has a put accepted that is not there already |
| `EmergencyTypeCorrect` | `Spec => []TypeOK` (EmergencyControl) | `TypeOK /\ EmergencyInv` is inductive |
| `TrailIsTrue` | `Spec => []TrailTellsThePlatform` | `RowsAndTrail`: only the last row of the platform switch can be active, and the trail has two events for every row, one less while it is, whose places tell the row (`Places`); a deactivation that selected a row holds its lock (`RowHolds`), so it is closed once. The property itself uses no order of the events |
| `HandsAreIndependent` | `Spec => []IndependentHands` | `ChangeHolds`: a request past `require_active` holds an authorization of its own principal, which never changes its principal or issuer; `HandsHold` |
| `HandoverHasNoGap` | `Spec => []NoGapInHandover` | `GateHolds`: a check past its first query that is still covered found the platform free, so a tenant's switch has covered it since |
| `ReleaseTypeCorrect` | `Spec => []TypeOK` (ReleaseExecution) | `TypeOK /\ ReleaseInv /\ MeasureInv` is inductive |
| `OneReleaseIsActive` | `Spec => []OneActiveRelease` | the partial unique index, as a conjunct of `ReleaseInv` |
| `TablesAgree` | `Spec => []RecordsAgree` | the version of a deployment tells its status (`RowHolds`) and a row that was read is stale or still what is stored (`ReadHolds`), so that at most one promotion of a deployment is saved; a promotion is done exactly when it has a release, and a rollback has a release to roll back |
| `PromotedOnSamples` | `Spec => []ReleasedOnSamples` | `MeasureInv`: neither a counter nor what a reporter is about to store is ahead of the samples stored |
| `MirroredOnce` | `Spec => []StableServedOnce` | `MeasureInv`: the phase of a mirrored request tells whether it was served, and the workflow never goes back |
| `RoutesReplay` | `Spec => RouteIsReplayable` | a save that goes through compares the version it read, and only the move to canary, from a version without a rule, binds one |
| `MemoryTypeCorrect` | `Spec => []TypeOK` (MemoryContext) | `TypeOK /\ MemoryInv` is inductive |
| `ForgottenIsOut` | `Spec => []ForgottenStaysOut` | `CallHolds`: a preparation reads what was forgotten when it began as deleted, because a tombstone is final |
| `DeletionsAreTotal` | `Spec => []DeletionIsTotal` | `CallHolds`: what a running deletion has collected is closed under the edges that are not late. The least set closed under the edges is closed, whatever the graph, so no induction along a chain is needed |
| `ContextsAreVetted` | `Spec => []ContextIsVetted` | `SnapshotHolds` and `GateHolds`; `Detect` names two facts of one key that differ although it compares only neighbours of that key: from the earlier one, the least later position whose value differs from it has a predecessor that does not |
| `DeliveryTypeCorrect` | `DeliverySpec => []DeliveryTypeOK` (EventDelivery) | proved with `DeliveryInv`, which is `DeliveryTypeOK`, `ChainInv` and `FlowInv` |
| `ChainsAreLinear` | `DeliverySpec => []ChainIsLinear` | `OneAppends`: the tenant's advisory lock lets one transaction append to a chain at a time, so the last entry it read is still the last one when it commits |
| `DeliveryRefined` | `DeliverySpec => AtLeastOnce` | `FlowInv`: a relay holds rows of the outbox only and marks what the channel has, a consumer holds what was published; one consumer at a time has a message in hand, and only before the inbox has it. `CommitEnvelope` is `Send`, `Publish` is `Accept`, `CommitPoll` is `Settle`, `Handle` is `Handle`, `CommitReceipt` is `Know`, a `ReceiptLost` after the handler is `Lose`, the rest stutters |
| `CatalogTypeCorrect` | `CatalogSpec => []CatalogTypeOK` (PackCatalog) | proved with `CatalogInv` |
| `HandedOutIsTrusted` | `CatalogSpec => []UsedIsTrusted` | `RowsHold`: a stored row is filed under its own release and its manifest passed the check, because an installing call carries a manifest it has verified (`CallHolds`) and no later call replaces one; both stores and both readers list nothing else but, in memory, the registered pack |
| `EvaluationTypeCorrect` | `EvaluationSpec => []EvaluationTypeOK` (CandidateEvaluation) | proved with `EvaluationInv`: the status of a Candidate tells its version (`Sound`), which bounds it |
| `QualifiedRestsOnEvidence` | `EvaluationSpec => []QualifiedOnEvidence` | `Knows`: a call at its save has stored the record its verdict rests on (`Backed`), and its sample is part of the stored Trials, which only grow; `OneEvaluator`: only the call whose submission was saved evaluates a Candidate, and nobody does once it is qualified |
| `GateRefined` | `EvaluationSpec => GateIsKept` | `Knows`: a row that was read is stale or still what is stored, so what a call checked of the earlier parties holds when `_save_versioned` lets it write. `AddCandidate` is `Make`, `SaveVerdict` is `Judge`, `DecideSave` is `Decide`, `Deploy` is `Launch`, the rest stutters. An approved Candidate is final, which is why `Deploy` may rely on an older read |

Assumptions on the outside: `egress.verify` confirms only what the provider has applied, and the
provider applies a request at most once; both are the contract the gateway's code relies on. The object store refuses a
put under a retention date that has passed. Memories are stored through `MemoryWriteService`.

The type invariants of these eleven modules, `HolderOwnsReservation` and `RunMovesLegally` are proved and therefore in no run.

Only model-checked: `RequestedGetsWorkflow`, `CancelEnds`, `DeadlineEnds`, `EvaluationEnds` and
`StoredIsCommitted`, which are liveness. Every safety property of the runs is a theorem. What `EvaluationHarness` and
`PackManifest` compute is evaluated on the inputs of their runs; of `ContextAssembly` the facts above are proved. That the
sum in the ledger is what it should be would need induction over data, which is out of the prover's reach, and so are
liveness under fairness and ENABLED.

## Plan

1. Done: `GovernedExecution`, `RunDispatch`, `GoalRun`, `GoalRunWorkflow`, with proofs.
2. Done: `CandidateEvaluation`, `ReleaseExecution`, `EventDelivery`, `EvidenceCapture`, `PackCatalog`, `EmergencyControl`,
   `MemoryContext`, with `CandidateGate` and `Delivery`.
3. Done: the theorems about `EvidenceCapture`, `EmergencyControl`, `ReleaseExecution` and `MemoryContext`.
4. Done: the theorems about `EventDelivery`, `PackCatalog` and `CandidateEvaluation`, with the refinements of `Delivery` and
   `CandidateGate`.

## Where the code and its documents disagree

Met while modelling; the models follow the code.

- `set_stable_channel` fails on PostgreSQL, always: the row it inserts lacks `created_at`, which is not nullable
  (`ChannelStored`), while ADR-0035:37-39 says that packs can be pinned.
- A relay raises at the first row of a business transaction, which has no envelope fields, at every poll, and what is younger
  is never published (`PollRaises`), while outbox.py:1, events.md:107 and ADR-0006:13 describe at-least-once delivery of
  outbox rows. This is why no property claims that envelopes arrive.
- A pinned version that is disabled or revoked "fails closed with no silent fallback" (ADR-0035:41), while the memory store then
  answers from a pack nobody verified (`registered`, `IndexAnswers`).
- Without a pin, resolution prefers "the newest enabled version" (ADR-0035:40); the query on PostgreSQL compares each version with
  0.0.0 only, which does not tell releases apart (`QueryCandidates`).
- `list_audit` may list a deactivation of the platform switch before the activation it closes (see `EmergencyControl`).

## Not modelled

HTTP parsing and views, most persistence codecs, telemetry, SDKs, the cockpit and infrastructure have no control logic of
their own. `authorize_action_at_execution_time` and `record_action_attempt` are use cases no application calls. The timeout
watchdog, unknown reconciler and compensation executor, `DeploymentPipeline`, `ContextCompressor`, `DeletionPropagator`
and `RebuildableVectorIndex` are helpers nothing calls, and the stores in memory other than that of the packs serve tests.
SLO, FinOps and replay calculators are arithmetic on recorded numbers. The runtime kernel's harness, models and isolation
are value objects and ports. Retention of closed workflows in Temporal, and regular expressions, signatures and hashes, are
outside.
