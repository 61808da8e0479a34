-------------------------- MODULE GovernedExecution --------------------------
(***************************************************************************)
(* Execution of governed Actions: GoalExecutionApplication's approval,     *)
(* execution and reconciliation use cases, GovernedToolGateway.execute,    *)
(* the atomic reservation of idempotency key and budget, and the external  *)
(* system behind the controlled egress.                                    *)
(*                                                                         *)
(* A worker is one call of execute_governed_action.  Between its two       *)
(* database transactions it holds no lock, so every await of the call is a *)
(* step of its own and anything may happen in between: other workers on    *)
(* the same Action, approval decisions, kill switches, policy changes,     *)
(* revocations, and the death of the worker.  A use case that is a single  *)
(* transaction with a compare-and-swap on optimistic_version is one step.  *)
(*                                                                         *)
(* An Action and its idempotency key are one to one (propose_action is     *)
(* idempotent in the key and the table has a unique constraint on it), and *)
(* an Action has at most one ApprovalRequest (requesting one moves it out  *)
(* of "proposed" for good), so both are indexed by the Action.  The        *)
(* outcome an executed command key is remembered by changes no state when  *)
(* it is replayed: a replay is a stuttering step.                          *)
(***************************************************************************)
EXTENDS ActionLifecycle, FiniteSets, Sequences

CONSTANTS
    Action,           \* governed Actions, each with its idempotency key
    Worker,           \* concurrent calls of execute_governed_action
    Principal,        \* people who may review an approval
    Run,              \* Runs the Actions belong to, all of one Goal
    Switch,           \* kill switch rows, each with its dimension and target
    RunOf,            \* [Action -> Run]
    SwitchesOf,       \* [Action -> SUBSET Switch], the rows whose target an Action matches
    Admissible,       \* Actions the catalog, scope, schema, risk and L4 gates let pass
    WriteRisk,        \* Actions of risk L2 and above
    NeedsApproval,    \* Actions for which policy answers requires_approval
    AdminActions,     \* Actions a platform admin executes without a delegation
    Reviewable,       \* bound: Actions somebody may request an approval for
    RequiredReviews,  \* [Action -> {1, 2}], two for L3 and L4
    MaxPolicy,        \* bound: policy versions are 1..MaxPolicy
    DeniedBy,         \* <<policy version, Action>> pairs the policy refuses
    Costs,            \* cost_units a command may ask for
    Budget,           \* the Goal's budget_limit, in cost_units
    None              \* no Action, or no approval id

ASSUME ConstantsAssumption ==
    /\ RunOf \in [Action -> Run]
    /\ SwitchesOf \in [Action -> SUBSET Switch]
    /\ Admissible \subseteq Action /\ WriteRisk \subseteq Action
    /\ NeedsApproval \subseteq Action /\ AdminActions \subseteq Action
    /\ Reviewable \subseteq Action
    /\ RequiredReviews \in [Action -> {1, 2}]
    /\ MaxPolicy \in Nat \ {0}
    /\ Costs \subseteq Nat \ {0}
    /\ Budget \in Nat
    /\ None \notin Action

VARIABLES
    action,       \* actions: status and optimistic_version
    approval,     \* approval_requests: status, policy version bound, principals who reviewed
    reservation,  \* idempotency_records of tool executions: status and cost_units
    used,         \* sum of the budget_ledger rows of each Run
    attempts,     \* number of action_attempts rows of each Action
    expired,      \* approvals whose expires_at has passed
    policy,       \* version the policy engine answers with
    kill,         \* active kill switches
    delegated,    \* Actions a live delegation grant covers
    shadow,       \* Runs bound to a deployment in Shadow
    outstanding,  \* requests at the provider that may still take effect
    effects,      \* effects the provider has applied
    pc,           \* each worker's next step
    req,          \* what it read in its first transaction, and what its command names
    receipt,      \* normalised tool receipt it will file
    result,       \* Action status the gateway returns to it
    held,         \* history: switches that are on since it read its Action
    reconciled    \* history: Actions an operator reconciled

envVars == <<expired, policy, kill, delegated, shadow>>
extVars == <<outstanding, effects>>
histVars == <<reconciled>>
workVars == <<pc, req, receipt, result, held>>
vars == <<action, approval, reservation, used, attempts, envVars, extVars, workVars, histVars>>

Pcs == {"idle", "guard", "delegation", "policy", "killswitch", "approval", "reserve",
        "send", "await", "verify", "complete", "commit"}
ApprovalStatus == {"none", "pending", "approved", "rejected", "expired"}
Policies == 1..MaxPolicy

\* Program counters of a worker that holds the acquired reservation.
Holding == {"send", "await", "verify", "complete"}
\* Program counters between passing the kill switch gate and the provider's answer.
PastKillSwitch == {"approval", "reserve"} \cup Holding

\* act, base: the Action and the optimistic_version read.  id, status, bound: the approval
\* read and the policy version it is bound to.  asked, cost: what the command names.
Request == [act: Action \cup {None}, base: Nat, id: Action \cup {None},
            status: ApprovalStatus, bound: Policies, asked: Policies, cost: Nat]

NoRequest == [act |-> None, base |-> 0, id |-> None, status |-> "none", bound |-> 1,
              asked |-> 1, cost |-> 0]

Reviews == Seq(Principal)

RowsOK ==
    /\ action \in [Action -> [status: ActionStatus, version: Nat]]
    /\ approval \in [Action -> [status: ApprovalStatus, policy: Policies,
                                reviews: Reviews]]
    /\ reservation \in [Action -> [status: ReservationStatus, cost: Nat]]
    /\ used \in [Run -> Nat]
    /\ attempts \in [Action -> Nat]
    /\ expired \subseteq Action /\ policy \in Policies /\ kill \subseteq Switch
    /\ delegated \subseteq Action /\ shadow \subseteq Run
    /\ outstanding \in [Action -> Nat] /\ effects \in [Action -> Nat]
    /\ reconciled \subseteq Action

WorkersOK ==
    /\ pc \in [Worker -> Pcs] /\ req \in [Worker -> Request]
    /\ \A w \in Worker : pc[w] # "idle" => req[w].act \in Action /\ req[w].cost \in Costs
    /\ receipt \in [Worker -> ReceiptStatus] /\ result \in [Worker -> ActionStatus]
    /\ held \in [Worker -> SUBSET Switch]

\* Every row has a state its table knows, and every worker that runs has an Action.
TypeOK == RowsOK /\ WorkersOK

\* Proposed Actions, nothing reserved, no worker running.
Init ==
    /\ action = [a \in Action |-> [status |-> "proposed", version |-> 1]]
    /\ approval = [a \in Action |-> [status |-> "none", policy |-> 1, reviews |-> <<>>]]
    /\ reservation = [a \in Action |-> [status |-> "none", cost |-> 0]]
    /\ used = [r \in Run |-> 0]
    /\ attempts = [a \in Action |-> 0]
    /\ expired = {} /\ policy = 1 /\ kill = {} /\ delegated = Action \ AdminActions
    /\ shadow \in SUBSET Run
    /\ outstanding = [a \in Action |-> 0] /\ effects = [a \in Action |-> 0]
    /\ pc = [w \in Worker |-> "idle"] /\ req = [w \in Worker |-> NoRequest]
    /\ receipt = [w \in Worker |-> "unknown"] /\ result = [w \in Worker |-> "unknown"]
    /\ held = [w \in Worker |-> {}]
    /\ reconciled = {}

-----------------------------------------------------------------------------
(* Approvals.  Each use case is one transaction.                            *)

CanMove(a, target) == <<action[a].status, target>> \in ActionTransitions

\* request_approval: binds the Action's digest, and the policy version the command names.
RequestApproval(a) ==
    /\ a \in Reviewable
    /\ action[a].status = "proposed"
    /\ \E v \in Policies :
         approval' = [approval EXCEPT ![a] = [status |-> "pending", policy |-> v,
                                              reviews |-> <<>>]]
    /\ action' = [action EXCEPT ![a] = [status |-> "awaiting_approval", version |-> @.version + 1]]
    /\ UNCHANGED <<reservation, used, attempts, envVars, extVars, workVars, histVars>>

\* ApprovalRequest.decide for principal p.
ReviewStatus(a, p, approved) ==
    IF a \in expired THEN "expired"
    ELSE IF ~approved THEN "rejected"
    ELSE IF Len(approval[a].reviews) + 1 < RequiredReviews[a] THEN "pending"
    ELSE "approved"

Decided(a, p, approved) ==
    [status |-> ReviewStatus(a, p, approved), policy |-> approval[a].policy,
     reviews |-> IF a \in expired THEN approval[a].reviews ELSE Append(approval[a].reviews, p)]

\* The principals whose reviews an approval counts.
Reviewers(a) == {approval[a].reviews[n] : n \in DOMAIN approval[a].reviews}

MayReview(a, p) == approval[a].status = "pending" /\ p \notin Reviewers(a)

\* decide_approval: a rejected or expired approval denies its Action in the
\* same transaction, which aborts when the Action cannot be denied any more.
DecideApproval(a) ==
    \E p \in Principal, approved \in BOOLEAN :
        /\ MayReview(a, p)
        /\ approval' = [approval EXCEPT ![a] = Decided(a, p, approved)]
        /\ \/ /\ approval'[a].status \in {"rejected", "expired"}
              /\ CanMove(a, "denied")
              /\ action' = [action EXCEPT ![a] = [status |-> "denied",
                                                  version |-> @.version + 1]]
           \/ /\ approval'[a].status \notin {"rejected", "expired"}
              /\ UNCHANGED action
        /\ UNCHANGED <<reservation, used, attempts, envVars, extVars, workVars, histVars>>

\* reconcile_unknown_action: the operator's verdict settles an Unknown Action and
\* records an attempt.  The reservation row is not touched.
Reconcile(a) ==
    /\ action[a].status = "unknown"
    /\ \E verdict \in {"succeeded", "failed"} :
         action' = [action EXCEPT ![a] = [status |-> verdict, version |-> @.version + 1]]
    /\ attempts' = [attempts EXCEPT ![a] = @ + 1]
    /\ reconciled' = reconciled \cup {a}
    /\ UNCHANGED <<approval, reservation, used, envVars, extVars, workVars>>

-----------------------------------------------------------------------------
(* execute_governed_action and GovernedToolGateway.execute.                 *)

At(w, p) == pc[w] = p

Goto(w, p) ==
    /\ pc' = [pc EXCEPT ![w] = p]
    /\ UNCHANGED <<req, receipt, result, held>>

\* The call ends: what the worker held in memory is gone.
Retire(w) ==
    /\ pc' = [pc EXCEPT ![w] = "idle"]
    /\ req' = [req EXCEPT ![w] = NoRequest]
    /\ receipt' = [receipt EXCEPT ![w] = "unknown"]
    /\ result' = [result EXCEPT ![w] = "unknown"]
    /\ held' = [held EXCEPT ![w] = {}]

\* _reject, _unknown and _result_from_receipt.
Return(w, status) ==
    /\ pc' = [pc EXCEPT ![w] = "commit"]
    /\ result' = [result EXCEPT ![w] = status]
    /\ UNCHANGED <<req, receipt, held>>

\* The first transaction reads the Action and the approval the command names.  An
\* Action in any other state makes the gateway raise, which changes nothing.
Load(w) ==
    \E a \in Action, v \in Policies, c \in Costs, id \in Action \cup {None} :
        /\ At(w, "idle")
        /\ action[a].status \in Executable
        /\ id # None => approval[id].status # "none"
        /\ pc' = [pc EXCEPT ![w] = "guard"]
        /\ req' = [req EXCEPT ![w] =
             [act |-> a, base |-> action[a].version, id |-> id,
              status |-> IF id = None THEN "none" ELSE approval[id].status,
              bound |-> IF id = None THEN 1 ELSE approval[id].policy,
              asked |-> v, cost |-> c]]
        /\ held' = [held EXCEPT ![w] = kill]
        /\ UNCHANGED <<action, approval, reservation, used, attempts, envVars, extVars,
                       receipt, result, histVars>>

\* Mutant: only reads are stopped.
ShadowBlocksReads(a) == a \notin WriteRisk /\ RunOf[a] \in shadow

\* SqlShadowWriteGuard.assert_writable: a PermissionError ends the call.
ShadowBlocks(a) == a \in WriteRisk /\ RunOf[a] \in shadow

ShadowGuard(w) ==
    /\ At(w, "guard")
    /\ IF ShadowBlocks(req[w].act) THEN Retire(w) ELSE Goto(w, "delegation")
    /\ UNCHANGED <<action, approval, reservation, used, attempts, envVars, extVars, histVars>>

\* Catalog, live delegation, operation, scope, schema, risk and L4 gates.
Entitled(a) == a \in Admissible /\ a \in AdminActions \cup delegated

CheckDelegation(w) ==
    /\ At(w, "delegation")
    /\ IF Entitled(req[w].act) THEN Goto(w, "policy") ELSE Return(w, "denied")
    /\ UNCHANGED <<action, approval, reservation, used, attempts, envVars, extVars, histVars>>

PolicyAllows(w) == policy = req[w].asked /\ <<policy, req[w].act>> \notin DeniedBy

CheckPolicy(w) ==
    /\ At(w, "policy")
    /\ IF PolicyAllows(w) THEN Goto(w, "killswitch") ELSE Return(w, "denied")
    /\ UNCHANGED <<action, approval, reservation, used, attempts, envVars, extVars, histVars>>

\* Mutant: the gate is skipped.
KillSwitchIgnored(a) == FALSE

KillSwitchBlocks(a) == SwitchesOf[a] \cap kill # {}

CheckKillSwitch(w) ==
    /\ At(w, "killswitch")
    /\ IF KillSwitchBlocks(req[w].act) THEN Return(w, "denied") ELSE Goto(w, "approval")
    /\ UNCHANGED <<action, approval, reservation, used, attempts, envVars, extVars, histVars>>

\* Mutant: the binding is checked, the decision is not.
ApprovalIsBound(w) == req[w].id = req[w].act /\ req[w].bound = req[w].asked

\* _approval_is_exact, on the approval read in the first transaction; only the
\* clock is read now.  The policy version is the one the decision answered with.
ApprovalIsExact(w) ==
    /\ req[w].id = req[w].act
    /\ req[w].status = "approved"
    /\ req[w].bound = req[w].asked
    /\ req[w].act \notin expired

\* The approval gate and the issue of a credential lease, which is refused when its scope is
\* another than the tool's or its time is over.
CheckApproval(w) ==
    /\ At(w, "approval")
    /\ \/ (req[w].act \in NeedsApproval => ApprovalIsExact(w)) /\ Goto(w, "reserve")
       \/ Return(w, "denied")
    /\ UNCHANGED <<action, approval, reservation, used, attempts, envVars, extVars, histVars>>

\* _existing_decision.  The digest covers the action id, so the row an Action finds
\* under its key is its own.
ExistingDecision(a) ==
    IF reservation[a].status = "pending" THEN "in_progress"
    ELSE IF reservation[a].status \in {"unknown", "accepted"} THEN "unknown"
    ELSE "cached"

\* Mutant: an execution with an unknown result is retried.
RetryUnknown(a, units) ==
    IF reservation[a].status \in {"none", "unknown", "accepted"} THEN "acquired"
    ELSE ExistingDecision(a)

\* Mutant: the budget check leaves out the cost of this execution.
BudgetCheckedBefore(a, units) ==
    IF reservation[a].status # "none" THEN ExistingDecision(a)
    ELSE IF used[RunOf[a]] > Budget THEN "budget_exhausted"
    ELSE "acquired"

\* _reserve: the row found under the key decides; without one, the budget does.
ReservationDecision(a, units) ==
    IF reservation[a].status # "none" THEN ExistingDecision(a)
    ELSE IF used[RunOf[a]] + units > Budget THEN "budget_exhausted"
    ELSE "acquired"

\* The ledger row written with the reservation.
Charge(a, units) == used' = [used EXCEPT ![RunOf[a]] = @ + units]

Reserve(w) ==
    LET a == req[w].act
        decision == ReservationDecision(a, req[w].cost)
    IN
    /\ At(w, "reserve")
    /\ \/ /\ decision = "acquired"
          /\ reservation' = [reservation EXCEPT ![a] = [status |-> "pending",
                                                        cost |-> req[w].cost]]
          /\ Charge(a, req[w].cost)
          /\ Goto(w, "send")
       \/ /\ decision = "budget_exhausted"
          /\ Return(w, "denied")
          /\ UNCHANGED <<reservation, used>>
       \/ /\ decision \in {"in_progress", "unknown"}
          /\ Return(w, "unknown")
          /\ UNCHANGED <<reservation, used>>
       \/ /\ decision = "cached"
          /\ Return(w, ResultFromReceipt(CachedReceipt(reservation[a].status)))
          /\ UNCHANGED <<reservation, used>>
    /\ UNCHANGED <<action, approval, attempts, envVars, extVars, histVars>>

-----------------------------------------------------------------------------
(* Egress: the provider is external; a request that left may take effect    *)
(* at any later time, also after the gateway has given up on it.            *)

Answer(w, status, next) ==
    /\ pc' = [pc EXCEPT ![w] = next]
    /\ receipt' = [receipt EXCEPT ![w] = status]
    /\ UNCHANGED <<req, result, held>>

\* egress.execute: it raises before anything leaves (expired lease, unregistered
\* adapter, no connection), or the request leaves.
Send(w) ==
    LET a == req[w].act IN
    /\ At(w, "send")
    /\ \/ Answer(w, "failed", "complete") /\ UNCHANGED outstanding
       \/ /\ Goto(w, "await")
          /\ outstanding' = [outstanding EXCEPT ![a] = @ + 1]
    /\ UNCHANGED <<action, approval, reservation, used, attempts, envVars, effects, histVars>>

\* What the adapter may answer: success, which is only a claim until it is verified;
\* acceptance, a timeout or an exception on the way back, each saying nothing of the effect;
\* or the provider's refusal.
Await(w) ==
    LET a == req[w].act IN
    /\ At(w, "await")
    /\ \/ Answer(w, "succeeded", "verify") /\ UNCHANGED outstanding
       \/ /\ \E status \in {"accepted", "unknown", "failed"} : Answer(w, status, "complete")
          /\ UNCHANGED outstanding
       \/ /\ outstanding[a] > 0
          /\ outstanding' = [outstanding EXCEPT ![a] = @ - 1]
          /\ \E status \in {"failed", "rejected"} : Answer(w, status, "complete")
    /\ UNCHANGED <<action, approval, reservation, used, attempts, envVars, effects, histVars>>

\* Mutant: the provider's claim is believed.
ClaimIsBelieved(a) == {"succeeded", "unknown", "failed"}

\* egress.verify reads the provider's state back: it confirms only what has been applied.
\* Not confirmed, or timed out, is an unknown result; any other exception is caught by the
\* handler around execute and verify, which makes it a failed receipt.
VerifiedReceipts(a) == {"unknown", "failed"} \cup (IF effects[a] > 0 THEN {"succeeded"} ELSE {})

Verify(w) ==
    /\ At(w, "verify")
    /\ \E status \in VerifiedReceipts(req[w].act) : Answer(w, status, "complete")
    /\ UNCHANGED <<action, approval, reservation, used, attempts, envVars, extVars, histVars>>

\* reservations.complete updates a pending row only and raises otherwise; the
\* result is then what the receipt means.
Complete(w) ==
    LET a == req[w].act IN
    /\ At(w, "complete")
    /\ IF reservation[a].status = "pending"
       THEN /\ reservation' = [reservation EXCEPT ![a] = [status |-> FiledAs(receipt[w]),
                                                          cost |-> @.cost]]
            /\ Return(w, ResultFromReceipt(receipt[w]))
       ELSE Retire(w) /\ UNCHANGED reservation
    /\ UNCHANGED <<action, approval, used, attempts, envVars, extVars, histVars>>

\* The version the Action object the gateway returned carries: one transition to
\* "denied", three through "authorized" and "executing".
VersionAfter(w) == req[w].base + (IF result[w] = "denied" THEN 1 ELSE 3)

\* Mutant: the version is not compared.
NotCompared(w) == TRUE

Unmoved(w) == action[req[w].act].version = req[w].base

\* The second transaction: Action, attempt and evidence, or ConcurrencyConflict
\* when the Action changed since it was read.
Commit(w) ==
    LET a == req[w].act IN
    /\ At(w, "commit")
    /\ IF Unmoved(w)
       THEN /\ action' = [action EXCEPT ![a] = [status |-> result[w],
                                                version |-> VersionAfter(w)]]
            /\ attempts' = [attempts EXCEPT ![a] = @ + 1]
       ELSE UNCHANGED <<action, attempts>>
    /\ Retire(w)
    /\ UNCHANGED <<approval, reservation, used, envVars, extVars, histVars>>

\* The worker dies, or a port raises: nothing it held in memory survives.
Crash(w) ==
    /\ pc[w] # "idle"
    /\ Retire(w)
    /\ UNCHANGED <<action, approval, reservation, used, attempts, envVars, extVars, histVars>>

-----------------------------------------------------------------------------
(* The provider and the surroundings.                                       *)

ProviderApplies(a) ==
    /\ outstanding[a] > 0
    /\ outstanding' = [outstanding EXCEPT ![a] = @ - 1]
    /\ effects' = [effects EXCEPT ![a] = @ + 1]
    /\ UNCHANGED <<action, approval, reservation, used, attempts, envVars, workVars, histVars>>

ProviderDrops(a) ==
    /\ outstanding[a] > 0
    /\ outstanding' = [outstanding EXCEPT ![a] = @ - 1]
    /\ UNCHANGED <<action, approval, reservation, used, attempts, envVars, effects, workVars,
                   histVars>>

ApprovalExpires(a) ==
    /\ approval[a].status \in {"pending", "approved"} /\ a \notin expired
    /\ expired' = expired \cup {a}
    /\ UNCHANGED <<action, approval, reservation, used, attempts, policy, kill, delegated,
                   shadow, extVars, workVars, histVars>>

PolicyChanges ==
    /\ policy < MaxPolicy
    /\ policy' = policy + 1
    /\ UNCHANGED <<action, approval, reservation, used, attempts, expired, kill, delegated,
                   shadow, extVars, workVars, histVars>>

ActivateSwitch(s) ==
    /\ s \notin kill
    /\ kill' = kill \cup {s}
    /\ UNCHANGED <<action, approval, reservation, used, attempts, expired, policy, delegated,
                   shadow, extVars, workVars, histVars>>

DeactivateSwitch(s) ==
    /\ s \in kill
    /\ kill' = kill \ {s}
    /\ held' = [w \in Worker |-> held[w] \ {s}]
    /\ UNCHANGED <<action, approval, reservation, used, attempts, expired, policy, delegated,
                   shadow, extVars, pc, req, receipt, result, histVars>>

\* PostgreSQLDelegationStore.revoke, or the grant's expiry.
RevokeDelegation(a) ==
    /\ a \in delegated
    /\ delegated' = delegated \ {a}
    /\ UNCHANGED <<action, approval, reservation, used, attempts, expired, policy, kill,
                   shadow, extVars, workVars, histVars>>

\* The deployment a Run is bound to leaves Shadow, which it never re-enters.
LeaveShadow(r) ==
    /\ r \in shadow
    /\ shadow' = shadow \ {r}
    /\ UNCHANGED <<action, approval, reservation, used, attempts, expired, policy, kill,
                   delegated, extVars, workVars, histVars>>

-----------------------------------------------------------------------------
Gateway(w) == \/ Load(w) \/ ShadowGuard(w) \/ CheckDelegation(w) \/ CheckPolicy(w)
              \/ CheckKillSwitch(w) \/ CheckApproval(w) \/ Reserve(w) \/ Send(w)
              \/ Await(w) \/ Verify(w) \/ Complete(w) \/ Commit(w)

People(a) == RequestApproval(a) \/ DecideApproval(a) \/ Reconcile(a)

Surroundings == \/ \E a \in Action : \/ ProviderApplies(a) \/ ProviderDrops(a)
                                     \/ ApprovalExpires(a) \/ RevokeDelegation(a)
                \/ \E s \in Switch : ActivateSwitch(s) \/ DeactivateSwitch(s)
                \/ \E r \in Run : LeaveShadow(r)
                \/ PolicyChanges

Next == \/ \E w \in Worker : Gateway(w) \/ Crash(w)
        \/ \E a \in Action : People(a)
        \/ Surroundings

Spec == Init /\ [][Next]_vars

-----------------------------------------------------------------------------
(* Properties.                                                              *)

\* No Action takes effect twice, whatever the workers on it, their crashes and their
\* retries: the reservation of the idempotency key is what stops a second request
\* (GovernedToolGateway.execute, _reserve).  A request still at the provider counts.
AtMostOnceEffect == \A a \in Action : effects[a] + outstanding[a] <= 1

\* The RuntimeErrors of reservations.complete ("already finalized") cannot happen: a
\* worker that runs the egress is the only one on its Action and its row is pending.
HolderOwnsReservation ==
    \A w \in Worker : pc[w] \in Holding =>
        /\ reservation[req[w].act].status = "pending"
        /\ \A u \in Worker : pc[u] \in Holding /\ req[u].act = req[w].act => u = w

\* A request reaches the provider only for an Action the static gates admit and, where
\* policy asks for approval, one approved by as many distinct principals as its risk
\* needs - although the gateway decides on a copy of the approval read earlier.
EffectsAreGoverned ==
    \A a \in Action : effects[a] + outstanding[a] > 0 =>
        /\ a \in Admissible
        /\ a \in NeedsApproval =>
             /\ approval[a].status = "approved"
             /\ Cardinality(Reviewers(a)) >= RequiredReviews[a]

\* An Action the gateway itself recorded as succeeded has taken effect, also when the
\* success was replayed from the reservation by a worker that sent nothing.
SucceededIsReal ==
    \A a \in Action : action[a].status = "succeeded" /\ a \notin reconciled => effects[a] = 1

\* A call that read its Action while a matching kill switch was on, and it stayed on, never
\* gets past the gate: only calls in flight at activation may still reach the provider.
KillSwitchStopsNewCalls ==
    \A w \in Worker : pc[w] \in PastKillSwitch =>
        held[w] \cap SwitchesOf[req[w].act] = {}

\* A write Action of a Run whose deployment is in Shadow has no request and no effect.
ShadowRunsNeverWrite ==
    \A a \in WriteRisk : RunOf[a] \in shadow => effects[a] + outstanding[a] = 0

\* A settled Action is never moved again, and a move is never based on a stale read: a
\* worker that finishes late cannot overwrite a denial, a reconciliation or another worker.
SettledIsFinal ==
    [][\A a \in Action : action[a].status \in Settled => action'[a] = action[a]]_vars

\* What took effect is paid for: an abstract ledger of charged and applied effects, each
\* at most once and within the Run's budget (module EffectLedger).
Ledger == INSTANCE EffectLedger
    WITH charged <- {a \in Action : reservation[a].status # "none"},
         spent <- used
ImplementsLedger == Ledger!Spec
=============================================================================
