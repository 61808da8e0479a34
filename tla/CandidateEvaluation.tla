------------------------- MODULE CandidateEvaluation -------------------------
(***************************************************************************)
(* From an improvement proposal to the first deployment of its Candidate:  *)
(* registration, evaluation by repeated Trials, approval, promotion.       *)
(*                                                                         *)
(* CandidateLifecycleService has no transaction of its own: each call of   *)
(* the repository is one, so a use case is a sequence of steps between     *)
(* which others run.  A row is written with the version it was read with,  *)
(* or not at all.  A call is a request of the API or an attempt of a       *)
(* workflow activity; an attempt may die, and may outlive the time its     *)
(* workflow waits for it.                                                  *)
(*                                                                         *)
(* External: who holds which role, Temporal, what subjects and graders     *)
(* answer (EvaluationHarness), and who adds Trials to the store.           *)
(***************************************************************************)
EXTENDS EvaluationHarness

CONSTANTS
    Candidate, Principal, NoOne,
    Generators, Graders, Approvers, Executors,  \* principals with the role
    WorkerGrader, WorkerExecutor,               \* the worker's principals
    Suite,           \* evaluation suites
    Target,          \* raw improvement targets
    PolicyDenies,    \* targets the improvement policy refuses or has no decision on
    Caller, NoCaller,  \* calls that may be in flight at a time
    Policy,          \* RepeatedTrialPolicy
    TrialOutcomes,   \* results of RunSuite for what subjects and graders may answer
    MaxAdded,        \* bound: Trials callers add
    MaxFailures      \* bound: crashes, timeouts and failing evaluators

ForbiddenTargets == {"identity", "delegation", "tenant_isolation", "policy_root",
                     "audit_retention", "kill_switch", "production_code", "infrastructure"}
ImprovementTargets == {"agent_instruction", "skill", "prompt_asset", "model_route"}

ASSUME EvaluationAssumption ==
    /\ Generators \cup Graders \cup Approvers \cup Executors \cup {WorkerGrader, WorkerExecutor}
         \subseteq Principal
    /\ NoOne \notin Principal /\ NoCaller \notin Caller /\ Candidate # {}
    /\ Policy.minValid \in Nat \ {0} /\ Policy.den \in Nat /\ Policy.num \in 1..(Policy.den - 1)
    /\ Policy.zNum \in Nat /\ Policy.zDen \in Nat \ {0}
    /\ TrialOutcomes \subseteq {"passed", "failed", "invalid"}
    /\ MaxAdded \in Nat /\ MaxFailures \in Nat

VARIABLES
    proposals,    \* stored proposals
    candidate,    \* candidates table
    trials,       \* evaluation_trials, counted by status
    records,      \* candidate_evaluations
    deployments,  \* shadow deployments and who began them
    workflow,     \* phase of the Candidate's CandidateLifecycleWorkflow
    attempts,     \* attempts of evaluate_candidate it has started
    lease,        \* the attempt it waits for
    signalled,    \* Candidates whose workflow got approval_decided
    added,        \* Trials callers have added
    call,         \* calls in flight
    failures

evaluationVars == <<proposals, candidate, trials, records, deployments, workflow, attempts, lease,
                    signalled, added, call, failures>>
tables == <<proposals, candidate, trials, records, deployments, added>>
orchestration == <<workflow, attempts, lease, signalled>>

CandidateStatus == {"none", "draft", "evaluating", "awaiting_approval", "approved", "rejected"}

CandidateTransitions ==
    {<<"draft", "evaluating">>, <<"draft", "rejected">>,
     <<"evaluating", "awaiting_approval">>, <<"evaluating", "rejected">>,
     <<"awaiting_approval", "approved">>, <<"awaiting_approval", "rejected">>}

Absent == [status |-> "none", version |-> 0, generator |-> NoOne, grader |-> NoOne,
           approver |-> NoOne]
NoTrials == [passed |-> 0, failed |-> 0, invalid |-> 0]
Idle == [op |-> "idle", cand |-> CHOOSE c \in Candidate : TRUE, by |-> NoOne, pc |-> "idle",
         row |-> Absent, sample |-> NoTrials, tries |-> 0, verdict |-> "none"]

TrialBudget == 2 * Policy.minValid
CandidateRows == [status : CandidateStatus, version : 0..4, generator : Principal \cup {NoOne},
                  grader : Principal \cup {NoOne}, approver : Principal \cup {NoOne}]
Samples == [passed : Nat, failed : Nat, invalid : Nat]
Proposal == [target : ImprovementTargets, suite : Suite]
Verdicts == {"met", "not_met", "insufficient_sample"}
EvaluationRecord == [cand : Candidate, grader : Principal, sample : Samples, decision : Verdicts]
Calls == [op : {"idle", "evaluate", "evaluation_activity", "decide", "promote",
                "promotion_activity"},
          cand : Candidate, by : Principal \cup {NoOne},
          pc : {"idle", "submit", "submit_save", "trial", "read", "sample", "assess", "save",
                "decide", "decide_save", "promote", "deploy"},
          row : CandidateRows, sample : Samples, tries : 0..TrialBudget,
          verdict : {"none", "awaiting_approval", "approved", "rejected"}]

\* Rows, calls and workflows are in states the code knows, within the budget of Trials and of
\* attempts.
EvaluationTypeOK ==
    /\ proposals \subseteq Proposal
    /\ candidate \in [Candidate -> CandidateRows]
    /\ trials \in [Candidate -> Samples]
    /\ records \subseteq EvaluationRecord
    /\ deployments \subseteq Candidate \X Principal
    /\ workflow \in [Candidate -> {"none", "evaluating", "awaiting_approval", "promoting",
                                   "shadow", "rejected", "failed"}]
    /\ attempts \in [Candidate -> 0..2]
    /\ lease \in [Candidate -> Caller \cup {NoCaller}]
    /\ signalled \subseteq Candidate
    /\ added \in 0..MaxAdded
    /\ call \in [Caller -> Calls]
    /\ failures \in 0..MaxFailures

EvaluationInit ==
    /\ proposals = {}
    /\ candidate = [c \in Candidate |-> Absent]
    /\ trials = [c \in Candidate |-> NoTrials]
    /\ records = {}
    /\ deployments = {}
    /\ workflow = [c \in Candidate |-> "none"]
    /\ attempts = [c \in Candidate |-> 0]
    /\ lease = [c \in Candidate |-> NoCaller]
    /\ signalled = {}
    /\ added = 0
    /\ call = [k \in Caller |-> Idle]
    /\ failures = 0

-----------------------------------------------------------------------------
(* Proposals and Candidates.                                                *)

\* The improvement policy denies what it does not allow, also when it cannot be asked.
PolicyAllows(target) == target \notin PolicyDenies

\* require_improvement_target_allowed, the policy, then the enum.
TargetAllowed(target) ==
    target \notin ForbiddenTargets /\ PolicyAllows(target) /\ target \in ImprovementTargets

AddProposal(proposal) == proposals' = proposals \cup {proposal}

\* propose_improvement; the proposal's own fields are checked non-empty.
ProposeImprovement(target, suite) ==
    /\ TargetAllowed(target)
    /\ AddProposal([target |-> target, suite |-> suite])
    /\ UNCHANGED <<candidate, trials, records, deployments, orchestration, call, failures, added>>

\* A draft in version 1, with its generator.
NewCandidate(p) == [Absent EXCEPT !.status = "draft", !.version = 1, !.generator = p]

\* add_candidate: ids are fresh.
AddCandidate(c, p) == candidate[c] = Absent /\ candidate' = [candidate EXCEPT ![c] = NewCandidate(p)]

\* register_candidate: only against the suite the proposal fixed.
RegisterCandidate(c, p, proposal, suite) ==
    /\ TargetAllowed(proposal.target)
    /\ suite = proposal.suite
    /\ AddCandidate(c, p)
    /\ UNCHANGED <<proposals, trials, records, deployments, orchestration, call, failures, added>>

\* The endpoint lets generators register Candidates for stored proposals.
ApiCandidate(c, p, proposal, suite) ==
    p \in Generators /\ proposal \in proposals /\ RegisterCandidate(c, p, proposal, suite)

\* transition_to: the move and the next version.
MovedOn(row, target) == [row EXCEPT !.status = target, !.version = @ + 1]
MayBecome(row, target) == <<row.status, target>> \in CandidateTransitions

\* record_evaluation and record_approval: the move, signed by a principal who is none of the
\* earlier parties.
MayGrade(row, p) == p # row.generator
Signed(row, target, p) == [MovedOn(row, target) EXCEPT !.grader = p]
MayDecide(row, p) == p \notin {row.generator, row.grader}
Decided(row, target, p) == [MovedOn(row, target) EXCEPT !.approver = p]
\* begin_shadow: an approved Candidate and an independent principal.
MayDeploy(row, p) == p \notin {row.generator, row.grader, row.approver} /\ row.status = "approved"

-----------------------------------------------------------------------------
(* Calls.                                                                   *)

Begin(k, op, c, p, pc, verdict) ==
    /\ call[k] = Idle
    /\ candidate[c] # Absent
    /\ call' = [call EXCEPT ![k] = [Idle EXCEPT !.op = op, !.cand = c, !.by = p, !.pc = pc,
                                                !.verdict = verdict]]

ApiEvaluate(k, c, p) ==
    /\ p \in Graders
    /\ Begin(k, "evaluate", c, p, "submit", "none")
    /\ UNCHANGED <<tables, orchestration, failures>>

ApiDecide(k, c, p, verdict) ==
    /\ p \in Approvers
    /\ Begin(k, "decide", c, p, "decide", verdict)
    /\ UNCHANGED <<tables, orchestration, failures>>

ApiPromote(k, c, p) ==
    /\ p \in Executors
    /\ Begin(k, "promote", c, p, "promote", "none")
    /\ UNCHANGED <<tables, orchestration, failures>>

Goto(k, pc) == call' = [call EXCEPT ![k].pc = pc]
Return(k) == call' = [call EXCEPT ![k] = Idle]
Stored(k) == candidate[call[k].cand]

\* What the workflow makes of the end of the attempt it waits for.
WorkflowHears(k, phase) ==
    LET c == call[k].cand
    IN  IF lease[c] = k
        THEN /\ workflow' = [workflow EXCEPT ![c] = phase]
             /\ lease' = [lease EXCEPT ![c] = NoCaller]
        ELSE UNCHANGED <<workflow, lease>>

\* Mutant: the retry policy has no maximum of attempts.
RetriesForEver(c) == workflow[c]

\* Two attempts of the evaluation, one of the promotion; then the workflow fails.
AfterFailure(c) ==
    IF workflow[c] = "evaluating" /\ attempts[c] < 2 THEN "evaluating" ELSE "failed"

\* The call raises.
Raise(k) == Return(k) /\ WorkflowHears(k, AfterFailure(call[k].cand))

\* Mutant: the row is written whatever version it has by now.
IgnoresVersion(k) == TRUE

\* _save_versioned: the row is written if it still has the version that was read.
VersionHolds(k) == Stored(k).version = call[k].row.version
Save(k, row) == candidate' = [candidate EXCEPT ![call[k].cand] = row]

-----------------------------------------------------------------------------
(* evaluate: submit_for_evaluation, Trials, complete_evaluation.            *)

SubmitRead(k) ==
    /\ call[k].pc = "submit"
    /\ IF MayBecome(Stored(k), "evaluating")
       THEN /\ call' = [call EXCEPT ![k].pc = "submit_save", ![k].row = Stored(k)]
            /\ UNCHANGED <<workflow, lease>>
       ELSE Raise(k)
    /\ UNCHANGED <<tables, attempts, signalled, failures>>

\* The activity then runs Trials; the endpoint goes on with the Trials that are stored.
SubmitSave(k) ==
    /\ call[k].pc = "submit_save"
    /\ IF VersionHolds(k)
       THEN /\ Save(k, MovedOn(call[k].row, "evaluating"))
            /\ call' = [call EXCEPT ![k].row = Absent,
                            ![k].pc = IF call[k].op = "evaluate" THEN "read" ELSE "trial"]
            /\ UNCHANGED <<workflow, lease>>
       ELSE Raise(k) /\ UNCHANGED candidate
    /\ UNCHANGED <<proposals, trials, records, deployments, attempts, signalled, failures, added>>

\* evaluate and add_trial: one more Trial of the Candidate itself on its fixed suite.
RunTrial(k, outcome) ==
    /\ call[k].pc = "trial"
    /\ trials' = [trials EXCEPT ![call[k].cand][outcome] = @ + 1]
    /\ call' = [call EXCEPT ![k].pc = "read", ![k].tries = @ + 1]
    /\ UNCHANGED <<proposals, candidate, records, deployments, orchestration, failures, added>>

\* Trials that reach the store by other ways than the activity, for any Candidate.
AddTrial(c, outcome) ==
    /\ candidate[c] # Absent
    /\ added < MaxAdded
    /\ added' = added + 1
    /\ trials' = [trials EXCEPT ![c][outcome] = @ + 1]
    /\ UNCHANGED <<proposals, candidate, records, deployments, orchestration, call, failures>>

CompleteRead(k) ==
    /\ call[k].pc = "read"
    /\ call' = [call EXCEPT ![k].pc = "sample", ![k].row = Stored(k)]
    /\ UNCHANGED <<tables, orchestration, failures>>

\* An evaluation without Trials is refused before anything is written.
ReadTrials(k) ==
    LET stored == trials[call[k].cand]
    IN  /\ call[k].pc = "sample"
        /\ IF stored = NoTrials
           THEN Raise(k)
           ELSE /\ call' = [call EXCEPT ![k].pc = "assess", ![k].sample = stored]
                /\ UNCHANGED <<workflow, lease>>
        /\ UNCHANGED <<tables, attempts, signalled, failures>>

\* complete_evaluation raised a ValueError: the endpoint fails, the activity runs the next
\* Trial until its budget is spent and then fails for good.
Incomplete(k) ==
    IF call[k].op = "evaluate" THEN Return(k) /\ UNCHANGED <<workflow, lease>>
    ELSE IF call[k].tries < TrialBudget
    THEN /\ call' = [call EXCEPT ![k].pc = "trial", ![k].row = Absent, ![k].sample = NoTrials]
         /\ UNCHANGED <<workflow, lease>>
    ELSE Return(k) /\ WorkflowHears(k, "failed")

\* Mutant: the gate asks for valid Trials and lets the rest pass.
DecidesAnyway(k) ==
    IF Assess(Policy, call[k].sample) = "not_met" THEN "not_met" ELSE "met"

Decision(k) == Assess(Policy, call[k].sample)

\* CandidateEvaluation: the decision with the Trials and the principal it rests on.
EvidenceOf(k) == [cand |-> call[k].cand, grader |-> call[k].by, sample |-> call[k].sample,
                  decision |-> Decision(k)]
StoreRecord(record) == records' = records \cup {record}

Conclusion(decision) == IF decision = "met" THEN "awaiting_approval" ELSE "rejected"

\* The record of the assessment is stored first, whoever the grader and whatever came out.
RecordAssessment(k) ==
    LET decision == Decision(k)
        target == Conclusion(decision)
    IN  /\ call[k].pc = "assess"
        /\ StoreRecord(EvidenceOf(k))
        /\ IF decision = "insufficient_sample" THEN Incomplete(k)
           ELSE IF ~MayGrade(call[k].row, call[k].by) THEN Raise(k)
           ELSE IF ~MayBecome(call[k].row, target) THEN Incomplete(k)
           ELSE /\ call' = [call EXCEPT ![k].pc = "save", ![k].verdict = target]
                /\ UNCHANGED <<workflow, lease>>
        /\ UNCHANGED <<proposals, candidate, trials, deployments, attempts, signalled, failures, added>>

SaveVerdict(k) ==
    /\ call[k].pc = "save"
    /\ IF VersionHolds(k)
       THEN /\ Save(k, Signed(call[k].row, call[k].verdict, call[k].by))
            /\ Return(k) /\ WorkflowHears(k, call[k].verdict)
       ELSE Raise(k) /\ UNCHANGED candidate
    /\ UNCHANGED <<proposals, trials, records, deployments, attempts, signalled, failures, added>>

-----------------------------------------------------------------------------
(* decide and begin_shadow.                                                 *)

DecideRead(k) ==
    /\ call[k].pc = "decide"
    /\ IF MayDecide(Stored(k), call[k].by) /\ MayBecome(Stored(k), call[k].verdict)
       THEN call' = [call EXCEPT ![k].pc = "decide_save", ![k].row = Stored(k)]
       ELSE Return(k)
    /\ UNCHANGED <<tables, orchestration, failures>>

DecideSave(k) ==
    /\ call[k].pc = "decide_save"
    /\ IF VersionHolds(k) THEN Save(k, Decided(call[k].row, call[k].verdict, call[k].by))
                       ELSE UNCHANGED candidate
    /\ Return(k)
    /\ UNCHANGED <<proposals, trials, records, deployments, orchestration, failures, added>>

PromoteRead(k) ==
    /\ call[k].pc = "promote"
    /\ IF MayDeploy(Stored(k), call[k].by)
       THEN Goto(k, "deploy") /\ UNCHANGED <<workflow, lease>>
       ELSE Raise(k)
    /\ UNCHANGED <<tables, attempts, signalled, failures>>

\* add_deployment: nothing keeps a Candidate from having several deployments.
Deploy(k) ==
    /\ call[k].pc = "deploy"
    /\ deployments' = deployments \cup {<<call[k].cand, call[k].by>>}
    /\ Return(k) /\ WorkflowHears(k, "shadow")
    /\ UNCHANGED <<proposals, candidate, trials, records, attempts, signalled, failures, added>>

-----------------------------------------------------------------------------
(* CandidateLifecycleWorkflow.                                              *)

StartWorkflow(c) ==
    /\ candidate[c] # Absent /\ workflow[c] = "none"
    /\ workflow' = [workflow EXCEPT ![c] = "evaluating"]
    /\ UNCHANGED <<tables, attempts, lease, signalled, call, failures>>

EvaluationAttempt(k, c) ==
    /\ workflow[c] = "evaluating" /\ lease[c] = NoCaller
    /\ Begin(k, "evaluation_activity", c, WorkerGrader, "submit", "none")
    /\ attempts' = [attempts EXCEPT ![c] = Min({@ + 1, 2})]
    /\ lease' = [lease EXCEPT ![c] = k]
    /\ UNCHANGED <<tables, workflow, signalled, failures>>

ApprovalDecided(c) ==
    /\ workflow[c] \notin {"none", "rejected", "failed", "shadow"}
    /\ c \notin signalled
    /\ signalled' = signalled \cup {c}
    /\ UNCHANGED <<tables, workflow, attempts, lease, call, failures>>

PromotionAttempt(k, c) ==
    /\ workflow[c] = "awaiting_approval" /\ c \in signalled
    /\ Begin(k, "promotion_activity", c, WorkerExecutor, "promote", "none")
    /\ workflow' = [workflow EXCEPT ![c] = "promoting"]
    /\ lease' = [lease EXCEPT ![c] = k]
    /\ UNCHANGED <<tables, attempts, signalled, failures>>

Failure == failures < MaxFailures /\ failures' = failures + 1

\* The evaluator raises: no suite, an unregistered artifact, stages out of order.
EvaluatorRaises(k) ==
    /\ call[k].pc = "trial"
    /\ Failure
    /\ Raise(k)
    /\ UNCHANGED <<tables, attempts, signalled>>

\* The process dies between two transactions.
Crash(k) ==
    /\ call[k] # Idle
    /\ Failure
    /\ Raise(k)
    /\ UNCHANGED <<tables, attempts, signalled>>

\* The workflow stops waiting for an attempt, which goes on.
AttemptTimesOut(c) ==
    /\ lease[c] # NoCaller
    /\ Failure
    /\ workflow' = [workflow EXCEPT ![c] = AfterFailure(c)]
    /\ lease' = [lease EXCEPT ![c] = NoCaller]
    /\ UNCHANGED <<tables, attempts, signalled, call>>

-----------------------------------------------------------------------------
Evaluation(k) == SubmitRead(k) \/ SubmitSave(k) \/ (\E o \in TrialOutcomes : RunTrial(k, o))
                    \/ CompleteRead(k) \/ ReadTrials(k) \/ RecordAssessment(k) \/ SaveVerdict(k)
Approval(k) == DecideRead(k) \/ DecideSave(k)
Promotion(k) == PromoteRead(k) \/ Deploy(k)
Step(k) == Evaluation(k) \/ Approval(k) \/ Promotion(k)

ApiRequest(k, c, p) == ApiEvaluate(k, c, p) \/ ApiPromote(k, c, p)
                       \/ (\E verdict \in {"approved", "rejected"} : ApiDecide(k, c, p, verdict))

Attempt(k, c) == EvaluationAttempt(k, c) \/ PromotionAttempt(k, c)

EvaluationNext ==
    \/ \E target \in Target, suite \in Suite : ProposeImprovement(target, suite)
    \/ \E c \in Candidate, p \in Principal, proposal \in proposals, suite \in Suite :
         ApiCandidate(c, p, proposal, suite)
    \/ \E k \in Caller : Step(k) \/ EvaluatorRaises(k) \/ Crash(k)
    \/ \E k \in Caller, c \in Candidate :
         Attempt(k, c) \/ (\E p \in Principal : ApiRequest(k, c, p))
    \/ \E c \in Candidate : StartWorkflow(c) \/ ApprovalDecided(c) \/ AttemptTimesOut(c)
                            \/ (\E o \in TrialOutcomes : AddTrial(c, o))

\* A request that is running goes on, and Temporal starts the attempts a workflow waits for,
\* also when the API keeps the callers busy; nobody has to make requests.
Fairness ==
    /\ \A k \in Caller : WF_evaluationVars(Step(k))
    /\ \A c \in Candidate : SF_evaluationVars(\E k \in Caller : Attempt(k, c))

EvaluationSpec == EvaluationInit /\ [][EvaluationNext]_evaluationVars /\ Fairness

-----------------------------------------------------------------------------
(* Properties.                                                              *)

Standing == [c \in Candidate |->
                CASE candidate[c].status \in {"draft", "evaluating"} -> "open"
                  [] candidate[c].status = "awaiting_approval"       -> "qualified"
                  [] candidate[c].status = "rejected"                -> "refused"
                  [] OTHER                                           -> candidate[c].status]

Gate == INSTANCE CandidateGate WITH
            standing <- Standing,
            maker    <- [c \in Candidate |-> candidate[c].generator],
            judge    <- [c \in Candidate |-> candidate[c].grader],
            approver <- [c \in Candidate |-> candidate[c].approver],
            launched <- deployments

\* However evaluations, decisions, promotions and their retries interleave, the service keeps
\* the promise of CandidateGate: generator, grader, approver and executor of a deployed
\* Candidate are pairwise different (record_evaluation, record_approval, begin_shadow), each
\* signs once, and a rejected Candidate stays rejected (_save_versioned).
GateIsKept == Gate!Spec

\* A Candidate that waits for approval, or has it, rests on a stored assessment of its own
\* Trials, signed by its grader, that met the confidence gate - although the record, the
\* Trials and the row are written in separate transactions (complete_evaluation).
QualifiedOnEvidence ==
    \A c \in Candidate :
        candidate[c].status \in {"awaiting_approval", "approved"} =>
            \E r \in records :
                /\ r.cand = c /\ r.grader = candidate[c].grader /\ r.decision = "met"
                /\ r.decision = Assess(Policy, r.sample)
                /\ \A s \in DOMAIN NoTrials : r.sample[s] <= trials[c][s]

\* A workflow that evaluates its Candidate comes to a result: Trials are bounded by the
\* attempt budget of evaluate_candidate, attempts by the retry policy, and a second attempt
\* finds the Candidate no longer a draft.
EvaluationEnds ==
    \A c \in Candidate : workflow[c] = "evaluating" ~> workflow[c] # "evaluating"
=============================================================================
