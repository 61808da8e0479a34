-------------------------- MODULE EvaluationHarness --------------------------
(***************************************************************************)
(* One Trial of a Candidate: the evaluation suite is run case by case on   *)
(* the Candidate's artifact, every output goes through the ordered stages  *)
(* of independent graders, and the repeated Trials are put before the      *)
(* confidence gate.  Constant-level.                                       *)
(*                                                                         *)
(* What the outside answers is an input: an output field matches its       *)
(* expectation or not, a model judge replies something, a reviewer has     *)
(* recorded verdicts.  Thresholds and weights are integers over a common   *)
(* denominator; the Wilson interval is inverted into integer arithmetic.   *)
(***************************************************************************)
EXTENDS Integers, Sequences, FiniteSets, FiniteSetsExt

-----------------------------------------------------------------------------
(* Grader backends: what one stage says of one case.                        *)

Graded == {"pass", "fail", "unknown", "invalid"}

Verdict(passed) == IF passed THEN "pass" ELSE "fail"

\* ExactMatchGraderBackend: `matches` tells of every expected key whether the output has it
\* with the expected value.
ExactMatch(matches) == Verdict(\A key \in DOMAIN matches : matches[key])

\* OutcomeGraderBackend: the authoritative state is read back.
OutcomeVerdict(verified) == Verdict(verified)

LlmReplies == {"garbled", "incomplete", "mistyped", "unreasoned", "verbose", "passed", "failed"}

\* LlmGraderBackend: anything but a strict verdict object with a bounded rationale is unknown.
LlmVerdict(reply) == IF reply \in {"passed", "failed"} THEN Verdict(reply = "passed") ELSE "unknown"

\* record_human_decision: the audit event of one verdict of a reviewer.
RecordedDecision(at, passed, attributable) ==
    [at |-> at, passed |-> passed, attributable |-> attributable]

\* AuditHumanDecisionSource: the newest of the case's verdicts, the later one of a tie; an
\* unreasoned or anonymous newest verdict hides the older ones.
DecisionFor(events) ==
    LET newest(i) == \A j \in DOMAIN events :
                        \/ events[j].at < events[i].at
                        \/ events[j].at = events[i].at /\ j <= i
    IN  IF events = <<>> THEN "none"
        ELSE LET latest == events[CHOOSE i \in DOMAIN events : newest(i)]
             IN  IF latest.attributable THEN Verdict(latest.passed) ELSE "none"

\* RecordedHumanGraderBackend: without a recorded decision the case stays unknown.
HumanVerdict(events) == IF DecisionFor(events) = "none" THEN "unknown" ELSE DecisionFor(events)

\* TrajectoryRule: a required or forbidden step has a name, an order rule has both.
ValidRule(rule) ==
    \/ rule.type \in {"required", "forbidden"} /\ rule.step # ""
    \/ rule.type = "order" /\ rule.before # "" /\ rule.after # ""

\* The place of a step name in a recorded path: its last occurrence.
Position(steps, name) == Max({i \in DOMAIN steps : steps[i] = name})

Violates(rule, steps) ==
    LET names == {steps[i] : i \in DOMAIN steps}
    IN  \/ rule.type = "required" /\ rule.step \notin names
        \/ rule.type = "forbidden" /\ rule.step \in names
        \/ /\ rule.type = "order" /\ rule.before \in names /\ rule.after \in names
           /\ Position(steps, rule.before) > Position(steps, rule.after)

\* TrajectoryGraderBackend: no rules pass, rules without a recording stay unknown.
TrajectoryVerdict(rules, steps) ==
    IF rules = {} THEN "pass"
    ELSE IF steps = <<>> THEN "unknown"
    ELSE Verdict(\A rule \in rules : ~Violates(rule, steps))

-----------------------------------------------------------------------------
(* The grader pipeline.                                                     *)

Priority == [deterministic |-> 0, outcome |-> 1, trajectory |-> 2, llm |-> 3, human |-> 4]

\* GraderPipeline: at least one stage, no kind twice, governance priority order.
ValidPipeline(kinds) ==
    /\ kinds # <<>>
    /\ \A i, j \in DOMAIN kinds : i < j => Priority[kinds[i]] < Priority[kinds[j]]

\* HarnessCandidateEvaluator: the stages in the order it appends them.
Stages(configured) ==
    <<"deterministic">> \o (IF "llm" \in configured THEN <<"llm">> ELSE <<>>)
                        \o (IF "trajectory" \in configured THEN <<"trajectory">> ELSE <<>>)
                        \o (IF "human" \in configured THEN <<"human">> ELSE <<>>)

\* The answer of one stage to one case.
StageVerdict(kind, case) ==
    CASE kind = "deterministic" -> ExactMatch(case.matches)
      [] kind = "llm"           -> LlmVerdict(case.reply)
      [] kind = "trajectory"    -> TrajectoryVerdict(case.rules, case.steps)
      [] kind = "human"         -> HumanVerdict(case.decisions)

\* GraderPipeline.grade: the stages answer in order until the first one that does not pass.
Grade(kinds, case) ==
    LET stopped == {i \in DOMAIN kinds : StageVerdict(kinds[i], case) # "pass"}
        last == IF stopped = {} THEN Len(kinds) ELSE Min(stopped)
    IN  [i \in 1..last |-> StageVerdict(kinds[i], case)]

-----------------------------------------------------------------------------
(* The harness.                                                             *)

\* EvaluationSuite: cases of positive weight and a threshold between zero and one.
ValidSuite(suite) ==
    /\ DOMAIN suite.weight # {} /\ suite.percent \in 0..100
    /\ \A c \in DOMAIN suite.weight : suite.weight[c] > 0

\* TrialCaseResult: only an executed subject has grades, and its output, executor, evidence
\* and environment with them; Trial: a concluded one has results of executed subjects.
Executed(case) == case.execution = "own"

\* The subject ran, the output is its own, and no stage answered unknown or invalid.
Conclusive(kinds, case) ==
    /\ Executed(case)
    /\ LET grades == Grade(kinds, case)
       IN  \A i \in DOMAIN grades : grades[i] \in {"pass", "fail"}

CasePasses(kinds, case) ==
    LET grades == Grade(kinds, case)
    IN  grades # <<>> /\ \A i \in DOMAIN grades : grades[i] = "pass"

\* EvaluationHarness.run_suite: the first case without a conclusive grade makes the whole
\* Trial invalid; a failed gating case fails it; else the passed weight decides.
RunSuite(suite, kinds, cases) ==
    LET passing == {c \in DOMAIN cases : CasePasses(kinds, cases[c])}
        weight(S) == MapThenSumSet(LAMBDA c : suite.weight[c], S)
    IN  IF \E c \in DOMAIN cases : ~Conclusive(kinds, cases[c]) THEN "invalid"
        ELSE IF \E c \in DOMAIN cases : c \in suite.gating /\ c \notin passing THEN "failed"
        ELSE IF weight(passing) * 100 >= suite.percent * weight(DOMAIN cases) THEN "passed"
        ELSE "failed"

-----------------------------------------------------------------------------
(* The confidence gate over repeated Trials.                                *)

\* Where a pass rate stands against the threshold num/den with a Wilson interval of the
\* given squared quantile zNum/zDen: -1 below, 1 at or above, 0 inside the interval.  The
\* interval is the set of rates t with n (rate - t)^2 <= z^2 t (1 - t).
Wilson(passed, valid, num, den, zNum, zDen) ==
    LET distance == den * passed - num * valid
        far == zDen * distance * distance
        spread == zNum * num * (den - num) * valid
    IN  IF distance >= 0 /\ far >= spread THEN 1
        ELSE IF distance < 0 /\ far > spread THEN -1
        ELSE 0

\* TrialConfidenceGate.assess: invalid Trials count for nothing, too few valid ones decide
\* nothing, and a straddling interval asks for more.
Assess(policy, trials) ==
    LET valid == trials.passed + trials.failed
        side == Wilson(trials.passed, valid, policy.num, policy.den, policy.zNum, policy.zDen)
    IN  IF valid < policy.minValid THEN "insufficient_sample"
        ELSE IF side = 1 THEN "met"
        ELSE IF side = -1 THEN "not_met"
        ELSE "insufficient_sample"
=============================================================================
