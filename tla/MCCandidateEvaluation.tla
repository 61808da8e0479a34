----------------------- MODULE MCCandidateEvaluation -----------------------
(***************************************************************************)
(* An instance of CandidateEvaluation for TLC.                             *)
(***************************************************************************)
EXTENDS CandidateEvaluation, TLC

CONSTANTS g, h, wg, we

\* Half of the Trials must pass.  At 60% confidence a lone Trial decides, one of each kind
\* leaves the matter open, and the activity has a budget of two.
HalfPasses == [num |-> 1, den |-> 2, minValid |-> 1, zNum |-> 7083, zDen |-> 10000]

\* A gating case of a third of the weight and an ordinary one.
TwoCases == [weight |-> [gate |-> 1, other |-> 2], gating |-> {"gate"}, percent |-> 60]

SearchFirst == [type |-> "order", before |-> "search", after |-> "answer", step |-> ""]
Approves == RecordedDecision(1, TRUE, TRUE)
Refuses == RecordedDecision(2, FALSE, TRUE)
Anonymous == RecordedDecision(3, TRUE, FALSE)

CaseAnswers ==
    [execution : {"own", "other"}, matches : [{"result"} -> BOOLEAN],
     reply : {"garbled", "passed", "failed"},
     rules : {{}, {SearchFirst}},
     steps : {<<>>, <<"search", "answer">>, <<"search", "answer", "search">>},
     decisions : {<<>>, <<Approves>>, <<Refuses, Approves>>, <<Approves, Anonymous>>}]

\* What one Trial can come to, over every valid configuration of the grader stages.
WhatTrialsShow ==
    UNION {{RunSuite(TwoCases, Stages(configured), answers) :
              answers \in [{"gate", "other"} ->
                             {a \in CaseAnswers :
                                /\ "llm" \notin configured => a.reply = "passed"
                                /\ "human" \notin configured => a.decisions = <<>>
                                /\ "trajectory" \notin configured => a.rules = {} /\ a.steps = <<>>}]} :
           configured \in {s \in SUBSET {"llm", "trajectory", "human"} : ValidPipeline(Stages(s))}}

ASSUME OutcomesAssumption ==
    ValidSuite(TwoCases) /\ ValidRule(SearchFirst) /\ TrialOutcomes = WhatTrialsShow
=============================================================================
