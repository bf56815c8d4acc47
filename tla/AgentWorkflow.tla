--------------------------- MODULE AgentWorkflow ---------------------------
(***************************************************************************)
(* One execution of the agent workflow over one case:                      *)
(* agent/src/nexusops_agent/workflows/runner.py with the router, the       *)
(* specialists, the critic, the citation validator and the bounded rework, *)
(* and the two ways backend/app/agent_service.py drives it.                *)
(*                                                                         *)
(*   RUN       run(): all nodes, finalize, and, if the critic wants a      *)
(*             revision, the critic once more and finalize again;          *)
(*   STEPWISE  start(), run_node() per request, finish(): the rework comes *)
(*             before the only finalize.                                   *)
(*                                                                         *)
(* What the retrieval finds, what a live model answers and whether it      *)
(* answers at all is open: every answer its schema admits is a behaviour.  *)
(***************************************************************************)
EXTENDS Naturals, Sequences, CaseFacts, SequencesExt

VARIABLES
    case,       \* WorkflowState.case
    live,       \* a reasoner is configured
    mode,       \* how the backend drives the runner
    pc,         \* what the driver does next
    artifacts,  \* the status of each node's artifact
    claims,     \* the citations an artifact makes: none, all valid, some invalid
    invalid,    \* the agents with an invalid result in citation_results
    reworks,    \* rework_count
    verdict,    \* critic_verdict
    final       \* final_status

vars == <<case, live, mode, pc, artifacts, claims, invalid, reworks, verdict, final>>

Critic == "MANDATORY_CRITIC"
Tail4 == <<Critic, "CITATION_VALIDATOR", "READINESS_RULE_ENGINE", "POLICY_GATE">>
Citing == {"PRODUCT_AGENT", "COMPLIANCE_AGENT"}

Node == {"EXISTING_CUSTOMER_GATE", "PRODUCT_AGENT", "DOCUMENT_CLASSIFIER",
         "REQUIREMENT_MATRIX", "DOCUMENT_COMPLETENESS", "ACCOUNT_TURNOVER",
         "OVERDRAFT_METRICS", "FINANCIAL_METRICS", "TAX_CONSISTENCY", "CIC_KYC_TOOLS",
         "CREDIT_AGENT", "COMPLIANCE_AGENT"} \cup ToSet(Tail4)

Status == {"PASS", "WARNING", "BLOCKED", "REVIEW_REQUIRED"}
Unresolved == {"BLOCKED", "REVIEW_REQUIRED"}
Verdicts == {"PASS", "REVISE", "ESCALATE"}

-----------------------------------------------------------------------------
\* route_case.
Route(c) ==
    <<"EXISTING_CUSTOMER_GATE", "PRODUCT_AGENT", "DOCUMENT_CLASSIFIER",
      "REQUIREMENT_MATRIX", "DOCUMENT_COMPLETENESS">>
    \o (IF c.product = "CORPORATE_OVERDRAFT" THEN <<"ACCOUNT_TURNOVER", "OVERDRAFT_METRICS">> ELSE <<>>)
    \o <<"FINANCIAL_METRICS", "TAX_CONSISTENCY", "CIC_KYC_TOOLS", "CREDIT_AGENT">>
    \o (IF c.flags THEN <<"COMPLIANCE_AGENT">> ELSE <<>>)
    \o Tail4

-----------------------------------------------------------------------------
(***************************************************************************)
(* The nodes.                                                              *)
(***************************************************************************)
Executed == {n \in Node : artifacts[n] # "NONE"}

\* Both drivers take the first node of the route that has no artifact.
IsNext(n) ==
    /\ pc = "nodes"
    /\ \E i \in DOMAIN Route(case) :
          Route(case)[i] = n /\ Executed = {Route(case)[j] : j \in 1..(i - 1)}

Store(n, status) ==
    /\ artifacts' = [artifacts EXCEPT ![n] = status]
    /\ pc' = IF n # "POLICY_GATE" THEN "nodes"
             ELSE IF mode = "STEPWISE" /\ verdict = "REVISE" THEN "rework" ELSE "finalize"

\* A node that is neither an agent with evidence nor the critic.
RunNode(n) ==
    /\ IsNext(n)
    /\ n \notin Citing \cup {Critic, "CITATION_VALIDATOR", "READINESS_RULE_ENGINE"}
    /\ Store(n, Reported(n, case))
    /\ UNCHANGED <<case, live, mode, claims, invalid, reworks, verdict, final>>

\* ProductAgent: a warning if nothing is found or the model does not answer.
RunProduct(claim, answered) ==
    /\ IsNext("PRODUCT_AGENT")
    /\ answered \in (IF live THEN BOOLEAN ELSE {TRUE})
    /\ Store("PRODUCT_AGENT", IF claim # "NONE" /\ answered THEN "PASS" ELSE "WARNING")
    /\ claims' = [claims EXCEPT !["PRODUCT_AGENT"] = claim]
    /\ UNCHANGED <<case, live, mode, invalid, reworks, verdict, final>>

\* ComplianceAgent, routed only when there is a flag.
RunCompliance(claim) ==
    /\ IsNext("COMPLIANCE_AGENT")
    /\ Store("COMPLIANCE_AGENT", Check(~case.flags))
    /\ claims' = [claims EXCEPT !["COMPLIANCE_AGENT"] = claim]
    /\ UNCHANGED <<case, live, mode, invalid, reworks, verdict, final>>

\* _validate_citations.
RunValidator ==
    /\ IsNext("CITATION_VALIDATOR")
    /\ invalid' = {a \in Citing : claims[a] = "INVALID"}
    /\ Store("CITATION_VALIDATOR", Check(invalid' = {}))
    /\ UNCHANGED <<case, live, mode, claims, reworks, verdict, final>>

\* _readiness_result repeats what the credit agent said.
RunReadiness ==
    /\ IsNext("READINESS_RULE_ENGINE")
    /\ Store("READINESS_RULE_ENGINE", artifacts["CREDIT_AGENT"])
    /\ UNCHANGED <<case, live, mode, claims, invalid, reworks, verdict, final>>

-----------------------------------------------------------------------------
(***************************************************************************)
(* The critic.                                                             *)
(***************************************************************************)
\* The critic leaves its own earlier artifact out.
Findings == {n \in Node \ {Critic} : artifacts[n] \in Unresolved} \cup invalid

\* The verdict without a model, in a state that has been reworked r times.
Baseline(r) ==
    IF Findings = {} THEN "PASS" ELSE IF r >= 1 THEN "ESCALATE" ELSE "REVISE"

Rank == [PASS |-> 0, REVISE |-> 1, ESCALATE |-> 2]

\* Mutant: the model has the last word.
LastWord(v, w) == w

Stricter(v, w) == IF Rank[v] >= Rank[w] THEN v ELSE w

\* Without a model, or when it does not answer, the baseline stands.
Judged(r) ==
    {Baseline(r)} \cup (IF live THEN {Stricter(Baseline(r), w) : w \in Verdicts} ELSE {})

RunCritic(v) ==
    /\ IsNext(Critic)
    /\ v \in Judged(reworks)
    /\ verdict' = v
    /\ Store(Critic, Check(v = "PASS"))
    /\ UNCHANGED <<case, live, mode, claims, invalid, reworks, final>>

\* Mutant: the rework is not counted before the critic runs.
ReworkUncounted(v) ==
    /\ pc = "rework"
    /\ reworks < 1
    /\ v \in Judged(reworks)
    /\ reworks' = reworks + 1
    /\ verdict' = v
    /\ artifacts' = [artifacts EXCEPT ![Critic] = Check(v = "PASS")]
    /\ pc' = "finalize"
    /\ UNCHANGED <<case, live, mode, claims, invalid, final>>

\* BoundedReworkController.apply_once with the critic as its action.
Rework(v) ==
    /\ pc = "rework"
    /\ reworks < 1
    /\ reworks' = reworks + 1
    /\ v \in Judged(reworks + 1)
    /\ verdict' = v
    /\ artifacts' = [artifacts EXCEPT ![Critic] = Check(v = "PASS")]
    /\ pc' = "finalize"
    /\ UNCHANGED <<case, live, mode, claims, invalid, final>>

FinalStatus ==
    IF artifacts["EXISTING_CUSTOMER_GATE"] \in {"NONE", "BLOCKED"} THEN "BLOCKED"
    ELSE IF \A n \in Node \ {"POLICY_GATE"} : artifacts[n] \notin Unresolved /\ verdict = "PASS"
    THEN "READY_FOR_HUMAN_REVIEW"
    ELSE "NEEDS_MORE_EVIDENCE"

Finalize ==
    /\ pc = "finalize"
    /\ final' = FinalStatus
    /\ pc' = IF mode = "RUN" /\ verdict = "REVISE" /\ reworks < 1 THEN "rework" ELSE "done"
    /\ UNCHANGED <<case, live, mode, artifacts, claims, invalid, reworks, verdict>>

\* A node raises and run() gives up.
Raise ==
    /\ mode = "RUN"
    /\ pc \in {"nodes", "rework"}
    /\ pc' = "failed"
    /\ UNCHANGED <<case, live, mode, artifacts, claims, invalid, reworks, verdict, final>>

\* A stepwise request that raises leaves the client with the state it posted:
\* nothing has happened, or, when the last request raises in its rework, the
\* last node has not.
StepRaises ==
    /\ mode = "STEPWISE"
    /\ pc = "rework"
    /\ pc' = "nodes"
    /\ artifacts' = [artifacts EXCEPT !["POLICY_GATE"] = "NONE"]
    /\ UNCHANGED <<case, live, mode, claims, invalid, reworks, verdict, final>>

-----------------------------------------------------------------------------
Init ==
    /\ case \in Cases
    /\ live \in BOOLEAN
    /\ mode \in {"RUN", "STEPWISE"}
    /\ pc = "nodes"
    /\ artifacts = [n \in Node |-> "NONE"]
    /\ claims = [a \in Citing |-> "NONE"]
    /\ invalid = {}
    /\ reworks = 0
    /\ verdict = "PENDING"
    /\ final = "IN_PROGRESS"

Next ==
    \/ \E n \in Node : RunNode(n)
    \/ \E claim \in {"NONE", "VALID", "INVALID"} :
          RunCompliance(claim) \/ \E answered \in BOOLEAN : RunProduct(claim, answered)
    \/ RunValidator
    \/ RunReadiness
    \/ \E v \in Verdicts : RunCritic(v) \/ Rework(v)
    \/ Finalize
    \/ Raise
    \/ StepRaises

Spec == Init /\ [][Next]_vars
-----------------------------------------------------------------------------
(***************************************************************************)
(* Properties.                                                             *)
(***************************************************************************)
\* The workflow state has the fields and literals of contracts/state.py.
TypeOK ==
    /\ case \in Cases /\ live \in BOOLEAN /\ mode \in {"RUN", "STEPWISE"}
    /\ pc \in {"nodes", "rework", "finalize", "done", "failed"}
    /\ artifacts \in [Node -> Status \cup {"NONE"}]
    /\ claims \in [Citing -> {"NONE", "VALID", "INVALID"}]
    /\ invalid \subseteq Citing
    /\ reworks \in 0..1
    /\ verdict \in Verdicts \cup {"PENDING"}
    /\ final \in {"IN_PROGRESS", "READY_FOR_HUMAN_REVIEW", "NEEDS_MORE_EVIDENCE", "BLOCKED"}

\* Whatever the route leaves out, the retrieval finds and the model answers,
\* a case is only ever called ready that has nothing against it, and with
\* citations that were all valid.
ReadyMeansClean ==
    final = "READY_FOR_HUMAN_REVIEW" =>
        Clean(case) /\ \A a \in Citing : claims[a] # "INVALID"

\* "Never downgrade deterministic blockers": a blocker that the critic had
\* before it keeps the verdict off PASS, on the first pass and on the second.
BlockersStand ==
    artifacts[Critic] # "NONE" /\ (\E n \in Node \ ToSet(Tail4) : artifacts[n] \in Unresolved)
        => verdict # "PASS"

\* Both ways of driving the runner give the decision the facts call for, and
\* give it once: the detail implements Verdict.
Decision == INSTANCE Verdict WITH
    misquoted <- \E a \in Citing : claims[a] = "INVALID",
    decision <- IF pc = "done" THEN [final |-> final, critic |-> verdict]
                ELSE [final |-> "IN_PROGRESS", critic |-> "PENDING"]

ImplementsVerdict == Decision!Spec
=============================================================================
