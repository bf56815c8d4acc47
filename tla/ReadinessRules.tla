---------------------------- MODULE ReadinessRules ----------------------------
(***************************************************************************)
(* The deterministic readiness rules of the agent, with their arithmetic:  *)
(* CaseContext's normalisation (agent/contracts/case.py), the metrics      *)
(* and ReadinessRuleEngine (agent/nodes/readiness_rules.py), the nodes     *)
(* computed from the same case (agent/workflows/runner.py) and the two     *)
(* rule packs (agent/configs/products).                                    *)
(*                                                                         *)
(* A case is posted, stored in the cases table and read back before it is  *)
(* assessed; both times it is normalised.  Amounts are integers, ratios    *)
(* are exact fractions until the code rounds them.                         *)
(***************************************************************************)
EXTENDS Integers, Sequences, FiniteSets

CONSTANTS
    None,        \* a field that is not given
    Code,        \* the codes of documents; all strings in the code
    Unit,        \* metrics are rounded to multiples of 1/Unit (1000000 in the code)
    MinRevenue,  \* OD_REVENUE_MIN (10000000000 VND)
    Payloads     \* the cases that are posted

\* The thresholds 0.1, 0.6 and 1.5 are multiples of 1/Unit.
ASSUME UnitHoldsThresholds == Unit \in Nat \ {0} /\ Unit % 10 = 0

Given(S) == S \cup {None}

\* purpose is the product's own (loan_purpose, overdraft_purpose), noted the
\* one in the metadata; "BLANK" is white space.  stability and collateral are
\* in hundredths.  conduct and flags say whether the list has an entry, other
\* whether any of the remaining metrics can be computed.
Payload == [existing : BOOLEAN, product : {"CORPORATE_OVERDRAFT", "WORKING_CAPITAL"},
            requested : Nat \ {0}, months : Given(Nat), history : Given(Nat),
            documents : SUBSET Code, revenue : Given(Nat), profits : Seq(Int),
            taxed : Given(Nat), credit : Given(Nat), account : Given(Nat),
            inflow : Given(Nat), stability : Given(Nat), collateral : Given(Nat),
            conduct : BOOLEAN, badDebt : Given(BOOLEAN), flags : BOOLEAN,
            purpose : Given({"BLANK", "GIVEN"}), noted : Given({"BLANK", "GIVEN"}),
            other : BOOLEAN]

ASSUME PayloadsArePayloads == Payloads \subseteq Payload
ASSUME NoneIsNoValue ==
    /\ None \notin Nat /\ None \notin Nat \X Nat
    /\ None \notin BOOLEAN /\ None \notin {"BLANK", "GIVEN"}

VARIABLES
    payload,  \* the case as it is posted
    case,     \* the CaseContext made of it
    pc,
    status    \* ReadinessAssessment.status

vars == <<payload, case, pc, status>>

-----------------------------------------------------------------------------
(***************************************************************************)
(* normalize_legacy_payload.                                               *)
(***************************************************************************)
Canonical(d) ==
    CASE d = "BCTC" -> "FINANCIAL_STATEMENTS_2Y"
      [] d \in {"TAX_DECLARATION", "TAX_DECLARATION_Q4"} -> "TAX_RETURNS_2Y"
      [] d = "CIC_CONSENT" -> "CIC_REPORT"
      [] d = "BUSINESS_LICENSE" -> "BUSINESS_REGISTRATION"
      [] d = "LOAN_PURPOSE_PLAN" -> "OVERDRAFT_REQUEST"
      [] OTHER -> d

ASSUME CodesAreCodes == \A d \in Code : Canonical(d) \in Code

Or(v, w) == IF v = None THEN w ELSE v

\* Mutant: the document codes stay as they are posted.
NormalisedCodes(p) ==
    [p EXCEPT !.purpose = Or(p.purpose, p.noted), !.credit = Or(p.credit, p.account),
              !.history = Or(p.history, p.months)]

Normalised(p) ==
    [p EXCEPT !.documents = {Canonical(d) : d \in p.documents},
              !.purpose = Or(p.purpose, p.noted),
              !.credit = Or(p.credit, p.account),
              !.history = Or(p.history, p.months)]

\* relationship_months has the default 0, which the normalisation does not see
\* until the case is read back.
Validated(p) == [Normalised(p) EXCEPT !.months = Or(p.months, 0)]

Required(product) ==
    IF product = "CORPORATE_OVERDRAFT"
    THEN {"BUSINESS_REGISTRATION", "BANK_STATEMENTS_12M", "FINANCIAL_STATEMENTS_2Y",
          "TAX_RETURNS_2Y", "CIC_REPORT", "OVERDRAFT_REQUEST"}
    ELSE {"BUSINESS_REGISTRATION", "FINANCIAL_STATEMENTS_2Y", "TAX_RETURNS_2Y",
          "CIC_REPORT", "WORKING_CAPITAL_PLAN"}

Missing(c) == Required(c.product) \ c.documents

(***************************************************************************)
(* financial_metrics.  A fraction n/d is the pair <<n, d>>.                *)
(***************************************************************************)
\* round() in units of 1/Unit; half a unit goes to the even neighbour.
Rounded(n, d) ==
    LET q == (2 * Unit * n + d) \div (2 * d)
    IN  IF 2 * Unit * n + d = 2 * d * q /\ q % 2 = 1 THEN q - 1 ELSE q

\* Python's "or": a credit turnover of 0 counts as not given.
Turnover(c) == IF c.credit \in {None, 0} THEN c.account ELSE c.credit

Inflow(c) ==
    IF c.inflow # None THEN <<c.inflow, 1>>
    ELSE IF Turnover(c) # None THEN <<Turnover(c), 12>> ELSE None

HasInflow(c) == Inflow(c) # None /\ Inflow(c)[1] > 0

Distance(a, b) == IF a > b THEN a - b ELSE b - a

\* financial_tax_gap
HasGap(c) == c.revenue \notin {None, 0} /\ c.taxed # None
Gap(c) == <<Distance(c.revenue, c.taxed), c.revenue>>

(***************************************************************************)
(* _field_value and _evaluate, rule by rule.                               *)
(***************************************************************************)
Judge(known, holds) == IF ~known THEN "UNKNOWN" ELSE IF holds THEN "PASS" ELSE "FAIL"

\* Mutant: the rule looks at the gap as TAX_CONSISTENCY does.
GapUnrounded(c) == Judge(HasGap(c), 10 * Gap(c)[1] <= Gap(c)[2])

GapRule(c) == Judge(HasGap(c), 10 * Rounded(Gap(c)[1], Gap(c)[2]) <= Unit)

PurposeRule(c) == Judge(c.purpose # None, c.purpose = "GIVEN")

\* A turnover that is no metric is looked up in the case, where it may be 0.
TurnoverRule(c) ==
    IF Turnover(c) # None THEN Judge(TRUE, Turnover(c) > 0) ELSE Judge(c.credit # None, FALSE)

InflowRule(c) == Judge(Inflow(c) # None, Rounded(Inflow(c)[1], Inflow(c)[2]) > 0)

LimitRule(c) ==
    Judge(HasInflow(c),
          2 * Rounded(c.requested * Inflow(c)[2], Inflow(c)[1]) <= 3 * Unit)

ProfitRule(c) ==
    Judge(Len(c.profits) >= 2,
          \A i \in {Len(c.profits) - 1, Len(c.profits)} : c.profits[i] > 0)

\* The outcomes of the rules that CaseFacts sums up as "rules".
OtherRules(c) ==
    IF c.product = "CORPORATE_OVERDRAFT"
    THEN {Judge(c.history # None, c.history >= 12),
          ProfitRule(c),
          LimitRule(c),
          Judge(c.stability # None, 10 * Rounded(c.stability, 100) >= 6 * Unit),
          Judge(TRUE, ~c.conduct),
          PurposeRule(c),
          Judge(c.revenue # None, c.revenue >= MinRevenue)}
    ELSE {PurposeRule(c), Judge(c.collateral # None, c.collateral >= 20)}

Outcomes(c) ==
    OtherRules(c) \cup {GapRule(c)} \cup
    IF c.product = "CORPORATE_OVERDRAFT"
    THEN {Judge(c.badDebt # None, c.badDebt = FALSE), TurnoverRule(c), InflowRule(c)}
    ELSE {}

\* Mutant: what is not known is not held against the case.
StatusOfKnown(c) ==
    IF ~c.existing THEN "BLOCKED_OUT_OF_SCOPE"
    ELSE IF Missing(c) # {} \/ "FAIL" \in Outcomes(c) THEN "NEEDS_MORE_EVIDENCE"
    ELSE "READY_FOR_HUMAN_REVIEW"

\* ReadinessRuleEngine.assess
StatusOf(c) ==
    IF ~c.existing THEN "BLOCKED_OUT_OF_SCOPE"
    ELSE IF Missing(c) # {} \/ Outcomes(c) \cap {"FAIL", "UNKNOWN"} # {} THEN "NEEDS_MORE_EVIDENCE"
    ELSE "READY_FOR_HUMAN_REVIEW"

-----------------------------------------------------------------------------
Init ==
    /\ payload \in Payloads
    /\ case = Validated(payload)
    /\ pc = "posted"
    /\ status = "NONE"

\* ReadinessService.create stores the columns, case_context_from_record makes
\* a case of them again.
StoreAndRead ==
    /\ pc = "posted"
    /\ case' = Validated(case)
    /\ pc' = "read"
    /\ UNCHANGED <<payload, status>>

Assess ==
    /\ pc = "read"
    /\ status' = StatusOf(case)
    /\ pc' = "assessed"
    /\ UNCHANGED <<payload, case>>

Next == StoreAndRead \/ Assess

Spec == Init /\ [][Next]_vars
-----------------------------------------------------------------------------
(***************************************************************************)
(* What the bank asks for, said of the payload: which papers and figures   *)
(* there have to be, and how far a figure may lie beyond its threshold in  *)
(* units of half the last digit (s = 0: not at all).                       *)
(***************************************************************************)
\* n/d is at most, or at least, a/b.
AtMost(n, d, a, b, s) == 2 * Unit * b * n <= (2 * Unit * a + s * b) * d
AtLeast(n, d, a, b, s) == 2 * Unit * b * n >= (2 * Unit * a - s * b) * d

\* A figure that is given, or else the one it is taken from.
Some(v, w, P(_)) ==
    \/ v # None /\ P(v)
    \/ v = None /\ w # None /\ P(w)

ALongTime(v) == v >= 12
IsGiven(v) == v = "GIVEN"

\* Money has passed through the account; a credit turnover of 0 is made up
\* for by the turnover of the account.
HasTurnover(p) == \E v \in {p.credit, p.account} \ {None} : v > 0
TurnoverOf(p) == IF p.credit # None /\ p.credit > 0 THEN p.credit ELSE p.account

InflowWithin(p, s) ==
    IF p.inflow # None
    THEN p.inflow > 0 /\ AtMost(p.requested, p.inflow, 3, 2, s)
    ELSE AtMost(12 * p.requested, TurnoverOf(p), 3, 2, s)

OverdraftMet(p, s) ==
    /\ Some(p.history, p.months, ALongTime)
    /\ Len(p.profits) >= 2 /\ p.profits[Len(p.profits)] > 0 /\ p.profits[Len(p.profits) - 1] > 0
    /\ p.badDebt # None /\ ~p.badDebt
    /\ HasTurnover(p) /\ InflowWithin(p, s)
    /\ p.stability # None /\ AtLeast(p.stability, 100, 3, 5, s)
    /\ ~p.conduct
    /\ p.revenue # None /\ p.revenue >= MinRevenue

CapitalMet(p) == p.collateral # None /\ p.collateral >= 20

Met(p, s) ==
    /\ p.existing
    /\ \A d \in Required(p.product) : \E e \in p.documents : Canonical(e) = d
    /\ Some(p.purpose, p.noted, IsGiven)
    /\ p.revenue # None /\ p.revenue > 0 /\ p.taxed # None
    /\ AtMost(Distance(p.revenue, p.taxed), p.revenue, 1, 10, s)
    /\ IF p.product = "CORPORATE_OVERDRAFT" THEN OverdraftMet(p, s) ELSE CapitalMet(p)

\* A case is only assessed as ready if every paper and figure is there and
\* within its threshold, up to half a digit of the rounding: nothing that is
\* missing, zero in a denominator, or given a second time elsewhere counts.
ReadyMeansMet == status = "READY_FOR_HUMAN_REVIEW" => Met(payload, 1)

\* A case that meets every threshold exactly is assessed as ready, whatever
\* codes its papers have and however often it is stored and read: neither
\* the rounding nor the normalisation turns it away.
MetMeansReady == pc = "assessed" /\ Met(payload, 0) => status = "READY_FOR_HUMAN_REVIEW"

(***************************************************************************)
(* The nodes, and the abstraction AgentWorkflow works with.                *)
(***************************************************************************)
Check(ok) == IF ok THEN "PASS" ELSE "REVIEW_REQUIRED"

\* The deterministic nodes of the runner on a case.
NodeStatus(c) ==
    [EXISTING_CUSTOMER_GATE |-> IF c.existing THEN "PASS" ELSE "BLOCKED",
     DOCUMENT_CLASSIFIER |-> Check(c.documents # {}),
     DOCUMENT_COMPLETENESS |-> Check(~c.existing \/ Missing(c) = {}),
     ACCOUNT_TURNOVER |-> Check(Turnover(c) # None),
     OVERDRAFT_METRICS |-> Check(Turnover(c) # None /\ HasInflow(c)),
     FINANCIAL_METRICS |->
        Check(Turnover(c) # None \/ Inflow(c) # None \/ c.stability # None \/ HasGap(c) \/ c.other),
     TAX_CONSISTENCY |-> Check(HasGap(c) /\ 10 * Gap(c)[1] <= Gap(c)[2]),
     CIC_KYC_TOOLS |-> Check(c.badDebt \in {None, FALSE} /\ ~c.flags),
     CREDIT_AGENT |-> CASE StatusOf(c) = "BLOCKED_OUT_OF_SCOPE" -> "BLOCKED"
                        [] StatusOf(c) = "READY_FOR_HUMAN_REVIEW" -> "PASS"
                        [] OTHER -> "REVIEW_REQUIRED"]

Agent == INSTANCE CaseFacts WITH Cases <- {}

\* What AgentWorkflow keeps of a case.
Facts(c) ==
    [existing |-> c.existing,
     product |-> c.product,
     docs |-> CASE c.documents = {} -> "NONE" [] Missing(c) = {} -> "COMPLETE" [] OTHER -> "PARTIAL",
     gap |-> IF ~HasGap(c) THEN "UNKNOWN"
             ELSE IF 10 * Gap(c)[1] <= Gap(c)[2] THEN "SMALL"
             ELSE IF 10 * Rounded(Gap(c)[1], Gap(c)[2]) <= Unit THEN "EDGE"
             ELSE "LARGE",
     flags |-> c.flags,
     badDebt |-> CASE c.badDebt = None -> "UNKNOWN" [] c.badDebt = TRUE -> "YES" [] OTHER -> "NO",
     turnover |-> CASE Turnover(c) = None -> "UNKNOWN" [] Turnover(c) = 0 -> "ZERO" [] OTHER -> "POSITIVE",
     inflow |-> HasInflow(c),
     ratios |-> c.other \/ c.stability # None \/ Inflow(c) # None,
     rules |-> OtherRules(c) \subseteq {"PASS"}]

\* AgentWorkflow looks at nothing but these facts.  They are enough: each
\* deterministic node, and the credit agent with the whole rule pack, reports
\* of the figures what AgentWorkflow says it reports of the facts.
FactsAreFaithful ==
    pc = "assessed" =>
        /\ Facts(case) \in Agent!Case
        /\ \A n \in DOMAIN NodeStatus(case) : Agent!Reported(n, Facts(case)) = NodeStatus(case)[n]
=============================================================================
