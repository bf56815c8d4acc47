----------------------------- MODULE CaseFacts -----------------------------
(***************************************************************************)
(* What the agent reads of a case (CaseContext), down to what its rules    *)
(* tell apart.                                                             *)
(***************************************************************************)

Product == {"CORPORATE_OVERDRAFT", "WORKING_CAPITAL"}

\* The amounts are abstracted to the outcome of the comparison made with them:
\* gap is the difference of the two revenues against 10 % ("EDGE": above it, but
\* not after rounding), inflow says whether the average inflow is positive,
\* ratios whether any other metric can be computed and rules whether the pack's
\* remaining thresholds are met.  ReadinessRules checks that nothing else counts.
Case == [existing : BOOLEAN,
         product  : Product,
         docs     : {"NONE", "PARTIAL", "COMPLETE"},
         gap      : {"UNKNOWN", "SMALL", "EDGE", "LARGE"},
         flags    : BOOLEAN,
         badDebt  : {"UNKNOWN", "NO", "YES"},
         turnover : {"UNKNOWN", "ZERO", "POSITIVE"},
         inflow   : BOOLEAN,
         ratios   : BOOLEAN,
         rules    : BOOLEAN]

CONSTANT Cases   \* the cases that are looked at
ASSUME CasesAreCases == Cases \subseteq Case

\* A case nothing is held against: what a credit officer means by "ready".
Clean(c) ==
    /\ c.existing
    /\ c.docs = "COMPLETE"
    /\ c.gap = "SMALL"
    /\ ~c.flags
    /\ c.badDebt # "YES"
    /\ c.rules
    /\ c.product = "CORPORATE_OVERDRAFT" =>
          c.badDebt = "NO" /\ c.turnover = "POSITIVE" /\ c.inflow

-----------------------------------------------------------------------------
(***************************************************************************)
(* What the deterministic rules and nodes make of a case.                  *)
(***************************************************************************)
\* The rules of the product's pack; a value that is not known meets no rule.
RulesPass(c) ==
    /\ c.gap \in {"SMALL", "EDGE"} /\ c.rules
    /\ c.product = "CORPORATE_OVERDRAFT" =>
          c.badDebt = "NO" /\ c.turnover = "POSITIVE" /\ c.inflow

\* ReadinessRuleEngine.assess as CREDIT_AGENT reports it.
Assessed(c) ==
    IF ~c.existing THEN "BLOCKED"
    ELSE IF c.docs = "COMPLETE" /\ RulesPass(c) THEN "PASS" ELSE "REVIEW_REQUIRED"

Check(ok) == IF ok THEN "PASS" ELSE "REVIEW_REQUIRED"

\* Mutant: bad debt is left to the rules, which working capital has none for.
FlagsOnly(c) == Check(~c.flags)

\* _cic_kyc_tools.
CicKyc(c) == Check(c.badDebt # "YES" /\ ~c.flags)

\* The statuses a deterministic node can report of case c.
Reported(n, c) ==
    CASE n = "EXISTING_CUSTOMER_GATE" -> IF c.existing THEN "PASS" ELSE "BLOCKED"
      [] n = "DOCUMENT_CLASSIFIER" -> Check(c.docs # "NONE")
      [] n = "DOCUMENT_COMPLETENESS" -> Check(~c.existing \/ c.docs = "COMPLETE")
      [] n = "ACCOUNT_TURNOVER" -> Check(c.turnover # "UNKNOWN")
      [] n = "OVERDRAFT_METRICS" -> Check(c.turnover # "UNKNOWN" /\ c.inflow)
      [] n = "FINANCIAL_METRICS" ->
            Check(c.ratios \/ c.gap # "UNKNOWN" \/ c.turnover # "UNKNOWN" \/ c.inflow)
      [] n = "TAX_CONSISTENCY" -> Check(c.gap = "SMALL")
      [] n = "CIC_KYC_TOOLS" -> CicKyc(c)
      [] n = "CREDIT_AGENT" -> Assessed(c)
      [] OTHER -> "PASS"
=============================================================================
