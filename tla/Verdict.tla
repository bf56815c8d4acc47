------------------------------ MODULE Verdict ------------------------------
(***************************************************************************)
(* What the agent workflow promises to whoever asks for an assessment: one *)
(* decision, made from the facts of the case, which a language model can   *)
(* make stricter and never milder.                                         *)
(***************************************************************************)
EXTENDS CaseFacts

VARIABLES
    case,      \* the facts
    live,      \* a language model takes part
    misquoted, \* some citation of the assessment does not hold
    decision   \* the final status and the critic's verdict, or Pending

vars == <<case, live, misquoted, decision>>

Pending == [final |-> "IN_PROGRESS", critic |-> "PENDING"]

Init ==
    /\ case \in Cases
    /\ live \in BOOLEAN
    /\ misquoted = FALSE
    /\ decision = Pending

\* The decisions that are right for a case, with a model (l) or without, and
\* with a citation that does not hold (q) or without.
Right(c, l, q) ==
    IF ~c.existing THEN {[final |-> "BLOCKED", critic |-> "ESCALATE"]}
    ELSE IF ~Clean(c) THEN {[final |-> "NEEDS_MORE_EVIDENCE", critic |-> "ESCALATE"]}
    ELSE IF q
    THEN [final : {"NEEDS_MORE_EVIDENCE"}, critic : IF l THEN {"PASS", "ESCALATE"} ELSE {"PASS"}]
    ELSE {[final |-> "READY_FOR_HUMAN_REVIEW", critic |-> "PASS"]}
         \cup IF l THEN [final : {"NEEDS_MORE_EVIDENCE"}, critic : {"REVISE", "ESCALATE"}] ELSE {}

Decide ==
    /\ decision = Pending
    /\ decision' \in Right(case, live, misquoted)
    /\ UNCHANGED <<case, live, misquoted>>

\* An agent cites what is not approved, before the decision.
Misquote ==
    /\ decision = Pending
    /\ misquoted' = TRUE
    /\ UNCHANGED <<case, live, decision>>

Spec == Init /\ [][Decide \/ Misquote]_vars
=============================================================================
