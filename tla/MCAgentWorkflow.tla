-------------------------- MODULE MCAgentWorkflow --------------------------
EXTENDS AgentWorkflow, FiniteSets

\* A case of product p that nothing is held against.
Faultless(p) ==
    [existing |-> TRUE, product |-> p, docs |-> "COMPLETE", gap |-> "SMALL", flags |-> FALSE,
     badDebt |-> "NO", turnover |-> "POSITIVE", inflow |-> TRUE, ratios |-> TRUE, rules |-> TRUE]

\* The cases that differ from one of those in at most two facts.
MCCases ==
    {c \in Case : Cardinality({f \in DOMAIN c : c[f] # Faultless(c.product)[f]}) <= 2}
=============================================================================
