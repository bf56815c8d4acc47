------------------------- MODULE MCWorkflowRegistry -------------------------
EXTENDS WorkflowRegistry, TLC

CONSTANTS v1, v2, v3, h1, h2

Front == <<"EXISTING_CUSTOMER_GATE", "PRODUCT_AGENT", "DOCUMENT_COMPLETENESS", "ACCOUNT_TURNOVER">>

Template == [product |-> "CORPORATE_OVERDRAFT", nodes |-> Front \o MandatoryTail]

\* Templates without the critic, without turnover, of the other product, and
\* with a node twice.
MCDefinition ==
    {Template,
     [Template EXCEPT !.nodes = Front \o Tail(MandatoryTail)],
     [Template EXCEPT !.product = "WORKING_CAPITAL"],
     [Template EXCEPT !.nodes = Front \o Front \o MandatoryTail]}

MCSymmetry == Permutations({h1, h2}) \cup Permutations({v2, v3})
=============================================================================
