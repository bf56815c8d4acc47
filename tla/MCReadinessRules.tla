--------------------------- MODULE MCReadinessRules ---------------------------
(***************************************************************************)
(* Payloads that differ from a faultless one in at most three fields, each *)
(* field with values on, beside and beyond its threshold, zero and not     *)
(* given.  With Unit = 20, 10 % of 50 is 5, 6 rounds to it and 7 does not; *)
(* 151 is 1.5 times 100 after rounding, 152 is in the middle and goes to   *)
(* the even neighbour, 153 is beyond.                                      *)
(***************************************************************************)
EXTENDS ReadinessRules, FiniteSetsExt

Faultless(p) ==
    [existing |-> TRUE, product |-> p, requested |-> 150, months |-> 12, history |-> 12,
     documents |-> Required(p), revenue |-> 50, profits |-> <<1, 1>>, taxed |-> 45,
     credit |-> 1200, account |-> 1200, inflow |-> 100, stability |-> 60, collateral |-> 20,
     conduct |-> FALSE, badDebt |-> FALSE, flags |-> FALSE,
     purpose |-> "GIVEN", noted |-> None, other |-> TRUE]

OldCodes(p) ==
    IF p = "CORPORATE_OVERDRAFT"
    THEN {"BUSINESS_LICENSE", "BANK_STATEMENTS_12M", "BCTC", "TAX_DECLARATION_Q4", "CIC_CONSENT",
          "LOAN_PURPOSE_PLAN"}
    ELSE {"BUSINESS_LICENSE", "BCTC", "TAX_DECLARATION", "CIC_CONSENT", "WORKING_CAPITAL_PLAN"}

MCCode == UNION {Required(p) \cup OldCodes(p) : p \in {"CORPORATE_OVERDRAFT", "WORKING_CAPITAL"}}

\* The values a field has besides the faultless one.
Values(p) ==
    [existing |-> <<FALSE>>, requested |-> <<151, 152, 153>>, months |-> <<None, 0, 11>>,
     history |-> <<None, 11>>,
     documents |-> <<{}, OldCodes(p), Required(p) \ {"CIC_REPORT"}>>, revenue |-> <<None, 0, 49>>,
     profits |-> << <<>>, <<1>>, <<-1, 1, 1>>, <<1, 0>> >>, taxed |-> <<None, 44, 43, 56>>,
     credit |-> <<None, 0, 1>>, account |-> <<None, 0>>, inflow |-> <<None, 0>>,
     stability |-> <<None, 58, 57>>, collateral |-> <<None, 19>>, conduct |-> <<TRUE>>,
     badDebt |-> <<None, TRUE>>, flags |-> <<TRUE>>, purpose |-> <<None, "BLANK">>,
     noted |-> <<"BLANK", "GIVEN">>, other |-> <<FALSE>>]

Products == {"CORPORATE_OVERDRAFT", "WORKING_CAPITAL"}

\* A deviation names a field and one of its values.
Deviations ==
    LET values == Values("WORKING_CAPITAL")
    IN  UNION {{f} \X DOMAIN values[f] : f \in DOMAIN values}

Deviating(p, D) ==
    LET base == Faultless(p)
        values == Values(p)
        By(f) == {d[2] : d \in {e \in D : e[1] = f}}
    IN  [f \in DOMAIN base |-> IF By(f) = {} THEN base[f] ELSE values[f][Max(By(f))]]

MCPayloads ==
    {Faultless(p) : p \in Products} \cup
    {Deviating(p, {a, b, c}) : p \in Products, a \in Deviations, b \in Deviations, c \in Deviations}
=============================================================================
