------------------------ MODULE AgentWorkflowProofs ------------------------
(***************************************************************************)
(* Proofs about AgentWorkflow, for every set of cases, both ways of        *)
(* driving the runner, and everything retrieval and model may answer.      *)
(*                                                                         *)
(* What a node's predecessors on the route are decides what its artifact   *)
(* is made from, so the proofs start with the route.  The inductive        *)
(* invariant says how far the run has come, what the artifacts so far say  *)
(* of the case and which verdicts the critic may have reached.             *)
(*                                                                         *)
(* The second part proves ModelCalls, the request of one agent, for every  *)
(* registry, number of hits and answer of the provider.                    *)
(***************************************************************************)
EXTENDS AgentWorkflow, ModelCalls, SequenceTheorems, TLAPS

Validator == "CITATION_VALIDATOR"
Readiness == "READINESS_RULE_ENGINE"
Gate == "POLICY_GATE"

(***************************************************************************)
(* The route, taken apart.                                                 *)
(***************************************************************************)
Elems(s) == {s[i] : i \in 1..Len(s)}

\* Element n of s comes after the elements in X.
After(s, n, X) == \E i \in 1..Len(s) : s[i] = n /\ X = {s[j] : j \in 1..(i - 1)}

NodeName == {"EXISTING_CUSTOMER_GATE", "PRODUCT_AGENT", "DOCUMENT_CLASSIFIER",
             "REQUIREMENT_MATRIX", "DOCUMENT_COMPLETENESS", "ACCOUNT_TURNOVER",
             "OVERDRAFT_METRICS", "FINANCIAL_METRICS", "TAX_CONSISTENCY", "CIC_KYC_TOOLS",
             "CREDIT_AGENT", "COMPLIANCE_AGENT", Critic, Validator, Readiness, Gate}

\* A piece of a route.
Piece(s) == s \in Seq(NodeName)

LEMMA AfterConcat ==
    ASSUME NEW s, NEW t, Piece(s), Piece(t), NEW n, NEW X, After(s \o t, n, X)
    PROVE  \/ After(s, n, X)
           \/ \E Y : After(t, n, Y) /\ X = Elems(s) \cup Y
<1>1. PICK i \in 1..Len(s \o t) : (s \o t)[i] = n /\ X = {(s \o t)[j] : j \in 1..(i - 1)}
  BY DEF After
<1>2. /\ Len(s \o t) = Len(s) + Len(t) /\ Len(s) \in Nat /\ Len(t) \in Nat
      /\ \A j \in 1..(Len(s) + Len(t)) : (s \o t)[j] = IF j <= Len(s) THEN s[j] ELSE t[j - Len(s)]
  BY ConcatProperties DEF Piece
<1>3. CASE i <= Len(s)
  <2>1. s[i] = n /\ i \in 1..Len(s)
    BY <1>1, <1>2, <1>3
  <2>2. X = {s[j] : j \in 1..(i - 1)}
    BY <1>1, <1>2, <1>3
  <2>3. QED
    BY <2>1, <2>2 DEF After
<1>4. CASE i > Len(s)
  <2> DEFINE k == i - Len(s)
             Y == {t[j] : j \in 1..(k - 1)}
  <2>1. k \in 1..Len(t) /\ t[k] = n
    BY <1>1, <1>2, <1>4
  <2>2. ASSUME NEW x \in X PROVE x \in Elems(s) \cup Y
    <3>1. PICK j \in 1..(i - 1) : x = (s \o t)[j]
      BY <1>1
    <3>2. CASE j <= Len(s)
      BY <1>2, <1>4, <3>1, <3>2 DEF Elems
    <3>3. CASE j > Len(s)
      <4>1. j - Len(s) \in 1..(k - 1) /\ x = t[j - Len(s)]
        BY <1>2, <1>4, <3>1, <3>3
      <4>2. QED
        BY <4>1
    <3>4. QED
      BY <1>2, <3>2, <3>3
  <2>3. ASSUME NEW x \in Elems(s) PROVE x \in X
    <3>1. PICK j \in 1..Len(s) : x = s[j]
      BY <2>3 DEF Elems
    <3>2. j \in 1..(i - 1) /\ (s \o t)[j] = x
      BY <1>2, <1>4, <3>1
    <3>3. QED
      BY <1>1, <3>2
  <2>4. ASSUME NEW x \in Y PROVE x \in X
    <3>1. PICK j \in 1..(k - 1) : x = t[j]
      BY <2>4
    <3>2. j + Len(s) \in 1..(i - 1) /\ (s \o t)[j + Len(s)] = x
      BY <1>2, <1>4, <3>1
    <3>3. QED
      BY <1>1, <3>2
  <2>5. X = Elems(s) \cup Y
    BY <2>2, <2>3, <2>4
  <2>6. After(t, n, Y)
    BY <2>1 DEF After
  <2>7. QED
    BY <2>5, <2>6
<1>5. i <= Len(s) \/ i > Len(s)
  BY <1>1, <1>2
<1>6. QED
  BY <1>3, <1>4, <1>5, Zenon

LEMMA ElemsConcat ==
    ASSUME NEW s, NEW t, Piece(s), Piece(t)
    PROVE  Elems(s \o t) = Elems(s) \cup Elems(t) /\ Piece(s \o t)
<1>1. /\ Piece(s \o t)
      /\ Len(s \o t) = Len(s) + Len(t) /\ Len(s) \in Nat /\ Len(t) \in Nat
      /\ \A j \in 1..(Len(s) + Len(t)) : (s \o t)[j] = IF j <= Len(s) THEN s[j] ELSE t[j - Len(s)]
  BY ConcatProperties DEF Piece
<1>2. ASSUME NEW x \in Elems(s \o t) PROVE x \in Elems(s) \cup Elems(t)
  <2>1. PICK j \in 1..(Len(s) + Len(t)) : x = (s \o t)[j]
    BY <1>1, <1>2 DEF Elems
  <2>2. CASE j <= Len(s)
    BY <1>1, <2>1, <2>2 DEF Elems
  <2>3. CASE j > Len(s)
    <3>1. j - Len(s) \in 1..Len(t) /\ x = t[j - Len(s)]
      BY <1>1, <2>1, <2>3
    <3>2. QED
      BY <3>1 DEF Elems
  <2>4. QED
    BY <1>1, <2>2, <2>3
<1>3. ASSUME NEW x \in Elems(s) PROVE x \in Elems(s \o t)
  <2>1. PICK j \in 1..Len(s) : x = s[j]
    BY <1>3 DEF Elems
  <2>2. j \in 1..Len(s \o t) /\ (s \o t)[j] = x
    BY <1>1, <2>1
  <2>3. QED
    BY <2>2 DEF Elems
<1>4. ASSUME NEW x \in Elems(t) PROVE x \in Elems(s \o t)
  <2>1. PICK j \in 1..Len(t) : x = t[j]
    BY <1>4 DEF Elems
  <2>2. j + Len(s) \in 1..Len(s \o t) /\ (s \o t)[j + Len(s)] = x
    BY <1>1, <2>1
  <2>3. QED
    BY <2>2 DEF Elems
<1>5. QED
  BY <1>1, <1>2, <1>3, <1>4

\* The nodes of the route that the critic judges, in its pieces.
Intake == <<"EXISTING_CUSTOMER_GATE", "PRODUCT_AGENT", "DOCUMENT_CLASSIFIER",
            "REQUIREMENT_MATRIX", "DOCUMENT_COMPLETENESS">>
Overdraft(c) == IF c.product = "CORPORATE_OVERDRAFT"
                THEN <<"ACCOUNT_TURNOVER", "OVERDRAFT_METRICS">> ELSE <<>>
Figures == <<"FINANCIAL_METRICS", "TAX_CONSISTENCY", "CIC_KYC_TOOLS", "CREDIT_AGENT">>
Flagged(c) == IF c.flags THEN <<"COMPLIANCE_AGENT">> ELSE <<>>

IntakeSet == {"EXISTING_CUSTOMER_GATE", "PRODUCT_AGENT", "DOCUMENT_CLASSIFIER",
              "REQUIREMENT_MATRIX", "DOCUMENT_COMPLETENESS"}
OverdraftSet(c) == IF c.product = "CORPORATE_OVERDRAFT"
                   THEN {"ACCOUNT_TURNOVER", "OVERDRAFT_METRICS"} ELSE {}
FiguresSet == {"FINANCIAL_METRICS", "TAX_CONSISTENCY", "CIC_KYC_TOOLS", "CREDIT_AGENT"}
FlaggedSet(c) == IF c.flags THEN {"COMPLIANCE_AGENT"} ELSE {}

Base(c) == IntakeSet \cup OverdraftSet(c) \cup FiguresSet \cup FlaggedSet(c)

\* Short sequences without repetition: what they hold, and what comes first.
LEMMA NoneAfter ==
    ASSUME NEW n, NEW X
    PROVE  Elems(<<>>) = {} /\ ~After(<<>>, n, X)
BY DEF Elems, After

LEMMA OneAfter ==
    ASSUME NEW a, NEW n, NEW X
    PROVE  /\ Elems(<<a>>) = {a}
           /\ After(<<a>>, n, X) => n = a /\ X = {}
BY DEF Elems, After

LEMMA TwoAfter ==
    ASSUME NEW a, NEW b, NEW n, NEW X
    PROVE  /\ Elems(<<a, b>>) = {a, b}
           /\ After(<<a, b>>, n, X) => (n = a /\ X = {}) \/ (n = b /\ X = {a})
BY DEF Elems, After

LEMMA FourAfter ==
    ASSUME NEW a, NEW b, NEW d, NEW e, NEW n, NEW X
    PROVE  /\ Elems(<<a, b, d, e>>) = {a, b, d, e}
           /\ After(<<a, b, d, e>>, n, X) => \/ n = a /\ X = {}
                                             \/ n = b /\ X = {a}
                                             \/ n = d /\ X = {a, b}
                                             \/ n = e /\ X = {a, b, d}
<1>1. Elems(<<a, b, d, e>>) = {a, b, d, e}
  BY DEF Elems
<1>2. ASSUME NEW i \in 1..4, X = {<<a, b, d, e>>[j] : j \in 1..(i - 1)}, <<a, b, d, e>>[i] = n
      PROVE  \/ n = a /\ X = {}
             \/ n = b /\ X = {a}
             \/ n = d /\ X = {a, b}
             \/ n = e /\ X = {a, b, d}
  <2>1. CASE i = 1
    BY <1>2, <2>1
  <2>2. CASE i = 2
    BY <1>2, <2>2
  <2>3. CASE i = 3
    BY <1>2, <2>3
  <2>4. CASE i = 4
    BY <1>2, <2>4
  <2>5. QED
    BY <2>1, <2>2, <2>3, <2>4
<1>3. QED
  BY <1>1, <1>2 DEF After

LEMMA FiveAfter ==
    ASSUME NEW a, NEW b, NEW d, NEW e, NEW f, NEW n, NEW X,
           a \notin {b, d, e, f}, b \notin {d, e, f}, d \notin {e, f}, e # f
    PROVE  /\ Elems(<<a, b, d, e, f>>) = {a, b, d, e, f}
           /\ After(<<a, b, d, e, f>>, n, X) =>
                 n \in {a, b, d, e, f} /\ X \subseteq {a, b, d, e, f} \ {n}
<1> DEFINE s == <<a, b, d, e, f>>
<1>1. Elems(s) = {a, b, d, e, f}
  BY DEF Elems
<1>2. ASSUME NEW i \in 1..5, NEW j \in 1..(i - 1) PROVE s[j] \in {a, b, d, e, f} \ {s[i]}
  OBVIOUS
<1>3. \A i \in 1..5 : s[i] \in {a, b, d, e, f}
  OBVIOUS
<1>4. Len(s) = 5
  OBVIOUS
<1> HIDE DEF s
<1>5. After(s, n, X) => n \in {a, b, d, e, f} /\ X \subseteq {a, b, d, e, f} \ {n}
  BY <1>2, <1>3, <1>4 DEF After
<1>6. QED
  BY <1>1, <1>5 DEF s

\* An element of a piece comes after others of the piece.
LEMMA Pieces ==
    ASSUME NEW c, NEW n, NEW X
    PROVE  /\ Piece(Intake) /\ Piece(Overdraft(c))
           /\ Piece(Figures) /\ Piece(Flagged(c)) /\ Piece(Tail4)
           /\ Elems(Intake) = IntakeSet /\ Elems(Overdraft(c)) = OverdraftSet(c)
           /\ Elems(Figures) = FiguresSet /\ Elems(Flagged(c)) = FlaggedSet(c)
           /\ After(Intake, n, X) => n \in IntakeSet /\ X \subseteq IntakeSet \ {n}
           /\ After(Overdraft(c), n, X) => n \in OverdraftSet(c) /\ X \subseteq OverdraftSet(c) \ {n}
           /\ After(Figures, n, X) => n \in FiguresSet /\ X \subseteq FiguresSet \ {n}
           /\ After(Flagged(c), n, X) => n \in FlaggedSet(c) /\ X \subseteq FlaggedSet(c) \ {n}
           /\ After(Tail4, n, X) =>
                 \/ n = Critic /\ X = {}
                 \/ n = Validator /\ X = {Critic}
                 \/ n = Readiness /\ X = {Critic, Validator}
                 \/ n = Gate /\ X = {Critic, Validator, Readiness}
<1>1. Piece(Intake) /\ Piece(Figures) /\ Piece(Tail4)
  BY DEF Piece, Intake, Figures, Tail4, NodeName, Validator, Readiness, Gate
<1>2. Piece(Overdraft(c)) /\ Piece(Flagged(c))
  <2>1. /\ Piece(<<>>) /\ Piece(<<"COMPLIANCE_AGENT">>)
        /\ Piece(<<"ACCOUNT_TURNOVER", "OVERDRAFT_METRICS">>)
    BY DEF Piece, NodeName
  <2>2. QED
    BY <2>1, Zenon DEF Overdraft, Flagged
<1>3. /\ Elems(Intake) = IntakeSet
      /\ After(Intake, n, X) => n \in IntakeSet /\ X \subseteq IntakeSet \ {n}
  BY FiveAfter, Zenon DEF Intake, IntakeSet
<1>4. /\ Elems(Overdraft(c)) = OverdraftSet(c)
      /\ After(Overdraft(c), n, X) => n \in OverdraftSet(c) /\ X \subseteq OverdraftSet(c) \ {n}
  <2>1. CASE c.product = "CORPORATE_OVERDRAFT"
    <3>1. Overdraft(c) = <<"ACCOUNT_TURNOVER", "OVERDRAFT_METRICS">>
      BY <2>1 DEF Overdraft
    <3>2. OverdraftSet(c) = {"ACCOUNT_TURNOVER", "OVERDRAFT_METRICS"}
      BY <2>1 DEF OverdraftSet
    <3>3. /\ Elems(Overdraft(c)) = OverdraftSet(c)
          /\ After(Overdraft(c), n, X) => \/ n = "ACCOUNT_TURNOVER" /\ X = {}
                                          \/ n = "OVERDRAFT_METRICS" /\ X = {"ACCOUNT_TURNOVER"}
      BY <3>1, <3>2, TwoAfter
    <3>4. QED
      BY <3>2, <3>3
  <2>2. CASE c.product # "CORPORATE_OVERDRAFT"
    BY <2>2, NoneAfter DEF Overdraft, OverdraftSet
  <2>3. QED
    BY <2>1, <2>2
<1>5. /\ Elems(Flagged(c)) = FlaggedSet(c)
      /\ After(Flagged(c), n, X) => n \in FlaggedSet(c) /\ X \subseteq FlaggedSet(c) \ {n}
  <2>1. CASE c.flags
    <3>1. Flagged(c) = <<"COMPLIANCE_AGENT">> /\ FlaggedSet(c) = {"COMPLIANCE_AGENT"}
      BY <2>1 DEF Flagged, FlaggedSet
    <3>2. QED
      BY <3>1, OneAfter
  <2>2. CASE ~c.flags
    BY <2>2, NoneAfter DEF Flagged, FlaggedSet
  <2>3. QED
    BY <2>1, <2>2
<1>6. /\ Elems(Figures) = FiguresSet
      /\ After(Figures, n, X) => n \in FiguresSet /\ X \subseteq FiguresSet \ {n}
  <2>1. /\ Elems(Figures) = FiguresSet
        /\ After(Figures, n, X) =>
              \/ n = "FINANCIAL_METRICS" /\ X = {}
              \/ n = "TAX_CONSISTENCY" /\ X = {"FINANCIAL_METRICS"}
              \/ n = "CIC_KYC_TOOLS" /\ X = {"FINANCIAL_METRICS", "TAX_CONSISTENCY"}
              \/ n = "CREDIT_AGENT" /\ X = {"FINANCIAL_METRICS", "TAX_CONSISTENCY", "CIC_KYC_TOOLS"}
    BY FourAfter DEF Figures, FiguresSet
  <2>2. QED
    BY <2>1 DEF FiguresSet
<1>7. After(Tail4, n, X) =>
            \/ n = Critic /\ X = {}
            \/ n = Validator /\ X = {Critic}
            \/ n = Readiness /\ X = {Critic, Validator}
            \/ n = Gate /\ X = {Critic, Validator, Readiness}
  BY FourAfter DEF Tail4, Validator, Readiness, Gate
<1>8. QED
  BY <1>1, <1>2, <1>3, <1>4, <1>5, <1>6, <1>7

\* What comes before a node of the route.
LEMMA RouteOrder ==
    ASSUME NEW c, NEW n, NEW X, After(Route(c), n, X)
    PROVE  \/ n \in Base(c) /\ X \subseteq Base(c) \ {n}
           \/ n = Critic /\ X = Base(c)
           \/ n = Validator /\ X = Base(c) \cup {Critic}
           \/ n = Readiness /\ X = Base(c) \cup {Critic, Validator}
           \/ n = Gate /\ X = Base(c) \cup {Critic, Validator, Readiness}
<1> DEFINE S1 == Intake \o Overdraft(c)
           S2 == S1 \o Figures
           S3 == S2 \o Flagged(c)
<1>1. After(S3 \o Tail4, n, X)
  BY DEF Route, Intake, Overdraft, Figures, Flagged
<1>2. /\ Piece(Intake) /\ Piece(Overdraft(c)) /\ Piece(Figures)
      /\ Piece(Flagged(c)) /\ Piece(Tail4)
  BY Pieces
<1>3. /\ Elems(Intake) = IntakeSet /\ Elems(Overdraft(c)) = OverdraftSet(c)
      /\ Elems(Figures) = FiguresSet /\ Elems(Flagged(c)) = FlaggedSet(c)
  BY Pieces
<1>4. Piece(S1) /\ Elems(S1) = IntakeSet \cup OverdraftSet(c)
  BY <1>2, <1>3, ElemsConcat
<1> HIDE DEF S1
<1>5. Piece(S2) /\ Elems(S2) = IntakeSet \cup OverdraftSet(c) \cup FiguresSet
  BY <1>2, <1>3, <1>4, ElemsConcat
<1>6. After(S2, n, X) =>
          After(S1, n, X) \/ \E Y : After(Figures, n, Y) /\ X = Elems(S1) \cup Y
  BY <1>2, <1>4, AfterConcat
<1> HIDE DEF S2
<1>7. Piece(S3) /\ Elems(S3) = Base(c)
  BY <1>2, <1>3, <1>5, ElemsConcat DEF Base
<1>8. After(S3, n, X) =>
          After(S2, n, X) \/ \E Y : After(Flagged(c), n, Y) /\ X = Elems(S2) \cup Y
  BY <1>2, <1>5, AfterConcat
<1> HIDE DEF S3
<1>9. After(S3, n, X) \/ \E Y : After(Tail4, n, Y) /\ X = Elems(S3) \cup Y
  BY <1>1, <1>2, <1>7, AfterConcat
<1>10. After(S1, n, X) =>
          After(Intake, n, X) \/ \E Y : After(Overdraft(c), n, Y) /\ X = Elems(Intake) \cup Y
  BY <1>2, AfterConcat DEF S1
<1>11. CASE After(S3, n, X)
  <2>1. /\ IntakeSet \cap (OverdraftSet(c) \cup FiguresSet \cup FlaggedSet(c)) = {}
        /\ OverdraftSet(c) \cap (FiguresSet \cup FlaggedSet(c)) = {}
        /\ FiguresSet \cap FlaggedSet(c) = {}
    BY DEF IntakeSet, OverdraftSet, FiguresSet, FlaggedSet
  <2>2. \A Y : /\ After(Intake, n, Y) => n \in IntakeSet /\ Y \subseteq IntakeSet \ {n}
               /\ After(Overdraft(c), n, Y) => n \in OverdraftSet(c) /\ Y \subseteq OverdraftSet(c) \ {n}
               /\ After(Figures, n, Y) => n \in FiguresSet /\ Y \subseteq FiguresSet \ {n}
               /\ After(Flagged(c), n, Y) => n \in FlaggedSet(c) /\ Y \subseteq FlaggedSet(c) \ {n}
    BY Pieces
  <2>3. QED
    BY <1>3, <1>4, <1>5, <1>6, <1>8, <1>10, <1>11, <2>1, <2>2 DEF Base
<1>12. CASE \E Y : After(Tail4, n, Y) /\ X = Elems(S3) \cup Y
  <2>1. PICK Y : After(Tail4, n, Y) /\ X = Base(c) \cup Y
    BY <1>7, <1>12
  <2>2. \/ n = Critic /\ Y = {}
        \/ n = Validator /\ Y = {Critic}
        \/ n = Readiness /\ Y = {Critic, Validator}
        \/ n = Gate /\ Y = {Critic, Validator, Readiness}
    BY <2>1, Pieces
  <2>3. QED
    BY <2>1, <2>2
<1>13. QED
  BY <1>9, <1>11, <1>12

LEMMA RouteIsPiece == ASSUME NEW c PROVE DOMAIN Route(c) = 1..Len(Route(c))
<1>1. /\ Piece(Intake) /\ Piece(Overdraft(c)) /\ Piece(Figures)
      /\ Piece(Flagged(c)) /\ Piece(Tail4)
  BY Pieces
<1>2. Piece(Intake \o Overdraft(c))
  BY <1>1, ElemsConcat
<1>3. Piece((Intake \o Overdraft(c)) \o Figures)
  BY <1>1, <1>2, ElemsConcat
<1>4. Piece(((Intake \o Overdraft(c)) \o Figures) \o Flagged(c))
  BY <1>1, <1>3, ElemsConcat
<1>5. Piece(Route(c))
  BY <1>1, <1>4, ElemsConcat DEF Route, Intake, Overdraft, Figures, Flagged
<1>6. QED
  BY <1>5 DEF Piece

LEMMA NextInOrder ==
    ASSUME NEW n, IsNext(n)
    PROVE  \/ n \in Base(case) /\ Executed \subseteq Base(case) \ {n}
           \/ n = Critic /\ Executed = Base(case)
           \/ n = Validator /\ Executed = Base(case) \cup {Critic}
           \/ n = Readiness /\ Executed = Base(case) \cup {Critic, Validator}
           \/ n = Gate /\ Executed = Base(case) \cup {Critic, Validator, Readiness}
<1>1. After(Route(case), n, Executed)
  BY RouteIsPiece DEF IsNext, After
<1>2. QED
  BY <1>1, RouteOrder

-----------------------------------------------------------------------------
(***************************************************************************)
(* The invariant.                                                          *)
(***************************************************************************)
Nodes == Base(case) \cup {Critic, Validator, Readiness, Gate}

\* The artifacts other than the critic's and the validator's say of the case
\* what a deterministic rule or an agent may say of it.
Reports(n, c) ==
    IF n = "PRODUCT_AGENT" THEN {"PASS", "WARNING"}
    ELSE IF n = "COMPLIANCE_AGENT" THEN {Check(~c.flags)}
    ELSE IF n = Readiness THEN {Assessed(c)}
    ELSE {Reported(n, c)}

Misquoting == {a \in Citing : claims[a] = "INVALID"}

Progress ==
    \/ Executed \subseteq Base(case) /\ pc \in {"nodes", "failed"}
    \/ /\ Executed \in {Base(case) \cup {Critic}, Base(case) \cup {Critic, Validator},
                        Base(case) \cup {Critic, Validator, Readiness}}
       /\ pc \in {"nodes", "failed"}
    \/ Executed = Nodes /\ pc # "nodes"

Artifacts ==
    /\ \A n \in Executed \ {Critic, Validator} : artifacts[n] \in Reports(n, case)
    /\ Critic \in Executed => artifacts[Critic] = Check(verdict = "PASS") /\ verdict \in Verdicts
    /\ Validator \in Executed => artifacts[Validator] = Check(invalid = {}) /\ invalid = Misquoting
    /\ Validator \notin Executed => invalid = {}
    /\ \A a \in Citing : claims[a] # "NONE" => a \in Executed

\* What the critic's verdict can be, before and after the rework.
FirstVerdict ==
    Critic \in Executed /\ reworks = 0 =>
        /\ ~Clean(case) => verdict = "REVISE" \/ (live /\ verdict = "ESCALATE")
        /\ Clean(case) => verdict = "PASS" \/ live

SecondVerdict ==
    reworks = 1 =>
        /\ pc \in {"finalize", "done", "failed"} /\ Critic \in Executed
        /\ ~Clean(case) \/ Misquoting # {} => verdict = "ESCALATE"
        /\ Clean(case) => live

Driver ==
    /\ pc = "rework" => verdict = "REVISE" /\ reworks = 0
    /\ pc = "finalize" /\ mode = "STEPWISE" /\ reworks = 0 => verdict # "REVISE"
    /\ final = "READY_FOR_HUMAN_REVIEW" => pc = "done" /\ Clean(case) /\ Misquoting = {}

IInv == TypeOK /\ Progress /\ Artifacts /\ FirstVerdict /\ SecondVerdict /\ Driver

-----------------------------------------------------------------------------
(***************************************************************************)
(* What the rules say of a case.                                           *)
(***************************************************************************)
LEMMA NodeNames == Node = NodeName
<1>1. Len(Tail4) = 4 /\ DOMAIN Tail4 = 1..4 /\ Tail4[1] = Critic /\ Tail4[2] = Validator
      /\ Tail4[3] = Readiness /\ Tail4[4] = Gate
  BY DEF Tail4, Validator, Readiness, Gate
<1>2. ToSet(Tail4) = {Critic, Validator, Readiness, Gate}
  BY <1>1 DEF ToSet
<1>3. QED
  BY <1>2, Zenon DEF Node, NodeName

LEMMA Names ==
    ASSUME NEW c
    PROVE  /\ Base(c) \subseteq Node /\ {Critic, Validator, Readiness, Gate} \subseteq Node
           /\ Base(c) \cap {Critic, Validator, Readiness, Gate} = {}
           /\ Critic \notin {Validator, Readiness, Gate} /\ Validator \notin {Readiness, Gate}
           /\ Readiness # Gate
           /\ {"EXISTING_CUSTOMER_GATE", "PRODUCT_AGENT", "CREDIT_AGENT"} \subseteq Base(c)
           /\ Citing \cap {Critic, Validator, Readiness, Gate} = {} /\ Citing \subseteq Node
BY NodeNames DEF NodeName, Base, IntakeSet, OverdraftSet, FiguresSet, FlaggedSet, Critic,
   Validator, Readiness, Gate, Citing

LEMMA StatusReported ==
    ASSUME NEW n, NEW c
    PROVE  /\ Check(TRUE) = "PASS" /\ Check(FALSE) = "REVIEW_REQUIRED"
           /\ \A b \in BOOLEAN : Check(b) \in Status
           /\ Assessed(c) \in Status
           /\ Reported(n, c) \in Status
<1>1. \A b : Check(b) \in Status
  BY DEF Check, Status
<1>2. Assessed(c) \in Status
  BY DEF Assessed, Status
<1>3. Reported(n, c) \in Status
  BY <1>1, <1>2 DEF Reported, Status, CicKyc
<1>4. QED
  BY <1>1, <1>2, <1>3 DEF Check

\* A case is clean exactly if no node in front of the critic has anything
\* against it: what a rule may leave out, another one says.
LEMMA CleanCase ==
    ASSUME NEW c \in Case
    PROVE  Clean(c) <=> \A n \in Base(c) : Reports(n, c) \cap Unresolved = {}
<1>1. ASSUME Clean(c), NEW n \in Base(c) PROVE Reports(n, c) \cap Unresolved = {}
  <2>1. /\ c.existing /\ c.docs = "COMPLETE" /\ c.gap = "SMALL" /\ ~c.flags /\ c.badDebt # "YES"
        /\ c.rules
        /\ c.product = "CORPORATE_OVERDRAFT" =>
              c.badDebt = "NO" /\ c.turnover = "POSITIVE" /\ c.inflow
    BY <1>1 DEF Clean
  <2>2. Assessed(c) = "PASS"
    BY <2>1 DEF Assessed, RulesPass
  <2>3. CASE n \in IntakeSet
    BY <2>1, <2>2, <2>3 DEF IntakeSet, Reports, Reported, Check, Unresolved, Readiness
  <2>4. CASE n \in OverdraftSet(c)
    BY <2>1, <2>2, <2>4 DEF OverdraftSet, Reports, Reported, Check, Unresolved, Readiness
  <2>5. CASE n \in FiguresSet
    BY <2>1, <2>2, <2>5 DEF FiguresSet, Reports, Reported, Check, CicKyc, Unresolved, Readiness
  <2>6. n \notin FlaggedSet(c)
    BY <2>1 DEF FlaggedSet
  <2>7. QED
    BY <2>3, <2>4, <2>5, <2>6 DEF Base
<1>2. ASSUME \A n \in Base(c) : Reports(n, c) \cap Unresolved = {} PROVE Clean(c)
  <2>1. {"EXISTING_CUSTOMER_GATE", "DOCUMENT_COMPLETENESS", "TAX_CONSISTENCY",
         "CIC_KYC_TOOLS", "CREDIT_AGENT"} \subseteq Base(c)
    BY DEF Base, IntakeSet, FiguresSet
  <2>2. c.existing
    BY <1>2, <2>1 DEF Reports, Reported, Unresolved, Readiness
  <2>3. c.docs = "COMPLETE"
    BY <1>2, <2>1, <2>2 DEF Reports, Reported, Check, Unresolved, Readiness
  <2>4. c.gap = "SMALL"
    BY <1>2, <2>1 DEF Reports, Reported, Check, Unresolved, Readiness
  <2>5. c.badDebt # "YES" /\ ~c.flags
    BY <1>2, <2>1 DEF Reports, Reported, Check, CicKyc, Unresolved, Readiness
  <2>6. Assessed(c) = "PASS"
    BY <1>2, <2>1, <2>2 DEF Reports, Reported, Assessed, Unresolved, Readiness
  <2>7. RulesPass(c)
    BY <2>2, <2>6 DEF Assessed
  <2>8. QED
    BY <2>2, <2>3, <2>4, <2>5, <2>7 DEF Clean, RulesPass
<1>3. QED
  BY <1>1, <1>2

\* What the gate reports.
LEMMA GateReports ==
    ASSUME NEW c \in Case
    PROVE  /\ Reports("EXISTING_CUSTOMER_GATE", c) = {IF c.existing THEN "PASS" ELSE "BLOCKED"}
           /\ Reports(Gate, c) = {"PASS"} /\ Reports(Readiness, c) = Reports("CREDIT_AGENT", c)
           /\ Reports("CREDIT_AGENT", c) = {Assessed(c)}
<1>1. /\ Reported("EXISTING_CUSTOMER_GATE", c) = IF c.existing THEN "PASS" ELSE "BLOCKED"
      /\ Reported("POLICY_GATE", c) = "PASS" /\ Reported("CREDIT_AGENT", c) = Assessed(c)
  BY DEF Reported
<1>2. QED
  BY <1>1 DEF Reports, Readiness, Gate

-----------------------------------------------------------------------------
(***************************************************************************)
(* The steps.                                                              *)
(***************************************************************************)
LEMMA InitIInv == Init => IInv
<1> SUFFICES ASSUME Init PROVE IInv
  OBVIOUS
<1>1. Executed = {} /\ Misquoting = {}
  BY DEF Init, Executed, Misquoting
<1>2. TypeOK
  BY DEF Init, TypeOK
<1>3. QED
  BY <1>1, <1>2 DEF Init, IInv, Progress, Artifacts, FirstVerdict, SecondVerdict, Driver

LEMMA Types ==
    ASSUME TypeOK
    PROVE  /\ case \in Case /\ artifacts \in [Node -> Status \cup {"NONE"}]
           /\ claims \in [Citing -> {"NONE", "VALID", "INVALID"}]
           /\ "NONE" \notin Status
BY CasesAreCases DEF TypeOK, Status

\* Storing an artifact.
LEMMA Stored ==
    ASSUME TypeOK, NEW n \in Node, NEW s \in Status, Store(n, s)
    PROVE  /\ artifacts' \in [Node -> Status \cup {"NONE"}]
           /\ artifacts'[n] = s /\ \A m \in Node \ {n} : artifacts'[m] = artifacts[m]
           /\ Executed' = Executed \cup {n}
           /\ n # Gate => pc' = "nodes"
           /\ n = Gate => pc' = IF mode = "STEPWISE" /\ verdict = "REVISE" THEN "rework" ELSE "finalize"
<1>1. /\ artifacts' = [artifacts EXCEPT ![n] = s] /\ artifacts \in [Node -> Status \cup {"NONE"}]
      /\ "NONE" \notin Status
  BY Types DEF Store
<1>2. /\ artifacts' \in [Node -> Status \cup {"NONE"}]
      /\ artifacts'[n] = s /\ \A m \in Node \ {n} : artifacts'[m] = artifacts[m]
  BY <1>1
<1>3. Executed' = Executed \cup {n}
  BY <1>1, <1>2 DEF Executed
<1>4. QED
  BY <1>2, <1>3 DEF Store, Gate

\* A node in front of the critic.
LEMMA BaseStep ==
    ASSUME IInv, NEW n \in Base(case), IsNext(n), NEW s \in Status, s \in Reports(n, case),
           Store(n, s), claims' \in [Citing -> {"NONE", "VALID", "INVALID"}],
           \A a \in Citing \ {n} : claims'[a] = claims[a],
           UNCHANGED <<case, live, mode, invalid, reworks, verdict, final>>
    PROVE  IInv' /\ Misquoting \subseteq Misquoting'
<1>1. /\ n \in Node /\ n \notin {Critic, Validator, Readiness, Gate}
      /\ Base(case) \cap {Critic, Validator, Readiness, Gate} = {}
  BY Names
<1>2. Executed \subseteq Base(case) \ {n} /\ pc = "nodes"
  BY <1>1, NextInOrder DEF IsNext
<1>3. /\ artifacts' \in [Node -> Status \cup {"NONE"}]
      /\ artifacts'[n] = s /\ \A m \in Node \ {n} : artifacts'[m] = artifacts[m]
      /\ Executed' = Executed \cup {n} /\ pc' = "nodes"
  BY <1>1, Stored DEF IInv
<1>4. TypeOK'
  BY <1>3 DEF IInv, TypeOK
<1>5. Critic \notin Executed' /\ Validator \notin Executed' /\ Executed \subseteq Node
  BY <1>1, <1>2, <1>3 DEF Executed
<1>6. Misquoting \subseteq Misquoting'
  <2>1. \A a \in Misquoting : a # n /\ a \in Citing
    BY <1>2 DEF IInv, Artifacts, Misquoting
  <2>2. QED
    BY <2>1 DEF Misquoting
<1>7. Progress'
  BY <1>2, <1>3 DEF Progress
<1>8. Artifacts'
  <2>1. \A m \in Executed' \ {Critic, Validator} : artifacts'[m] \in Reports(m, case)
    BY <1>3, <1>5 DEF IInv, Artifacts
  <2>2. \A a \in Citing : claims'[a] # "NONE" => a \in Executed'
    BY <1>3 DEF IInv, Artifacts
  <2>3. invalid' = {}
    BY <1>3, <1>5 DEF IInv, Artifacts
  <2>4. QED
    BY <1>5, <2>1, <2>2, <2>3 DEF Artifacts
<1>9. FirstVerdict' /\ SecondVerdict'
  BY <1>2, <1>5 DEF IInv, FirstVerdict, SecondVerdict
<1>10. Driver'
  BY <1>2, <1>3 DEF IInv, Driver
<1>11. QED
  BY <1>4, <1>6, <1>7, <1>8, <1>9, <1>10 DEF IInv

\* What the critic finds on the first pass, and on the second.
LEMMA FirstFindings ==
    ASSUME IInv, Executed = Base(case)
    PROVE  Findings = {} <=> Clean(case)
<1>1. \A n \in Base(case) : artifacts[n] \in Reports(n, case) /\ n \in Node \ {Critic}
  BY Names DEF IInv, Artifacts
<1>2. \A n \in Node \ Base(case) : artifacts[n] = "NONE"
  BY DEF Executed
<1>3. invalid = {}
  BY Names DEF IInv, Artifacts
<1>4. Findings = {n \in Base(case) : artifacts[n] \in Unresolved}
  BY <1>1, <1>2, <1>3 DEF Findings, Unresolved
<1>5. \A n \in Base(case) : artifacts[n] \in Unresolved <=> Reports(n, case) \cap Unresolved # {}
  <2>1. SUFFICES ASSUME NEW n \in Base(case)
                 PROVE  artifacts[n] \in Unresolved <=> Reports(n, case) \cap Unresolved # {}
    OBVIOUS
  <2>2. \/ \E s : Reports(n, case) = {s}
        \/ Reports(n, case) = {"PASS", "WARNING"}
    BY DEF Reports
  <2>3. QED
    BY <1>1, <2>2 DEF Unresolved
<1>6. case \in Case
  BY Types DEF IInv
<1>7. QED
  BY <1>4, <1>5, <1>6, CleanCase

LEMMA SecondFindings ==
    ASSUME IInv, Executed = Nodes
    PROVE  Findings = {} <=> Clean(case) /\ Misquoting = {}
<1>0. case \in Case
  BY Types DEF IInv
<1>1. \A n \in Base(case) : artifacts[n] \in Reports(n, case) /\ n \in Node \ {Critic}
  BY Names DEF IInv, Artifacts, Nodes
<1>2. \A n \in Node \ Nodes : artifacts[n] = "NONE"
  BY DEF Executed
<1>3. invalid = Misquoting /\ artifacts[Validator] = Check(invalid = {})
  BY DEF IInv, Artifacts, Nodes
<1>4. /\ artifacts[Readiness] = Assessed(case) /\ artifacts["CREDIT_AGENT"] = Assessed(case)
      /\ artifacts[Gate] = "PASS"
  BY <1>0, <1>1, Names, GateReports DEF IInv, Artifacts, Nodes
<1>5. \A n \in Base(case) : artifacts[n] \in Unresolved <=> Reports(n, case) \cap Unresolved # {}
  <2>1. SUFFICES ASSUME NEW n \in Base(case)
                 PROVE  artifacts[n] \in Unresolved <=> Reports(n, case) \cap Unresolved # {}
    OBVIOUS
  <2>2. \/ \E s : Reports(n, case) = {s}
        \/ Reports(n, case) = {"PASS", "WARNING"}
    BY DEF Reports
  <2>3. QED
    BY <1>1, <2>2 DEF Unresolved
<1>6. Clean(case) <=> \A n \in Base(case) : artifacts[n] \notin Unresolved
  BY <1>0, <1>5, CleanCase
<1>7. ASSUME Clean(case), Misquoting = {} PROVE Findings = {}
  <2>1. artifacts[Validator] = "PASS"
    BY <1>3, <1>7 DEF Check
  <2>2. artifacts[Readiness] \notin Unresolved
    BY <1>4, <1>6, <1>7, Names
  <2>3. ASSUME NEW n \in Node \ {Critic} PROVE artifacts[n] \notin Unresolved
    BY <1>2, <1>4, <1>6, <1>7, <2>1, <2>2 DEF Nodes, Unresolved
  <2>4. QED
    BY <1>3, <1>7, <2>3 DEF Findings
<1>8. ASSUME Findings = {} PROVE Clean(case) /\ Misquoting = {}
  BY <1>1, <1>3, <1>6, <1>8 DEF Findings
<1>9. QED
  BY <1>7, <1>8

\* The verdicts there can be without findings, and with them.
LEMMA Verdict1 ==
    ASSUME NEW r \in 0..1, NEW v, v \in Judged(r), live \in BOOLEAN
    PROVE  /\ v \in Verdicts
           /\ Findings = {} => v = "PASS" \/ live
           /\ Findings # {} => \/ v = "ESCALATE" /\ (r = 1 \/ live)
                               \/ v = "REVISE" /\ r = 0
<1>1. ASSUME NEW w \in Verdicts, NEW b \in Verdicts
      PROVE  /\ Stricter(b, w) \in Verdicts /\ (b = "ESCALATE" => Stricter(b, w) = "ESCALATE")
             /\ (b = "REVISE" => Stricter(b, w) \in {"REVISE", "ESCALATE"})
  BY DEF Stricter, Rank, Verdicts
<1>2. /\ Baseline(r) \in Verdicts /\ (Findings = {} => Baseline(r) = "PASS")
      /\ (Findings # {} => Baseline(r) = IF r >= 1 THEN "ESCALATE" ELSE "REVISE")
  BY DEF Baseline, Verdicts
<1>3. v = Baseline(r) \/ (live /\ \E w \in Verdicts : v = Stricter(Baseline(r), w))
  BY DEF Judged
<1>4. QED
  BY <1>1, <1>2, <1>3

LEMMA CriticStep ==
    ASSUME IInv, NEW v, RunCritic(v) PROVE IInv'
<1>1. Executed = Base(case) /\ pc = "nodes" /\ Critic \in Node /\ Critic # Gate
  BY NextInOrder, Names DEF RunCritic, IsNext
<1>2. reworks = 0 /\ Check(v = "PASS") \in Status /\ live \in BOOLEAN
  <2>1. reworks = 0 /\ live \in BOOLEAN
    BY <1>1 DEF IInv, TypeOK, SecondVerdict
  <2>2. Check(v = "PASS") \in Status
    BY DEF Check, Status
  <2>3. QED
    BY <2>1, <2>2
<1>3. /\ artifacts' \in [Node -> Status \cup {"NONE"}]
      /\ artifacts'[Critic] = Check(v = "PASS")
      /\ \A m \in Node \ {Critic} : artifacts'[m] = artifacts[m]
      /\ Executed' = Executed \cup {Critic} /\ pc' = "nodes"
  BY <1>1, <1>2, Stored DEF IInv, RunCritic
<1>4. /\ v \in Verdicts
      /\ Clean(case) => v = "PASS" \/ live
      /\ ~Clean(case) => v = "REVISE" \/ (live /\ v = "ESCALATE")
  BY <1>1, <1>2, Verdict1, FirstFindings DEF RunCritic
<1>5. verdict' = v /\ UNCHANGED <<case, live, mode, claims, invalid, reworks, final>>
  BY DEF RunCritic
<1>6. TypeOK'
  BY <1>3, <1>4, <1>5 DEF IInv, TypeOK
<1>7. Progress'
  BY <1>1, <1>3, <1>5 DEF Progress
<1>8. Artifacts'
  <2>1. \A m \in Executed' \ {Critic, Validator} : artifacts'[m] \in Reports(m, case')
    BY <1>1, <1>3, <1>5, Names DEF IInv, Artifacts
  <2>2. Validator \notin Executed' /\ invalid' = {}
    BY <1>1, <1>3, <1>5, Names DEF IInv, Artifacts
  <2>3. \A a \in Citing : claims'[a] # "NONE" => a \in Executed'
    BY <1>3, <1>5 DEF IInv, Artifacts
  <2>4. QED
    BY <1>3, <1>4, <1>5, <2>1, <2>2, <2>3 DEF Artifacts
<1>9. FirstVerdict' /\ SecondVerdict'
  BY <1>2, <1>4, <1>5 DEF FirstVerdict, SecondVerdict
<1>10. Driver'
  BY <1>1, <1>3, <1>5 DEF IInv, Driver
<1>11. QED
  BY <1>6, <1>7, <1>8, <1>9, <1>10 DEF IInv

\* A node behind the critic.
LEMMA TailStep ==
    ASSUME IInv, NEW n \in {Validator, Readiness, Gate}, IsNext(n), NEW s \in Status, Store(n, s),
           n # Validator => s \in Reports(n, case) /\ invalid' = invalid,
           n = Validator => s = Check(invalid' = {}) /\ invalid' = Misquoting,
           UNCHANGED <<case, live, mode, claims, reworks, verdict, final>>
    PROVE  IInv'
<1>1. /\ n \in Node /\ Critic \in Executed /\ n # Critic /\ pc = "nodes"
      /\ n = Validator => Executed = Base(case) \cup {Critic}
      /\ n = Readiness => Executed = Base(case) \cup {Critic, Validator}
      /\ n = Gate => Executed = Base(case) \cup {Critic, Validator, Readiness}
  BY NextInOrder, Names DEF IsNext
<1>2. /\ artifacts' \in [Node -> Status \cup {"NONE"}]
      /\ artifacts'[n] = s /\ \A m \in Node \ {n} : artifacts'[m] = artifacts[m]
      /\ Executed' = Executed \cup {n}
      /\ n # Gate => pc' = "nodes"
      /\ n = Gate => pc' = IF mode = "STEPWISE" /\ verdict = "REVISE" THEN "rework" ELSE "finalize"
  BY <1>1, Stored DEF IInv
<1>3. Executed \subseteq Node /\ Critic \in Node /\ Validator \in Node
  BY Names DEF Executed
<1>4. reworks = 0
  BY <1>1 DEF IInv, TypeOK, SecondVerdict
<1>5. TypeOK'
  BY <1>2 DEF IInv, TypeOK, Misquoting
<1>6. Progress'
  BY <1>1, <1>2, Names DEF Progress, Nodes
<1>7. Artifacts'
  <2>1. \A m \in Executed' \ {Critic, Validator} : artifacts'[m] \in Reports(m, case)
    BY <1>2, <1>3 DEF IInv, Artifacts
  <2>2. artifacts'[Critic] = Check(verdict = "PASS") /\ verdict \in Verdicts
    BY <1>1, <1>2, <1>3 DEF IInv, Artifacts
  <2>3. Validator \in Executed' => artifacts'[Validator] = Check(invalid' = {}) /\ invalid' = Misquoting
    BY <1>2, <1>3 DEF IInv, Artifacts
  <2>4. Validator \notin Executed' => invalid' = {}
    BY <1>2 DEF IInv, Artifacts
  <2>5. \A a \in Citing : claims[a] # "NONE" => a \in Executed'
    BY <1>2 DEF IInv, Artifacts
  <2>6. Misquoting' = Misquoting
    BY DEF Misquoting
  <2>7. QED
    BY <2>1, <2>2, <2>3, <2>4, <2>5, <2>6 DEF Artifacts
<1>8. FirstVerdict' /\ SecondVerdict'
  BY <1>1, <1>4 DEF IInv, FirstVerdict, SecondVerdict
<1>9. Driver'
  BY <1>1, <1>2, <1>4 DEF IInv, Driver, Misquoting
<1>10. QED
  BY <1>5, <1>6, <1>7, <1>8, <1>9 DEF IInv

LEMMA ReworkStep ==
    ASSUME IInv, NEW v, Rework(v) PROVE IInv'
<1>1. /\ Executed = Nodes /\ pc = "rework" /\ pc' = "finalize" /\ Critic \in Node
      /\ reworks = 0 /\ reworks' = 1 /\ live \in BOOLEAN /\ verdict = "REVISE"
  BY Names DEF Rework, IInv, TypeOK, Progress, Driver
<1>2. /\ artifacts \in [Node -> Status \cup {"NONE"}] /\ Check(v = "PASS") \in Status
      /\ artifacts' = [artifacts EXCEPT ![Critic] = Check(v = "PASS")] /\ "NONE" \notin Status
  BY Types, StatusReported DEF IInv, Rework
<1>3. /\ artifacts' \in [Node -> Status \cup {"NONE"}]
      /\ artifacts'[Critic] = Check(v = "PASS")
      /\ \A m \in Node \ {Critic} : artifacts'[m] = artifacts[m]
  BY <1>1, <1>2
<1>4. Executed' = Nodes /\ Nodes' = Nodes
  BY <1>1, <1>2, <1>3, Names DEF Executed, Nodes, Rework
<1>5. /\ v \in Verdicts
      /\ ~Clean(case) \/ Misquoting # {} => v = "ESCALATE"
  BY <1>1, Verdict1, SecondFindings DEF Rework
<1>6. Clean(case) => live
  BY <1>1 DEF IInv, FirstVerdict, Nodes
<1>7. verdict' = v /\ UNCHANGED <<case, live, mode, claims, invalid, final>> /\ Misquoting' = Misquoting
  BY DEF Rework, Misquoting
<1>8. TypeOK'
  BY <1>1, <1>3, <1>5, <1>7 DEF IInv, TypeOK
<1>9. Progress'
  BY <1>1, <1>4 DEF Progress
<1>10. Artifacts'
  <2>1. \A m \in Executed' \ {Critic, Validator} : artifacts'[m] \in Reports(m, case')
    BY <1>1, <1>3, <1>4, <1>7, Names DEF IInv, Artifacts, Nodes
  <2>2. Validator \in Executed /\ artifacts'[Validator] = artifacts[Validator]
    BY <1>1, <1>3, Names DEF Nodes
  <2>3. QED
    BY <1>1, <1>3, <1>4, <1>5, <1>7, <2>1, <2>2 DEF IInv, Artifacts
<1>11. FirstVerdict' /\ SecondVerdict'
  BY <1>1, <1>4, <1>5, <1>6, <1>7 DEF FirstVerdict, SecondVerdict, Nodes
<1>12. Driver'
  BY <1>1, <1>7 DEF IInv, Driver
<1>13. QED
  BY <1>8, <1>9, <1>10, <1>11, <1>12 DEF IInv

\* What the final status says, once the route is through.
LEMMA Finalized ==
    ASSUME IInv, Executed = Nodes
    PROVE  /\ ~case.existing => FinalStatus = "BLOCKED"
           /\ case.existing =>
                 FinalStatus = IF Clean(case) /\ Misquoting = {} /\ verdict = "PASS"
                               THEN "READY_FOR_HUMAN_REVIEW" ELSE "NEEDS_MORE_EVIDENCE"
<1>0. case \in Case /\ case.existing \in BOOLEAN
  BY Types DEF IInv, Case
<1>1. artifacts["EXISTING_CUSTOMER_GATE"] = IF case.existing THEN "PASS" ELSE "BLOCKED"
  <2>1. artifacts["EXISTING_CUSTOMER_GATE"] \in Reports("EXISTING_CUSTOMER_GATE", case)
    BY Names DEF IInv, Artifacts, Nodes
  <2>2. QED
    BY <1>0, <2>1, GateReports
<1>2. artifacts[Gate] = "PASS"
  BY <1>0, Names, GateReports DEF IInv, Artifacts, Nodes
<1>3. artifacts[Critic] = Check(verdict = "PASS") /\ Critic \in Node
  BY Names DEF IInv, Artifacts, Nodes
<1>4. invalid = Misquoting /\ artifacts[Validator] = Check(invalid = {}) /\ Validator \in Node \ {Critic}
  BY Names DEF IInv, Artifacts, Nodes
<1>5. (\A n \in Node \ {Gate} : artifacts[n] \notin Unresolved /\ verdict = "PASS")
         <=> verdict = "PASS" /\ Findings = {}
  <2>1. Findings = {} <=> \A n \in Node \ {Critic} : artifacts[n] \notin Unresolved
    BY <1>4 DEF Findings, Check, Unresolved
  <2>2. verdict = "PASS" => artifacts[Critic] \notin Unresolved
    BY <1>3 DEF Check, Unresolved
  <2>3. artifacts[Gate] \notin Unresolved
    BY <1>2 DEF Unresolved
  <2>4. Critic \in Node \ {Gate}
    BY Names
  <2>5. QED
    BY <2>1, <2>2, <2>3, <2>4
<1>6. Findings = {} <=> Clean(case) /\ Misquoting = {}
  BY SecondFindings
<1>7. QED
  BY <1>0, <1>1, <1>5, <1>6 DEF FinalStatus, Gate

LEMMA FinalizeStep == ASSUME IInv, Finalize PROVE IInv'
<1>1. Executed = Nodes /\ pc = "finalize" /\ Executed' = Executed /\ Nodes' = Nodes /\ Misquoting' = Misquoting
  BY DEF Finalize, IInv, Progress, Executed, Nodes, Misquoting
<1>2. /\ final' = FinalStatus
      /\ pc' = IF mode = "RUN" /\ verdict = "REVISE" /\ reworks < 1 THEN "rework" ELSE "done"
      /\ UNCHANGED <<case, live, mode, artifacts, claims, invalid, reworks, verdict>>
  BY DEF Finalize
<1>3. /\ FinalStatus \in {"READY_FOR_HUMAN_REVIEW", "NEEDS_MORE_EVIDENCE", "BLOCKED"}
      /\ FinalStatus = "READY_FOR_HUMAN_REVIEW" => Clean(case) /\ Misquoting = {} /\ verdict = "PASS"
  BY <1>1, Finalized, Types DEF IInv, Case
<1>4. TypeOK'
  BY <1>2, <1>3 DEF IInv, TypeOK
<1>5. Progress'
  BY <1>1, <1>2 DEF Progress
<1>6. Artifacts'
  BY <1>1, <1>2 DEF IInv, Artifacts
<1>7. FirstVerdict' /\ SecondVerdict'
  BY <1>1, <1>2 DEF IInv, TypeOK, FirstVerdict, SecondVerdict
<1>8. Driver'
  BY <1>1, <1>2, <1>3 DEF IInv, TypeOK, Driver
<1>9. QED
  BY <1>4, <1>5, <1>6, <1>7, <1>8 DEF IInv

LEMMA StepRaisesStep == ASSUME IInv, StepRaises PROVE IInv'
<1>1. /\ Executed = Nodes /\ pc = "rework" /\ pc' = "nodes" /\ Misquoting' = Misquoting
      /\ Nodes' = Nodes /\ Gate \in Node /\ reworks = 0
      /\ UNCHANGED <<case, live, mode, claims, invalid, reworks, verdict, final>>
  BY Names DEF StepRaises, IInv, Progress, Nodes, Misquoting, Driver
<1>2. /\ artifacts \in [Node -> Status \cup {"NONE"}]
      /\ artifacts' = [artifacts EXCEPT ![Gate] = "NONE"]
  BY Types DEF IInv, StepRaises, Gate
<1>3. /\ artifacts' \in [Node -> Status \cup {"NONE"}] /\ artifacts'[Gate] = "NONE"
      /\ \A m \in Node \ {Gate} : artifacts'[m] = artifacts[m]
  BY <1>1, <1>2
<1>4. Executed' = Base(case) \cup {Critic, Validator, Readiness} /\ Executed' = Executed \ {Gate}
  BY <1>1, <1>3, Names DEF Executed, Nodes
<1>5. TypeOK'
  BY <1>1, <1>3 DEF IInv, TypeOK
<1>6. Progress'
  BY <1>1, <1>4 DEF Progress
<1>7. Artifacts'
  <2>1. \A m \in Executed' : m \in Node \ {Gate} /\ m \in Executed
    BY <1>4 DEF Executed
  <2>2. Citing \cap {Gate} = {}
    BY Names
  <2>3. Critic \in Executed' /\ Validator \in Executed'
    BY <1>4
  <2>4. QED
    BY <1>1, <1>3, <1>4, <2>1, <2>2, <2>3 DEF IInv, Artifacts
<1>8. FirstVerdict' /\ SecondVerdict'
  BY <1>1, <1>4 DEF IInv, FirstVerdict, SecondVerdict
<1>9. Driver'
  BY <1>1 DEF IInv, Driver
<1>10. QED
  BY <1>5, <1>6, <1>7, <1>8, <1>9 DEF IInv

\* No step takes back a citation that does not hold.
LEMMA StepIInv == IInv /\ [Next]_vars => IInv' /\ Misquoting \subseteq Misquoting'
<1> SUFFICES ASSUME IInv, [Next]_vars PROVE IInv' /\ Misquoting \subseteq Misquoting'
  OBVIOUS
<1>t. /\ case \in Case /\ artifacts \in [Node -> Status \cup {"NONE"}]
      /\ claims \in [Citing -> {"NONE", "VALID", "INVALID"}]
      /\ mode \in {"RUN", "STEPWISE"} /\ live \in BOOLEAN
  BY Types DEF IInv, TypeOK
<1>1. ASSUME NEW n \in Node, RunNode(n) PROVE IInv' /\ Misquoting \subseteq Misquoting'
  <2>1. /\ IsNext(n) /\ n \notin Citing \cup {Critic, Validator, Readiness}
        /\ Store(n, Reported(n, case)) /\ Reported(n, case) \in Status
        /\ UNCHANGED <<case, live, mode, claims, invalid, reworks, verdict, final>>
    BY <1>1, StatusReported DEF RunNode, Validator, Readiness
  <2>2. Reported(n, case) \in Reports(n, case)
    BY <2>1 DEF Reports, Citing
  <2>3. Misquoting' = Misquoting
    BY <2>1 DEF Misquoting
  <2>4. CASE n \in Base(case)
    BY <1>t, <2>1, <2>2, <2>4, BaseStep
  <2>5. CASE n = Gate
    <3>1. n \in {Validator, Readiness, Gate} /\ n # Validator
      BY <2>1, <2>5
    <3>2. QED
      BY <2>1, <2>2, <2>3, <3>1, TailStep
  <2>6. QED
    BY <2>1, <2>4, <2>5, NextInOrder
<1>2. ASSUME NEW claim \in {"NONE", "VALID", "INVALID"}, NEW answered \in BOOLEAN,
             RunProduct(claim, answered)
      PROVE  IInv' /\ Misquoting \subseteq Misquoting'
  <2> DEFINE n == "PRODUCT_AGENT"
             s == IF claim # "NONE" /\ answered THEN "PASS" ELSE "WARNING"
  <2>1. n \in Base(case) /\ n \in Citing
    BY Names DEF Citing
  <2>2. s \in Status /\ s \in Reports(n, case)
    BY DEF Status, Reports
  <2>3. /\ IsNext(n) /\ Store(n, s) /\ claims' = [claims EXCEPT ![n] = claim]
        /\ UNCHANGED <<case, live, mode, invalid, reworks, verdict, final>>
    BY <1>2 DEF RunProduct
  <2>4. /\ claims' \in [Citing -> {"NONE", "VALID", "INVALID"}]
        /\ \A a \in Citing \ {n} : claims'[a] = claims[a]
    BY <1>t, <2>3
  <2> HIDE DEF n, s
  <2>5. QED
    BY <2>1, <2>2, <2>3, <2>4, BaseStep
<1>3. ASSUME NEW claim \in {"NONE", "VALID", "INVALID"}, RunCompliance(claim)
      PROVE  IInv' /\ Misquoting \subseteq Misquoting'
  <2> DEFINE n == "COMPLIANCE_AGENT"
             s == Check(~case.flags)
  <2>1. n \in Citing /\ IsNext(n)
    BY <1>3 DEF Citing, RunCompliance
  <2>2. n \in Base(case)
    <3>1. n \notin {Critic, Validator, Readiness, Gate}
      BY DEF Validator, Readiness, Gate, Critic
    <3>2. QED
      BY <2>1, <3>1, NextInOrder
  <2>3. s \in Status /\ s \in Reports(n, case)
    BY DEF Status, Reports, Check
  <2>4. /\ Store(n, s) /\ claims' = [claims EXCEPT ![n] = claim]
        /\ UNCHANGED <<case, live, mode, invalid, reworks, verdict, final>>
    BY <1>3 DEF RunCompliance
  <2>5. /\ claims' \in [Citing -> {"NONE", "VALID", "INVALID"}]
        /\ \A a \in Citing \ {n} : claims'[a] = claims[a]
    BY <1>t, <2>4
  <2> HIDE DEF n, s
  <2>6. QED
    BY <2>1, <2>2, <2>3, <2>4, <2>5, BaseStep
<1>4. ASSUME RunValidator PROVE IInv' /\ Misquoting \subseteq Misquoting'
  <2>1. /\ IsNext(Validator) /\ invalid' = Misquoting /\ Store(Validator, Check(invalid' = {}))
        /\ UNCHANGED <<case, live, mode, claims, reworks, verdict, final>>
    BY <1>4 DEF RunValidator, Validator, Misquoting
  <2>2. Check(invalid' = {}) \in Status
    BY DEF Check, Status
  <2>3. Misquoting' = Misquoting
    BY <2>1 DEF Misquoting
  <2>4. Validator \in {Validator, Readiness, Gate}
    OBVIOUS
  <2>5. QED
    BY <2>1, <2>2, <2>3, <2>4, TailStep
<1>5. ASSUME RunReadiness PROVE IInv' /\ Misquoting \subseteq Misquoting'
  <2>1. /\ IsNext(Readiness) /\ Store(Readiness, artifacts["CREDIT_AGENT"])
        /\ UNCHANGED <<case, live, mode, claims, invalid, reworks, verdict, final>>
    BY <1>5 DEF RunReadiness, Readiness
  <2>2. "CREDIT_AGENT" \in Executed \ {Critic, Validator}
    BY <2>1, NextInOrder, Names
  <2>3. artifacts["CREDIT_AGENT"] \in Reports("CREDIT_AGENT", case)
    BY <2>2 DEF IInv, Artifacts
  <2>4. artifacts["CREDIT_AGENT"] \in Reports(Readiness, case) /\ artifacts["CREDIT_AGENT"] \in Status
    <3>1. /\ Reports(Readiness, case) = Reports("CREDIT_AGENT", case)
          /\ Reports("CREDIT_AGENT", case) = {Assessed(case)}
      BY <1>t, GateReports
    <3>2. Assessed(case) \in Status
      BY StatusReported
    <3>3. QED
      BY <2>3, <3>1, <3>2
  <2>5. Misquoting' = Misquoting
    BY <2>1 DEF Misquoting
  <2>6. Readiness \in {Validator, Readiness, Gate} /\ Readiness # Validator
    BY DEF Validator, Readiness
  <2>7. QED
    BY <2>1, <2>4, <2>5, <2>6, TailStep
<1>6. ASSUME NEW v \in Verdicts, RunCritic(v) PROVE IInv' /\ Misquoting \subseteq Misquoting'
  <2>1. Misquoting' = Misquoting
    BY <1>6 DEF RunCritic, Misquoting
  <2>2. QED
    BY <1>6, <2>1, CriticStep
<1>7. ASSUME NEW v \in Verdicts, Rework(v) PROVE IInv' /\ Misquoting \subseteq Misquoting'
  <2>1. Misquoting' = Misquoting
    BY <1>7 DEF Rework, Misquoting
  <2>2. QED
    BY <1>7, <2>1, ReworkStep
<1>8. ASSUME Finalize PROVE IInv' /\ Misquoting \subseteq Misquoting'
  <2>1. Misquoting' = Misquoting
    BY <1>8 DEF Finalize, Misquoting
  <2>2. QED
    BY <1>8, <2>1, FinalizeStep
<1>9. ASSUME Raise PROVE IInv' /\ Misquoting \subseteq Misquoting'
  <2>1. /\ pc \in {"nodes", "rework"} /\ pc' = "failed" /\ Executed' = Executed /\ Nodes' = Nodes
        /\ Misquoting' = Misquoting
        /\ UNCHANGED <<case, live, mode, artifacts, claims, invalid, reworks, verdict, final>>
    BY <1>9 DEF Raise, Executed, Nodes, Misquoting
  <2>2. TypeOK' /\ Progress' /\ Artifacts'
    BY <2>1 DEF IInv, TypeOK, Progress, Artifacts
  <2>3. FirstVerdict' /\ SecondVerdict' /\ Driver'
    BY <2>1 DEF IInv, FirstVerdict, SecondVerdict, Driver
  <2>4. QED
    BY <2>1, <2>2, <2>3 DEF IInv
<1>10. ASSUME StepRaises PROVE IInv' /\ Misquoting \subseteq Misquoting'
  <2>1. Misquoting' = Misquoting
    BY <1>10 DEF StepRaises, Misquoting
  <2>2. QED
    BY <1>10, <2>1, StepRaisesStep
<1>11. CASE UNCHANGED vars
  <2>1. Executed' = Executed /\ Nodes' = Nodes /\ Misquoting' = Misquoting
    BY <1>11 DEF vars, Executed, Nodes, Misquoting
  <2>2. QED
    BY <1>11, <2>1 DEF vars, IInv, TypeOK, Progress, Artifacts, FirstVerdict, SecondVerdict, Driver
<1>12. QED
  BY <1>1, <1>2, <1>3, <1>4, <1>5, <1>6, <1>7, <1>8, <1>9, <1>10, <1>11 DEF Next

\* However the runner is driven and whatever is retrieved and answered, the
\* invariant holds.
THEOREM Invariance == Spec => []IInv
BY InitIInv, StepIInv, PTL DEF Spec

\* The workflow state keeps to the literals of contracts/state.py.
THEOREM Typing == Spec => []TypeOK
<1>1. IInv => TypeOK
  BY DEF IInv
<1>2. QED
  BY <1>1, Invariance, PTL

\* A case called ready for human review has nothing against it and no
\* citation that does not hold.
THEOREM ReadyCasesAreClean == Spec => []ReadyMeansClean
<1>1. IInv => ReadyMeansClean
  BY DEF IInv, Driver, Misquoting, ReadyMeansClean
<1>2. QED
  BY <1>1, Invariance, PTL

\* No answer of a model gets the critic past a deterministic blocker.
THEOREM BlockersAlwaysStand == Spec => []BlockersStand
<1>1. ASSUME IInv PROVE BlockersStand
  <2>1. SUFFICES ASSUME artifacts[Critic] # "NONE",
                        NEW n \in Node \ ToSet(Tail4), artifacts[n] \in Unresolved
                 PROVE  verdict # "PASS"
    BY DEF BlockersStand
  <2>2. n \notin {Critic, Validator, Readiness, Gate}
    <3>1. /\ DOMAIN Tail4 = 1..4 /\ Tail4[1] = Critic /\ Tail4[2] = Validator
          /\ Tail4[3] = Readiness /\ Tail4[4] = Gate
      BY DEF Tail4, Validator, Readiness, Gate
    <3>2. QED
      BY <3>1 DEF ToSet
  <2>3. n \in Executed /\ Critic \in Executed
    BY <2>1, Names DEF Executed, Unresolved
  <2>4. n \in Base(case)
    BY <1>1, <2>2, <2>3 DEF IInv, Progress, Nodes
  <2>5. ~Clean(case)
    BY <1>1, <2>1, <2>2, <2>3, <2>4, Types, CleanCase DEF IInv, Artifacts
  <2>6. QED
    BY <1>1, <2>3, <2>5 DEF IInv, TypeOK, FirstVerdict, SecondVerdict
<1>2. QED
  BY <1>1, Invariance, PTL

-----------------------------------------------------------------------------
(***************************************************************************)
(* The refinement.                                                         *)
(***************************************************************************)
LEMMA SameClean == ASSUME NEW c PROVE Decision!Clean(c) <=> Clean(c)
BY DEF Decision!Clean, Clean

\* The decision that is handed out at the end is right.
LEMMA DecidedRight ==
    ASSUME IInv, Finalize, pc' = "done"
    PROVE  [final |-> FinalStatus, critic |-> verdict] \in Decision!Right(case, live, Misquoting # {})
<1>1. /\ Executed = Nodes /\ Critic \in Executed /\ mode \in {"RUN", "STEPWISE"}
      /\ reworks \in 0..1 /\ live \in BOOLEAN /\ verdict \in Verdicts
      /\ case \in Case
  BY Types DEF IInv, TypeOK, Finalize, Progress, Nodes, Artifacts
<1>2. verdict = "REVISE" => reworks = 1
  BY <1>1 DEF Finalize, IInv, Driver
<1>3. ~Clean(case) => verdict = "ESCALATE"
  BY <1>1, <1>2 DEF IInv, FirstVerdict, SecondVerdict
<1>4. /\ Clean(case) => verdict = "PASS" \/ live
      /\ Misquoting # {} => verdict # "REVISE"
  BY <1>1, <1>2 DEF IInv, FirstVerdict, SecondVerdict
<1>5. CASE ~case.existing
  <2>1. FinalStatus = "BLOCKED" /\ verdict = "ESCALATE"
    BY <1>1, <1>3, <1>5, Finalized DEF Clean
  <2>2. QED
    BY <1>5, <2>1 DEF Decision!Right
<1>6. CASE case.existing /\ ~Clean(case)
  <2>1. FinalStatus = "NEEDS_MORE_EVIDENCE" /\ verdict = "ESCALATE"
    BY <1>1, <1>3, <1>6, Finalized
  <2>2. QED
    BY <1>6, <2>1, SameClean DEF Decision!Right
<1>7. CASE case.existing /\ Clean(case) /\ Misquoting # {}
  <2>1. FinalStatus = "NEEDS_MORE_EVIDENCE"
    BY <1>1, <1>7, Finalized
  <2>2. verdict = "PASS" \/ (live /\ verdict = "ESCALATE")
    BY <1>1, <1>4, <1>7 DEF Verdicts
  <2>3. QED
    BY <1>7, <2>1, <2>2, SameClean DEF Decision!Right
<1>8. CASE case.existing /\ Clean(case) /\ Misquoting = {}
  <2>1. FinalStatus = IF verdict = "PASS" THEN "READY_FOR_HUMAN_REVIEW" ELSE "NEEDS_MORE_EVIDENCE"
    BY <1>1, <1>8, Finalized
  <2>2. verdict = "PASS" \/ (live /\ verdict \in {"REVISE", "ESCALATE"})
    BY <1>1, <1>4, <1>8 DEF Verdicts
  <2>3. QED
    BY <1>8, <2>1, <2>2, SameClean DEF Decision!Right
<1>9. QED
  BY <1>5, <1>6, <1>7, <1>8

\* run() and the stepwise requests both implement Verdict: one decision, made
\* from the facts, that a model can only make stricter.
THEOREM Implementation == Spec => ImplementsVerdict
<1>1. Init => Decision!Init
  BY DEF Init, Decision!Init, Decision!Pending
<1>2. ASSUME IInv, [Next]_vars
      PROVE  [Decision!Decide \/ Decision!Misquote]_(Decision!vars)
  <2> DEFINE q == \E a \in Citing : claims[a] = "INVALID"
             d == IF pc = "done" THEN [final |-> final, critic |-> verdict]
                  ELSE [final |-> "IN_PROGRESS", critic |-> "PENDING"]
  <2>1. (q <=> Misquoting # {}) /\ (q' <=> Misquoting' # {})
    BY DEF Misquoting
  <2>2. Misquoting \subseteq Misquoting'
    BY <1>2, StepIInv
  <2>3. UNCHANGED <<case, live>>
    BY <1>2 DEF Next, vars, RunNode, RunProduct, RunCompliance, RunValidator, RunReadiness,
       RunCritic, Rework, Finalize, Raise, StepRaises
  <2>4. CASE Finalize /\ pc' = "done"
    <3>1. d = Decision!Pending /\ q' = q
      BY <2>4 DEF Finalize, Decision!Pending
    <3>2. d' = [final |-> FinalStatus, critic |-> verdict]
      BY <2>4 DEF Finalize
    <3>3. d' \in Decision!Right(case, live, q)
      BY <1>2, <2>1, <2>4, <3>2, DecidedRight
    <3>4. QED
      BY <2>3, <3>1, <3>3 DEF Decision!Decide
  <2>5. CASE UNCHANGED vars
    BY <2>5 DEF vars, Decision!vars
  <2>6. CASE ~(Finalize /\ pc' = "done") /\ Next
    <3>1. pc # "done" /\ pc' # "done"
      BY <2>6 DEF Next, RunNode, RunProduct, RunCompliance, RunValidator, RunReadiness, IsNext,
         Store, RunCritic, Rework, Finalize, Raise, StepRaises
    <3>2. d = Decision!Pending /\ d' = Decision!Pending
      BY <3>1 DEF Decision!Pending
    <3>3. CASE q
      <4>1. q'
        BY <2>1, <2>2, <3>3
      <4>2. QED
        BY <2>3, <3>2, <3>3, <4>1 DEF Decision!vars
    <3>4. CASE ~q /\ ~q'
      BY <2>3, <3>2, <3>4 DEF Decision!vars
    <3>5. CASE ~q /\ q'
      BY <2>3, <3>2, <3>5 DEF Decision!Misquote
    <3>6. QED
      BY <3>3, <3>4, <3>5
  <2>7. QED
    BY <1>2, <2>4, <2>5, <2>6
<1>3. QED
  BY <1>1, <1>2, Invariance, PTL DEF Spec, ImplementsVerdict, Decision!Spec

-----------------------------------------------------------------------------
(***************************************************************************)
(* ModelCalls.  The inductive invariant says which models were asked so    *)
(* far and how each call ended, which candidates are still to be asked,    *)
(* where the time has gone, and that the hits are hits of the search.      *)
(***************************************************************************)
Stages == {"agent", "rerank", "ready", "chat", "stored"}

Outcomes == Retried \cup Raised \cup {"UNFIT", "FIT"}

\* An artifact's model has been asked in vain: with all the attempts there
\* are where another one could have helped.
InVain(try, retries) ==
    /\ try.outcome # "FIT"
    /\ try.outcome \in Retried => try.attempts = retries + 1
    /\ try.attempts <= retries + 1

CallsType ==
    /\ config \in Configs
    /\ registry \in [override : Model \cup {None}, primary : Model \cup {None},
                     fallback : Model \cup {None}]
    /\ stage \in Stages
    /\ models \in Seq(Model)
    /\ attempt \in Nat /\ attempt <= config.retries
    /\ found \in Nat /\ waits \in Nat
    /\ tries \in Seq([model : Model, outcome : Outcomes, attempts : Nat])

\* Where the time can have gone, as composed: one wait for the reranker, one
\* for each model asked, none before an attempt is repeated, and the waits
\* that were drawn out.
TimeInv ==
    config = Compose =>
        /\ clock \in Nat
        /\ stage \in {"agent", "rerank"} => clock <= 20 * waits
        /\ stage = "ready" => clock <= 20 + 20 * waits
        /\ stage = "chat" => clock <= 20 + 20 * Len(tries) + 20 * waits
        /\ stage = "stored" => clock <= 60 + 20 * waits

\* The candidates are asked in their order, each one once.
AskedInOrder ==
    /\ Len(tries) <= Len(Candidates)
    /\ \A i \in 1..Len(tries) : tries[i].model = Candidates[i]

ChatInv ==
    stage = "chat" =>
        /\ AskedInOrder
        /\ model = None
        /\ \A i \in 1..Len(tries) : InVain(tries[i], config.retries)
        /\ Len(models) > 0
        /\ Len(tries) + Len(models) = Len(Candidates)
        /\ \A i \in 1..Len(models) : models[i] = Candidates[Len(tries) + i]

StoredInv ==
    stage = "stored" =>
        /\ AskedInOrder
        /\ model = None => /\ Len(tries) = Len(Candidates)
                           /\ \A i \in 1..Len(tries) : InVain(tries[i], config.retries)
        /\ model # None => /\ Len(tries) > 0
                           /\ tries[Len(tries)].model = model
                           /\ tries[Len(tries)].outcome = "FIT"
                           /\ tries[Len(tries)].attempts <= config.retries + 1
                           /\ \A i \in 1..(Len(tries) - 1) : InVain(tries[i], config.retries)

HitsInv ==
    /\ stage = "agent" => found = 0 /\ hits = <<>> /\ reranked = "NO"
    /\ EvidenceSurvives

CallsInv == CallsType /\ TimeInv /\ ChatInv /\ StoredInv /\ HitsInv


LEMMA CandidatesAre ==
    ASSUME registry \in [override : Model \cup {None}, primary : Model \cup {None},
                         fallback : Model \cup {None}]
    PROVE  Candidates \in Seq(Model \ {None}) /\ Len(Candidates) <= 2
<1> DEFINE primary == IF registry.override # None THEN registry.override ELSE registry.primary
           p == IF primary = None THEN <<>> ELSE <<primary>>
           f == IF registry.fallback = None THEN <<>> ELSE <<registry.fallback>>
           g == IF registry.fallback = primary THEN <<>> ELSE f
<1>1. primary \in Model \cup {None} /\ registry.fallback \in Model \cup {None}
  OBVIOUS
<1>2. p \in Seq(Model \ {None}) /\ Len(p) <= 1
  <2>1. CASE primary = None
    BY <2>1
  <2>2. CASE primary # None
    BY <1>1, <2>2
  <2>3. QED
    BY <2>1, <2>2
<1>3. f \in Seq(Model \ {None}) /\ Len(f) <= 1
  <2>1. CASE registry.fallback = None
    BY <2>1
  <2>2. CASE registry.fallback # None
    BY <1>1, <2>2
  <2>3. QED
    BY <2>1, <2>2
<1>4. g \in Seq(Model \ {None}) /\ Len(g) <= 1
  BY <1>3
<1>5. Candidates = p \o g
  BY DEF Candidates
<1> HIDE DEF p, g
<1>6. p \o g \in Seq(Model \ {None}) /\ Len(p \o g) = Len(p) + Len(g)
  BY <1>2, <1>4, ConcatProperties
<1>7. Len(p) \in Nat /\ Len(g) \in Nat
  BY <1>2, <1>4, LenProperties
<1>8. QED
  BY <1>2, <1>4, <1>5, <1>6, <1>7

LEMMA MinOfTwo ==
    ASSUME NEW a \in Nat, NEW b \in Nat
    PROVE  /\ Min({a, b}) \in Nat /\ Min({a, b}) <= a /\ Min({a, b}) <= b
           /\ Min({a, b}) = a \/ Min({a, b}) = b
<1>1. \E x \in {a, b} : \A y \in {a, b} : x =< y
  OBVIOUS
<1>2. Min({a, b}) \in {a, b} /\ \A y \in {a, b} : Min({a, b}) =< y
  BY <1>1 DEF Min
<1>3. QED
  BY <1>2

\* Whatever the length of the search, its first hits are hits of it.
LEMMA FirstHits ==
    ASSUME NEW n \in Nat
    PROVE  /\ Range(FirstOf(n)) \subseteq 1..n
           /\ Len(FirstOf(n)) <= TopK
           /\ n > 0 => FirstOf(n) # <<>>
<1> DEFINE m == Min({n, TopK})
<1>1. TopK \in Nat /\ TopK > 0
  BY BoundsAreNumbers
<1>2. m \in Nat /\ m <= n /\ m <= TopK /\ (m = n \/ m = TopK)
  BY <1>1, MinOfTwo
<1>3. FirstOf(n) = [i \in 1..m |-> i]
  BY DEF FirstOf
<1> HIDE DEF m
<1>4. DOMAIN FirstOf(n) = 1..m /\ \A i \in 1..m : FirstOf(n)[i] = i
  BY <1>3
<1>5. FirstOf(n) \in Seq(Nat) /\ Len(FirstOf(n)) = m
  <2>1. FirstOf(n) \in [1..m -> Nat]
    BY <1>3
  <2>2. FirstOf(n) \in Seq(Nat)
    BY <1>2, <2>1, SeqDef
  <2>3. QED
    BY <1>2, <1>4, <2>2, LenProperties
<1>6. Range(FirstOf(n)) \subseteq 1..n
  BY <1>2, <1>4 DEF Range
<1>7. n > 0 => FirstOf(n) # <<>>
  BY <1>1, <1>2, <1>5
<1>8. QED
  BY <1>2, <1>5, <1>6, <1>7

LEMMA ConfigIs ==
    ASSUME CallsType
    PROVE  config.timeout \in Nat /\ config.retries \in Nat
BY ConfigsAreConfigs DEF CallsType

LEMMA CallsInitInv == CallsInit => CallsInv
<1> SUFFICES ASSUME CallsInit PROVE CallsInv
  OBVIOUS
<1>1. CallsType
  <2>1. config.retries \in Nat
    BY ConfigsAreConfigs DEF CallsInit
  <2>2. QED
    BY <2>1 DEF CallsInit, CallsType, Stages
<1>2. TimeInv
  BY DEF CallsInit, TimeInv
<1>3. ChatInv /\ StoredInv
  BY DEF CallsInit, ChatInv, StoredInv
<1>4. HitsInv
  BY DEF CallsInit, HitsInv, EvidenceSurvives
<1>5. QED
  BY <1>1, <1>2, <1>3, <1>4 DEF CallsInv

(***************************************************************************)
(* The steps.                                                              *)
(***************************************************************************)
LEMMA StepRetry ==
    ASSUME CallsInv, NEW outcome \in Retried, Retry(outcome)
    PROVE  CallsInv'
<1> USE DEF CallsInv
<1>1. config.timeout \in Nat /\ config.retries \in Nat
  BY ConfigIs
<1>2. CallsType'
  BY <1>1 DEF CallsType, Retry, MayRetry
<1>3. TimeInv'
  BY <1>1 DEF CallsType, Retry, MayRetry, TimeInv, Compose
<1>4. Candidates' = Candidates
  BY DEF Retry, Candidates
<1>5. ChatInv' /\ StoredInv'
  BY <1>4 DEF Retry, ChatInv, StoredInv, AskedInOrder, InVain
<1>6. HitsInv'
  BY DEF Retry, Asking, HitsInv, EvidenceSurvives
<1>7. QED
  BY <1>2, <1>3, <1>5, <1>6

LEMMA StepWait ==
    ASSUME CallsInv, Wait
    PROVE  CallsInv'
<1> USE DEF CallsInv
<1>1. CallsType'
  BY DEF CallsType, Wait
<1>2. TimeInv'
  BY DEF CallsType, Wait, TimeInv, Compose
<1>3. Candidates' = Candidates
  BY DEF Wait, Candidates
<1>4. ChatInv' /\ StoredInv'
  BY <1>3 DEF Wait, ChatInv, StoredInv, AskedInOrder
<1>5. HitsInv'
  BY DEF Wait, Asking, HitsInv, EvidenceSurvives
<1>6. QED
  BY <1>1, <1>2, <1>4, <1>5

\* The last wait of an attempt takes no time or all there is.
LEMMA OneWait ==
    ASSUME CallsInv, NEW outcome, Fails(outcome)
    PROVE  config = Compose => clock' \in {clock, clock + 20}
BY DEF CallsInv, TimeInv, Compose, Fails, Lasts

LEMMA StepSearch ==
    ASSUME CallsInv, NEW n \in 0..MaxFound, Search(n)
    PROVE  CallsInv'
<1> USE DEF CallsInv
<1>0. n \in Nat
  BY BoundsAreNumbers
<1>1. CallsType'
  BY <1>0 DEF CallsType, Search, Stages
<1>2. TimeInv'
  BY DEF CallsType, Search, TimeInv
<1>3. ChatInv' /\ StoredInv'
  BY DEF Search, ChatInv, StoredInv
<1>4. HitsInv'
  BY BoundsAreNumbers DEF Search, HitsInv, EvidenceSurvives, Range
<1>5. QED
  BY <1>1, <1>2, <1>3, <1>4

LEMMA StepNoSearch ==
    ASSUME CallsInv, NoSearch
    PROVE  CallsInv'
<1> USE DEF CallsInv
<1>1. CallsType'
  BY DEF CallsType, NoSearch, Stages
<1>2. TimeInv'
  BY DEF CallsType, NoSearch, TimeInv
<1>3. ChatInv' /\ StoredInv'
  BY DEF NoSearch, ChatInv, StoredInv
<1>4. HitsInv'
  BY BoundsAreNumbers DEF NoSearch, HitsInv, EvidenceSurvives, Range
<1>5. QED
  BY <1>1, <1>2, <1>3, <1>4

\* The reranking ends, with an answer or without: it took one wait or no time.
LEMMA RerankingEnds ==
    ASSUME CallsInv, stage = "rerank", stage' = "ready", Reset,
           config = Compose => clock' \in {clock, clock + 20},
           UNCHANGED <<config, registry, found, tries, model, waits>>
    PROVE  CallsType' /\ TimeInv' /\ ChatInv' /\ StoredInv'
<1> USE DEF CallsInv
<1>0. config.timeout \in Nat /\ config.retries \in Nat
  BY ConfigIs
<1>1. CallsType'
  BY <1>0 DEF CallsType, Reset, Stages
<1>2. TimeInv'
  BY DEF CallsType, TimeInv, Compose
<1>3. ChatInv' /\ StoredInv'
  BY DEF ChatInv, StoredInv
<1>4. QED
  BY <1>1, <1>2, <1>3

LEMMA FirstSurvive ==
    ASSUME CallsInv, found' = found, stage' = "ready", hits' = FirstOf(found)
    PROVE  HitsInv'
<1>1. found \in Nat
  BY DEF CallsInv, CallsType
<1>2. /\ Range(hits') \subseteq 1..found'
      /\ Len(hits') <= TopK
      /\ found' > 0 => hits' # <<>>
  BY <1>1, FirstHits
<1>3. QED
  BY <1>2 DEF HitsInv, EvidenceSurvives

LEMMA StepRerankFails ==
    ASSUME CallsInv, NEW outcome \in Retried \cup Raised, RerankFails(outcome)
    PROVE  CallsInv'
<1>1. CallsType' /\ TimeInv' /\ ChatInv' /\ StoredInv'
  BY RerankingEnds, OneWait DEF RerankFails
<1>2. HitsInv'
  BY FirstSurvive DEF RerankFails
<1>3. QED
  BY <1>1, <1>2 DEF CallsInv

LEMMA StepRerankAnswers ==
    ASSUME CallsInv, NEW list \in SeqOf(-(MaxFound + 1)..MaxFound, MaxFound),
           RerankAnswers(list)
    PROVE  CallsInv'
<1>1. CallsType' /\ TimeInv' /\ ChatInv' /\ StoredInv'
  BY RerankingEnds DEF RerankAnswers
<1>2. HitsInv'
  <2>1. CASE \A i \in DOMAIN list : At(list[i]) \in 1..found
    <3> DEFINE m == Min({Len(list), TopK})
    <3>1. PICK k \in 0..MaxFound : list \in [1..k -> -(MaxFound + 1)..MaxFound]
      BY DEF SeqOf
    <3>2. k \in Nat /\ DOMAIN list = 1..k /\ TopK \in Nat
      BY <3>1, BoundsAreNumbers
    <3>3. Len(list) = k
      <4>1. list \in Seq(-(MaxFound + 1)..MaxFound)
        BY <3>1, <3>2, SeqDef
      <4>2. QED
        BY <3>2, <4>1, LenProperties
    <3>4. m \in Nat /\ m <= k /\ m <= TopK
      BY <3>2, <3>3, MinOfTwo
    <3>5. hits' = [i \in 1..m |-> At(list[i])] /\ reranked' = "ANSWERED"
      BY <2>1 DEF RerankAnswers
    <3>6. stage' = "ready" /\ found' = found
      BY DEF RerankAnswers
    <3> HIDE DEF m
    <3>7. Range(hits') \subseteq 1..found
      BY <2>1, <3>2, <3>4, <3>5 DEF Range
    <3>8. Len(hits') = m
      <4>1. hits' \in [1..m -> 1..found]
        BY <2>1, <3>2, <3>4, <3>5
      <4>2. hits' \in Seq(1..found) /\ DOMAIN hits' = 1..m
        BY <3>4, <3>5, <4>1, SeqDef
      <4>3. QED
        BY <3>4, <4>2, LenProperties
    <3>9. QED
      BY <3>4, <3>5, <3>6, <3>7, <3>8 DEF HitsInv, EvidenceSurvives
  <2>2. CASE ~ \A i \in DOMAIN list : At(list[i]) \in 1..found
    BY <2>2, FirstSurvive DEF RerankAnswers
  <2>3. QED
    BY <2>1, <2>2
<1>3. QED
  BY <1>1, <1>2 DEF CallsInv

LEMMA StepInvoke ==
    ASSUME CallsInv, Invoke
    PROVE  CallsInv'
<1> USE DEF CallsInv
<1>0. config.retries \in Nat /\ Candidates \in Seq(Model) /\ Len(Candidates) \in Nat
  <2>1. Candidates \in Seq(Model \ {None})
    BY CandidatesAre DEF CallsType
  <2>2. QED
    BY <2>1, ConfigIs, LenProperties
<1>1. Candidates' = Candidates
  BY DEF Invoke, Candidates
<1>2. CallsType'
  BY <1>0 DEF CallsType, Invoke, Stages
<1>3. TimeInv'
  BY <1>0 DEF CallsType, Invoke, TimeInv
<1>4. ChatInv'
  <2>1. SUFFICES ASSUME stage' = "chat" PROVE ChatInv'
    BY DEF ChatInv
  <2>2. Candidates # <<>>
    BY <2>1 DEF Invoke
  <2>3. Len(Candidates) > 0
    BY <1>0, <2>2, EmptySeq
  <2>4. tries' = <<>> /\ models' = Candidates /\ model' = None
    BY DEF Invoke
  <2>5. QED
    BY <1>0, <1>1, <2>3, <2>4 DEF ChatInv, AskedInOrder
<1>5. StoredInv'
  <2>1. SUFFICES ASSUME stage' = "stored" PROVE StoredInv'
    BY DEF StoredInv
  <2>2. Candidates = <<>> /\ tries' = <<>> /\ model' = None
    BY <2>1 DEF Invoke
  <2>3. QED
    BY <1>1, <2>2 DEF StoredInv, AskedInOrder
<1>6. HitsInv'
  BY DEF Invoke, HitsInv, EvidenceSurvives
<1>7. QED
  BY <1>2, <1>3, <1>4, <1>5, <1>6

\* A call has ended: it is one more of those the models have been asked.
Added(outcome) ==
    tries' = Append(tries, [model |-> Head(models), outcome |-> outcome, attempts |-> attempt + 1])

LEMMA OneMoreAsked ==
    ASSUME CallsInv, stage = "chat", NEW outcome \in Outcomes, Added(outcome),
           UNCHANGED <<config, registry>>
    PROVE  /\ Candidates' = Candidates
           /\ Len(tries) \in Nat /\ Len(tries') = Len(tries) + 1
           /\ tries' \in Seq([model : Model, outcome : Outcomes, attempts : Nat])
           /\ AskedInOrder'
           /\ \A i \in 1..Len(tries) : tries'[i] = tries[i] /\ InVain(tries'[i], config'.retries)
           /\ tries'[Len(tries')] =
                [model |-> models[1], outcome |-> outcome, attempts |-> attempt + 1]
<1> DEFINE try == [model |-> models[1], outcome |-> outcome, attempts |-> attempt + 1]
<1>1. Candidates' = Candidates
  BY DEF Candidates
<1>2. /\ Len(models) > 0 /\ models \in Seq(Model) /\ attempt \in Nat
      /\ tries \in Seq([model : Model, outcome : Outcomes, attempts : Nat])
      /\ Len(tries) + Len(models) = Len(Candidates)
      /\ models[1] = Candidates[Len(tries) + 1]
      /\ AskedInOrder
      /\ \A i \in 1..Len(tries) : InVain(tries[i], config.retries)
  BY LenProperties DEF CallsInv, CallsType, ChatInv
<1>3. Len(tries) \in Nat /\ Len(models) \in Nat
  BY <1>2, LenProperties
<1>4. models[1] \in Model
  BY <1>2, <1>3, ElementOfSeq
<1>5. tries' = Append(tries, try)
  BY <1>2, HeadTailProperties DEF Added
<1>6. try \in [model : Model, outcome : Outcomes, attempts : Nat]
  BY <1>2, <1>4
<1>7. /\ tries' \in Seq([model : Model, outcome : Outcomes, attempts : Nat])
      /\ Len(tries') = Len(tries) + 1
      /\ \A i \in 1..Len(tries) : tries'[i] = tries[i]
      /\ tries'[Len(tries) + 1] = try
  BY <1>2, <1>5, <1>6, AppendProperties
<1>8. AskedInOrder'
  <2>1. Len(tries') <= Len(Candidates)
    BY <1>2, <1>3, <1>7
  <2>2. ASSUME NEW i \in 1..Len(tries') PROVE tries'[i].model = Candidates[i]
    <3>1. CASE i = Len(tries) + 1
      BY <1>2, <1>7, <3>1
    <3>2. CASE i # Len(tries) + 1
      <4>1. i \in 1..Len(tries)
        BY <1>3, <1>7, <3>2
      <4>2. tries'[i] = tries[i] /\ tries[i].model = Candidates[i]
        BY <1>2, <1>7, <4>1 DEF AskedInOrder
      <4>3. QED
        BY <4>2
    <3>3. QED
      BY <3>1, <3>2
  <2>3. QED
    BY <1>1, <2>1, <2>2 DEF AskedInOrder
<1>9. \A i \in 1..Len(tries) : InVain(tries'[i], config'.retries)
  BY <1>2, <1>7 DEF InVain
<1>10. QED
  BY <1>1, <1>3, <1>7, <1>8, <1>9

\* A call has ended in vain, and it took one wait or no time.
LEMMA NextModelIsAsked ==
    ASSUME CallsInv, stage = "chat", NEW outcome \in Outcomes \ {"FIT"}, NextModel(outcome),
           config = Compose => clock' \in {clock, clock + 20},
           outcome \in Retried => ~MayRetry,
           UNCHANGED <<config, registry, found, hits, reranked, model, waits>>
    PROVE  CallsInv'
<1> DEFINE try == [model |-> models[1], outcome |-> outcome, attempts |-> attempt + 1]
<1>1. Added(outcome)
  BY DEF NextModel, Added
<1>2. /\ Candidates' = Candidates
      /\ Len(tries) \in Nat /\ Len(tries') = Len(tries) + 1
      /\ tries' \in Seq([model : Model, outcome : Outcomes, attempts : Nat])
      /\ AskedInOrder'
      /\ \A i \in 1..Len(tries) : tries'[i] = tries[i] /\ InVain(tries'[i], config'.retries)
      /\ tries'[Len(tries')] = try
  BY <1>1, OneMoreAsked
<1>3. /\ config.retries \in Nat /\ config.timeout \in Nat /\ attempt \in Nat
      /\ attempt <= config.retries /\ models \in Seq(Model)
  BY ConfigIs DEF CallsInv, CallsType
<1>4. InVain(try, config'.retries)
  BY <1>3 DEF InVain, MayRetry
<1>5. \A i \in 1..Len(tries') : InVain(tries'[i], config'.retries)
  BY <1>2, <1>4
<1>6. /\ Len(models) > 0 /\ Len(tries) + Len(models) = Len(Candidates)
      /\ \A i \in 1..Len(models) : models[i] = Candidates[Len(tries) + i]
      /\ model = None
  BY DEF CallsInv, ChatInv
<1>7. /\ models' \in Seq(Model) /\ Len(models') = Len(models) - 1
      /\ \A i \in 1..Len(models') : models'[i] = models[i + 1]
      /\ Len(models) \in Nat
  <2>1. models # <<>> /\ models' = Tail(models)
    BY <1>3, <1>6 DEF NextModel
  <2>2. QED
    BY <1>3, <2>1, HeadTailProperties, LenProperties
<1>8. models' = <<>> <=> Len(models') = 0
  BY <1>7, EmptySeq
<1>9. stage' = (IF models' = <<>> THEN "stored" ELSE "chat") /\ attempt' = 0
  BY DEF NextModel
<1>10. CallsType'
  BY <1>2, <1>3, <1>7, <1>9 DEF CallsInv, CallsType, Stages
<1>11. TimeInv'
  <2>1. Len(Candidates) <= 2
    BY CandidatesAre DEF CallsInv, CallsType
  <2>2. Len(tries') <= 2
    BY <1>2, <1>6, <1>7, <2>1
  <2>3. config = Compose => /\ clock \in Nat /\ waits \in Nat /\ config.timeout = 20
                            /\ clock <= 20 + 20 * Len(tries) + 20 * waits
    BY DEF CallsInv, CallsType, TimeInv, Compose
  <2>4. config = Compose => clock' \in Nat /\ clock' <= 20 + 20 * Len(tries') + 20 * waits'
    BY <1>2, <2>3
  <2>5. QED
    BY <1>2, <1>9, <2>2, <2>3, <2>4 DEF TimeInv
<1>12. ChatInv'
  <2>1. SUFFICES ASSUME stage' = "chat" PROVE ChatInv'
    BY DEF ChatInv
  <2>2. Len(models') > 0
    BY <1>6, <1>7, <1>8, <1>9, <2>1
  <2>3. Len(tries') + Len(models') = Len(Candidates')
    <3>1. Len(tries') + Len(models') = Len(Candidates)
      <4>1. Len(tries) \in Nat /\ Len(tries') = Len(tries) + 1
        BY <1>2
      <4>2. Len(models) \in Nat /\ Len(models') = Len(models) - 1
        BY <1>7
      <4>3. Len(tries) + Len(models) = Len(Candidates)
        BY <1>6
      <4>4. QED
        BY <4>1, <4>2, <4>3
    <3>2. Candidates' = Candidates
      BY <1>2
    <3>3. QED
      BY <3>1, <3>2
  <2>4. ASSUME NEW i \in 1..Len(models') PROVE models'[i] = Candidates'[Len(tries') + i]
    <3>1. i + 1 \in 1..Len(models) /\ Len(tries) + (i + 1) = Len(tries') + i
      BY <1>2, <1>7
    <3>2. models'[i] = models[i + 1] /\ models[i + 1] = Candidates[Len(tries) + (i + 1)]
      BY <1>6, <1>7, <3>1
    <3>3. QED
      BY <1>2, <3>1, <3>2
  <2>5. model' = None
    BY <1>6
  <2>6. QED
    BY <1>2, <1>5, <2>2, <2>3, <2>4, <2>5 DEF ChatInv
<1>13. StoredInv'
  <2>1. SUFFICES ASSUME stage' = "stored" PROVE StoredInv'
    BY DEF StoredInv
  <2>2. Len(tries') = Len(Candidates')
    BY <1>2, <1>6, <1>7, <1>8, <1>9, <2>1
  <2>3. QED
    BY <1>2, <1>5, <1>6, <2>2 DEF StoredInv
<1>14. HitsInv'
  BY <1>9 DEF HitsInv, EvidenceSurvives
<1>15. QED
  BY <1>10, <1>11, <1>12, <1>13, <1>14 DEF CallsInv

LEMMA StepChatAnswers ==
    ASSUME CallsInv, ChatAnswers
    PROVE  CallsInv'
<1> DEFINE try == [model |-> models[1], outcome |-> "FIT", attempts |-> attempt + 1]
<1>0. Added("FIT") /\ "FIT" \in Outcomes /\ stage = "chat" /\ UNCHANGED <<config, registry>>
  BY DEF ChatAnswers, Added, Outcomes
<1>1. /\ Candidates' = Candidates
      /\ Len(tries) \in Nat /\ Len(tries') = Len(tries) + 1
      /\ tries' \in Seq([model : Model, outcome : Outcomes, attempts : Nat])
      /\ AskedInOrder'
      /\ \A i \in 1..Len(tries) : tries'[i] = tries[i] /\ InVain(tries'[i], config'.retries)
      /\ tries'[Len(tries')] = try
  BY <1>0, OneMoreAsked
<1>2. /\ config.retries \in Nat /\ config.timeout \in Nat /\ attempt \in Nat
      /\ attempt <= config.retries /\ models \in Seq(Model) /\ Len(models) \in Nat
  BY ConfigIs, LenProperties DEF CallsInv, CallsType
<1>3. Len(models) > 0 /\ Len(tries) + Len(models) = Len(Candidates)
  BY <1>0 DEF CallsInv, ChatInv
<1>4. model' = models[1]
  BY <1>2, <1>3, HeadTailProperties DEF ChatAnswers
<1>5. CallsType'
  BY <1>1, <1>2 DEF CallsInv, CallsType, ChatAnswers, Reset, Stages
<1>6. TimeInv'
  <2>1. Len(Candidates) <= 2
    BY CandidatesAre DEF CallsInv, CallsType
  <2>2. Len(tries) <= 1
    BY <1>1, <1>2, <1>3, <2>1
  <2>3. config = Compose => clock \in Nat /\ waits \in Nat /\ clock <= 40 + 20 * waits
    BY <1>0, <1>1, <2>2 DEF CallsInv, CallsType, TimeInv, Compose
  <2>4. QED
    BY <2>3 DEF TimeInv, ChatAnswers
<1>7. ChatInv'
  BY DEF ChatInv, ChatAnswers
<1>8. StoredInv'
  <2>1. Candidates' # <<>>
    BY <1>1, <1>2, <1>3
  <2>2. try.model = model' /\ try.outcome = "FIT" /\ try.attempts <= config'.retries + 1
    BY <1>0, <1>2, <1>4
  <2>3. \A i \in 1..(Len(tries') - 1) : InVain(tries'[i], config'.retries)
    BY <1>1
  <2>4. model' # None
    <3>1. Candidates \in Seq(Model \ {None})
      BY CandidatesAre DEF CallsInv, CallsType
    <3>2. model' = Candidates[Len(tries) + 1] /\ Len(tries) + 1 \in 1..Len(Candidates)
      BY <1>0, <1>1, <1>2, <1>3, <1>4 DEF CallsInv, ChatInv
    <3>3. QED
      BY <3>1, <3>2, ElementOfSeq
  <2>5. QED
    BY <1>1, <2>2, <2>3, <2>4 DEF StoredInv
<1>9. HitsInv'
  BY DEF HitsInv, EvidenceSurvives, ChatAnswers
<1>10. QED
  BY <1>5, <1>6, <1>7, <1>8, <1>9 DEF CallsInv

LEMMA CallsStepInv == CallsInv /\ [CallsNext]_callVars => CallsInv'
<1> SUFFICES ASSUME CallsInv, [CallsNext]_callVars PROVE CallsInv'
  OBVIOUS
<1>1. CASE \E n \in 0..MaxFound : Search(n)
  BY <1>1, StepSearch
<1>2. CASE NoSearch
  BY <1>2, StepNoSearch
<1>3. CASE Invoke
  BY <1>3, StepInvoke
<1>4. ASSUME NEW outcome \in Retried, Retry(outcome)
      PROVE  CallsInv'
  BY <1>4, StepRetry
<1>5. ASSUME NEW outcome \in Retried \cup Raised, RerankFails(outcome) \/ ChatFails(outcome)
      PROVE  CallsInv'
  <2>1. CASE RerankFails(outcome)
    BY <2>1, StepRerankFails
  <2>2. CASE ChatFails(outcome)
    <3>1. outcome \in Outcomes \ {"FIT"}
      BY DEF Outcomes, Retried, Raised
    <3>2. QED
      BY <2>2, <3>1, NextModelIsAsked, OneWait DEF ChatFails, Fails
  <2>3. QED
    BY <1>5, <2>1, <2>2
<1>6. ASSUME NEW list \in SeqOf(-(MaxFound + 1)..MaxFound, MaxFound), RerankAnswers(list)
      PROVE  CallsInv'
  BY <1>6, StepRerankAnswers
<1>7. CASE ChatUnfit
  <2>1. "UNFIT" \in Outcomes \ {"FIT"} /\ "UNFIT" \notin Retried
    BY DEF Outcomes, Retried, Raised
  <2>2. QED
    BY <1>7, <2>1, NextModelIsAsked DEF ChatUnfit
<1>8. CASE ChatAnswers
  BY <1>8, StepChatAnswers
<1>9. CASE Wait
  BY <1>9, StepWait
<1>10. CASE UNCHANGED callVars
  <2>1. Candidates' = Candidates
    BY <1>10 DEF callVars, Candidates
  <2>2. CallsType' /\ TimeInv' /\ HitsInv'
    BY <1>10 DEF callVars, CallsInv, CallsType, TimeInv, HitsInv, EvidenceSurvives
  <2>3. ChatInv' /\ StoredInv'
    BY <1>10, <2>1 DEF callVars, CallsInv, ChatInv, StoredInv, AskedInOrder
  <2>4. QED
    BY <2>2, <2>3 DEF CallsInv
<1>11. QED
  BY <1>1, <1>2, <1>3, <1>4, <1>5, <1>6, <1>7, <1>8, <1>9, <1>10 DEF CallsNext

LEMMA CallsInvHolds == CallsSpec => []CallsInv
BY CallsInitInv, CallsStepInv, PTL DEF CallsSpec

\* A stepwise request of the composed system is answered before the proxy
\* gives up, for every list of hits and every way of registering models,
\* unless the provider draws out more than three waits: it waits for the
\* reranker once and for each of two candidates once.
THEOREM StepwiseRequestsAreAnswered == CallsSpec => []AnsweredInTime
<1>1. CallsInv => AnsweredInTime
  <2> SUFFICES ASSUME CallsInv, config = Compose, waits <= 3 PROVE clock <= ProxyTimeout
    BY DEF AnsweredInTime
  <2>1. Candidates \in Seq(Model \ {None}) /\ Len(Candidates) <= 2 /\ stage \in Stages
    BY CandidatesAre DEF CallsInv, CallsType
  <2>2. stage = "chat" => Len(tries) <= 2 /\ Len(tries) \in Nat
    <3>1. Len(tries) \in Nat /\ Len(Candidates) \in Nat
      BY <2>1, LenProperties DEF CallsInv, CallsType
    <3>2. stage = "chat" => Len(tries) <= Len(Candidates)
      BY DEF CallsInv, ChatInv, AskedInOrder
    <3>3. QED
      BY <2>1, <3>1, <3>2
  <2>3. /\ clock \in Nat /\ waits \in Nat
        /\ stage \in {"agent", "rerank"} => clock <= 20 * waits
        /\ stage = "ready" => clock <= 20 + 20 * waits
        /\ stage = "chat" => clock <= 20 + 20 * Len(tries) + 20 * waits
        /\ stage = "stored" => clock <= 60 + 20 * waits
    BY DEF CallsInv, CallsType, TimeInv
  <2>4. QED
    BY <2>1, <2>2, <2>3 DEF ProxyTimeout, Stages
<1>2. QED
  BY <1>1, CallsInvHolds, PTL

\* An agent falls back to what it has itself only after every candidate has
\* failed with all the attempts its errors allow, and the model an artifact
\* names is the first candidate whose answer fits: for any number of
\* retries.
THEOREM FallbackComesLast == CallsSpec => []FallbackIsTheLastResort
<1>1. CallsInv => FallbackIsTheLastResort
  <2> SUFFICES ASSUME CallsInv, stage = "stored" PROVE FallbackIsTheLastResort
    BY DEF FallbackIsTheLastResort
  <2> DEFINE asked == [i \in DOMAIN tries |-> tries[i].model]
  <2>1. /\ Candidates \in Seq(Model \ {None})
        /\ tries \in Seq([model : Model, outcome : Outcomes, attempts : Nat])
        /\ config.retries \in Nat
    BY ConfigIs, CandidatesAre DEF CallsInv, CallsType
  <2>2. /\ Len(Candidates) \in Nat /\ Len(tries) \in Nat /\ DOMAIN tries = 1..Len(tries)
        /\ DOMAIN Candidates = 1..Len(Candidates)
    BY <2>1, LenProperties
  <2>3. Len(tries) <= Len(Candidates) /\ \A i \in 1..Len(tries) : tries[i].model = Candidates[i]
    BY DEF CallsInv, StoredInv, AskedInOrder
  <2>4. CASE model = None
    <3>1. Len(tries) = Len(Candidates) /\ \A i \in 1..Len(tries) : InVain(tries[i], config.retries)
      BY <2>4 DEF CallsInv, StoredInv
    <3>2. asked = Candidates
      <4>1. Candidates = [i \in 1..Len(Candidates) |-> Candidates[i]]
        BY <2>1, LenProperties
      <4>2. QED
        BY <2>2, <2>3, <3>1, <4>1
    <3>3. \A i \in DOMAIN tries : InVain(tries[i], config.retries)
      BY <2>2, <3>1
    <3>4. QED
      BY <2>4, <3>2, <3>3 DEF FallbackIsTheLastResort, InVain
  <2>5. CASE model # None
    <3>1. /\ Len(tries) > 0 /\ Last(tries).model = model /\ Last(tries).outcome = "FIT"
          /\ Last(tries).attempts <= config.retries + 1
          /\ \A i \in 1..(Len(tries) - 1) : InVain(tries[i], config.retries)
      BY <2>5 DEF CallsInv, StoredInv, Last
    <3>2. asked = SubSeq(Candidates, 1, Len(tries))
      <4>1. SubSeq(Candidates, 1, Len(tries)) = [i \in 1..Len(tries) |-> Candidates[i]]
        BY <2>1, <2>2, <2>3
      <4>2. QED
        BY <2>2, <2>3, <4>1
    <3>3. ASSUME NEW i \in DOMAIN tries
          PROVE  /\ tries[i].outcome = "FIT" <=> i = Len(tries) /\ model # None
                 /\ tries[i].outcome \in Retried => tries[i].attempts = config.retries + 1
                 /\ tries[i].attempts <= config.retries + 1
      <4>1. CASE i = Len(tries)
        BY <2>5, <3>1, <4>1 DEF Last, Retried
      <4>2. CASE i # Len(tries)
        <5>1. InVain(tries[i], config.retries)
          BY <2>2, <3>1, <4>2
        <5>2. QED
          BY <4>2, <5>1 DEF InVain
      <4>3. QED
        BY <4>1, <4>2
    <3>4. QED
      BY <2>5, <3>1, <3>2, <3>3 DEF FallbackIsTheLastResort
  <2>6. QED
    BY <2>4, <2>5
<1>2. QED
  BY <1>1, CallsInvHolds, PTL

\* Agents work with hits of the search, TopK at most, whatever indexes the
\* reranker sends and however many hits there are; a reranker that fails
\* never leaves them without.
THEOREM HitsSurvive == CallsSpec => []EvidenceSurvives
<1>1. CallsInv => EvidenceSurvives
  BY DEF CallsInv, HitsInv
<1>2. QED
  BY <1>1, CallsInvHolds, PTL
=============================================================================
