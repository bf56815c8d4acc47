------------------------- MODULE ReadinessRulesProofs -------------------------
(***************************************************************************)
(* Proofs about ReadinessRules, for every case that can be posted and      *)
(* every precision of the rounding.  A step hides nothing here: the work   *)
(* is to show that the rules, which see a figure through two rounds of     *)
(* normalisation and one of rounding, ask for what the bank asks for.      *)
(***************************************************************************)
EXTENDS ReadinessRules, TLAPS

-----------------------------------------------------------------------------
(***************************************************************************)
(* Rounding.  A rounded figure is off by half a unit at most, and one that *)
(* is on one side of a multiple of the unit stays there.                   *)
(***************************************************************************)
LEMMA Division ==
    ASSUME NEW a \in Nat, NEW b \in Nat \ {0}
    PROVE  a \div b \in Nat /\ b * (a \div b) <= a /\ a < b * (a \div b) + b
OBVIOUS

LEMMA RoundingError ==
    ASSUME NEW n \in Nat, NEW d \in Nat \ {0}
    PROVE  LET r == Rounded(n, d)
           IN  /\ r \in Int
               /\ 2 * (d * r) <= 2 * (Unit * n) + d
               /\ 2 * (Unit * n) - d <= 2 * (d * r)
<1> DEFINE x == Unit * n
           a == 2 * Unit * n + d
           b == 2 * d
           q == a \div b
<1>1. x \in Nat /\ a \in Nat /\ b \in Nat \ {0} /\ a = 2 * x + d
  BY UnitHoldsThresholds
<1> HIDE DEF x, a, b
<1>2. q \in Nat /\ b * q <= a /\ a < b * q + b
  BY <1>1, Division
<1> HIDE DEF q
<1>3. b * q = 2 * (d * q) /\ d * q \in Nat /\ d * (q - 1) = d * q - d
  BY <1>2 DEF b
<1>4. Rounded(n, d) = IF a = 2 * d * q /\ q % 2 = 1 THEN q - 1 ELSE q
  BY DEF Rounded, a, b, q
<1>5. 2 * d * q = 2 * (d * q)
  BY <1>2
<1>6. CASE Rounded(n, d) = q
  <2>1. 2 * (d * q) <= 2 * x + d /\ 2 * x - d <= 2 * (d * q)
    BY <1>1, <1>2, <1>3 DEF b
  <2>2. QED
    BY <1>2, <1>6, <2>1 DEF x
<1>7. CASE Rounded(n, d) = q - 1 /\ a = 2 * (d * q)
  <2>1. 2 * (d * (q - 1)) <= 2 * x + d /\ 2 * x - d <= 2 * (d * (q - 1))
    BY <1>1, <1>2, <1>3, <1>7 DEF b
  <2>2. q - 1 \in Int
    BY <1>2
  <2>3. QED
    BY <1>7, <2>1, <2>2 DEF x
<1>8. QED
  BY <1>4, <1>5, <1>6, <1>7

LEMMA RoundingKeepsSides ==
    ASSUME NEW n \in Nat, NEW d \in Nat \ {0}, NEW k \in Int
    PROVE  /\ Unit * n <= d * k => Rounded(n, d) <= k
           /\ Unit * n >= d * k => Rounded(n, d) >= k
<1> DEFINE r == Rounded(n, d)
           x == Unit * n
<1>1. /\ r \in Int /\ x \in Nat
      /\ 2 * (d * r) <= 2 * x + d /\ 2 * x - d <= 2 * (d * r)
  BY RoundingError, UnitHoldsThresholds
<1> HIDE DEF r, x
<1>2. d * k \in Int /\ d * r \in Int /\ d * (r - k) = d * r - d * k
  BY <1>1
<1>3. r >= k + 1 => d * (r - k) >= d
  BY <1>1
<1>4. r <= k - 1 => d * (r - k) <= -d
  BY <1>1
<1>5. x <= d * k => r <= k
  BY <1>1, <1>2, <1>3
<1>6. x >= d * k => r >= k
  BY <1>1, <1>2, <1>4
<1>7. QED
  BY <1>5, <1>6 DEF r, x

(***************************************************************************)
(* The thresholds are multiples of the unit: a figure on the right side of *)
(* one is accepted, and one that is accepted is beyond it by half a unit   *)
(* at most.                                                                *)
(***************************************************************************)
LEMMA Tenths == \E m \in Nat \ {0} : Unit = 10 * m
<1> DEFINE m == Unit \div 10
<1>1. m \in Nat /\ Unit = 10 * m
  BY UnitHoldsThresholds
<1>2. QED
  BY <1>1, UnitHoldsThresholds

LEMMA GapThreshold ==
    ASSUME NEW n \in Nat, NEW d \in Nat \ {0}
    PROVE  /\ AtMost(n, d, 1, 10, 0) => 10 * n <= d
           /\ 10 * n <= d => 10 * Rounded(n, d) <= Unit
           /\ 10 * Rounded(n, d) <= Unit => AtMost(n, d, 1, 10, 1)
<1> DEFINE r == Rounded(n, d)
<1>1. PICK m \in Nat \ {0} : Unit = 10 * m
  BY Tenths
<1>2. r \in Int /\ 2 * (Unit * n) - d <= 2 * (d * r)
  BY RoundingError
<1>3. Unit * n <= d * m => r <= m
  BY <1>1, RoundingKeepsSides
<1> HIDE DEF r
<1>4. AtMost(n, d, 1, 10, 0) => 10 * n <= d
  <2>1. AtMost(n, d, 1, 10, 0) <=> 2 * Unit * 10 * n <= 2 * Unit * d
    BY <1>1 DEF AtMost
  <2>2. 2 * Unit * 10 * n = 2 * (Unit * (10 * n)) /\ 2 * Unit * d = 2 * (Unit * d)
    BY <1>1
  <2>3. Unit * (10 * n) <= Unit * d => 10 * n <= d
    BY <1>1
  <2>4. QED
    BY <1>1, <2>1, <2>2, <2>3
<1>5. 10 * n <= d => 10 * r <= Unit
  <2>1. Unit * n = m * (10 * n) /\ d * m = m * d
    BY <1>1
  <2>2. 10 * n <= d => m * (10 * n) <= m * d
    BY <1>1
  <2>3. QED
    BY <1>1, <1>2, <1>3, <2>1, <2>2
<1>6. 10 * r <= Unit => AtMost(n, d, 1, 10, 1)
  <2>1. 10 * r <= Unit => d * (10 * r) <= d * Unit
    BY <1>1, <1>2
  <2>2. d * (10 * r) = 10 * (d * r) /\ d * r \in Int /\ Unit * n \in Int /\ d * Unit \in Int
    BY <1>1, <1>2
  <2>3. /\ 2 * Unit * 10 * n = 20 * (Unit * n)
        /\ (2 * Unit * 1 + 1 * 10) * d = 2 * (d * Unit) + 10 * d
    BY <1>1
  <2>4. 10 * r <= Unit => 20 * (Unit * n) <= 2 * (d * Unit) + 10 * d
    BY <1>2, <2>1, <2>2
  <2>5. QED
    BY <2>3, <2>4 DEF AtMost
<1>7. QED
  BY <1>4, <1>5, <1>6 DEF r

LEMMA LimitThreshold ==
    ASSUME NEW n \in Nat, NEW d \in Nat \ {0}
    PROVE  /\ AtMost(n, d, 3, 2, 0) => 2 * Rounded(n, d) <= 3 * Unit
           /\ 2 * Rounded(n, d) <= 3 * Unit => AtMost(n, d, 3, 2, 1)
<1> DEFINE r == Rounded(n, d)
<1>1. PICK m \in Nat \ {0} : Unit = 10 * m
  BY Tenths
<1>2. r \in Int /\ 2 * (Unit * n) - d <= 2 * (d * r)
  BY RoundingError
<1>3. Unit * n <= d * (15 * m) => r <= 15 * m
  BY <1>1, RoundingKeepsSides
<1> HIDE DEF r
<1>4. d * r \in Int /\ Unit * n \in Int /\ d * Unit \in Int /\ d * m \in Int
  BY <1>1, <1>2
<1>5. AtMost(n, d, 3, 2, 0) => 2 * r <= 3 * Unit
  <2>1. /\ 2 * Unit * 2 * n = 4 * (Unit * n)
        /\ (2 * Unit * 3 + 0 * 2) * d = 6 * (d * Unit)
        /\ d * Unit = 10 * (d * m) /\ d * (15 * m) = 15 * (d * m)
    BY <1>1
  <2>2. AtMost(n, d, 3, 2, 0) => 4 * (Unit * n) <= 6 * (d * Unit)
    BY <2>1 DEF AtMost
  <2>3. AtMost(n, d, 3, 2, 0) => Unit * n <= d * (15 * m)
    BY <1>4, <2>1, <2>2
  <2>4. QED
    BY <1>1, <1>2, <1>3, <2>3
<1>6. 2 * r <= 3 * Unit => AtMost(n, d, 3, 2, 1)
  <2>1. 2 * r <= 3 * Unit => d * (2 * r) <= d * (3 * Unit)
    BY <1>1, <1>2
  <2>2. d * (2 * r) = 2 * (d * r) /\ d * (3 * Unit) = 3 * (d * Unit)
    BY <1>1, <1>2
  <2>3. /\ 2 * Unit * 2 * n = 4 * (Unit * n)
        /\ (2 * Unit * 3 + 1 * 2) * d = 6 * (d * Unit) + 2 * d
    BY <1>1
  <2>4. 2 * r <= 3 * Unit => 4 * (Unit * n) <= 6 * (d * Unit) + 2 * d
    BY <1>2, <1>4, <2>1, <2>2
  <2>5. QED
    BY <2>3, <2>4 DEF AtMost
<1>7. QED
  BY <1>5, <1>6 DEF r

LEMMA ShareThreshold ==
    ASSUME NEW n \in Nat
    PROVE  /\ AtLeast(n, 100, 3, 5, 0) => 10 * Rounded(n, 100) >= 6 * Unit
           /\ 10 * Rounded(n, 100) >= 6 * Unit => AtLeast(n, 100, 3, 5, 1)
<1> DEFINE r == Rounded(n, 100)
<1>1. PICK m \in Nat \ {0} : Unit = 10 * m
  BY Tenths
<1>2. r \in Int /\ 2 * (100 * r) <= 2 * (Unit * n) + 100
  BY RoundingError
<1>3. Unit * n >= 100 * (6 * m) => r >= 6 * m
  BY <1>1, RoundingKeepsSides
<1> HIDE DEF r
<1>4. Unit * n \in Int
  BY <1>1
<1>5. /\ 2 * Unit * 5 * n = 10 * (Unit * n)
      /\ (2 * Unit * 3 - 0 * 5) * 100 = 600 * Unit
      /\ (2 * Unit * 3 - 1 * 5) * 100 = 600 * Unit - 500
  BY <1>1
<1>6. AtLeast(n, 100, 3, 5, 0) => 10 * r >= 6 * Unit
  BY <1>1, <1>2, <1>3, <1>4, <1>5 DEF AtLeast
<1>7. 10 * r >= 6 * Unit => AtLeast(n, 100, 3, 5, 1)
  BY <1>1, <1>2, <1>4, <1>5 DEF AtLeast
<1>8. QED
  BY <1>6, <1>7 DEF r

\* A monthly figure that is not zero is not rounded to zero.
LEMMA PositiveStays ==
    ASSUME NEW n \in Nat, NEW d \in {1, 12}
    PROVE  Rounded(n, d) > 0 <=> n > 0
<1> DEFINE r == Rounded(n, d)
<1>1. PICK m \in Nat \ {0} : Unit = 10 * m
  BY Tenths
<1>2. r \in Int /\ 2 * (Unit * n) - d <= 2 * (d * r) /\ 2 * (d * r) <= 2 * (Unit * n) + d
  BY RoundingError
<1> HIDE DEF r
<1>3. n = 0 => Unit * n = 0
  BY <1>1
<1>4. n > 0 => Unit * n >= 10
  <2>1. n > 0 => m * n >= 1
    BY <1>1
  <2>2. Unit * n = 10 * (m * n) /\ m * n \in Int
    BY <1>1
  <2>3. QED
    BY <2>1, <2>2
<1>5. CASE d = 1
  BY <1>1, <1>2, <1>3, <1>4, <1>5 DEF r
<1>6. CASE d = 12
  BY <1>1, <1>2, <1>3, <1>4, <1>6 DEF r
<1>7. QED
  BY <1>5, <1>6

-----------------------------------------------------------------------------
(***************************************************************************)
(* The normalisation.                                                      *)
(***************************************************************************)
\* A case as it is assessed: validated when it is posted and when it is read.
ReadBack(p) == Validated(Validated(p))

LEMMA CanonicalTwice ==
    ASSUME NEW d
    PROVE  Canonical(Canonical(d)) = Canonical(d)
BY DEF Canonical

\* What a validation changes of a case, and what it leaves alone.
LEMMA ValidatedOnce ==
    ASSUME NEW p \in Payload
    PROVE  LET v == Validated(p)
           IN  /\ v \in Payload
               /\ v.documents = {Canonical(d) : d \in p.documents}
               /\ v.purpose = Or(p.purpose, p.noted) /\ v.noted = p.noted
               /\ v.credit = Or(p.credit, p.account) /\ v.account = p.account
               /\ v.history = Or(p.history, p.months) /\ v.months = Or(p.months, 0)
               /\ v.existing = p.existing /\ v.product = p.product
               /\ v.requested = p.requested /\ v.revenue = p.revenue
               /\ v.profits = p.profits /\ v.taxed = p.taxed /\ v.inflow = p.inflow
               /\ v.stability = p.stability /\ v.collateral = p.collateral
               /\ v.conduct = p.conduct /\ v.badDebt = p.badDebt
               /\ v.flags = p.flags /\ v.other = p.other
<1> DEFINE docs == {Canonical(d) : d \in p.documents}
<1>1. /\ p.documents \in SUBSET Code /\ p.purpose \in Given({"BLANK", "GIVEN"})
      /\ p.noted \in Given({"BLANK", "GIVEN"}) /\ p.credit \in Given(Nat)
      /\ p.account \in Given(Nat) /\ p.history \in Given(Nat) /\ p.months \in Given(Nat)
  BY DEF Payload
<1>2. docs \in SUBSET Code
  BY <1>1, CodesAreCodes
<1>3. /\ Or(p.purpose, p.noted) \in Given({"BLANK", "GIVEN"})
      /\ Or(p.credit, p.account) \in Given(Nat)
      /\ Or(p.history, p.months) \in Given(Nat)
      /\ Or(p.months, 0) \in Given(Nat)
  BY <1>1 DEF Or, Given
<1> DEFINE purpose == Or(p.purpose, p.noted)
           credit == Or(p.credit, p.account)
           history == Or(p.history, p.months)
           months == Or(p.months, 0)
           v == Validated(p)
<1>4. v = [p EXCEPT !.documents = docs, !.purpose = purpose, !.credit = credit,
                    !.history = history, !.months = months]
  BY DEF Validated, Normalised
<1>5. /\ docs \in SUBSET Code /\ purpose \in Given({"BLANK", "GIVEN"}) /\ credit \in Given(Nat)
      /\ history \in Given(Nat) /\ months \in Given(Nat)
  BY <1>2, <1>3
<1> HIDE DEF docs, purpose, credit, history, months, v
<1>6. v \in Payload
  BY <1>4, <1>5 DEF Payload
<1>7. /\ v.documents = docs /\ v.purpose = purpose /\ v.credit = credit
      /\ v.history = history /\ v.months = months
      /\ v.noted = p.noted /\ v.account = p.account
      /\ v.existing = p.existing /\ v.product = p.product
      /\ v.requested = p.requested /\ v.revenue = p.revenue
  BY <1>4 DEF Payload
<1>8. /\ v.profits = p.profits /\ v.taxed = p.taxed /\ v.inflow = p.inflow
      /\ v.stability = p.stability /\ v.collateral = p.collateral
      /\ v.conduct = p.conduct /\ v.badDebt = p.badDebt
      /\ v.flags = p.flags /\ v.other = p.other
  BY <1>4 DEF Payload
<1>9. QED
  BY <1>6, <1>7, <1>8 DEF docs, purpose, credit, history, months, v

\* What is left of the posted case p in the case c that is assessed.
IsReadBack(p, c) ==
    /\ c.documents = {Canonical(d) : d \in p.documents}
    /\ c.purpose = Or(p.purpose, p.noted)
    /\ c.credit = Or(p.credit, p.account) /\ c.account = p.account
    /\ c.history = Or(Or(p.history, p.months), Or(p.months, 0))
    /\ c.existing = p.existing /\ c.product = p.product
    /\ c.requested = p.requested /\ c.revenue = p.revenue
    /\ c.profits = p.profits /\ c.taxed = p.taxed /\ c.inflow = p.inflow
    /\ c.stability = p.stability /\ c.collateral = p.collateral
    /\ c.conduct = p.conduct /\ c.badDebt = p.badDebt

LEMMA ReadBackIs ==
    ASSUME NEW p \in Payload
    PROVE  ReadBack(p) \in Payload /\ IsReadBack(p, ReadBack(p))
<1> DEFINE v == Validated(p)
           c == Validated(v)
<1>1. /\ v \in Payload
      /\ v.documents = {Canonical(d) : d \in p.documents}
      /\ v.purpose = Or(p.purpose, p.noted) /\ v.noted = p.noted
      /\ v.credit = Or(p.credit, p.account) /\ v.account = p.account
      /\ v.history = Or(p.history, p.months) /\ v.months = Or(p.months, 0)
      /\ v.existing = p.existing /\ v.product = p.product
      /\ v.requested = p.requested /\ v.revenue = p.revenue
      /\ v.profits = p.profits /\ v.taxed = p.taxed /\ v.inflow = p.inflow
      /\ v.stability = p.stability /\ v.collateral = p.collateral
      /\ v.conduct = p.conduct /\ v.badDebt = p.badDebt
  BY ValidatedOnce
<1> HIDE DEF v
<1>2. /\ c \in Payload
      /\ c.documents = {Canonical(d) : d \in v.documents}
      /\ c.purpose = Or(v.purpose, v.noted)
      /\ c.credit = Or(v.credit, v.account) /\ c.account = v.account
      /\ c.history = Or(v.history, v.months)
      /\ c.existing = v.existing /\ c.product = v.product
      /\ c.requested = v.requested /\ c.revenue = v.revenue
      /\ c.profits = v.profits /\ c.taxed = v.taxed /\ c.inflow = v.inflow
      /\ c.stability = v.stability /\ c.collateral = v.collateral
      /\ c.conduct = v.conduct /\ c.badDebt = v.badDebt
  BY <1>1, ValidatedOnce
<1> HIDE DEF c
<1>3. c.documents = {Canonical(d) : d \in p.documents}
  BY <1>1, <1>2, CanonicalTwice
<1>4. c.purpose = Or(p.purpose, p.noted) /\ c.credit = Or(p.credit, p.account)
  BY <1>1, <1>2 DEF Or
<1>5. c = ReadBack(p)
  BY DEF c, v, ReadBack
<1>6. IsReadBack(p, c)
  BY <1>1, <1>2, <1>3, <1>4 DEF IsReadBack
<1>7. QED
  BY <1>2, <1>5, <1>6

-----------------------------------------------------------------------------
(***************************************************************************)
(* The rules.                                                              *)
(***************************************************************************)
LEMMA JudgeIs ==
    ASSUME NEW known \in BOOLEAN, NEW holds \in BOOLEAN
    PROVE  /\ Judge(known, holds) \in {"PASS", "FAIL", "UNKNOWN"}
           /\ Judge(known, holds) = "PASS" <=> known /\ holds
BY DEF Judge

\* The columns the rules look at.
LEMMA Columns ==
    ASSUME NEW c \in Payload
    PROVE  /\ c.existing \in BOOLEAN /\ c.product \in {"CORPORATE_OVERDRAFT", "WORKING_CAPITAL"}
           /\ c.requested \in Nat \ {0}
           /\ \A v \in {c.months, c.history, c.revenue, c.taxed, c.credit, c.account, c.inflow,
                        c.stability, c.collateral} : v \in Nat \cup {None}
           /\ c.profits \in Seq(Int) /\ c.conduct \in BOOLEAN /\ c.flags \in BOOLEAN
           /\ c.other \in BOOLEAN /\ c.badDebt \in BOOLEAN \cup {None}
           /\ c.purpose \in {"BLANK", "GIVEN", None} /\ c.noted \in {"BLANK", "GIVEN", None}
<1>1. /\ c.existing \in BOOLEAN /\ c.product \in {"CORPORATE_OVERDRAFT", "WORKING_CAPITAL"}
      /\ c.requested \in Nat \ {0}
  BY DEF Payload
<1>2. \A v \in {c.months, c.history, c.revenue, c.taxed, c.credit, c.account, c.inflow,
                c.stability, c.collateral} : v \in Nat \cup {None}
  BY DEF Payload, Given
<1>3. /\ c.profits \in Seq(Int) /\ c.conduct \in BOOLEAN /\ c.flags \in BOOLEAN
      /\ c.other \in BOOLEAN /\ c.badDebt \in BOOLEAN \cup {None}
  BY DEF Payload, Given
<1>4. c.purpose \in {"BLANK", "GIVEN", None} /\ c.noted \in {"BLANK", "GIVEN", None}
  BY DEF Payload, Given
<1>5. QED
  BY <1>1, <1>2, <1>3, <1>4

LEMMA PapersMet ==
    ASSUME NEW p \in Payload, NEW c \in Payload, IsReadBack(p, c)
    PROVE  Missing(c) = {} <=> \A d \in Required(p.product) : \E e \in p.documents : Canonical(e) = d
BY DEF IsReadBack, Missing

LEMMA PurposeMet ==
    ASSUME NEW p \in Payload, NEW c \in Payload, IsReadBack(p, c)
    PROVE  PurposeRule(c) = "PASS" <=> Some(p.purpose, p.noted, IsGiven)
BY NoneIsNoValue DEF IsReadBack, PurposeRule, Judge, Some, IsGiven, Or

LEMMA HistoryMet ==
    ASSUME NEW p \in Payload, NEW c \in Payload, IsReadBack(p, c)
    PROVE  Judge(c.history # None, c.history >= 12) = "PASS" <=> Some(p.history, p.months, ALongTime)
BY NoneIsNoValue, Columns DEF IsReadBack, Judge, Some, ALongTime, Or

LEMMA ProfitMet ==
    ASSUME NEW p \in Payload, NEW c \in Payload, IsReadBack(p, c)
    PROVE  ProfitRule(c) = "PASS" <=>
              /\ Len(p.profits) >= 2
              /\ p.profits[Len(p.profits)] > 0 /\ p.profits[Len(p.profits) - 1] > 0
BY DEF IsReadBack, ProfitRule, Judge

LEMMA StabilityMet ==
    ASSUME NEW p \in Payload, NEW c \in Payload, IsReadBack(p, c)
    PROVE  LET rule == Judge(c.stability # None, 10 * Rounded(c.stability, 100) >= 6 * Unit)
               met(s) == p.stability # None /\ AtLeast(p.stability, 100, 3, 5, s)
           IN  /\ rule = "PASS" => met(1)
               /\ met(0) => rule = "PASS"
<1>1. c.stability = p.stability /\ p.stability \in Nat \cup {None}
  BY Columns DEF IsReadBack
<1>2. QED
  BY <1>1, ShareThreshold DEF Judge

LEMMA GapMet ==
    ASSUME NEW p \in Payload, NEW c \in Payload, IsReadBack(p, c)
    PROVE  LET met(s) == /\ p.revenue # None /\ p.revenue > 0 /\ p.taxed # None
                         /\ AtMost(Distance(p.revenue, p.taxed), p.revenue, 1, 10, s)
           IN  /\ GapRule(c) = "PASS" => met(1)
               /\ met(0) => GapRule(c) = "PASS"
<1>1. /\ c.revenue = p.revenue /\ c.taxed = p.taxed
      /\ p.revenue \in Nat \cup {None} /\ p.taxed \in Nat \cup {None}
  BY Columns DEF IsReadBack
<1> DEFINE r == p.revenue
           n == Distance(p.revenue, p.taxed)
<1>2. HasGap(c) <=> r # None /\ r > 0 /\ p.taxed # None
  BY <1>1, NoneIsNoValue DEF HasGap
<1>3. Gap(c)[1] = n /\ Gap(c)[2] = r
  BY <1>1 DEF Gap
<1>4. r # None /\ r > 0 /\ p.taxed # None => n \in Nat /\ r \in Nat \ {0}
  BY <1>1 DEF Distance
<1> HIDE DEF r, n
<1>5. GapRule(c) = "PASS" <=> HasGap(c) /\ 10 * Rounded(n, r) <= Unit
  BY <1>3 DEF GapRule, Judge
<1>6. QED
  BY <1>2, <1>4, <1>5, GapThreshold DEF r, n

\* A credit turnover that is not given, or 0, is made up for.
LEMMA TurnoverIs ==
    ASSUME NEW p \in Payload, NEW c \in Payload, IsReadBack(p, c)
    PROVE  /\ Turnover(c) \in Nat \cup {None}
           /\ Turnover(c) # None /\ Turnover(c) > 0 <=> HasTurnover(p)
           /\ HasTurnover(p) => Turnover(c) = TurnoverOf(p)
           /\ TurnoverRule(c) = "PASS" <=> HasTurnover(p)
<1>1. /\ p.credit \in Nat \cup {None} /\ p.account \in Nat \cup {None}
      /\ c.credit = Or(p.credit, p.account) /\ c.account = p.account
  BY Columns DEF IsReadBack
<1>2. Turnover(c) \in Nat \cup {None}
  BY <1>1 DEF Turnover, Or
<1>3. Turnover(c) # None /\ Turnover(c) > 0 <=> HasTurnover(p)
  BY <1>1, NoneIsNoValue DEF Turnover, Or, HasTurnover
<1>4. HasTurnover(p) => Turnover(c) = TurnoverOf(p)
  BY <1>1, NoneIsNoValue DEF Turnover, Or, HasTurnover, TurnoverOf
<1>5. TurnoverRule(c) = "PASS" <=> Turnover(c) # None /\ Turnover(c) > 0
  BY <1>2, NoneIsNoValue DEF TurnoverRule, Judge
<1>6. QED
  BY <1>2, <1>3, <1>4, <1>5

LEMMA InflowMet ==
    ASSUME NEW p \in Payload, NEW c \in Payload, IsReadBack(p, c), HasTurnover(p)
    PROVE  /\ InflowRule(c) = "PASS" /\ LimitRule(c) = "PASS" => InflowWithin(p, 1)
           /\ InflowWithin(p, 0) => InflowRule(c) = "PASS" /\ LimitRule(c) = "PASS"
<1>1. /\ c.inflow = p.inflow /\ c.requested = p.requested
      /\ p.inflow \in Nat \cup {None} /\ p.requested \in Nat
  BY Columns DEF IsReadBack
<1>2. Turnover(c) = TurnoverOf(p) /\ TurnoverOf(p) \in Nat \ {0} /\ TurnoverOf(p) # None
  BY TurnoverIs
<1>3. CASE p.inflow # None
  <2>1. Inflow(c) = <<p.inflow, 1>> /\ Inflow(c)[1] = p.inflow /\ Inflow(c)[2] = 1 /\ p.inflow \in Nat
    BY <1>1, <1>3 DEF Inflow
  <2>2. Inflow(c) # None
    <3>1. Inflow(c) \in Nat \X Nat
      BY <2>1
    <3>2. QED
      BY <3>1, NoneIsNoValue
  <2>3. InflowRule(c) = "PASS" <=> p.inflow > 0
    BY <2>1, <2>2, PositiveStays DEF InflowRule, Judge
  <2>4. LimitRule(c) = "PASS" <=> p.inflow > 0 /\ 2 * Rounded(p.requested, p.inflow) <= 3 * Unit
    BY <1>1, <2>1, <2>2 DEF LimitRule, HasInflow, Judge
  <2>5. p.inflow > 0 => p.inflow \in Nat \ {0}
    BY <2>1
  <2>6. QED
    BY <1>1, <1>3, <2>3, <2>4, <2>5, LimitThreshold DEF InflowWithin
<1>4. CASE p.inflow = None
  <2> DEFINE t == TurnoverOf(p)
  <2>1. Inflow(c) = <<t, 12>> /\ Inflow(c)[1] = t /\ Inflow(c)[2] = 12
    BY <1>1, <1>2, <1>4 DEF Inflow
  <2>2. Inflow(c) # None
    <3>1. Inflow(c) \in Nat \X Nat
      BY <1>2, <2>1
    <3>2. QED
      BY <3>1, NoneIsNoValue
  <2>3. t \in Nat \ {0} /\ t > 0
    BY <1>2
  <2> HIDE DEF t
  <2>4. InflowRule(c) = "PASS"
    BY <2>1, <2>2, <2>3, PositiveStays DEF InflowRule, Judge
  <2>5. 12 * p.requested \in Nat /\ 12 * p.requested = p.requested * 12
    BY <1>1
  <2>6. LimitRule(c) = "PASS" <=> 2 * Rounded(12 * p.requested, t) <= 3 * Unit
    BY <1>1, <2>1, <2>2, <2>3, <2>5 DEF LimitRule, HasInflow, Judge
  <2>7. InflowWithin(p, 0) <=> AtMost(12 * p.requested, t, 3, 2, 0)
    BY <1>4 DEF InflowWithin, t
  <2>8. InflowWithin(p, 1) <=> AtMost(12 * p.requested, t, 3, 2, 1)
    BY <1>4 DEF InflowWithin, t
  <2>9. QED
    BY <2>3, <2>4, <2>5, <2>6, <2>7, <2>8, LimitThreshold
<1>5. QED
  BY <1>3, <1>4

-----------------------------------------------------------------------------
(***************************************************************************)
(* The status.                                                             *)
(***************************************************************************)
LEMMA OutcomesAre ==
    ASSUME NEW c
    PROVE  Outcomes(c) \subseteq {"PASS", "FAIL", "UNKNOWN"}
<1>1. /\ Judge(c.history # None, c.history >= 12) \in {"PASS", "FAIL", "UNKNOWN"}
      /\ Judge(c.stability # None, 10 * Rounded(c.stability, 100) >= 6 * Unit)
            \in {"PASS", "FAIL", "UNKNOWN"}
      /\ Judge(TRUE, ~c.conduct) \in {"PASS", "FAIL", "UNKNOWN"}
      /\ Judge(c.revenue # None, c.revenue >= MinRevenue) \in {"PASS", "FAIL", "UNKNOWN"}
      /\ Judge(c.collateral # None, c.collateral >= 20) \in {"PASS", "FAIL", "UNKNOWN"}
      /\ Judge(c.badDebt # None, c.badDebt = FALSE) \in {"PASS", "FAIL", "UNKNOWN"}
  BY Zenon DEF Judge
<1>2. /\ ProfitRule(c) \in {"PASS", "FAIL", "UNKNOWN"}
      /\ LimitRule(c) \in {"PASS", "FAIL", "UNKNOWN"}
      /\ PurposeRule(c) \in {"PASS", "FAIL", "UNKNOWN"}
      /\ GapRule(c) \in {"PASS", "FAIL", "UNKNOWN"}
      /\ InflowRule(c) \in {"PASS", "FAIL", "UNKNOWN"}
  BY Zenon DEF ProfitRule, LimitRule, PurposeRule, GapRule, InflowRule, Judge
<1>3. TurnoverRule(c) \in {"PASS", "FAIL", "UNKNOWN"}
  BY Zenon DEF TurnoverRule, Judge
<1>4. OtherRules(c) \subseteq {"PASS", "FAIL", "UNKNOWN"}
  <2>1. CASE c.product = "CORPORATE_OVERDRAFT"
    BY <1>1, <1>2, <2>1, Zenon DEF OtherRules
  <2>2. CASE c.product # "CORPORATE_OVERDRAFT"
    BY <1>1, <1>2, <2>2, Zenon DEF OtherRules
  <2>3. QED
    BY <2>1, <2>2
<1>5. QED
  BY <1>1, <1>2, <1>3, <1>4, Zenon DEF Outcomes

LEMMA ReadyIs ==
    ASSUME NEW c \in Payload
    PROVE  /\ StatusOf(c) = "READY_FOR_HUMAN_REVIEW" <=>
                 c.existing /\ Missing(c) = {} /\ Outcomes(c) \subseteq {"PASS"}
           /\ StatusOf(c) = "BLOCKED_OUT_OF_SCOPE" <=> ~c.existing
<1>1. Outcomes(c) \cap {"FAIL", "UNKNOWN"} = {} <=> Outcomes(c) \subseteq {"PASS"}
  BY OutcomesAre
<1>2. QED
  BY <1>1 DEF StatusOf

\* The rules of an overdraft that are met on p, given half a digit or none.
LEMMA OverdraftRules ==
    ASSUME NEW p \in Payload, NEW c \in Payload, IsReadBack(p, c), p.product = "CORPORATE_OVERDRAFT"
    PROVE  LET met(s) == /\ Some(p.purpose, p.noted, IsGiven)
                         /\ p.revenue # None /\ p.revenue > 0 /\ p.taxed # None
                         /\ AtMost(Distance(p.revenue, p.taxed), p.revenue, 1, 10, s)
                         /\ OverdraftMet(p, s)
           IN  /\ Outcomes(c) \subseteq {"PASS"} => met(1)
               /\ met(0) => Outcomes(c) \subseteq {"PASS"}
<1> DEFINE history == Judge(c.history # None, c.history >= 12)
           stability == Judge(c.stability # None, 10 * Rounded(c.stability, 100) >= 6 * Unit)
           conduct == Judge(TRUE, ~c.conduct)
           revenue == Judge(c.revenue # None, c.revenue >= MinRevenue)
           badDebt == Judge(c.badDebt # None, c.badDebt = FALSE)
<1>1. c.product = "CORPORATE_OVERDRAFT"
  BY DEF IsReadBack
<1>2. Outcomes(c) = {history, ProfitRule(c), LimitRule(c), stability, conduct, PurposeRule(c),
                     revenue, GapRule(c), badDebt, TurnoverRule(c), InflowRule(c)}
  BY <1>1 DEF Outcomes, OtherRules
<1>3. /\ conduct = "PASS" <=> ~p.conduct
      /\ revenue = "PASS" <=> p.revenue # None /\ p.revenue >= MinRevenue
      /\ badDebt = "PASS" <=> p.badDebt # None /\ ~p.badDebt
  <2>1. c.conduct = p.conduct /\ c.revenue = p.revenue /\ c.badDebt = p.badDebt
    BY DEF IsReadBack
  <2>2. p.conduct \in BOOLEAN /\ p.badDebt \in BOOLEAN \cup {None}
    BY Columns
  <2>3. QED
    BY <2>1, <2>2 DEF Judge
<1>4. history = "PASS" <=> Some(p.history, p.months, ALongTime)
  BY HistoryMet
<1>5. /\ stability = "PASS" => p.stability # None /\ AtLeast(p.stability, 100, 3, 5, 1)
      /\ p.stability # None /\ AtLeast(p.stability, 100, 3, 5, 0) => stability = "PASS"
  BY StabilityMet
<1> HIDE DEF history, stability, conduct, revenue, badDebt
<1>6. ASSUME Outcomes(c) \subseteq {"PASS"}
      PROVE  /\ Some(p.purpose, p.noted, IsGiven)
             /\ p.revenue # None /\ p.revenue > 0 /\ p.taxed # None
             /\ AtMost(Distance(p.revenue, p.taxed), p.revenue, 1, 10, 1)
             /\ OverdraftMet(p, 1)
  <2>1. /\ history = "PASS" /\ ProfitRule(c) = "PASS" /\ LimitRule(c) = "PASS"
        /\ stability = "PASS" /\ conduct = "PASS" /\ PurposeRule(c) = "PASS"
        /\ revenue = "PASS" /\ GapRule(c) = "PASS" /\ badDebt = "PASS"
        /\ TurnoverRule(c) = "PASS" /\ InflowRule(c) = "PASS"
    BY <1>2, <1>6
  <2>2. HasTurnover(p) /\ InflowWithin(p, 1)
    BY <2>1, TurnoverIs, InflowMet
  <2>3. Some(p.purpose, p.noted, IsGiven)
    BY <2>1, PurposeMet
  <2>4. /\ p.revenue # None /\ p.revenue > 0 /\ p.taxed # None
        /\ AtMost(Distance(p.revenue, p.taxed), p.revenue, 1, 10, 1)
    BY <2>1, GapMet
  <2>5. /\ Len(p.profits) >= 2
        /\ p.profits[Len(p.profits)] > 0 /\ p.profits[Len(p.profits) - 1] > 0
    BY <2>1, ProfitMet
  <2>6. OverdraftMet(p, 1)
    BY <1>3, <1>4, <1>5, <2>1, <2>2, <2>5 DEF OverdraftMet
  <2>7. QED
    BY <2>3, <2>4, <2>6
<1>7. ASSUME Some(p.purpose, p.noted, IsGiven),
             p.revenue # None, p.revenue > 0, p.taxed # None,
             AtMost(Distance(p.revenue, p.taxed), p.revenue, 1, 10, 0), OverdraftMet(p, 0)
      PROVE  Outcomes(c) \subseteq {"PASS"}
  <2>1. /\ Some(p.history, p.months, ALongTime)
        /\ Len(p.profits) >= 2
        /\ p.profits[Len(p.profits)] > 0 /\ p.profits[Len(p.profits) - 1] > 0
        /\ p.badDebt # None /\ ~p.badDebt
        /\ HasTurnover(p) /\ InflowWithin(p, 0)
        /\ p.stability # None /\ AtLeast(p.stability, 100, 3, 5, 0)
        /\ ~p.conduct
        /\ p.revenue # None /\ p.revenue >= MinRevenue
    BY <1>7 DEF OverdraftMet
  <2>2. /\ history = "PASS" /\ stability = "PASS" /\ conduct = "PASS"
        /\ revenue = "PASS" /\ badDebt = "PASS"
    BY <1>3, <1>4, <1>5, <2>1
  <2>3. ProfitRule(c) = "PASS"
    BY <2>1, ProfitMet
  <2>4. TurnoverRule(c) = "PASS" /\ InflowRule(c) = "PASS" /\ LimitRule(c) = "PASS"
    BY <2>1, TurnoverIs, InflowMet
  <2>5. PurposeRule(c) = "PASS" /\ GapRule(c) = "PASS"
    BY <1>7, PurposeMet, GapMet
  <2>6. QED
    BY <1>2, <2>2, <2>3, <2>4, <2>5
<1>8. QED
  BY <1>6, <1>7

LEMMA CapitalRules ==
    ASSUME NEW p \in Payload, NEW c \in Payload, IsReadBack(p, c), p.product # "CORPORATE_OVERDRAFT"
    PROVE  LET met(s) == /\ Some(p.purpose, p.noted, IsGiven)
                         /\ p.revenue # None /\ p.revenue > 0 /\ p.taxed # None
                         /\ AtMost(Distance(p.revenue, p.taxed), p.revenue, 1, 10, s)
                         /\ CapitalMet(p)
           IN  /\ Outcomes(c) \subseteq {"PASS"} => met(1)
               /\ met(0) => Outcomes(c) \subseteq {"PASS"}
<1> DEFINE collateral == Judge(c.collateral # None, c.collateral >= 20)
<1>1. c.product # "CORPORATE_OVERDRAFT" /\ c.collateral = p.collateral
  BY DEF IsReadBack
<1>2. Outcomes(c) = {PurposeRule(c), collateral, GapRule(c)}
  BY <1>1 DEF Outcomes, OtherRules
<1>3. collateral = "PASS" <=> CapitalMet(p)
  BY <1>1 DEF Judge, CapitalMet
<1> HIDE DEF collateral
<1>4. Outcomes(c) \subseteq {"PASS"} <=>
          PurposeRule(c) = "PASS" /\ collateral = "PASS" /\ GapRule(c) = "PASS"
  BY <1>2
<1>5. QED
  BY <1>3, <1>4, PurposeMet, GapMet

\* The two directions: what is assessed as ready, and what has to be.
LEMMA ReadyIsMet ==
    ASSUME NEW p \in Payload, NEW c \in Payload, IsReadBack(p, c)
    PROVE  /\ StatusOf(c) = "READY_FOR_HUMAN_REVIEW" => Met(p, 1)
           /\ Met(p, 0) => StatusOf(c) = "READY_FOR_HUMAN_REVIEW"
<1>1. c.existing = p.existing
  BY DEF IsReadBack
<1>2. Missing(c) = {} <=> \A d \in Required(p.product) : \E e \in p.documents : Canonical(e) = d
  BY PapersMet
<1>3. StatusOf(c) = "READY_FOR_HUMAN_REVIEW" <=>
          p.existing /\ Missing(c) = {} /\ Outcomes(c) \subseteq {"PASS"}
  BY <1>1, ReadyIs
<1>4. CASE p.product = "CORPORATE_OVERDRAFT"
  BY <1>2, <1>3, <1>4, OverdraftRules DEF Met
<1>5. CASE p.product # "CORPORATE_OVERDRAFT"
  BY <1>2, <1>3, <1>5, CapitalRules DEF Met
<1>6. QED
  BY <1>4, <1>5

-----------------------------------------------------------------------------
(***************************************************************************)
(* The facts AgentWorkflow keeps of a case.                                *)
(***************************************************************************)
LEMMA GapFacts ==
    ASSUME NEW c \in Payload
    PROVE  /\ Facts(c).gap \in {"UNKNOWN", "SMALL", "EDGE", "LARGE"}
           /\ Facts(c).gap # "UNKNOWN" <=> HasGap(c)
           /\ Facts(c).gap = "SMALL" <=> HasGap(c) /\ 10 * Gap(c)[1] <= Gap(c)[2]
           /\ Facts(c).gap \in {"SMALL", "EDGE"} <=> GapRule(c) = "PASS"
<1> DEFINE n == Gap(c)[1]
           d == Gap(c)[2]
           exact == 10 * n <= d
           rounded == 10 * Rounded(n, d) <= Unit
           has == HasGap(c)
<1>1. has => n \in Nat /\ d \in Nat \ {0}
  <2>1. c.revenue \in Nat \cup {None} /\ c.taxed \in Nat \cup {None}
    BY Columns
  <2>2. QED
    BY <2>1 DEF HasGap, Gap, Distance
<1>2. Facts(c).gap = IF ~has THEN "UNKNOWN"
                     ELSE IF exact THEN "SMALL" ELSE IF rounded THEN "EDGE" ELSE "LARGE"
  BY DEF Facts
<1>3. GapRule(c) = "PASS" <=> has /\ rounded
  BY DEF GapRule, Judge
<1> HIDE DEF n, d
<1>4. has /\ exact => rounded
  BY <1>1, GapThreshold
<1> HIDE DEF exact, rounded, has
<1>5. /\ Facts(c).gap \in {"UNKNOWN", "SMALL", "EDGE", "LARGE"}
      /\ Facts(c).gap # "UNKNOWN" <=> has
      /\ Facts(c).gap = "SMALL" <=> has /\ exact
      /\ Facts(c).gap \in {"SMALL", "EDGE"} <=> has /\ rounded
  BY <1>2, <1>4
<1>6. QED
  BY <1>3, <1>5 DEF has, exact, n, d

LEMMA DocumentFacts ==
    ASSUME NEW c \in Payload
    PROVE  /\ Facts(c).docs \in {"NONE", "PARTIAL", "COMPLETE"}
           /\ Facts(c).docs = "NONE" <=> c.documents = {}
           /\ Facts(c).docs = "COMPLETE" <=> Missing(c) = {}
<1>1. Facts(c).docs = CASE c.documents = {} -> "NONE" [] Missing(c) = {} -> "COMPLETE"
                        [] OTHER -> "PARTIAL"
  BY DEF Facts
<1>2. c.documents = {} => Missing(c) # {}
  BY DEF Missing, Required
<1>3. CASE c.documents = {}
  BY <1>1, <1>2, <1>3
<1>4. CASE c.documents # {} /\ Missing(c) = {}
  BY <1>1, <1>4
<1>5. CASE c.documents # {} /\ Missing(c) # {}
  BY <1>1, <1>5
<1>6. QED
  BY <1>3, <1>4, <1>5

LEMMA FigureFacts ==
    ASSUME NEW c \in Payload
    PROVE  /\ Facts(c).turnover \in {"UNKNOWN", "ZERO", "POSITIVE"}
           /\ Facts(c).turnover # "UNKNOWN" <=> Turnover(c) # None
           /\ Facts(c).turnover = "POSITIVE" <=> TurnoverRule(c) = "PASS"
           /\ Facts(c).inflow \in BOOLEAN
           /\ Facts(c).inflow <=> HasInflow(c)
           /\ HasInflow(c) => Inflow(c) # None
           /\ InflowRule(c) = "PASS" <=> HasInflow(c)
<1>1. /\ c.credit \in Nat \cup {None} /\ c.account \in Nat \cup {None}
      /\ c.inflow \in Nat \cup {None}
  BY Columns
<1>2. Turnover(c) \in Nat \cup {None}
  BY <1>1 DEF Turnover
<1>3. Facts(c).turnover = CASE Turnover(c) = None -> "UNKNOWN" [] Turnover(c) = 0 -> "ZERO"
                            [] OTHER -> "POSITIVE"
  BY DEF Facts
<1>4. TurnoverRule(c) = "PASS" <=> Turnover(c) # None /\ Turnover(c) > 0
  BY DEF TurnoverRule, Judge
<1>5. /\ Facts(c).turnover \in {"UNKNOWN", "ZERO", "POSITIVE"}
      /\ Facts(c).turnover # "UNKNOWN" <=> Turnover(c) # None
      /\ Facts(c).turnover = "POSITIVE" <=> Turnover(c) # None /\ Turnover(c) > 0
  BY <1>2, <1>3, NoneIsNoValue
<1>6. Inflow(c) # None =>
          Inflow(c)[1] \in Nat /\ Inflow(c)[2] \in {1, 12}
  BY <1>1, <1>2 DEF Inflow
<1>7. Facts(c).inflow = HasInflow(c) /\ HasInflow(c) \in BOOLEAN
  BY DEF Facts, HasInflow
<1>8. InflowRule(c) = "PASS" <=> Inflow(c) # None /\ Rounded(Inflow(c)[1], Inflow(c)[2]) > 0
  BY DEF InflowRule, Judge
<1>9. InflowRule(c) = "PASS" <=> HasInflow(c)
  BY <1>6, <1>8, PositiveStays DEF HasInflow
<1>10. HasInflow(c) => Inflow(c) # None
  BY DEF HasInflow
<1>11. QED
  BY <1>4, <1>5, <1>7, <1>9, <1>10

LEMMA OtherFacts ==
    ASSUME NEW c \in Payload
    PROVE  /\ Facts(c).existing = c.existing /\ Facts(c).product = c.product
           /\ Facts(c).flags = c.flags
           /\ Facts(c).badDebt \in {"UNKNOWN", "NO", "YES"}
           /\ Facts(c).badDebt # "YES" <=> c.badDebt \in {None, FALSE}
           /\ Facts(c).badDebt = "NO" <=> Judge(c.badDebt # None, c.badDebt = FALSE) = "PASS"
           /\ Facts(c).ratios \in BOOLEAN
           /\ Facts(c).ratios <=> c.other \/ c.stability # None \/ Inflow(c) # None
           /\ Facts(c).rules \in BOOLEAN
           /\ Facts(c).rules <=> OtherRules(c) \subseteq {"PASS"}
<1>1. /\ Facts(c).existing = c.existing /\ Facts(c).product = c.product
      /\ Facts(c).flags = c.flags
  BY DEF Facts
<1>2. /\ Facts(c).ratios = (c.other \/ c.stability # None \/ Inflow(c) # None)
      /\ Facts(c).rules = (OtherRules(c) \subseteq {"PASS"})
  BY DEF Facts
<1>3. Facts(c).badDebt = CASE c.badDebt = None -> "UNKNOWN" [] c.badDebt = TRUE -> "YES" [] OTHER -> "NO"
  BY DEF Facts
<1>4. c.badDebt \in {TRUE, FALSE, None} /\ None \notin {TRUE, FALSE}
  BY Columns, NoneIsNoValue
<1>5. /\ Facts(c).badDebt \in {"UNKNOWN", "NO", "YES"}
      /\ Facts(c).badDebt # "YES" <=> c.badDebt \in {None, FALSE}
      /\ Facts(c).badDebt = "NO" <=> c.badDebt # None /\ c.badDebt = FALSE
  <2>1. CASE c.badDebt = None
    BY <1>3, <1>4, <2>1
  <2>2. CASE c.badDebt = TRUE
    BY <1>3, <1>4, <2>2
  <2>3. CASE c.badDebt = FALSE
    BY <1>3, <1>4, <2>3
  <2>4. QED
    BY <1>4, <2>1, <2>2, <2>3
<1>6. Judge(c.badDebt # None, c.badDebt = FALSE) = "PASS" <=> c.badDebt # None /\ c.badDebt = FALSE
  BY DEF Judge
<1>7. (c.other \/ c.stability # None \/ Inflow(c) # None) \in BOOLEAN
  BY Columns
<1>8. QED
  BY <1>1, <1>2, <1>5, <1>6, <1>7

\* The whole rule pack, as AgentWorkflow sums it up.
LEMMA PackFacts ==
    ASSUME NEW c \in Payload
    PROVE  Outcomes(c) \subseteq {"PASS"} <=> Agent!RulesPass(Facts(c))
<1> DEFINE f == Facts(c)
<1>1. /\ f.gap \in {"SMALL", "EDGE"} <=> GapRule(c) = "PASS"
      /\ f.turnover = "POSITIVE" <=> TurnoverRule(c) = "PASS"
      /\ f.inflow <=> InflowRule(c) = "PASS"
      /\ f.badDebt = "NO" <=> Judge(c.badDebt # None, c.badDebt = FALSE) = "PASS"
      /\ f.rules <=> OtherRules(c) \subseteq {"PASS"}
      /\ f.product = c.product
  BY GapFacts, FigureFacts, OtherFacts
<1> HIDE DEF f
<1>2. Agent!RulesPass(f) <=>
          /\ f.gap \in {"SMALL", "EDGE"} /\ f.rules
          /\ f.product = "CORPORATE_OVERDRAFT" =>
                f.badDebt = "NO" /\ f.turnover = "POSITIVE" /\ f.inflow
  BY DEF Agent!RulesPass
<1>3. CASE c.product = "CORPORATE_OVERDRAFT"
  <2>1. Outcomes(c) = OtherRules(c) \cup {GapRule(c)} \cup
            {Judge(c.badDebt # None, c.badDebt = FALSE), TurnoverRule(c), InflowRule(c)}
    BY <1>3 DEF Outcomes
  <2>2. QED
    BY <1>1, <1>2, <1>3, <2>1 DEF f
<1>4. CASE c.product # "CORPORATE_OVERDRAFT"
  <2>1. Outcomes(c) = OtherRules(c) \cup {GapRule(c)} \cup {}
    BY <1>4 DEF Outcomes
  <2>2. QED
    BY <1>1, <1>2, <1>4, <2>1 DEF f
<1>5. QED
  BY <1>3, <1>4

LEMMA FactsAreACase ==
    ASSUME NEW c \in Payload
    PROVE  Facts(c) \in Agent!Case
<1> DEFINE f == Facts(c)
<1>1. /\ f.existing \in BOOLEAN /\ f.product \in {"CORPORATE_OVERDRAFT", "WORKING_CAPITAL"}
      /\ f.flags \in BOOLEAN /\ f.badDebt \in {"UNKNOWN", "NO", "YES"}
      /\ f.ratios \in BOOLEAN /\ f.rules \in BOOLEAN
  BY Columns, OtherFacts
<1>2. /\ f.docs \in {"NONE", "PARTIAL", "COMPLETE"}
      /\ f.gap \in {"UNKNOWN", "SMALL", "EDGE", "LARGE"}
      /\ f.turnover \in {"UNKNOWN", "ZERO", "POSITIVE"} /\ f.inflow \in BOOLEAN
  BY DocumentFacts, GapFacts, FigureFacts
<1>3. f = [existing |-> f.existing, product |-> f.product, docs |-> f.docs, gap |-> f.gap,
           flags |-> f.flags, badDebt |-> f.badDebt, turnover |-> f.turnover,
           inflow |-> f.inflow, ratios |-> f.ratios, rules |-> f.rules]
  BY DEF Facts
<1> HIDE DEF f
<1>4. f \in Agent!Case
  BY <1>1, <1>2, <1>3 DEF Agent!Case, Agent!Product
<1>5. QED
  BY <1>4 DEF f

LEMMA NodesReportFacts ==
    ASSUME NEW c \in Payload, NEW n \in DOMAIN NodeStatus(c)
    PROVE  Agent!Reported(n, Facts(c)) = NodeStatus(c)[n]
<1> DEFINE f == Facts(c)
<1>1. n \in {"EXISTING_CUSTOMER_GATE", "DOCUMENT_CLASSIFIER", "DOCUMENT_COMPLETENESS",
             "ACCOUNT_TURNOVER", "OVERDRAFT_METRICS", "FINANCIAL_METRICS", "TAX_CONSISTENCY",
             "CIC_KYC_TOOLS", "CREDIT_AGENT"}
  BY DEF NodeStatus
<1>2. f.existing = c.existing /\ f.flags = c.flags
      /\ (f.badDebt # "YES" <=> c.badDebt \in {None, FALSE})
      /\ (f.ratios <=> c.other \/ c.stability # None \/ Inflow(c) # None)
  BY OtherFacts
<1>3. /\ f.docs = "NONE" <=> c.documents = {}
      /\ f.docs = "COMPLETE" <=> Missing(c) = {}
  BY DocumentFacts
<1>4. /\ f.gap # "UNKNOWN" <=> HasGap(c)
      /\ f.gap = "SMALL" <=> HasGap(c) /\ 10 * Gap(c)[1] <= Gap(c)[2]
  BY GapFacts
<1>5. /\ f.turnover # "UNKNOWN" <=> Turnover(c) # None
      /\ f.inflow <=> HasInflow(c)
      /\ HasInflow(c) => Inflow(c) # None
  BY FigureFacts
<1>6. /\ StatusOf(c) = "READY_FOR_HUMAN_REVIEW" <=>
            c.existing /\ Missing(c) = {} /\ Agent!RulesPass(f)
      /\ StatusOf(c) = "BLOCKED_OUT_OF_SCOPE" <=> ~c.existing
  BY ReadyIs, PackFacts
<1>7. c.existing \in BOOLEAN
  BY Columns
<1> HIDE DEF f
<1>8. CASE n = "EXISTING_CUSTOMER_GATE"
  BY <1>2, <1>8 DEF NodeStatus, Agent!Reported, f
<1>9. CASE n = "DOCUMENT_CLASSIFIER"
  <2>1. Agent!Reported(n, f) = Agent!Check(f.docs # "NONE")
    BY <1>9 DEF Agent!Reported
  <2>2. NodeStatus(c)[n] = Check(c.documents # {})
    BY <1>9 DEF NodeStatus
  <2>3. QED
    BY <1>3, <2>1, <2>2 DEF Check, Agent!Check, f
<1>10. CASE n = "DOCUMENT_COMPLETENESS"
  <2>1. Agent!Reported(n, f) = Agent!Check(~f.existing \/ f.docs = "COMPLETE")
    BY <1>10 DEF Agent!Reported
  <2>2. NodeStatus(c)[n] = Check(~c.existing \/ Missing(c) = {})
    BY <1>10 DEF NodeStatus
  <2>3. QED
    BY <1>2, <1>3, <2>1, <2>2 DEF Check, Agent!Check, f
<1>11. CASE n = "ACCOUNT_TURNOVER"
  <2>1. Agent!Reported(n, f) = Agent!Check(f.turnover # "UNKNOWN")
    BY <1>11 DEF Agent!Reported
  <2>2. NodeStatus(c)[n] = Check(Turnover(c) # None)
    BY <1>11 DEF NodeStatus
  <2>3. QED
    BY <1>5, <2>1, <2>2 DEF Check, Agent!Check, f
<1>12. CASE n = "OVERDRAFT_METRICS"
  <2>1. Agent!Reported(n, f) = Agent!Check(f.turnover # "UNKNOWN" /\ f.inflow)
    BY <1>12 DEF Agent!Reported
  <2>2. NodeStatus(c)[n] = Check(Turnover(c) # None /\ HasInflow(c))
    BY <1>12 DEF NodeStatus
  <2>3. QED
    BY <1>5, <2>1, <2>2 DEF Check, Agent!Check, f
<1>13. CASE n = "FINANCIAL_METRICS"
  <2>1. Agent!Reported(n, f) =
            Agent!Check(f.ratios \/ f.gap # "UNKNOWN" \/ f.turnover # "UNKNOWN" \/ f.inflow)
    BY <1>13 DEF Agent!Reported
  <2>2. NodeStatus(c)[n] =
            Check(Turnover(c) # None \/ Inflow(c) # None \/ c.stability # None \/ HasGap(c) \/ c.other)
    BY <1>13 DEF NodeStatus
  <2>3. (f.ratios \/ f.gap # "UNKNOWN" \/ f.turnover # "UNKNOWN" \/ f.inflow) <=>
            (Turnover(c) # None \/ Inflow(c) # None \/ c.stability # None \/ HasGap(c) \/ c.other)
    BY <1>2, <1>4, <1>5
  <2>4. QED
    BY <2>1, <2>2, <2>3 DEF Check, Agent!Check, f
<1>14. CASE n = "TAX_CONSISTENCY"
  <2>1. Agent!Reported(n, f) = Agent!Check(f.gap = "SMALL")
    BY <1>14 DEF Agent!Reported
  <2>2. NodeStatus(c)[n] = Check(HasGap(c) /\ 10 * Gap(c)[1] <= Gap(c)[2])
    BY <1>14 DEF NodeStatus
  <2>3. QED
    BY <1>4, <2>1, <2>2 DEF Check, Agent!Check, f
<1>15. CASE n = "CIC_KYC_TOOLS"
  <2>1. Agent!Reported(n, f) = Agent!Check(f.badDebt # "YES" /\ ~f.flags)
    BY <1>15 DEF Agent!Reported, Agent!CicKyc
  <2>2. NodeStatus(c)[n] = Check(c.badDebt \in {None, FALSE} /\ ~c.flags)
    BY <1>15 DEF NodeStatus
  <2>3. QED
    BY <1>2, <2>1, <2>2 DEF Check, Agent!Check, f
<1>16. CASE n = "CREDIT_AGENT"
  <2>1. Agent!Reported(n, f) =
            IF ~f.existing THEN "BLOCKED"
            ELSE IF f.docs = "COMPLETE" /\ Agent!RulesPass(f) THEN "PASS" ELSE "REVIEW_REQUIRED"
    BY <1>16 DEF Agent!Reported, Agent!Assessed
  <2>2. NodeStatus(c)[n] = CASE StatusOf(c) = "BLOCKED_OUT_OF_SCOPE" -> "BLOCKED"
                             [] StatusOf(c) = "READY_FOR_HUMAN_REVIEW" -> "PASS"
                             [] OTHER -> "REVIEW_REQUIRED"
    BY <1>16 DEF NodeStatus
  <2>3. QED
    <3>1. CASE ~c.existing
      BY <1>2, <1>6, <2>1, <2>2, <3>1 DEF f
    <3>2. CASE StatusOf(c) = "READY_FOR_HUMAN_REVIEW"
      BY <1>2, <1>3, <1>6, <2>1, <2>2, <3>2 DEF f
    <3>3. CASE c.existing /\ StatusOf(c) # "READY_FOR_HUMAN_REVIEW"
      BY <1>2, <1>3, <1>6, <2>1, <2>2, <3>3 DEF f
    <3>4. QED
      BY <1>7, <3>1, <3>2, <3>3
<1>17. QED
  BY <1>1, <1>8, <1>9, <1>10, <1>11, <1>12, <1>13, <1>14, <1>15, <1>16

-----------------------------------------------------------------------------
(***************************************************************************)
(* The specification: at each step the case is what the normalisations so  *)
(* far have made of the payload, and the status is that of the case.       *)
(***************************************************************************)
IInv ==
    /\ payload \in Payloads
    /\ pc \in {"posted", "read", "assessed"}
    /\ case = IF pc = "posted" THEN Validated(payload) ELSE ReadBack(payload)
    /\ status = IF pc = "assessed" THEN StatusOf(case) ELSE "NONE"

LEMMA Begins == Init => IInv
BY DEF Init, IInv

LEMMA Continues == IInv /\ [Next]_vars => IInv'
<1> SUFFICES ASSUME IInv, [Next]_vars PROVE IInv'
  OBVIOUS
<1>1. CASE StoreAndRead
  <2>1. case' = ReadBack(payload) /\ pc' = "read" /\ payload' = payload /\ status' = "NONE"
    BY <1>1 DEF IInv, StoreAndRead, ReadBack
  <2>2. QED
    BY <2>1 DEF IInv
<1>2. CASE Assess
  <2>1. /\ case = ReadBack(payload) /\ case' = case /\ pc' = "assessed" /\ payload' = payload
        /\ status' = StatusOf(case)
    BY <1>2 DEF IInv, Assess
  <2>2. QED
    BY <2>1 DEF IInv
<1>3. CASE UNCHANGED vars
  BY <1>3 DEF IInv, vars
<1>4. QED
  BY <1>1, <1>2, <1>3 DEF Next

\* However a case is posted, the case that is assessed is the posted one,
\* normalised twice: once by the request's model and once when the columns
\* are read back.
THEOREM Invariance == Spec => []IInv
BY Begins, Continues, PTL DEF Spec

\* What the engine sees once a case is assessed.
LEMMA AssessedIs ==
    ASSUME IInv, pc = "assessed"
    PROVE  /\ payload \in Payload /\ case \in Payload /\ IsReadBack(payload, case)
           /\ status = StatusOf(case)
<1>1. payload \in Payload /\ case = ReadBack(payload) /\ status = StatusOf(case)
  BY PayloadsArePayloads DEF IInv
<1>2. QED
  BY <1>1, ReadBackIs

\* ReadinessRuleEngine.assess never lets a case through that lacks a paper or
\* a figure the bank asks for, or whose figures lie beyond a threshold by more
\* than half a digit of the rounding: for any amounts and any precision.
THEOREM ReadyCasesMeetTheRules == Spec => []ReadyMeansMet
<1>1. IInv => ReadyMeansMet
  <2> SUFFICES ASSUME IInv, status = "READY_FOR_HUMAN_REVIEW" PROVE Met(payload, 1)
    BY DEF ReadyMeansMet
  <2>1. pc = "assessed"
    BY DEF IInv
  <2>2. /\ payload \in Payload /\ case \in Payload /\ IsReadBack(payload, case)
        /\ StatusOf(case) = "READY_FOR_HUMAN_REVIEW"
    BY <2>1, AssessedIs
  <2>3. QED
    BY <2>2, ReadyIsMet
<1>2. QED
  BY <1>1, Invariance, PTL

\* Neither the legacy codes and field names a case is posted with, nor the
\* rounding of its metrics, keep a case that meets every rule from being
\* assessed as ready.
THEOREM CasesThatMeetTheRulesAreReady == Spec => []MetMeansReady
<1>1. IInv => MetMeansReady
  <2> SUFFICES ASSUME IInv, pc = "assessed", Met(payload, 0)
               PROVE  status = "READY_FOR_HUMAN_REVIEW"
    BY DEF MetMeansReady
  <2>1. /\ payload \in Payload /\ case \in Payload /\ IsReadBack(payload, case)
        /\ status = StatusOf(case)
    BY AssessedIs
  <2>2. QED
    BY <2>1, ReadyIsMet
<1>2. QED
  BY <1>1, Invariance, PTL

\* The facts CaseFacts keeps of a case determine what every deterministic node
\* of the runner and the credit agent report of it, so that AgentWorkflow may
\* range over facts instead of amounts.
THEOREM TheFactsAreFaithful == Spec => []FactsAreFaithful
<1>1. IInv => FactsAreFaithful
  <2> SUFFICES ASSUME IInv, pc = "assessed"
               PROVE  /\ Facts(case) \in Agent!Case
                      /\ \A n \in DOMAIN NodeStatus(case) :
                            Agent!Reported(n, Facts(case)) = NodeStatus(case)[n]
    BY DEF FactsAreFaithful
  <2>1. case \in Payload
    BY AssessedIs
  <2>2. QED
    BY <2>1, FactsAreACase, NodesReportFacts
<1>2. QED
  BY <1>1, Invariance, PTL
=============================================================================
