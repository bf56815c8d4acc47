--------------------------- MODULE MCLoanApproval ---------------------------
(***************************************************************************)
(* Small instances of LoanApproval: an employee, two managers a case can   *)
(* be handed to, a disabled manager, a director, and amounts on both sides *)
(* of each limit.                                                          *)
(***************************************************************************)
EXTENDS LoanApproval, TLC

CONSTANTS e1, m1, m2, m3, d1

MCUser == {e1, m1, m2, m3, d1}
MCActive == MCUser \ {m3}
MCRoleOf ==
    (e1 :> "EMPLOYEE") @@ (m1 :> "MANAGER") @@ (m2 :> "MANAGER") @@
    (m3 :> "MANAGER") @@ (d1 :> "DIRECTOR")
MCAmounts == {499999999, 500000000, 999999999, 1000000000}

MCSymmetry == Permutations(Handler) \cup Permutations({m1, m2})
=============================================================================
