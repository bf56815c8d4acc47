---------------------------- MODULE ApprovalLadder ----------------------------
(***************************************************************************)
(* What the bank promises of a case that people decide on one after the    *)
(* other.  The case stands at a level of the role ladder and is held by    *)
(* one person, or at first by everybody of that level and above.  A holder *)
(* whose limit does not cover the amount hands it one level up; a holder   *)
(* whose limit does approves it.  Everybody it passed through is on the    *)
(* trail, and an approved case stays as it is.                             *)
(*                                                                         *)
(* Rows, flushes, readiness and requests belong to LoanApproval, which     *)
(* implements this module while its requests do not overlap.               *)
(***************************************************************************)
EXTENDS Sequences

CONSTANTS
    User,           \* the people
    None,           \* nobody in particular
    Active,         \* the people who can be given a case
    RoleOf,         \* the level each person works at
    Amounts,        \* the amounts a case may have
    Covers(_, _),   \* whether a role's limit covers an amount
    AtLeast(_, _),  \* one role stands at the level of another or above
    Above(_)        \* the next level

VARIABLES amount, level, holder, approver, trail

vars == <<amount, level, holder, approver, trail>>

Init ==
    /\ amount \in Amounts
    /\ level = "EMPLOYEE"
    /\ holder = None
    /\ approver = None
    /\ trail = <<>>

Holds(u) == AtLeast(RoleOf[u], level) /\ holder \in {None, u}

HandUp(u, t) ==
    /\ approver = None
    /\ Holds(u) /\ ~Covers(RoleOf[u], amount)
    /\ RoleOf[t] = Above(level)
    /\ level' = Above(level)
    /\ holder' = t
    /\ trail' = Append(trail, u)
    /\ UNCHANGED <<amount, approver>>

Approve(u) ==
    /\ approver = None
    /\ Holds(u) /\ Covers(RoleOf[u], amount)
    /\ approver' = u
    /\ trail' = Append(trail, u)
    /\ UNCHANGED <<amount, level, holder>>

Next == \E u \in Active : Approve(u) \/ \E t \in Active : HandUp(u, t)

Spec == Init /\ [][Next]_vars
=============================================================================
