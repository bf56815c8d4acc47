---------------------------- MODULE LoanApproval ----------------------------
(***************************************************************************)
(* The loan approval service of one case: LoanApprovalService of           *)
(* backend/app/approval_service.py and the role ladder of                  *)
(* backend/app/auth.py.                                                    *)
(*                                                                         *)
(* Every request runs in its own worker thread with its own SQLAlchemy     *)
(* session.  It reads the approval row, reads the latest assessment,       *)
(* decides on what it read, and commits later: nothing locks the row and   *)
(* no version is compared, so requests overlap between the read and the    *)
(* commit.  A request is a Handler with a program counter; each database   *)
(* round trip is one action.                                               *)
(***************************************************************************)
EXTENDS Integers, Sequences

CONSTANTS
    User,     \* rows of the users table
    None,     \* SQL NULL in a column that refers to a user
    RoleOf,   \* users.role_id
    Active,   \* the users with is_active (nothing in the service changes it)
    Amounts,  \* the requested amounts a case may have, in VND
    Handler   \* the worker threads: how many requests may be in flight

Role == {"EMPLOYEE", "MANAGER", "DIRECTOR"}

ASSUME NoneIsNoUser == None \notin User
ASSUME UsersHaveRoles == RoleOf \in [User -> Role]
ASSUME ActiveAreUsers == Active \subseteq User
ASSUME AmountsAreNumbers == Amounts \subseteq Nat
\* seed_roles_and_users gives every role an active account.
ASSUME LadderIsStaffed == \A r \in Role : \E u \in Active : RoleOf[u] = r

(***************************************************************************)
(* The role ladder.                                                        *)
(***************************************************************************)
RoleOrder == [EMPLOYEE |-> 0, MANAGER |-> 1, DIRECTOR |-> 2]

\* Mutant: the level itself no longer counts.
StrictlyAbove(userRole, requiredRole) ==
    RoleOrder[userRole] > RoleOrder[requiredRole]

RoleAtLeast(userRole, requiredRole) ==
    RoleOrder[userRole] >= RoleOrder[requiredRole]

NextRole(r) ==
    CASE r = "EMPLOYEE" -> "MANAGER"
      [] r = "MANAGER"  -> "DIRECTOR"
      [] OTHER          -> "NONE"

\* Mutant: a limit is the highest amount of its role.
RoleCanApproveUpTo(r, a) ==
    \/ r = "DIRECTOR"
    \/ r = "MANAGER"  /\ a <= 1000000000
    \/ r = "EMPLOYEE" /\ a <= 500000000

RoleCanApprove(r, a) ==
    \/ r = "DIRECTOR"
    \/ r = "MANAGER"  /\ a < 1000000000
    \/ r = "EMPLOYEE" /\ a < 500000000

\* The level that check answers for the amount, which has the limits once more.
RequiredRole(a) ==
    IF a < 500000000 THEN "EMPLOYEE" ELSE IF a < 1000000000 THEN "MANAGER" ELSE "DIRECTOR"

(***************************************************************************)
(* The stored rows.                                                        *)
(***************************************************************************)
Status == {"ABSENT", "PENDING", "TRANSFERRED", "APPROVED"}

Entry == [action : {"APPROVE", "TRANSFER"}, by : User,
          to : Role \cup {"NONE"}, target : User \cup {None}]

\* The columns of loan_approvals; "ABSENT" says that there is no row yet.
Row == [status : Status, role : Role, assigned : User \cup {None},
        approvedBy : User \cup {None}, history : Seq(Entry)]

NewRow(s) == [status |-> s, role |-> "EMPLOYEE", assigned |-> None,
              approvedBy |-> None, history |-> <<>>]

\* What the latest COMPLETED run of the case says; "NO_RUN" when there is none.
Assessment ==
    [final : {"NO_RUN", "READY_FOR_HUMAN_REVIEW", "NEEDS_MORE_EVIDENCE", "BLOCKED"},
     critic : {"PASS", "REVISE", "ESCALATE"}]

Ready(a) == a.final = "READY_FOR_HUMAN_REVIEW" /\ a.critic = "PASS"

VARIABLES
    workers,  \* the worker threads of this deployment, fixed
    amount,   \* cases.requested_amount, never rewritten by a request
    row,      \* the loan_approvals row of the case
    shown,    \* cases.display_status says that the case is approved
    latest,   \* AssessmentRepository.latest
    req       \* the request each handler is serving

vars == <<workers, amount, row, shown, latest, req>>

Request == [pc : {"idle", "create", "check", "commit"}, op : {"CHECK", "APPROVE", "TRANSFER"},
            user : User \cup {None}, snap : Row]

Idle == [pc |-> "idle", op |-> "CHECK", user |-> None, snap |-> NewRow("ABSENT")]

Init ==
    /\ workers \in (SUBSET Handler) \ {{}}
    /\ amount \in Amounts
    /\ row = NewRow("ABSENT")
    /\ shown = FALSE
    /\ latest = [final |-> "NO_RUN", critic |-> "REVISE"]
    /\ req = [h \in Handler |-> Idle]

-----------------------------------------------------------------------------
(***************************************************************************)
(* What a request decides from the row it loaded (s), its user (u), the    *)
(* requested amount (a) and the readiness it read (b).                     *)
(***************************************************************************)
\* Mutant: only the level is looked at.
IsAssignedByLevel(s, u) == RoleAtLeast(RoleOf[u], s.role)

IsAssigned(s, u) ==
    /\ RoleAtLeast(RoleOf[u], s.role)
    /\ s.assigned \in {None, u}

MayApprove(s, u, a, b) ==
    /\ s.status # "APPROVED"
    /\ b
    /\ IsAssigned(s, u)
    /\ RoleCanApprove(RoleOf[u], a)

MayTransfer(s, u, a, b) ==
    /\ s.status # "APPROVED"
    /\ b
    /\ IsAssigned(s, u)
    /\ NextRole(s.role) # "NONE"
    /\ ~RoleCanApprove(RoleOf[u], a)

\* The users transfer accepts as the receiver; with no target_user_id it
\* takes the first of them by username.
Targets(s) == {t \in Active : RoleOf[t] = NextRole(s.role)}

\* The can_approve and can_transfer flags that check answers.
CanApprove(s, u, a, b) ==
    b /\ IsAssigned(s, u) /\ RoleCanApprove(RoleOf[u], a)

\* Mutant: the button is offered to whoever cannot approve.
CanTransferUnassigned(s, u, a, b) ==
    b /\ s.status # "APPROVED" /\ ~RoleCanApprove(RoleOf[u], a)

CanTransfer(s, u, a, b) ==
    /\ b
    /\ s.status # "APPROVED"
    /\ IsAssigned(s, u)
    /\ ~RoleCanApprove(RoleOf[u], a)

(***************************************************************************)
(* SQLAlchemy flushes the columns whose value differs from the one it      *)
(* loaded, and leaves the others as they are stored now.                   *)
(***************************************************************************)
Flushed(stored, loaded, edited) == IF edited = loaded THEN stored ELSE edited

Flush(stored, loaded, edited) ==
    [status     |-> Flushed(stored.status, loaded.status, edited.status),
     role       |-> Flushed(stored.role, loaded.role, edited.role),
     assigned   |-> Flushed(stored.assigned, loaded.assigned, edited.assigned),
     approvedBy |-> Flushed(stored.approvedBy, loaded.approvedBy, edited.approvedBy),
     history    |-> Flushed(stored.history, loaded.history, edited.history)]

\* Mutant: history.append, which SQLAlchemy does not see in a JSON column.
ApprovedInPlace(s, u) == [s EXCEPT !.status = "APPROVED", !.approvedBy = u]

ApprovedCopy(s, u) ==
    [s EXCEPT !.status = "APPROVED", !.approvedBy = u,
              !.history = Append(@, [action |-> "APPROVE", by |-> u,
                                     to |-> "NONE", target |-> None])]

\* Mutant: the same for a transfer.
TransferredInPlace(s, u, t) ==
    [s EXCEPT !.role = NextRole(s.role), !.assigned = t, !.status = "TRANSFERRED"]

TransferredCopy(s, u, t) ==
    [s EXCEPT !.role = NextRole(s.role), !.assigned = t, !.status = "TRANSFERRED",
              !.history = Append(@, [action |-> "TRANSFER", by |-> u,
                                     to |-> NextRole(s.role), target |-> t])]

-----------------------------------------------------------------------------
(***************************************************************************)
(* The request handlers.                                                   *)
(***************************************************************************)
\* current_user admits an active user; _record selects the row.
Begin(h, u, op) ==
    /\ req[h].pc = "idle"
    /\ req' = [req EXCEPT ![h] =
                 [pc |-> IF row.status = "ABSENT" THEN "create" ELSE "check",
                  op |-> op, user |-> u, snap |-> row]]
    /\ UNCHANGED <<workers, amount, row, shown, latest>>

\* _record found no row: it inserts one.
CreateRow(h) ==
    /\ req[h].pc = "create"
    /\ row.status = "ABSENT"
    /\ row' = NewRow("PENDING")
    /\ req' = [req EXCEPT ![h].pc = "check", ![h].snap = NewRow("PENDING")]
    /\ UNCHANGED <<workers, amount, shown, latest>>

\* Another request inserted it first: the UNIQUE case_id refuses the insert
\* and the request ends with an error.
CreateCollides(h) ==
    /\ req[h].pc = "create"
    /\ row.status # "ABSENT"
    /\ req' = [req EXCEPT ![h] = Idle]
    /\ UNCHANGED <<workers, amount, row, shown, latest>>

\* What the request, having read the latest assessment, goes on to commit.
Accepted(r) ==
    \/ r.op = "APPROVE" /\ MayApprove(r.snap, r.user, amount, Ready(latest))
    \/ r.op = "TRANSFER" /\ MayTransfer(r.snap, r.user, amount, Ready(latest))
                         /\ Targets(r.snap) # {}

Accept(h) ==
    /\ req[h].pc = "check"
    /\ Accepted(req[h])
    /\ req' = [req EXCEPT ![h].pc = "commit"]
    /\ UNCHANGED <<workers, amount, row, shown, latest>>

\* check answers, an approval of an approved case answers the row as it is,
\* everything else that is not accepted is a DomainError.  A transfer may
\* also name a receiver that is not acceptable.
Answer(h) ==
    /\ req[h].pc = "check"
    /\ ~Accepted(req[h]) \/ req[h].op = "TRANSFER"
    /\ req' = [req EXCEPT ![h] = Idle]
    /\ UNCHANGED <<workers, amount, row, shown, latest>>

CommitApprove(h) ==
    LET r == req[h] IN
    /\ r.pc = "commit" /\ r.op = "APPROVE"
    /\ row' = Flush(row, r.snap, ApprovedCopy(r.snap, r.user))
    /\ shown' = TRUE
    /\ req' = [req EXCEPT ![h] = Idle]
    /\ UNCHANGED <<workers, amount, latest>>

CommitTransfer(h, t) ==
    LET r == req[h] IN
    /\ r.pc = "commit" /\ r.op = "TRANSFER"
    /\ t \in Targets(r.snap)
    /\ row' = Flush(row, r.snap, TransferredCopy(r.snap, r.user, t))
    /\ req' = [req EXCEPT ![h] = Idle]
    /\ UNCHANGED <<workers, amount, shown, latest>>

\* The worker or the connection dies before the commit: the session is
\* closed and nothing it changed is stored.
Abort(h) ==
    /\ req[h].pc # "idle"
    /\ req' = [req EXCEPT ![h] = Idle]
    /\ UNCHANGED <<workers, amount, row, shown, latest>>

\* An assessment run completes and may become the latest one of the case.
RunCompletes(a) ==
    /\ a.final # "NO_RUN"
    /\ latest' = a
    /\ UNCHANGED <<workers, amount, row, shown, req>>

Next ==
    \/ \E h \in workers :
          \/ \E u \in Active, op \in {"CHECK", "APPROVE", "TRANSFER"} : Begin(h, u, op)
          \/ CreateRow(h)
          \/ CreateCollides(h)
          \/ Accept(h)
          \/ Answer(h)
          \/ CommitApprove(h)
          \/ \E t \in User : CommitTransfer(h, t)
          \/ Abort(h)
    \/ \E a \in Assessment : RunCompletes(a)

Spec == Init /\ [][Next]_vars
-----------------------------------------------------------------------------
(***************************************************************************)
(* Properties.                                                             *)
(***************************************************************************)
\* Every stored row and every request in flight has the columns and fields
\* the code gives them.
TypeOK ==
    /\ workers \subseteq Handler
    /\ amount \in Amounts
    /\ row \in Row
    /\ shown \in BOOLEAN
    /\ latest \in Assessment
    /\ req \in [Handler -> Request]

\* One worker serves one request after the other.
Alone == \A g, h \in workers : g = h

Approvals(s) == {i \in DOMAIN s.history : s.history[i].action = "APPROVE"}

\* The level of the ladder at which entry i of a history is made.
Level(i) == CASE i = 1 -> "EMPLOYEE" [] i = 2 -> "MANAGER" [] OTHER -> "DIRECTOR"

\* The role is the one that check names for the amount, or stands above it.
RoleCovers(r, a) == RoleAtLeast(r, RequiredRole(a))

WithinLimit(s, a) ==
    /\ s.approvedBy # None => RoleCovers(RoleOf[s.approvedBy], a)
    /\ \A i \in Approvals(s) : RoleCovers(RoleOf[s.history[i].by], a)

HoldsLevel(s) ==
    IF s.assigned = None THEN s.role = "EMPLOYEE"
    ELSE s.assigned \in Active /\ RoleOf[s.assigned] = s.role

Custody(s, a) ==
    \A i \in DOMAIN s.history :
        LET e == s.history[i] IN
        /\ RoleAtLeast(RoleOf[e.by], Level(i))
        /\ e.action = "APPROVE" => i = Len(s.history)
        /\ e.action = "TRANSFER" =>
              /\ e.to = NextRole(Level(i))
              /\ e.target # None /\ RoleOf[e.target] = e.to
              /\ ~RoleCovers(RoleOf[e.by], a)
        /\ i > 1 => e.by = s.history[i - 1].target

Coherent(s) ==
    s.status # "APPROVED" =>
        /\ Approvals(s) = {}
        /\ s.role = Level(Len(s.history) + 1)
        /\ s.status = "TRANSFERRED" <=> s.history # <<>>
        /\ s.assigned = IF s.history = <<>> THEN None
                        ELSE s.history[Len(s.history)].target

\* Whoever is recorded as the approver, in the column or in any surviving
\* entry of the history, stands at the level that check names for the amount
\* or above it, however requests overlapped (approve checks a row it read
\* before its commit).  What the levels may approve is written down twice.
ApproverWithinLimit == WithinLimit(row, amount)

\* The row never names a level and a person that do not belong together:
\* transfer writes current_role and assigned_to column by column, over
\* whatever another request stored since it read them.
AssigneeHoldsLevel == HoldsLevel(row)

\* The history is overwritten whole from a copy read earlier.  What survives
\* is still one legal escalation: it goes up one level per transfer, each
\* entry is made by somebody of that level or above, and from the second on
\* by the very person the previous entry handed the case to; nobody hands on
\* what check's required level leaves to them.
CustodyChain == Custody(row, amount)

\* While the status is not APPROVED the other columns of the row tell one
\* story: level, assignee and history agree although they are flushed one by
\* one, and no approval is left in the history.
OpenRowIsCoherent == Coherent(row)

\* Nobody waits for nobody: an open case whose assessment is ready can always
\* be approved or transferred by some active user, whoever it was handed to.
NoDeadEnd ==
    row.status \in {"PENDING", "TRANSFERRED"} /\ Ready(latest) =>
        \E u \in Active :
            \/ MayApprove(row, u, amount, TRUE)
            \/ MayTransfer(row, u, amount, TRUE) /\ Targets(row) # {}

\* The buttons tell the truth: on an open case, check offers a user exactly
\* what approve and transfer would accept from that user on the same row, so
\* NO_HIGHER_APPROVAL_LEVEL is never the answer to an offered transfer.
CheckAgreesWithHandlers ==
    row.status \in {"PENDING", "TRANSFERRED"} =>
        \A u \in Active :
            /\ CanApprove(row, u, amount, Ready(latest)) <=> MayApprove(row, u, amount, Ready(latest))
            /\ CanTransfer(row, u, amount, Ready(latest)) <=> MayTransfer(row, u, amount, Ready(latest))

\* While requests do not overlap the service implements ApprovalLadder: the
\* row is the case, its history the trail.  So an approval is final and is
\* the last entry of the history, a level below the one the case stands at
\* decides nothing (README.md, "Cấp thấp không thể xử lý hồ sơ đã chuyển lên
\* cấp cao hơn"), and nobody on the trail is forgotten (README.md, "Approval
\* history").
Trail(s) == [i \in DOMAIN s.history |-> s.history[i].by]

Ladder == INSTANCE ApprovalLadder WITH
    Covers <- RoleCovers, AtLeast <- RoleAtLeast, Above <- NextRole,
    level <- row.role, holder <- row.assigned, approver <- row.approvedBy, trail <- Trail(row)

ImplementsLadder ==
    /\ Alone => Ladder!Init
    /\ [][Alone => Ladder!Next]_<<amount, row.role, row.assigned, row.approvedBy, Trail(row)>>

\* backend/README.md: the backend only lets a case be approved whose workflow
\* is complete, READY_FOR_HUMAN_REVIEW and PASS.
ApprovedOnlyWhenReady ==
    [][row'.status = "APPROVED" /\ row.status # "APPROVED" => Ready(latest)]_vars
=============================================================================
