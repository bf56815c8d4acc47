------------------------- MODULE LoanApprovalProofs -------------------------
(***************************************************************************)
(* Proofs about LoanApproval, for any users, any amounts and any number of *)
(* overlapping requests.  The inductive invariant says of every row a      *)
(* request has loaded what the safety properties say of the stored row,    *)
(* and that the stored row is never at an earlier stage than the loaded    *)
(* one: that is what makes a column-by-column flush of stale values keep   *)
(* these properties.                                                       *)
(***************************************************************************)
EXTENDS LoanApproval, SequenceTheorems, TLAPS

(***************************************************************************)
(* The limits of the roles and the required level of an amount agree.      *)
(***************************************************************************)
LEMMA SameLimits ==
    ASSUME NEW r \in Role, NEW a \in Nat
    PROVE  RoleCanApprove(r, a) <=> RoleCovers(r, a)
BY DEF Role, RoleCanApprove, RoleCovers, RoleAtLeast, RoleOrder, RequiredRole

RowInv(s, a) == WithinLimit(s, a) /\ HoldsLevel(s) /\ Custody(s, a) /\ Coherent(s)

Stage(status) == CASE status = "ABSENT" -> 0 [] status = "PENDING" -> 1 [] OTHER -> 2

RequestInv(r, stored, a) ==
    /\ RowInv(r.snap, a)
    /\ Stage(r.snap.status) <= Stage(stored.status)
    /\ r.pc # "idle" => r.user \in Active
    /\ r.pc \in {"check", "commit"} => r.snap.status # "ABSENT"
    /\ r.pc = "commit" =>
          \/ r.op = "APPROVE" /\ MayApprove(r.snap, r.user, a, TRUE)
          \/ r.op = "TRANSFER" /\ MayTransfer(r.snap, r.user, a, TRUE)

IInv ==
    /\ TypeOK
    /\ RowInv(row, amount)
    /\ \A h \in Handler : RequestInv(req[h], row, amount)

-----------------------------------------------------------------------------
(***************************************************************************)
(* New rows and idle handlers.                                             *)
(***************************************************************************)
LEMMA NewRowType ==
    ASSUME NEW st \in Status
    PROVE  NewRow(st) \in Row /\ NewRow(st).status = st
BY DEF NewRow, Row, Role

LEMMA NewRowInv ==
    ASSUME NEW st \in {"ABSENT", "PENDING"}, NEW a \in Nat
    PROVE  RowInv(NewRow(st), a)
<1>1. NewRow(st).history = <<>> /\ DOMAIN NewRow(st).history = {} /\ Len(NewRow(st).history) = 0
  BY DEF NewRow
<1>2. WithinLimit(NewRow(st), a)
  BY <1>1 DEF WithinLimit, Approvals, NewRow
<1>3. HoldsLevel(NewRow(st))
  BY DEF HoldsLevel, NewRow
<1>4. Custody(NewRow(st), a)
  BY <1>1 DEF Custody
<1>5. Coherent(NewRow(st))
  BY <1>1 DEF Coherent, Approvals, NewRow, Level
<1>6. QED
  BY <1>2, <1>3, <1>4, <1>5 DEF RowInv

LEMMA StageRange ==
    ASSUME NEW st \in Status
    PROVE  /\ Stage(st) \in 0..2
           /\ Stage("ABSENT") <= Stage(st)
           /\ Stage(st) = 0 <=> st = "ABSENT"
           /\ Stage(st) = 2 <=> st \in {"TRANSFERRED", "APPROVED"}
BY DEF Stage, Status

LEMMA IdleInv ==
    ASSUME NEW s \in Row, NEW a \in Nat
    PROVE  Idle \in Request /\ RequestInv(Idle, s, a)
<1>1. Idle.snap = NewRow("ABSENT") /\ Idle.pc = "idle" /\ Idle.snap.status = "ABSENT"
  BY DEF Idle, NewRow
<1>2. RowInv(Idle.snap, a)
  BY <1>1, NewRowInv
<1>3. Stage("ABSENT") <= Stage(s.status)
  BY StageRange DEF Row
<1>4. Idle \in Request
  BY NewRowType DEF Idle, Request, Status
<1>5. QED
  BY <1>1, <1>2, <1>3, <1>4 DEF RequestInv

LEMMA InitIInv == Init => IInv
<1>1. SUFFICES ASSUME Init PROVE IInv
  OBVIOUS
<1>2. row \in Row /\ amount \in Nat
  BY <1>1, NewRowType, AmountsAreNumbers DEF Init, Status
<1>3. TypeOK
  BY <1>1, <1>2, IdleInv DEF Init, TypeOK, Assessment
<1>4. RowInv(row, amount)
  BY <1>1, <1>2, NewRowInv DEF Init
<1>5. ASSUME NEW h \in Handler PROVE RequestInv(req[h], row, amount)
  BY <1>1, <1>2, IdleInv DEF Init
<1>6. QED
  BY <1>3, <1>4, <1>5 DEF IInv

-----------------------------------------------------------------------------
(***************************************************************************)
(* The ladder.                                                             *)
(***************************************************************************)
LEMMA LevelSteps ==
    ASSUME NEW n \in Nat, NextRole(Level(n + 1)) # "NONE"
    PROVE  NextRole(Level(n + 1)) = Level(n + 2) /\ NextRole(Level(n + 1)) # Level(n + 1)
BY DEF Level, NextRole

LEMMA NextRoleType ==
    ASSUME NEW r \in Role, NextRole(r) # "NONE"
    PROVE  NextRole(r) \in Role /\ NextRole(r) # r /\ NextRole(r) # "EMPLOYEE"
BY DEF Role, NextRole

(***************************************************************************)
(* A decision entered at the end of a legal, open history keeps it legal.  *)
(***************************************************************************)
LEMMA CustodyGrows ==
    ASSUME NEW s \in Row, NEW n \in Row, NEW a \in Nat, NEW u \in User, NEW e \in Entry,
           RowInv(s, a), s.status # "APPROVED",
           RoleAtLeast(RoleOf[u], s.role), s.assigned \in {None, u},
           e.by = u,
           e.action = "TRANSFER" =>
              /\ e.to = NextRole(s.role)
              /\ e.target # None /\ RoleOf[e.target] = e.to
              /\ ~RoleCovers(RoleOf[u], a),
           n.history = Append(s.history, e)
    PROVE  Custody(n, a)
<1> DEFINE k == Len(s.history)
<1>1. /\ s.history \in Seq(Entry) /\ k \in Nat
      /\ Len(n.history) = k + 1
      /\ DOMAIN n.history = 1..(k + 1)
      /\ DOMAIN s.history = 1..k
      /\ n.history[k + 1] = e
      /\ \A i \in 1..k : n.history[i] = s.history[i]
  BY DEF Row
<1>2. Custody(s, a) /\ Approvals(s) = {} /\ s.role = Level(k + 1)
  BY DEF RowInv, Coherent
<1>3. k # 0 => s.assigned = s.history[k].target /\ s.history[k].target # None
  <2>1. SUFFICES ASSUME k # 0
                 PROVE  s.assigned = s.history[k].target /\ s.history[k].target # None
    OBVIOUS
  <2>2. s.history # <<>> /\ k \in DOMAIN s.history
    BY <1>1, <2>1
  <2>3. s.assigned = s.history[k].target
    BY <2>2 DEF RowInv, Coherent
  <2>4. s.history[k].action = "TRANSFER"
    <3>1. s.history[k] \in Entry
      BY <1>1, <2>2
    <3>2. s.history[k].action # "APPROVE"
      BY <1>2, <2>2 DEF Approvals
    <3>3. QED
      BY <3>1, <3>2 DEF Entry
  <2>5. QED
    BY <1>2, <2>2, <2>3, <2>4 DEF Custody
<1>4. ASSUME NEW i \in DOMAIN n.history
      PROVE  LET f == n.history[i] IN
             /\ RoleAtLeast(RoleOf[f.by], Level(i))
             /\ f.action = "APPROVE" => i = Len(n.history)
             /\ f.action = "TRANSFER" =>
                   /\ f.to = NextRole(Level(i))
                   /\ f.target # None /\ RoleOf[f.target] = f.to
                   /\ ~RoleCovers(RoleOf[f.by], a)
             /\ i > 1 => f.by = n.history[i - 1].target
  <2>1. CASE i = k + 1
    <3>1. i > 1 => n.history[i - 1] = s.history[k] /\ s.assigned = u /\ s.assigned = s.history[k].target
      BY <1>1, <1>3, <2>1
    <3>2. n.history[i] = e /\ Level(i) = s.role /\ i = Len(n.history)
      BY <1>1, <1>2, <2>1
    <3>3. QED
      BY <3>1, <3>2
  <2>2. CASE i # k + 1
    <3>1. i \in DOMAIN s.history /\ n.history[i] = s.history[i]
      BY <1>1, <2>2
    <3>2. i > 1 => n.history[i - 1] = s.history[i - 1]
      BY <1>1, <3>1
    <3>3. s.history[i].action # "APPROVE"
      BY <1>2, <3>1 DEF Approvals
    <3>4. QED
      BY <1>2, <3>1, <3>2, <3>3 DEF Custody
  <2>3. QED
    BY <2>1, <2>2
<1>5. QED
  BY <1>4 DEF Custody

(***************************************************************************)
(* The two commits, from any loaded row s over any stored row r.           *)
(***************************************************************************)
LEMMA CopyTypes ==
    ASSUME NEW s \in Row, NEW u \in Active, NEW t \in Targets(s), NextRole(s.role) # "NONE"
    PROVE  ApprovedCopy(s, u) \in Row /\ TransferredCopy(s, u, t) \in Row
<1>1. u \in User /\ t \in User
  BY ActiveAreUsers DEF Targets
<1>2. NextRole(s.role) \in Role
  BY NextRoleType DEF Row
<1>3. ASSUME NEW e \in Entry PROVE Append(s.history, e) \in Seq(Entry)
  BY DEF Row
<1>4. QED
  BY <1>1, <1>2, <1>3 DEF ApprovedCopy, TransferredCopy, Row, Entry, Status

LEMMA FlushType ==
    ASSUME NEW r \in Row, NEW s \in Row, NEW e \in Row
    PROVE  Flush(r, s, e) \in Row
BY DEF Flush, Flushed, Row

LEMMA ApproveCopyType ==
    ASSUME NEW s \in Row, NEW u \in Active
    PROVE  ApprovedCopy(s, u) \in Row
<1>1. u \in User
  BY ActiveAreUsers
<1>2. ASSUME NEW e \in Entry PROVE Append(s.history, e) \in Seq(Entry)
  BY DEF Row
<1>3. QED
  BY <1>1, <1>2 DEF ApprovedCopy, Row, Entry, Status

LEMMA FlushApprove ==
    ASSUME NEW a \in Nat, NEW r \in Row, NEW s \in Row, NEW u \in Active,
           RowInv(r, a), RowInv(s, a), MayApprove(s, u, a, TRUE)
    PROVE  LET n == Flush(r, s, ApprovedCopy(s, u)) IN
           n \in Row /\ RowInv(n, a) /\ n.status = "APPROVED"
<1> DEFINE e == [action |-> "APPROVE", by |-> u, to |-> "NONE", target |-> None]
           n == Flush(r, s, ApprovedCopy(s, u))
<1>1. u \in User /\ e \in Entry
  BY ActiveAreUsers DEF Entry
<1>2. n \in Row
  BY ApproveCopyType, FlushType
<1>3. /\ s.status # "APPROVED" /\ RoleAtLeast(RoleOf[u], s.role)
      /\ s.assigned \in {None, u} /\ RoleCovers(RoleOf[u], a)
  BY <1>1, UsersHaveRoles, SameLimits DEF MayApprove, IsAssigned
<1>4. /\ s.history \in Seq(Entry) /\ Len(s.history) \in Nat
      /\ Len(Append(s.history, e)) = Len(s.history) + 1
      /\ Append(s.history, e) # s.history
  BY <1>1 DEF Row
<1>5. /\ n.status = "APPROVED" /\ n.role = r.role /\ n.assigned = r.assigned
      /\ n.approvedBy \in {r.approvedBy, u} /\ n.history = Append(s.history, e)
  BY <1>3, <1>4 DEF Flush, Flushed, ApprovedCopy, Row
<1>6. WithinLimit(n, a)
  <2>1. ASSUME NEW i \in Approvals(n) PROVE RoleCovers(RoleOf[n.history[i].by], a)
    <3>1. i = Len(s.history) + 1 \/ i \in Approvals(s)
      BY <1>4, <1>5, <2>1 DEF Approvals
    <3>2. Approvals(s) = {}
      BY <1>3 DEF RowInv, Coherent
    <3>3. n.history[i] = e
      BY <1>4, <1>5, <3>1, <3>2
    <3>4. QED
      BY <1>3, <3>3
  <2>2. n.approvedBy # None => RoleCovers(RoleOf[n.approvedBy], a)
    BY <1>3, <1>5 DEF RowInv, WithinLimit
  <2>3. QED
    BY <2>1, <2>2 DEF WithinLimit
<1>7. HoldsLevel(n)
  BY <1>5 DEF RowInv, HoldsLevel
<1>8. Custody(n, a)
  BY <1>1, <1>2, <1>3, <1>5, CustodyGrows
<1>9. Coherent(n)
  BY <1>5 DEF Coherent
<1>10. QED
  BY <1>2, <1>5, <1>6, <1>7, <1>8, <1>9 DEF RowInv

LEMMA FlushTransfer ==
    ASSUME NEW a \in Nat, NEW r \in Row, NEW s \in Row, NEW u \in Active, NEW t \in Targets(s),
           RowInv(r, a), RowInv(s, a), MayTransfer(s, u, a, TRUE),
           s.status # "ABSENT", Stage(s.status) <= Stage(r.status)
    PROVE  LET n == Flush(r, s, TransferredCopy(s, u, t)) IN
           n \in Row /\ RowInv(n, a) /\ n.status \in {"TRANSFERRED", "APPROVED"}
<1> DEFINE e == [action |-> "TRANSFER", by |-> u, to |-> NextRole(s.role), target |-> t]
           n == Flush(r, s, TransferredCopy(s, u, t))
<1>1. /\ s.status \in {"PENDING", "TRANSFERRED"} /\ NextRole(s.role) # "NONE"
      /\ RoleAtLeast(RoleOf[u], s.role) /\ s.assigned \in {None, u}
      /\ ~RoleCovers(RoleOf[u], a)
  BY ActiveAreUsers, UsersHaveRoles, SameLimits DEF MayTransfer, IsAssigned, Row, Status
<1>2. NextRole(s.role) \in Role /\ NextRole(s.role) # s.role /\ NextRole(s.role) # "EMPLOYEE"
  BY <1>1, NextRoleType DEF Row
<1>3. u \in User /\ t \in User /\ t \in Active /\ t # None /\ RoleOf[t] = NextRole(s.role)
  BY ActiveAreUsers, NoneIsNoUser DEF Targets
<1>4. e \in Entry
  BY <1>2, <1>3 DEF Entry
<1>5. n \in Row
  BY <1>1, CopyTypes, FlushType
<1>6. t # s.assigned
  BY <1>2, <1>3 DEF RowInv, HoldsLevel
<1>7. /\ s.history \in Seq(Entry) /\ Len(s.history) \in Nat
      /\ Len(Append(s.history, e)) = Len(s.history) + 1
      /\ Append(s.history, e) # s.history
      /\ Append(s.history, e)[Len(s.history) + 1] = e
      /\ \A i \in 1..Len(s.history) : Append(s.history, e)[i] = s.history[i]
      /\ DOMAIN Append(s.history, e) = 1..(Len(s.history) + 1)
      /\ DOMAIN s.history = 1..Len(s.history)
  BY <1>4 DEF Row
<1>8. /\ n.role = NextRole(s.role) /\ n.assigned = t
      /\ n.approvedBy = r.approvedBy /\ n.history = Append(s.history, e)
      /\ n.status = IF s.status = "TRANSFERRED" THEN r.status ELSE "TRANSFERRED"
  BY <1>2, <1>6, <1>7 DEF Flush, Flushed, TransferredCopy, Row
<1>9. n.status \in {"TRANSFERRED", "APPROVED"}
  BY <1>1, <1>8, StageRange DEF Row, Stage
<1>10. Approvals(n) = {}
  <2>1. Approvals(s) = {}
    BY <1>1 DEF RowInv, Coherent
  <2>2. QED
    BY <1>7, <1>8, <2>1 DEF Approvals
<1>11. WithinLimit(n, a)
  BY <1>8, <1>10 DEF RowInv, WithinLimit
<1>12. HoldsLevel(n)
  BY <1>3, <1>8 DEF HoldsLevel
<1>13. Custody(n, a)
  BY <1>1, <1>3, <1>4, <1>5, <1>8, CustodyGrows
<1>14. Coherent(n)
  <2>1. s.role = Level(Len(s.history) + 1)
    BY <1>1 DEF RowInv, Coherent
  <2>2. n.role = Level(Len(n.history) + 1)
    BY <1>1, <1>7, <1>8, <2>1, LevelSteps
  <2>3. n.history # <<>> /\ n.history[Len(n.history)] = e
    BY <1>7, <1>8
  <2>4. QED
    BY <1>8, <1>9, <1>10, <2>2, <2>3 DEF Coherent
<1>15. QED
  BY <1>5, <1>9, <1>11, <1>12, <1>13, <1>14 DEF RowInv

-----------------------------------------------------------------------------
(***************************************************************************)
(* Every step keeps the invariant.                                         *)
(***************************************************************************)
\* A later stored row disturbs no request in flight.
LEMMA RequestKept ==
    ASSUME NEW r, NEW old \in Row, NEW new \in Row, NEW a,
           RequestInv(r, old, a), r \in Request, Stage(old.status) <= Stage(new.status)
    PROVE  RequestInv(r, new, a)
<1>1. r.snap.status \in Status
  BY DEF Request, Row
<1>2. Stage(r.snap.status) \in Nat /\ Stage(old.status) \in Nat /\ Stage(new.status) \in Nat
  BY <1>1, StageRange DEF Row
<1>3. Stage(r.snap.status) <= Stage(new.status)
  BY <1>2 DEF RequestInv
<1>4. QED
  BY <1>3 DEF RequestInv

LEMMA StepIInv == IInv /\ [Next]_vars => IInv'
<1> SUFFICES ASSUME IInv, [Next]_vars
             PROVE  IInv'
  OBVIOUS
<1> USE DEF IInv
<1>1. /\ workers \subseteq Handler /\ amount \in Nat /\ amount \in Amounts /\ row \in Row /\ shown \in BOOLEAN
      /\ latest \in Assessment /\ req \in [Handler -> Request]
  BY AmountsAreNumbers DEF TypeOK
<1>2. Idle \in Request /\ RequestInv(Idle, row, amount)
  BY <1>1, IdleInv
\* A step that stores nothing has to look after one request only.
<1>3. ASSUME NEW h \in Handler, NEW r \in Request, req' = [req EXCEPT ![h] = r],
             RequestInv(r, row, amount), UNCHANGED <<workers, amount, row, shown, latest>>
      PROVE  IInv'
  <2>1. TypeOK'
    BY <1>1, <1>3 DEF TypeOK
  <2>2. ASSUME NEW g \in Handler PROVE RequestInv(req'[g], row, amount)
    BY <1>1, <1>3
  <2>3. QED
    BY <1>3, <2>1, <2>2
\* A step that stores a row has to leave it at a stage at least as late.
<1>4. ASSUME NEW h \in Handler, NEW r \in Request, req' = [req EXCEPT ![h] = r],
             row' \in Row, shown' \in BOOLEAN, RowInv(row', amount),
             Stage(row.status) <= Stage(row'.status),
             RequestInv(r, row', amount), UNCHANGED <<workers, amount, latest>>
      PROVE  IInv'
  <2>1. TypeOK'
    BY <1>1, <1>4 DEF TypeOK
  <2>2. ASSUME NEW g \in Handler PROVE RequestInv(req'[g], row', amount)
    <3>1. CASE g = h
      BY <1>1, <1>4, <3>1
    <3>2. CASE g # h
      <4>1. req'[g] = req[g] /\ req[g] \in Request /\ RequestInv(req[g], row, amount)
        BY <1>1, <1>4, <3>2
      <4>2. QED
        BY <1>1, <1>4, <4>1, RequestKept
    <3>3. QED
      BY <3>1, <3>2
  <2>3. QED
    BY <1>4, <2>1, <2>2
<1>5. ASSUME NEW h \in Handler, NEW u \in Active, NEW op \in {"CHECK", "APPROVE", "TRANSFER"},
             Begin(h, u, op)
      PROVE  IInv'
  <2> DEFINE r == [pc |-> IF row.status = "ABSENT" THEN "create" ELSE "check",
                   op |-> op, user |-> u, snap |-> row]
  <2>1. r \in Request
    BY <1>1, ActiveAreUsers DEF Request
  <2>2. RequestInv(r, row, amount)
    <3>1. Stage(row.status) <= Stage(row.status)
      BY <1>1, StageRange DEF Row
    <3>2. QED
      BY <3>1 DEF RequestInv
  <2>3. QED
    BY <1>3, <1>5, <2>1, <2>2 DEF Begin
<1>6. ASSUME NEW h \in Handler, CreateRow(h)
      PROVE  IInv'
  <2> DEFINE r == [req[h] EXCEPT !.pc = "check", !.snap = NewRow("PENDING")]
  <2>1. NewRow("PENDING") \in Row /\ NewRow("PENDING").status = "PENDING"
    BY NewRowType DEF Status
  <2>2. r \in Request /\ req' = [req EXCEPT ![h] = r]
    BY <1>1, <1>6, <2>1 DEF CreateRow, Request
  <2>3. RowInv(NewRow("PENDING"), amount)
    BY <1>1, NewRowInv
  <2>4. Stage(row.status) <= Stage("PENDING") /\ Stage("PENDING") <= Stage("PENDING")
    BY <1>6 DEF Stage, CreateRow
  <2>5. RequestInv(req[h], row, amount) /\ req[h] \in Request /\ req[h].pc = "create"
    BY <1>1, <1>6 DEF CreateRow
  <2>6. r.pc = "check" /\ r.snap = NewRow("PENDING") /\ r.user = req[h].user
    BY <2>5 DEF Request
  <2>7. RequestInv(r, NewRow("PENDING"), amount)
    BY <2>1, <2>3, <2>4, <2>5, <2>6 DEF RequestInv
  <2>8. QED
    BY <1>1, <1>4, <1>6, <2>1, <2>2, <2>3, <2>4, <2>7 DEF CreateRow
<1>7. ASSUME NEW h \in Handler, CreateCollides(h) \/ Answer(h) \/ Abort(h)
      PROVE  IInv'
  BY <1>2, <1>3, <1>7 DEF CreateCollides, Answer, Abort
<1>8. ASSUME NEW h \in Handler, Accept(h)
      PROVE  IInv'
  <2> DEFINE r == [req[h] EXCEPT !.pc = "commit"]
  <2>1. req[h] \in Request /\ RequestInv(req[h], row, amount) /\ req[h].pc = "check"
    BY <1>1, <1>8 DEF Accept
  <2>2. r \in Request /\ req' = [req EXCEPT ![h] = r]
    BY <1>1, <1>8 DEF Accept, Request
  <2>3. \/ r.op = "APPROVE" /\ MayApprove(r.snap, r.user, amount, TRUE)
        \/ r.op = "TRANSFER" /\ MayTransfer(r.snap, r.user, amount, TRUE)
    BY <1>8, <2>1 DEF Accept, Accepted, MayApprove, MayTransfer, Request
  <2>4. r.pc = "commit" /\ r.snap = req[h].snap /\ r.user = req[h].user
    BY <2>1 DEF Request
  <2>5. RequestInv(r, row, amount)
    BY <2>1, <2>3, <2>4 DEF RequestInv
  <2>6. QED
    BY <1>3, <1>8, <2>2, <2>5 DEF Accept
<1>9. ASSUME NEW h \in Handler, CommitApprove(h)
      PROVE  IInv'
  <2> DEFINE r == req[h]
  <2>1. /\ r \in Request /\ r.snap \in Row /\ r.user \in Active
        /\ RowInv(r.snap, amount) /\ MayApprove(r.snap, r.user, amount, TRUE)
    BY <1>1, <1>9 DEF CommitApprove, RequestInv, Request
  <2>2. row' \in Row /\ RowInv(row', amount) /\ row'.status = "APPROVED"
    BY <1>1, <1>9, <2>1, FlushApprove DEF CommitApprove
  <2>3. Stage(row.status) <= Stage(row'.status)
    BY <1>1, <2>2, StageRange DEF Row, Stage
  <2>4. RequestInv(Idle, row', amount)
    BY <1>1, <2>2, IdleInv
  <2>5. QED
    BY <1>2, <1>4, <1>9, <2>2, <2>3, <2>4 DEF CommitApprove
<1>10. ASSUME NEW h \in Handler, NEW t \in User, CommitTransfer(h, t)
       PROVE  IInv'
  <2> DEFINE r == req[h]
  <2>1. /\ r \in Request /\ r.snap \in Row /\ r.user \in Active
        /\ RowInv(r.snap, amount) /\ MayTransfer(r.snap, r.user, amount, TRUE)
        /\ r.snap.status # "ABSENT" /\ Stage(r.snap.status) <= Stage(row.status)
    BY <1>1, <1>10 DEF CommitTransfer, RequestInv, Request
  <2>2. row' \in Row /\ RowInv(row', amount) /\ row'.status \in {"TRANSFERRED", "APPROVED"}
    BY <1>1, <1>10, <2>1, FlushTransfer DEF CommitTransfer
  <2>3. Stage(row.status) <= Stage(row'.status)
    BY <1>1, <2>2, StageRange DEF Row, Stage
  <2>4. RequestInv(Idle, row', amount)
    BY <1>1, <2>2, IdleInv
  <2>5. QED
    BY <1>1, <1>2, <1>4, <1>10, <2>2, <2>3, <2>4 DEF CommitTransfer
<1>11. ASSUME NEW a \in Assessment, RunCompletes(a)
       PROVE  IInv'
  BY <1>1, <1>11 DEF RunCompletes, TypeOK
<1>12. CASE UNCHANGED vars
  BY <1>1, <1>12 DEF vars, TypeOK
<1>13. QED
  BY <1>5, <1>6, <1>7, <1>8, <1>9, <1>10, <1>11, <1>12, <1>1 DEF Next

LEMMA Invariance == Spec => []IInv
BY InitIInv, StepIInv, PTL DEF Spec

-----------------------------------------------------------------------------
(***************************************************************************)
(* The refinement of ApprovalLadder.  With one worker the row a request    *)
(* has loaded is the stored one when it commits, so a flush stores what    *)
(* the request decided, and an open row has no approver.                   *)
(***************************************************************************)
AloneInv ==
    Alone =>
        /\ \A h \in workers : req[h].pc \in {"check", "commit"} => req[h].snap = row
        /\ row.status # "APPROVED" => row.approvedBy = None

LadderVars == <<amount, row.role, row.assigned, row.approvedBy, Trail(row)>>

LEMMA InitLadder == Init => AloneInv /\ Ladder!Init
<1> SUFFICES ASSUME Init PROVE AloneInv /\ Ladder!Init
  OBVIOUS
<1>1. /\ row.role = "EMPLOYEE" /\ row.assigned = None /\ row.approvedBy = None
      /\ row.history = <<>> /\ amount \in Amounts
  BY DEF Init, NewRow
<1>2. Trail(row) = <<>>
  BY <1>1 DEF Trail
<1>3. \A h \in workers : req[h].pc = "idle"
  BY DEF Init, Idle
<1>4. QED
  BY <1>1, <1>2, <1>3 DEF AloneInv, Ladder!Init

\* An entry of the history is one more name on the trail.
LEMMA TrailGrows ==
    ASSUME NEW s \in Row, NEW n \in Row, NEW e \in Entry, n.history = Append(s.history, e)
    PROVE  Trail(n) = Append(Trail(s), e.by)
<1> DEFINE k == Len(s.history)
<1>1. /\ s.history \in Seq(Entry) /\ n.history \in Seq(Entry) /\ k \in Nat
      /\ DOMAIN s.history = 1..k /\ DOMAIN n.history = 1..(k + 1)
      /\ \A i \in 1..(k + 1) : n.history[i] = IF i = k + 1 THEN e ELSE s.history[i]
  BY DEF Row
<1>2. \A i \in 1..k : s.history[i].by \in User
  <2>1. \A i \in 1..k : s.history[i] \in Entry
    BY <1>1
  <2>2. QED
    BY <2>1 DEF Entry
<1>3. Trail(s) = [i \in 1..k |-> s.history[i].by]
  BY <1>1 DEF Trail
<1>4. Trail(s) \in Seq(User) /\ Len(Trail(s)) = k /\ e.by \in User
  BY <1>1, <1>2, <1>3 DEF Entry
<1>5. Trail(n) = [i \in 1..(k + 1) |-> n.history[i].by]
  BY <1>1 DEF Trail
<1>6. Append(Trail(s), e.by) = [i \in 1..(k + 1) |-> IF i = k + 1 THEN e.by ELSE Trail(s)[i]]
  BY <1>4
<1>7. \A i \in 1..(k + 1) : n.history[i].by = IF i = k + 1 THEN e.by ELSE Trail(s)[i]
  BY <1>1, <1>3
<1>8. QED
  BY <1>5, <1>6, <1>7

\* What has been loaded is what is stored: the flush stores the edited row.
LEMMA FlushFresh ==
    ASSUME NEW s \in Row, NEW e \in Row
    PROVE  Flush(s, s, e) = e
<1>1. Flush(s, s, e) = [status |-> e.status, role |-> e.role, assigned |-> e.assigned,
                        approvedBy |-> e.approvedBy, history |-> e.history]
  BY DEF Flush, Flushed
<1>2. QED
  BY <1>1 DEF Row

LEMMA ApproveIsLadder ==
    ASSUME IInv, AloneInv, Alone, NEW h \in workers, CommitApprove(h)
    PROVE  Ladder!Next /\ AloneInv'
<1> DEFINE u == req[h].user
           e == [action |-> "APPROVE", by |-> u, to |-> "NONE", target |-> None]
<1>1. /\ workers = {h} /\ h \in Handler /\ req \in [Handler -> Request] /\ row \in Row
      /\ req[h].snap = row /\ u \in Active /\ MayApprove(row, u, amount, TRUE)
  BY DEF Alone, AloneInv, IInv, TypeOK, RequestInv, CommitApprove
<1>2. u \in User /\ e \in Entry /\ ApprovedCopy(row, u) \in Row
  BY <1>1, ActiveAreUsers, ApproveCopyType DEF Entry
<1>3. row' = ApprovedCopy(row, u)
  <2>1. row' = Flush(row, row, ApprovedCopy(row, u))
    BY <1>1 DEF CommitApprove
  <2>2. QED
    BY <1>1, <1>2, <2>1, FlushFresh
<1>4. /\ row'.status = "APPROVED" /\ row'.approvedBy = u /\ row'.role = row.role
      /\ row'.assigned = row.assigned /\ row'.history = Append(row.history, e)
      /\ amount' = amount
  BY <1>1, <1>3 DEF ApprovedCopy, Row, CommitApprove
<1>5. Trail(row)' = Append(Trail(row), u)
  <2>1. Trail(row') = Append(Trail(row), e.by)
    BY <1>1, <1>2, <1>3, <1>4, TrailGrows
  <2>2. QED
    BY <2>1 DEF Trail
<1>6. row.approvedBy = None /\ RoleAtLeast(RoleOf[u], row.role) /\ row.assigned \in {None, u}
      /\ RoleCovers(RoleOf[u], amount)
  BY <1>1, <1>2, UsersHaveRoles, AmountsAreNumbers, SameLimits
  DEF AloneInv, MayApprove, IsAssigned, IInv, TypeOK
<1>7. Ladder!Approve(u)
  BY <1>4, <1>5, <1>6 DEF Ladder!Approve, Ladder!Holds
<1>8. AloneInv'
  <2>1. req'[h] = Idle /\ workers' = workers
    BY <1>1 DEF CommitApprove
  <2>2. QED
    BY <1>1, <1>4, <2>1 DEF AloneInv, Idle
<1>9. QED
  BY <1>1, <1>7, <1>8 DEF Ladder!Next

LEMMA TransferIsLadder ==
    ASSUME IInv, AloneInv, Alone, NEW h \in workers, NEW t \in User, CommitTransfer(h, t)
    PROVE  Ladder!Next /\ AloneInv'
<1> DEFINE u == req[h].user
           e == [action |-> "TRANSFER", by |-> u, to |-> NextRole(row.role), target |-> t]
<1>1. /\ workers = {h} /\ h \in Handler /\ req \in [Handler -> Request] /\ row \in Row
      /\ req[h].snap = row /\ u \in Active /\ MayTransfer(row, u, amount, TRUE)
  BY DEF Alone, AloneInv, IInv, TypeOK, RequestInv, CommitTransfer
<1>2. t \in Targets(row) /\ t \in Active /\ RoleOf[t] = NextRole(row.role)
  BY <1>1 DEF CommitTransfer, Targets
<1>3. NextRole(row.role) # "NONE" /\ NextRole(row.role) \in Role
  BY <1>1, NextRoleType DEF MayTransfer, Row
<1>4. u \in User /\ e \in Entry /\ TransferredCopy(row, u, t) \in Row
  BY <1>1, <1>2, <1>3, ActiveAreUsers, CopyTypes DEF Entry
<1>5. row' = TransferredCopy(row, u, t)
  <2>1. row' = Flush(row, row, TransferredCopy(row, u, t))
    BY <1>1 DEF CommitTransfer
  <2>2. QED
    BY <1>1, <1>4, <2>1, FlushFresh
<1>6. /\ row'.status = "TRANSFERRED" /\ row'.approvedBy = row.approvedBy
      /\ row'.role = NextRole(row.role) /\ row'.assigned = t
      /\ row'.history = Append(row.history, e) /\ amount' = amount
  BY <1>1, <1>5 DEF TransferredCopy, Row, CommitTransfer
<1>7. Trail(row)' = Append(Trail(row), u)
  <2>1. Trail(row') = Append(Trail(row), e.by)
    BY <1>1, <1>4, <1>5, <1>6, TrailGrows
  <2>2. QED
    BY <2>1 DEF Trail
<1>8. row.approvedBy = None /\ RoleAtLeast(RoleOf[u], row.role) /\ row.assigned \in {None, u}
      /\ ~RoleCovers(RoleOf[u], amount)
  BY <1>1, <1>4, UsersHaveRoles, AmountsAreNumbers, SameLimits
  DEF AloneInv, MayTransfer, IsAssigned, IInv, TypeOK
<1>9. Ladder!HandUp(u, t)
  BY <1>2, <1>6, <1>7, <1>8 DEF Ladder!HandUp, Ladder!Holds
<1>10. AloneInv'
  <2>1. req'[h] = Idle /\ workers' = workers
    BY <1>1 DEF CommitTransfer
  <2>2. QED
    BY <1>1, <1>6, <1>8, <2>1 DEF AloneInv, Idle
<1>11. QED
  BY <1>1, <1>2, <1>9, <1>10 DEF Ladder!Next

\* A step that stores nothing: the request goes on with the row it knows.
LEMMA QuietLadderStep ==
    ASSUME IInv, AloneInv, Alone, NEW h \in workers, NEW r, req' = [req EXCEPT ![h] = r],
           r.pc \in {"check", "commit"} => r.snap = row,
           UNCHANGED <<workers, amount, row>>
    PROVE  UNCHANGED LadderVars /\ AloneInv'
<1>1. workers = {h} /\ h \in Handler /\ req \in [Handler -> Request]
  BY DEF Alone, IInv, TypeOK
<1>2. req'[h] = r
  BY <1>1
<1>3. AloneInv'
  BY <1>1, <1>2 DEF AloneInv
<1>4. QED
  BY <1>3 DEF LadderVars, Trail

LEMMA StepLadder == IInv /\ AloneInv /\ [Next]_vars => AloneInv' /\ [Alone => Ladder!Next]_LadderVars
<1> SUFFICES ASSUME IInv, AloneInv, [Next]_vars
             PROVE  AloneInv' /\ [Alone => Ladder!Next]_LadderVars
  OBVIOUS
<1>1. workers \subseteq Handler /\ row \in Row /\ req \in [Handler -> Request]
  BY DEF IInv, TypeOK
<1>2. workers' = workers
  BY DEF Next, vars, Begin, CreateRow, CreateCollides, Accept, Answer, CommitApprove,
         CommitTransfer, Abort, RunCompletes
<1>3. CASE ~Alone
  BY <1>2, <1>3 DEF AloneInv, Alone
<1>4. ASSUME UNCHANGED <<workers, amount, row, req>> PROVE AloneInv' /\ UNCHANGED LadderVars
  BY <1>4 DEF AloneInv, Alone, LadderVars, Trail
<1>5. ASSUME NEW a \in Assessment, RunCompletes(a) PROVE AloneInv' /\ UNCHANGED LadderVars
  BY <1>4, <1>5 DEF RunCompletes
<1>6. CASE UNCHANGED vars
  BY <1>4, <1>6 DEF vars
<1>7. ASSUME Alone, NEW h \in workers, NEW u \in Active, NEW op \in {"CHECK", "APPROVE", "TRANSFER"},
             Begin(h, u, op)
      PROVE  AloneInv' /\ UNCHANGED LadderVars
  <2> DEFINE r == [pc |-> IF row.status = "ABSENT" THEN "create" ELSE "check",
                   op |-> op, user |-> u, snap |-> row]
  <2>1. r.snap = row /\ req' = [req EXCEPT ![h] = r] /\ UNCHANGED <<workers, amount, row>>
    BY <1>7 DEF Begin
  <2> HIDE DEF r
  <2>2. QED
    BY <1>7, <2>1, QuietLadderStep
<1>8. ASSUME Alone, NEW h \in workers, CreateRow(h) PROVE AloneInv' /\ UNCHANGED LadderVars
  <2>1. /\ row.role = "EMPLOYEE" /\ row.assigned = None /\ row.approvedBy = None
        /\ row.history = <<>>
    <3>1. row.status = "ABSENT" /\ Coherent(row)
      BY <1>8 DEF CreateRow, IInv, RowInv
    <3>2. row.history = <<>> /\ row.assigned = None /\ row.role = Level(Len(row.history) + 1)
      BY <1>1, <3>1 DEF Coherent
    <3>3. row.role = "EMPLOYEE"
      BY <3>2 DEF Level
    <3>4. QED
      BY <1>8, <3>1, <3>2, <3>3 DEF AloneInv
  <2>2. row' = NewRow("PENDING") /\ UNCHANGED <<workers, amount>>
    BY <1>8 DEF CreateRow
  <2>3. UNCHANGED LadderVars
    BY <2>1, <2>2 DEF LadderVars, Trail, NewRow
  <2>4. workers = {h} /\ req'[h].snap = row'
    BY <1>1, <1>8 DEF Alone, CreateRow, Request
  <2>5. AloneInv'
    BY <2>2, <2>4 DEF AloneInv, NewRow
  <2>6. QED
    BY <2>3, <2>5
<1>9. ASSUME Alone, NEW h \in workers, CreateCollides(h) \/ Answer(h) \/ Abort(h)
      PROVE  AloneInv' /\ UNCHANGED LadderVars
  <2>1. Idle.pc = "idle"
    BY DEF Idle
  <2>2. req' = [req EXCEPT ![h] = Idle] /\ UNCHANGED <<workers, amount, row>>
    BY <1>9 DEF CreateCollides, Answer, Abort
  <2>3. QED
    BY <1>9, <2>1, <2>2, QuietLadderStep
<1>10. ASSUME Alone, NEW h \in workers, Accept(h) PROVE AloneInv' /\ UNCHANGED LadderVars
  <2> DEFINE r == [req[h] EXCEPT !.pc = "commit"]
  <2>1. req[h].snap = row /\ req[h] \in Request
    BY <1>1, <1>10 DEF Accept, AloneInv
  <2>2. r.snap = row
    BY <2>1 DEF Request
  <2>3. req' = [req EXCEPT ![h] = r] /\ UNCHANGED <<workers, amount, row>>
    BY <1>1, <1>10 DEF Accept
  <2> HIDE DEF r
  <2>4. QED
    BY <1>10, <2>2, <2>3, QuietLadderStep
<1>11. CASE Alone
  BY <1>5, <1>6, <1>7, <1>8, <1>9, <1>10, <1>11, ApproveIsLadder, TransferIsLadder DEF Next
<1>12. QED
  BY <1>3, <1>11

LEMMA AloneInvariance == Spec => [](IInv /\ AloneInv)
BY InitIInv, StepIInv, InitLadder, StepLadder, PTL DEF Spec

-----------------------------------------------------------------------------
(***************************************************************************)
(* The theorems.                                                           *)
(***************************************************************************)
\* Rows and requests always have the columns and fields the code gives them.
THEOREM Typing == Spec => []TypeOK
<1>1. IInv => TypeOK
  BY DEF IInv
<1>2. QED
  BY <1>1, Invariance, PTL

\* However many requests overlap, nobody is ever recorded as the approver of
\* an amount above the limit of their role (approve, role_can_approve).
THEOREM Authority == Spec => []ApproverWithinLimit
<1>1. IInv => ApproverWithinLimit
  BY DEF IInv, RowInv, ApproverWithinLimit
<1>2. QED
  BY <1>1, Invariance, PTL

\* However many requests overlap, the person a case is assigned to is active
\* and holds the role of the level the case is at (transfer).
THEOREM Assignment == Spec => []AssigneeHoldsLevel
<1>1. IInv => AssigneeHoldsLevel
  BY DEF IInv, RowInv, AssigneeHoldsLevel
<1>2. QED
  BY <1>1, Invariance, PTL

\* The surviving history is always one legal escalation from person to person
\* (the histories approve and transfer append to).
THEOREM AuditTrail == Spec => []CustodyChain
<1>1. IInv => CustodyChain
  BY DEF IInv, RowInv, CustodyChain
<1>2. QED
  BY <1>1, Invariance, PTL

\* The columns of an open row tell one story although they are flushed one by
\* one (transfer, approve).
THEOREM Coherence == Spec => []OpenRowIsCoherent
<1>1. IInv => OpenRowIsCoherent
  BY DEF IInv, RowInv, OpenRowIsCoherent
<1>2. QED
  BY <1>1, Invariance, PTL

\* An open case whose assessment is ready always has an active user who can
\* move it on, as long as every role has one (seed_roles_and_users).
THEOREM SomebodyCanAct == Spec => []NoDeadEnd
<1>1. IInv => NoDeadEnd
  <2> SUFFICES ASSUME IInv, row.status \in {"PENDING", "TRANSFERRED"}
               PROVE  \E u \in Active :
                         \/ MayApprove(row, u, amount, TRUE)
                         \/ MayTransfer(row, u, amount, TRUE) /\ Targets(row) # {}
    BY DEF NoDeadEnd
  <2>1. row \in Row /\ HoldsLevel(row)
    BY DEF IInv, TypeOK, RowInv
  <2>2. PICK u \in Active : RoleOf[u] = row.role /\ row.assigned \in {None, u}
    <3>1. CASE row.assigned = None
      BY <2>1, <3>1, LadderIsStaffed DEF Row
    <3>2. CASE row.assigned # None
      BY <2>1, <3>2 DEF HoldsLevel
    <3>3. QED
      BY <3>1, <3>2
  <2>3. IsAssigned(row, u)
    BY <2>1, <2>2 DEF IsAssigned, RoleAtLeast, RoleOrder, Row, Role
  <2>4. CASE RoleCanApprove(row.role, amount)
    BY <2>2, <2>3, <2>4 DEF MayApprove
  <2>5. CASE ~RoleCanApprove(row.role, amount)
    <3>1. NextRole(row.role) \in Role /\ NextRole(row.role) # "NONE"
      BY <2>1, <2>5 DEF RoleCanApprove, NextRole, Row, Role
    <3>2. Targets(row) # {}
      BY <3>1, LadderIsStaffed DEF Targets
    <3>3. QED
      BY <2>2, <2>3, <2>5, <3>1, <3>2 DEF MayTransfer
  <2>6. QED
    BY <2>4, <2>5
<1>2. QED
  BY <1>1, Invariance, PTL

\* What check offers on an open case is what approve and transfer accept.
THEOREM OffersAreHonest == Spec => []CheckAgreesWithHandlers
<1>1. IInv => CheckAgreesWithHandlers
  <2> SUFFICES ASSUME IInv, row.status \in {"PENDING", "TRANSFERRED"}, NEW u \in Active,
                      NEW b \in BOOLEAN
               PROVE  /\ CanApprove(row, u, amount, b) <=> MayApprove(row, u, amount, b)
                      /\ CanTransfer(row, u, amount, b) <=> MayTransfer(row, u, amount, b)
    BY DEF CheckAgreesWithHandlers, Ready
  <2>1. row.role \in Role /\ RoleOf[u] \in Role
    BY ActiveAreUsers, UsersHaveRoles DEF IInv, TypeOK, Row
  <2>2. IsAssigned(row, u) /\ ~RoleCanApprove(RoleOf[u], amount) => NextRole(row.role) # "NONE"
    BY <2>1 DEF IsAssigned, RoleAtLeast, RoleOrder, RoleCanApprove, NextRole, Role
  <2>3. QED
    BY <2>2 DEF CanApprove, MayApprove, CanTransfer, MayTransfer
<1>2. QED
  BY <1>1, Invariance, PTL

\* With one worker the service is the ladder of ApprovalLadder: every commit
\* of approve and transfer is one of its two decisions, and nothing else a
\* request does can be seen on the case.
THEOREM Implementation == Spec => ImplementsLadder
<1>1. Init => (Alone => Ladder!Init)
  BY InitLadder
<1>2. IInv /\ AloneInv /\ [Next]_vars =>
          [Alone => Ladder!Next]_<<amount, row.role, row.assigned, row.approvedBy, Trail(row)>>
  BY StepLadder DEF LadderVars
<1>3. QED
  BY <1>1, <1>2, AloneInvariance, PTL DEF Spec, ImplementsLadder
=============================================================================
