----------------------- MODULE ActionGovernanceProofs -----------------------
(***************************************************************************)
(* Proofs about ActionGovernance, for any actions, keys, users and number  *)
(* of overlapping requests and crashes.  The inductive invariant says what *)
(* a request has established when it has passed a program counter: that is *)
(* all that is left of a check once another request may have come between. *)
(***************************************************************************)
EXTENDS ActionGovernance, TLAPS

\* An external write of this kind is stored under the key.
WrittenAs(w, k, kind) == w[k] # NotWritten /\ w[k].kind = kind

RequestInv(r, w) ==
    /\ r.pc \in {"create", "duplicate", "commit", "reject"} => r.action \in Action
    /\ r.pc = "reject" => r.user \in User
    /\ r.pc \in {"duplicate", "lookup", "insert", "commit"} =>
          /\ r.key \in Key /\ r.user \in User /\ r.kind \in Kind
          /\ r.action # None => r.kind = KindOf[r.action] /\ r.user # Maker
    /\ r.pc = "commit" => WrittenAs(w, r.key, r.kind)

RowInv(s, w, a) ==
    /\ s.executed => s.key \in Key /\ WrittenAs(w, s.key, KindOf[a])
    /\ s.status = "SUCCEEDED" => s.by \in User /\ s.by # Maker

IInv ==
    /\ TypeOK
    /\ \A a \in Action : RowInv(row[a], written, a)
    /\ KeyExecutesOneAction
    /\ \A h \in Handler : RequestInv(req[h], written)

-----------------------------------------------------------------------------
LEMMA IdleInv == Idle \in Request /\ \A w : RequestInv(Idle, w)
BY DEF Idle, Request, RequestInv

LEMMA InitIInv == Init => IInv
<1> SUFFICES ASSUME Init PROVE IInv
  OBVIOUS
<1>1. TypeOK
  BY IdleInv, CrashesAreCounted DEF Init, TypeOK, Row
<1>2. ASSUME NEW a \in Action PROVE RowInv(row[a], written, a)
  BY DEF Init, RowInv
<1>3. KeyExecutesOneAction
  BY DEF Init, KeyExecutesOneAction
<1>4. ASSUME NEW h \in Handler PROVE RequestInv(req[h], written)
  BY IdleInv DEF Init
<1>5. QED
  BY <1>1, <1>2, <1>3, <1>4 DEF IInv

(***************************************************************************)
(* A step that stores nothing.                                             *)
(***************************************************************************)
LEMMA RequestStep ==
    ASSUME IInv, NEW h \in Handler, NEW r \in Request, RequestInv(r, written),
           Become(h, r), UNCHANGED <<workers, row, written>>, crashes' \in 0..MaxCrashes
    PROVE  IInv'
<1>1. TypeOK'
  BY DEF IInv, TypeOK, Become
<1>2. (\A a \in Action : RowInv(row[a], written, a))' /\ KeyExecutesOneAction'
  BY DEF IInv, KeyExecutesOneAction
<1>3. ASSUME NEW g \in Handler PROVE RequestInv(req'[g], written)
  BY DEF IInv, TypeOK, Become
<1>4. QED
  BY <1>1, <1>2, <1>3 DEF IInv

(***************************************************************************)
(* A step that stores a decision and ends the request.                     *)
(***************************************************************************)
LEMMA RowStep ==
    ASSUME IInv, NEW h \in Handler, NEW a \in Action, NEW s \in Row,
           RowInv(s, written, a), s.key = None \/ \A b \in Action \ {a} : row[b].key # s.key,
           row' = [row EXCEPT ![a] = s], Become(h, Idle), UNCHANGED <<workers, written, crashes>>
    PROVE  IInv'
<1>1. TypeOK'
  BY IdleInv DEF IInv, TypeOK, Become
<1>2. ASSUME NEW b \in Action PROVE RowInv(row'[b], written, b)
  BY DEF IInv, TypeOK
<1>3. KeyExecutesOneAction'
  BY DEF IInv, TypeOK, KeyExecutesOneAction
<1>4. ASSUME NEW g \in Handler PROVE RequestInv(req'[g], written)
  BY IdleInv DEF IInv, TypeOK, Become
<1>5. QED
  BY <1>1, <1>2, <1>3, <1>4 DEF IInv

(***************************************************************************)
(* A step that stores an external write under a key that has none.         *)
(***************************************************************************)
LEMMA WriteStep ==
    ASSUME IInv, NEW h \in Handler, Insert(h)
    PROVE  IInv' /\ \A k \in Key : Exists(k) => written'[k] = written[k]
<1> DEFINE r == req[h]
           new == [kind |-> r.kind, action |-> r.action, by |-> r.user]
<1>1. /\ r \in Request /\ r.key \in Key /\ r.user \in User /\ r.kind \in Kind
      /\ r.pc = "insert" /\ written[r.key] = NotWritten
      /\ r.action # None => r.kind = KindOf[r.action] /\ r.user # Maker
  BY DEF IInv, TypeOK, RequestInv, Insert, Exists
<1>2. new \in Write /\ new # NotWritten /\ new.kind = r.kind
  BY <1>1, NoneIsNothing DEF Write, NotWritten, Request
<1>3. /\ written' = [written EXCEPT ![r.key] = new] /\ written \in [Key -> Write \cup {NotWritten}]
      /\ UNCHANGED <<workers, row, crashes>>
      /\ req' = [req EXCEPT ![h] = AfterWrite(r)] /\ req \in [Handler -> Request]
  BY DEF Insert, Become, IInv, TypeOK
\* What is written stays, and what is new is of the request's kind.
<1>4. \A k \in Key : \A kind : WrittenAs(written, k, kind) => WrittenAs(written', k, kind)
  BY <1>1, <1>3 DEF WrittenAs
<1>5. WrittenAs(written', r.key, r.kind)
  BY <1>1, <1>2, <1>3 DEF WrittenAs
<1>6. AfterWrite(r) \in Request /\ RequestInv(AfterWrite(r), written')
  <2>1. CASE r.action = None
    BY <2>1, IdleInv DEF AfterWrite
  <2>2. CASE r.action # None
    BY <1>1, <1>5, <2>2 DEF AfterWrite, Request, RequestInv
  <2>3. QED
    BY <2>1, <2>2
<1>7. TypeOK'
  BY <1>2, <1>3, <1>6 DEF IInv, TypeOK
<1>8. ASSUME NEW a \in Action PROVE RowInv(row'[a], written', a)
  BY <1>3, <1>4 DEF IInv, RowInv
<1>9. KeyExecutesOneAction'
  BY <1>3 DEF IInv, KeyExecutesOneAction
<1>10. ASSUME NEW g \in Handler PROVE RequestInv(req'[g], written')
  <2>1. CASE g = h
    BY <1>3, <1>6, <2>1
  <2>2. CASE g # h
    <3>1. req'[g] = req[g] /\ RequestInv(req[g], written)
      BY <1>3, <2>2 DEF IInv
    <3>2. QED
      BY <1>4, <3>1 DEF RequestInv
  <2>3. QED
    BY <2>1, <2>2
<1>11. \A k \in Key : Exists(k) => written'[k] = written[k]
  BY <1>1, <1>3 DEF Exists
<1>12. QED
  BY <1>7, <1>8, <1>9, <1>10, <1>11 DEF IInv

-----------------------------------------------------------------------------
(***************************************************************************)
(* Every step keeps the invariant and the external writes.                 *)
(***************************************************************************)
Kept == \A k \in Key : Exists(k) => written'[k] = written[k]

LEMMA StepIInv == IInv /\ [Next]_vars => IInv' /\ Kept
<1> SUFFICES ASSUME IInv, [Next]_vars PROVE IInv' /\ Kept
  OBVIOUS
<1>1. /\ workers \subseteq Handler /\ row \in [Action -> Row] /\ req \in [Handler -> Request]
      /\ written \in [Key -> Write \cup {NotWritten}] /\ crashes \in 0..MaxCrashes
  BY DEF IInv, TypeOK
<1>2. UNCHANGED written => Kept
  BY DEF Kept
<1>3. ASSUME NEW h \in Handler, NEW a \in Action, OpenPackage(h, a) PROVE IInv' /\ Kept
  <2>1. [Idle EXCEPT !.pc = "create", !.action = a] \in Request
    BY DEF Idle, Request
  <2>2. RequestInv([Idle EXCEPT !.pc = "create", !.action = a], written)
    BY DEF Idle, RequestInv
  <2>3. QED
    BY <1>1, <1>2, <1>3, <2>1, <2>2, RequestStep DEF OpenPackage
<1>4. ASSUME NEW h \in Handler, NEW a \in Action, NEW u \in User, BeginReject(h, a, u)
      PROVE  IInv' /\ Kept
  <2>1. [Idle EXCEPT !.pc = "reject", !.action = a, !.user = u] \in Request
    BY DEF Idle, Request
  <2>2. RequestInv([Idle EXCEPT !.pc = "reject", !.action = a, !.user = u], written)
    BY DEF Idle, RequestInv
  <2>3. QED
    BY <1>1, <1>2, <1>4, <2>1, <2>2, RequestStep DEF BeginReject
<1>5. ASSUME NEW h \in Handler, NEW a \in Action, NEW u \in User, NEW k \in Key,
             BeginApprove(h, a, u, k)
      PROVE  IInv' /\ Kept
  <2> DEFINE r == [pc |-> "duplicate", action |-> a, kind |-> KindOf[a], user |-> u, key |-> k]
  <2>1. r \in Request /\ RequestInv(r, written)
    BY <1>5, KindsAreKnown DEF Request, RequestInv, BeginApprove
  <2>2. QED
    BY <1>1, <1>2, <1>5, <2>1, RequestStep DEF BeginApprove
<1>6. ASSUME NEW h \in Handler, NEW kind \in Kind, NEW u \in User, NEW k \in Key,
             CallConnector(h, kind, u, k)
      PROVE  IInv' /\ Kept
  <2> DEFINE r == [pc |-> "lookup", action |-> None, kind |-> kind, user |-> u, key |-> k]
  <2>1. r \in Request /\ RequestInv(r, written)
    BY DEF Request, RequestInv
  <2>2. QED
    BY <1>1, <1>2, <1>6, <2>1, RequestStep DEF CallConnector
<1>7. ASSUME NEW h \in Handler, CreateAction(h) PROVE IInv' /\ Kept
  <2> DEFINE a == req[h].action
             s == [row[a] EXCEPT !.status = "PENDING_APPROVAL"]
  <2>1. a \in Action
    BY <1>1, <1>7 DEF IInv, RequestInv, CreateAction
  <2>2. s \in Row /\ s.key = row[a].key /\ row' = [row EXCEPT ![a] = s]
    BY <1>1, <1>7, <2>1 DEF Row, CreateAction
  <2>3. RowInv(s, written, a)
    BY <1>1, <2>1, <2>2 DEF IInv, RowInv, Row
  <2>4. s.key = None \/ \A b \in Action \ {a} : row[b].key # s.key
    BY <2>1, <2>2 DEF IInv, KeyExecutesOneAction
  <2>5. QED
    BY <1>2, <1>7, <2>1, <2>2, <2>3, <2>4, RowStep DEF CreateAction
<1>8. ASSUME NEW h \in Handler, CreateCollides(h) \/ InsertCollides(h) \/ CommitCollides(h)
      PROVE  IInv' /\ Kept
  BY <1>1, <1>2, <1>8, IdleInv, RequestStep DEF CreateCollides, InsertCollides, CommitCollides
<1>9. ASSUME NEW h \in Handler, Crash(h) PROVE IInv' /\ Kept
  <2>1. crashes' \in 0..MaxCrashes
    BY <1>1, <1>9, CrashesAreCounted DEF Crash
  <2>2. QED
    BY <1>2, <1>9, <2>1, IdleInv, RequestStep DEF Crash
<1>10. ASSUME NEW h \in Handler, CheckDuplicate(h) PROVE IInv' /\ Kept
  <2> DEFINE r == [req[h] EXCEPT !.pc = "lookup"]
  <2>1. r \in Request /\ RequestInv(r, written)
    BY <1>1, <1>10 DEF IInv, Request, RequestInv, CheckDuplicate
  <2>2. Become(h, r) \/ Become(h, Idle)
    BY <1>10 DEF CheckDuplicate
  <2>3. QED
    BY <1>1, <1>2, <1>10, <2>1, <2>2, IdleInv, RequestStep DEF CheckDuplicate
<1>11. ASSUME NEW h \in Handler, Lookup(h) PROVE IInv' /\ Kept
  <2> DEFINE r == req[h]
  <2>1. r \in Request /\ RequestInv(r, written) /\ r.pc = "lookup"
    BY <1>1, <1>11 DEF IInv, Lookup
  <2>2. CASE ~Exists(r.key)
    <3>1. [r EXCEPT !.pc = "insert"] \in Request /\ RequestInv([r EXCEPT !.pc = "insert"], written)
      BY <2>1 DEF Request, RequestInv
    <3>2. QED
      BY <1>1, <1>2, <1>11, <2>2, <3>1, RequestStep DEF Lookup
  <2>3. CASE Exists(r.key) /\ written[r.key].kind = r.kind
    <3>1. AfterWrite(r) \in Request /\ RequestInv(AfterWrite(r), written)
      <4>1. CASE r.action = None
        BY <4>1, IdleInv DEF AfterWrite
      <4>2. CASE r.action # None
        BY <2>1, <2>3, <4>2 DEF AfterWrite, Request, RequestInv, WrittenAs, Exists
      <4>3. QED
        BY <4>1, <4>2
    <3>2. QED
      BY <1>1, <1>2, <1>11, <2>3, <3>1, RequestStep DEF Lookup
  <2>4. CASE Exists(r.key) /\ written[r.key].kind # r.kind
    BY <1>1, <1>2, <1>11, <2>4, IdleInv, RequestStep DEF Lookup
  <2>5. QED
    BY <2>2, <2>3, <2>4
<1>12. ASSUME NEW h \in Handler, Insert(h) PROVE IInv' /\ Kept
  BY <1>12, WriteStep DEF Kept
<1>13. ASSUME NEW h \in Handler, CommitApprove(h) PROVE IInv' /\ Kept
  <2> DEFINE r == req[h]
             s == [status |-> "SUCCEEDED", by |-> r.user, key |-> r.key, executed |-> TRUE]
  <2>1. /\ r.action \in Action /\ r.key \in Key /\ r.user \in User /\ r.user # Maker
        /\ WrittenAs(written, r.key, KindOf[r.action])
    BY <1>1, <1>13, NoneIsNothing DEF IInv, RequestInv, CommitApprove
  <2>2. s \in Row /\ RowInv(s, written, r.action)
    BY <2>1 DEF Row, RowInv
  <2>3. QED
    BY <1>2, <1>13, <2>1, <2>2, RowStep DEF CommitApprove
<1>14. ASSUME NEW h \in Handler, CommitReject(h) PROVE IInv' /\ Kept
  <2> DEFINE a == req[h].action
             s == [row[a] EXCEPT !.status = "REJECTED", !.by = req[h].user]
  <2>1. a \in Action /\ req[h].user \in User
    BY <1>1, <1>14 DEF IInv, RequestInv, CommitReject
  <2>2. s \in Row /\ s.key = row[a].key /\ row' = [row EXCEPT ![a] = s]
    <3>1. row[a] \in Row
      BY <1>1, <2>1
    <3>2. s \in Row /\ s.key = row[a].key
      BY <2>1, <3>1 DEF Row
    <3>3. row' = [row EXCEPT ![a].status = "REJECTED", ![a].by = req[h].user]
      BY <1>14 DEF CommitReject
    <3>4. row' = [row EXCEPT ![a] = [[row[a] EXCEPT !.status = "REJECTED"] EXCEPT !.by = req[h].user]]
      BY <1>1, <2>1, <3>3
    <3>5. QED
      BY <3>1, <3>2, <3>4 DEF Row
  <2>3. RowInv(s, written, a)
    BY <1>1, <2>1, <2>2 DEF IInv, RowInv, Row
  <2>4. s.key = None \/ \A b \in Action \ {a} : row[b].key # s.key
    BY <2>1, <2>2 DEF IInv, KeyExecutesOneAction
  <2>5. QED
    BY <1>2, <1>14, <2>1, <2>2, <2>3, <2>4, RowStep DEF CommitReject
<1>15. CASE UNCHANGED vars
  BY <1>15 DEF vars, Kept, IInv, TypeOK, KeyExecutesOneAction
<1>16. QED
  BY <1>1, <1>3, <1>4, <1>5, <1>6, <1>7, <1>8, <1>9, <1>10, <1>11, <1>12, <1>13, <1>14, <1>15
  DEF Next

LEMMA Invariance == Spec => []IInv
BY InitIInv, StepIInv, PTL DEF Spec

-----------------------------------------------------------------------------
(***************************************************************************)
(* A deployment of one worker: what a request has read is still so when it *)
(* comes back to it.  That is what approve and reject rely on where no     *)
(* unique column guards them.                                              *)
(***************************************************************************)
Deciding == {"duplicate", "lookup", "insert", "commit", "reject"}

\* The action is undecided, and past the look-up nobody else has the key.
StillPending(r) == r.pc \in Deciding /\ r.action # None => row[r.action].status = "PENDING_APPROVAL"

StillOwnKey(r) ==
    r.pc \in {"lookup", "insert", "commit"} /\ r.action # None =>
        \A b \in Action \ {r.action} : row[b].key # r.key

\* The action of an external write is decided, or about to be.
WriteIsDecided(k) ==
    LET a == written[k].action IN
    a # None =>
        \/ row[a].status \in {"SUCCEEDED", "REJECTED"}
        \/ \E h \in workers : req[h].pc = "commit" /\ req[h].action = a

AloneInv ==
    Alone =>
        /\ \A h \in workers : StillPending(req[h]) /\ StillOwnKey(req[h])
        /\ crashes = 0 => \A k \in Key : WriteIsDecided(k)
        /\ OneWritePerAction

\* The decided actions stay as they are.
Final ==
    Alone => \A a \in Action :
        row[a].status \in {"SUCCEEDED", "REJECTED"} => row'[a] = row[a]

LEMMA InitAlone == Init => AloneInv
<1> SUFFICES ASSUME Init PROVE AloneInv
  OBVIOUS
<1>1. \A h \in workers : req[h] = Idle
  BY DEF Init
<1>2. \A k \in Key : written[k].action = None
  BY DEF Init, NotWritten
<1>3. \A h \in workers : StillPending(req[h]) /\ StillOwnKey(req[h])
  BY <1>1 DEF Idle, Deciding, StillPending, StillOwnKey
<1>4. QED
  BY <1>2, <1>3 DEF AloneInv, WriteIsDecided, OneWritePerAction

\* A step of the only worker that stores nothing.
LEMMA AloneRequestStep ==
    ASSUME IInv, AloneInv, Alone, NEW h \in workers, NEW r, Become(h, r),
           StillPending(r), StillOwnKey(r), UNCHANGED <<workers, row, written>>,
           crashes' = 0 => crashes = 0 /\ req[h].pc # "commit"
    PROVE  AloneInv' /\ Final
<1>1. workers = {h} /\ workers \subseteq Handler /\ req \in [Handler -> Request]
  BY DEF Alone, IInv, TypeOK
<1>2. req'[h] = r
  BY <1>1 DEF Become
<1>3. (\A g \in workers : StillPending(req[g]) /\ StillOwnKey(req[g]))'
  BY <1>1, <1>2 DEF StillPending, StillOwnKey
<1>4. ASSUME crashes' = 0 PROVE (\A k \in Key : WriteIsDecided(k))'
  BY <1>1, <1>4 DEF AloneInv, WriteIsDecided
<1>5. OneWritePerAction'
  BY DEF AloneInv, OneWritePerAction, Alone
<1>6. Final
  BY DEF Final
<1>7. QED
  BY <1>3, <1>4, <1>5, <1>6 DEF AloneInv

\* A step of the only worker that stores a row: of an action that is not
\* decided and has no external write, or whose decision it is.
LEMMA AloneRowStep ==
    ASSUME IInv, AloneInv, Alone, NEW h \in workers, NEW a \in Action, NEW s \in Row,
           Become(h, Idle), row' = [row EXCEPT ![a] = s], UNCHANGED <<workers, written, crashes>>,
           row[a].status \notin {"SUCCEEDED", "REJECTED"},
           s.status \in {"SUCCEEDED", "REJECTED"} \/ req[h].pc # "commit",
           req[h].pc = "commit" => req[h].action = a
    PROVE  AloneInv' /\ Final
<1>1. /\ workers = {h} /\ workers \subseteq Handler /\ req \in [Handler -> Request]
      /\ row \in [Action -> Row] /\ written \in [Key -> Write \cup {NotWritten}]
  BY DEF Alone, IInv, TypeOK
<1>2. req'[h] = Idle /\ row'[a] = s /\ \A b \in Action \ {a} : row'[b] = row[b]
  BY <1>1 DEF Become
<1>3. (\A g \in workers : StillPending(req[g]) /\ StillOwnKey(req[g]))'
  BY <1>1, <1>2 DEF StillPending, StillOwnKey, Idle
<1>4. ASSUME crashes' = 0, NEW k \in Key PROVE WriteIsDecided(k)'
  <2>1. WriteIsDecided(k)
    BY <1>4 DEF AloneInv
  <2>2. written[k].action \in Action \cup {None}
    BY <1>1 DEF Write, NotWritten
  <2>3. CASE written[k].action = None
    BY <2>3 DEF WriteIsDecided
  <2>4. CASE written[k].action = a
    <3>1. req[h].pc = "commit"
      BY <1>1, <2>1, <2>4, NoneIsNothing DEF WriteIsDecided
    <3>2. row'[a].status \in {"SUCCEEDED", "REJECTED"}
      BY <1>2, <3>1
    <3>3. QED
      BY <2>4, <3>2 DEF WriteIsDecided
  <2>5. CASE written[k].action \in Action \ {a}
    <3>1. row[written[k].action].status \in {"SUCCEEDED", "REJECTED"}
      BY <1>1, <2>1, <2>5, NoneIsNothing DEF WriteIsDecided
    <3>2. QED
      BY <1>2, <2>5, <3>1 DEF WriteIsDecided
  <2>6. QED
    BY <2>2, <2>3, <2>4, <2>5
<1>5. OneWritePerAction'
  BY DEF AloneInv, OneWritePerAction, Alone
<1>6. Final
  BY <1>2 DEF Final
<1>7. QED
  BY <1>3, <1>4, <1>5, <1>6 DEF AloneInv

\* The external write of the only worker.
LEMMA AloneWriteStep ==
    ASSUME IInv, AloneInv, Alone, NEW h \in workers, Insert(h)
    PROVE  AloneInv' /\ Final
<1> DEFINE r == req[h]
           new == [kind |-> r.kind, action |-> r.action, by |-> r.user]
<1>1. /\ workers = {h} /\ h \in Handler /\ req \in [Handler -> Request]
      /\ r \in Request /\ RequestInv(r, written) /\ r.pc = "insert"
      /\ written \in [Key -> Write \cup {NotWritten}]
  BY DEF Alone, IInv, TypeOK, Insert
<1>2. /\ r.key \in Key /\ written' = [written EXCEPT ![r.key] = new]
      /\ req' = [req EXCEPT ![h] = AfterWrite(r)] /\ UNCHANGED <<workers, row, crashes>>
  BY <1>1 DEF Insert, Become, RequestInv
<1>3. /\ written'[r.key].action = r.action /\ \A k \in Key \ {r.key} : written'[k] = written[k]
      /\ req'[h] = AfterWrite(r)
  BY <1>1, <1>2
<1>4. StillPending(r) /\ StillOwnKey(r)
  BY DEF AloneInv
<1>5. StillPending(AfterWrite(r)) /\ StillOwnKey(AfterWrite(r))
  <2>1. CASE r.action = None
    BY <2>1 DEF AfterWrite, StillPending, StillOwnKey, Idle
  <2>2. CASE r.action # None
    <3>1. AfterWrite(r).pc = "commit" /\ AfterWrite(r).action = r.action /\ AfterWrite(r).key = r.key
      BY <1>1, <2>2 DEF AfterWrite, Request
    <3>2. QED
      BY <1>1, <1>4, <2>2, <3>1 DEF StillPending, StillOwnKey, Deciding
  <2>3. QED
    BY <2>1, <2>2
<1>6. (\A g \in workers : StillPending(req[g]) /\ StillOwnKey(req[g]))'
  BY <1>1, <1>2, <1>3, <1>5 DEF StillPending, StillOwnKey
<1>7. ASSUME crashes = 0, NEW k \in Key, written[k].action # None
      PROVE  row[written[k].action].status \in {"SUCCEEDED", "REJECTED"}
  BY <1>1, <1>7 DEF AloneInv, WriteIsDecided
<1>8. ASSUME crashes = 0, NEW k \in Key, r.action # None PROVE written[k].action # r.action
  BY <1>1, <1>4, <1>7, <1>8 DEF StillPending, Deciding
<1>9. ASSUME crashes' = 0, NEW k \in Key PROVE WriteIsDecided(k)'
  <2>1. CASE k = r.key /\ r.action # None
    <3>1. AfterWrite(r).pc = "commit" /\ AfterWrite(r).action = r.action
      BY <1>1, <2>1 DEF AfterWrite, Request
    <3>2. QED
      BY <1>1, <1>2, <1>3, <2>1, <3>1 DEF WriteIsDecided
  <2>2. CASE k = r.key /\ r.action = None
    BY <1>3, <2>2 DEF WriteIsDecided
  <2>3. CASE k # r.key
    BY <1>2, <1>3, <1>7, <1>9, <2>3 DEF WriteIsDecided
  <2>4. QED
    BY <2>1, <2>2, <2>3
<1>10. OneWritePerAction'
  <2> SUFFICES ASSUME Alone', crashes' = 0, NEW k \in Key, NEW l \in Key,
                      written'[k].action # None, written'[k].action = written'[l].action
               PROVE  k = l
    BY DEF OneWritePerAction
  <2>1. crashes = 0
    BY <1>2
  <2>2. CASE k # r.key /\ l # r.key
    BY <1>3, <2>1, <2>2 DEF AloneInv, OneWritePerAction
  <2>3. CASE k = r.key /\ l # r.key
    BY <1>3, <1>8, <2>1, <2>3
  <2>4. CASE k # r.key /\ l = r.key
    BY <1>3, <1>8, <2>1, <2>4
  <2>5. QED
    BY <2>2, <2>3, <2>4
<1>11. Final
  BY <1>2 DEF Final
<1>12. QED
  BY <1>6, <1>9, <1>10, <1>11 DEF AloneInv

LEMMA IdleAlone == StillPending(Idle) /\ StillOwnKey(Idle) /\ Idle.pc = "idle"
BY DEF Idle, StillPending, StillOwnKey, Deciding

LEMMA StepAlone == IInv /\ AloneInv /\ [Next]_vars => AloneInv' /\ Final
<1> SUFFICES ASSUME IInv, AloneInv, [Next]_vars PROVE AloneInv' /\ Final
  OBVIOUS
<1>1. /\ workers \subseteq Handler /\ row \in [Action -> Row] /\ req \in [Handler -> Request]
      /\ crashes \in 0..MaxCrashes
  BY DEF IInv, TypeOK
<1>2. workers' = workers
  BY DEF Next, vars, OpenPackage, BeginReject, BeginApprove, CallConnector, CreateAction,
         CreateCollides, CheckDuplicate, Lookup, Insert, InsertCollides, CommitApprove,
         CommitCollides, CommitReject, Crash
<1>3. CASE ~Alone
  BY <1>2, <1>3 DEF AloneInv, Final, Alone
<1>4. CASE UNCHANGED vars
  BY <1>4 DEF vars, AloneInv, Final, Alone, StillPending, StillOwnKey, WriteIsDecided, OneWritePerAction
<1>5. ASSUME Alone, NEW h \in workers, NEW a \in Action, OpenPackage(h, a) PROVE AloneInv' /\ Final
  <2> DEFINE r == [Idle EXCEPT !.pc = "create", !.action = a]
  <2>1. StillPending(r) /\ StillOwnKey(r)
    BY DEF Idle, StillPending, StillOwnKey, Deciding
  <2>2. /\ req[h].pc # "commit" /\ Become(h, r) /\ UNCHANGED <<workers, row, written>> /\ crashes' = crashes
    BY <1>5 DEF OpenPackage
  <2> HIDE DEF r
  <2>3. QED
    BY <1>5, <2>1, <2>2, AloneRequestStep
<1>6. ASSUME Alone, NEW h \in workers, NEW a \in Action, NEW u \in User, BeginReject(h, a, u)
      PROVE  AloneInv' /\ Final
  <2> DEFINE r == [Idle EXCEPT !.pc = "reject", !.action = a, !.user = u]
  <2>1. r.pc = "reject" /\ r.action = a
    BY DEF Idle
  <2>2. /\ req[h].pc # "commit" /\ Become(h, r) /\ UNCHANGED <<workers, row, written>> /\ crashes' = crashes
        /\ row[a].status = "PENDING_APPROVAL"
    BY <1>6 DEF BeginReject
  <2> HIDE DEF r
  <2>3. StillPending(r) /\ StillOwnKey(r)
    BY <2>1, <2>2 DEF StillPending, StillOwnKey
  <2>4. QED
    BY <1>6, <2>2, <2>3, AloneRequestStep
<1>7. ASSUME Alone, NEW h \in workers, NEW a \in Action, NEW u \in User, NEW k \in Key,
             BeginApprove(h, a, u, k)
      PROVE  AloneInv' /\ Final
  <2> DEFINE r == [pc |-> "duplicate", action |-> a, kind |-> KindOf[a], user |-> u, key |-> k]
  <2>1. StillPending(r) /\ StillOwnKey(r)
    BY <1>7 DEF StillPending, StillOwnKey, BeginApprove
  <2>2. /\ req[h].pc # "commit" /\ Become(h, r) /\ UNCHANGED <<workers, row, written>> /\ crashes' = crashes
    BY <1>7 DEF BeginApprove
  <2> HIDE DEF r
  <2>3. QED
    BY <1>7, <2>1, <2>2, AloneRequestStep
<1>8. ASSUME Alone, NEW h \in workers, NEW kind \in Kind, NEW u \in User, NEW k \in Key,
             CallConnector(h, kind, u, k)
      PROVE  AloneInv' /\ Final
  <2> DEFINE r == [pc |-> "lookup", action |-> None, kind |-> kind, user |-> u, key |-> k]
  <2>1. StillPending(r) /\ StillOwnKey(r)
    BY DEF StillPending, StillOwnKey
  <2>2. /\ req[h].pc # "commit" /\ Become(h, r) /\ UNCHANGED <<workers, row, written>> /\ crashes' = crashes
    BY <1>8 DEF CallConnector
  <2> HIDE DEF r
  <2>3. QED
    BY <1>8, <2>1, <2>2, AloneRequestStep
<1>9. ASSUME Alone, NEW h \in workers, CreateAction(h) PROVE AloneInv' /\ Final
  <2> DEFINE a == req[h].action
             s == [row[a] EXCEPT !.status = "PENDING_APPROVAL"]
  <2>1. a \in Action /\ req[h].pc = "create" /\ row[a].status = "ABSENT"
    BY <1>1, <1>9 DEF IInv, RequestInv, CreateAction
  <2>2. s \in Row /\ row' = [row EXCEPT ![a] = s]
    BY <1>1, <1>9, <2>1 DEF Row, CreateAction
  <2>3. Become(h, Idle) /\ UNCHANGED <<workers, written, crashes>>
    BY <1>9 DEF CreateAction
  <2> HIDE DEF a, s
  <2>4. QED
    BY <1>9, <2>1, <2>2, <2>3, AloneRowStep
<1>10. ASSUME Alone, NEW h \in workers, CreateCollides(h) \/ InsertCollides(h) \/ Crash(h)
       PROVE  AloneInv' /\ Final
  <2>1. Become(h, Idle) /\ UNCHANGED <<workers, row, written>>
    BY <1>10 DEF CreateCollides, InsertCollides, Crash
  <2>2. crashes' = 0 => crashes = 0 /\ req[h].pc # "commit"
    BY <1>1, <1>10 DEF CreateCollides, InsertCollides, Crash
  <2>3. QED
    BY <1>10, <2>1, <2>2, IdleAlone, AloneRequestStep
<1>11. ASSUME Alone, NEW h \in workers, CheckDuplicate(h) PROVE AloneInv' /\ Final
  <2> DEFINE r == [req[h] EXCEPT !.pc = "lookup"]
  <2>1. /\ req[h].pc = "duplicate" /\ UNCHANGED <<workers, row, written>> /\ crashes' = crashes
        /\ req[h] \in Request /\ StillPending(req[h])
    BY <1>1, <1>11 DEF CheckDuplicate, AloneInv
  <2>2. CASE Become(h, Idle)
    BY <1>11, <2>1, <2>2, IdleAlone, AloneRequestStep
  <2>3. CASE /\ Become(h, r) /\ \A b \in Action \ {req[h].action} : row[b].key # req[h].key
    <3>1. r.pc = "lookup" /\ r.action = req[h].action /\ r.key = req[h].key
      BY <2>1 DEF Request
    <3> HIDE DEF r
    <3>2. StillPending(r) /\ StillOwnKey(r)
      BY <2>1, <2>3, <3>1 DEF StillPending, StillOwnKey, Deciding
    <3>3. QED
      BY <1>11, <2>1, <2>3, <3>2, AloneRequestStep
  <2>4. QED
    BY <1>11, <2>2, <2>3 DEF CheckDuplicate
<1>12. ASSUME Alone, NEW h \in workers, Lookup(h) PROVE AloneInv' /\ Final
  <2> DEFINE r == req[h]
  <2>1. /\ r.pc = "lookup" /\ UNCHANGED <<workers, row, written>> /\ crashes' = crashes
        /\ r \in Request /\ StillPending(r) /\ StillOwnKey(r)
    BY <1>1, <1>12 DEF Lookup, AloneInv
  <2>2. ASSUME NEW pc \in {"insert", "commit"}, Become(h, [r EXCEPT !.pc = pc]) PROVE AloneInv' /\ Final
    <3> DEFINE q == [r EXCEPT !.pc = pc]
    <3>1. q.pc = pc /\ q.action = r.action /\ q.key = r.key
      BY <2>1 DEF Request
    <3>2. Become(h, q)
      BY <2>2
    <3> HIDE DEF q
    <3>3. StillPending(q) /\ StillOwnKey(q)
      BY <2>1, <3>1 DEF StillPending, StillOwnKey, Deciding
    <3>4. QED
      BY <1>12, <2>1, <3>2, <3>3, AloneRequestStep
  <2>3. CASE Become(h, Idle)
    BY <1>12, <2>1, <2>3, IdleAlone, AloneRequestStep
  <2>4. QED
    BY <1>12, <2>2, <2>3 DEF Lookup, AfterWrite
<1>13. ASSUME Alone, NEW h \in workers, Insert(h) PROVE AloneInv' /\ Final
  BY <1>13, AloneWriteStep
<1>14. ASSUME Alone, NEW h \in workers, CommitApprove(h) PROVE AloneInv' /\ Final
  <2> DEFINE r == req[h]
             s == [status |-> "SUCCEEDED", by |-> r.user, key |-> r.key, executed |-> TRUE]
  <2>1. r.action \in Action /\ r.key \in Key /\ r.user \in User /\ r.pc = "commit"
    BY <1>1, <1>14 DEF IInv, RequestInv, CommitApprove
  <2>2. s \in Row /\ s.status = "SUCCEEDED"
    BY <2>1 DEF Row
  <2>3. row[r.action].status = "PENDING_APPROVAL"
    BY <1>14, <2>1, NoneIsNothing DEF AloneInv, StillPending, Deciding
  <2>4. row' = [row EXCEPT ![r.action] = s] /\ Become(h, Idle) /\ UNCHANGED <<workers, written, crashes>>
    BY <1>14 DEF CommitApprove
  <2> HIDE DEF s
  <2>5. QED
    BY <1>14, <2>1, <2>2, <2>3, <2>4, AloneRowStep
<1>15. ASSUME Alone, NEW h \in workers, CommitCollides(h) PROVE AloneInv' /\ Final
  <2>1. req[h].action \in Action /\ req[h].pc = "commit"
    BY <1>1, <1>15 DEF IInv, RequestInv, CommitCollides
  <2>2. \A b \in Action \ {req[h].action} : row[b].key # req[h].key
    BY <1>15, <2>1, NoneIsNothing DEF AloneInv, StillOwnKey
  <2>3. QED
    BY <1>15, <2>2 DEF CommitCollides
<1>16. ASSUME Alone, NEW h \in workers, CommitReject(h) PROVE AloneInv' /\ Final
  <2> DEFINE a == req[h].action
             t == [row[a] EXCEPT !.status = "REJECTED"]
             s == [t EXCEPT !.by = req[h].user]
  <2>1. a \in Action /\ req[h].user \in User /\ req[h].pc = "reject"
    BY <1>1, <1>16 DEF IInv, RequestInv, CommitReject
  <2>2. row' = [row EXCEPT ![a] = s]
    BY <1>1, <1>16, <2>1 DEF CommitReject
  <2>3. s \in Row
    <3>1. row[a] \in Row
      BY <1>1, <2>1
    <3>2. t \in Row
      BY <3>1 DEF Row
    <3> HIDE DEF t
    <3>3. QED
      BY <2>1, <3>2 DEF Row
  <2>4. row[a].status = "PENDING_APPROVAL"
    BY <1>16, <2>1, NoneIsNothing DEF AloneInv, StillPending, Deciding
  <2>5. Become(h, Idle) /\ UNCHANGED <<workers, written, crashes>>
    BY <1>16 DEF CommitReject
  <2> HIDE DEF s
  <2>6. QED
    BY <1>16, <2>1, <2>2, <2>3, <2>4, <2>5, AloneRowStep
<1>17. QED
  BY <1>3, <1>4, <1>5, <1>6, <1>7, <1>8, <1>9, <1>10, <1>11, <1>12, <1>13, <1>14, <1>15, <1>16
  DEF Next

LEMMA AloneInvariance == Spec => [](IInv /\ AloneInv)
BY InitIInv, StepIInv, InitAlone, StepAlone, PTL DEF Spec

-----------------------------------------------------------------------------
(***************************************************************************)
(* The theorems.                                                           *)
(***************************************************************************)
\* Rows, external writes and requests have the columns the code gives them.
THEOREM Typing == Spec => []TypeOK
<1>1. IInv => TypeOK
  BY DEF IInv
<1>2. QED
  BY <1>1, Invariance, PTL

\* An action that counts as executed has its external write, of its own kind,
\* whichever attempt or request made it and whoever died in between: approve
\* stores the decision only after it has seen the write.
THEOREM ExecutedIsWritten == Spec => []SuccessWasWritten
<1>1. IInv => SuccessWasWritten
  BY NoneIsNothing DEF IInv, RowInv, WrittenAs, SuccessWasWritten
<1>2. QED
  BY <1>1, Invariance, PTL

\* However approvals and rejections overlap, an executed action was decided by
\* somebody else than its maker (require_role and the maker check of approve).
THEOREM FourEyes == Spec => []MakerNeverChecks
<1>1. IInv => MakerNeverChecks
  BY NoneIsNothing DEF IInv, RowInv, MakerNeverChecks
<1>2. QED
  BY <1>1, Invariance, PTL

\* An idempotency key executes one action: the look-up may miss a duplicate,
\* the unique column does not.
THEOREM KeyIsSpentOnce == Spec => []KeyExecutesOneAction
<1>1. IInv => KeyExecutesOneAction
  BY DEF IInv
<1>2. QED
  BY <1>1, Invariance, PTL

\* No step changes an external write that has been made.
THEOREM WritesStay == Spec => WritesAreFinal
<1>1. IInv /\ [Next]_vars => [Kept]_vars
  BY StepIInv
<1>2. Kept <=> \A k \in Key : Exists(k) => written'[k] = written[k]
  BY DEF Kept
<1>3. QED
  BY <1>1, <1>2, Invariance, PTL DEF Spec, WritesAreFinal

\* With one worker, and if no request dies between its two transactions, an
\* action is written to the external system once, whatever keys its approvers
\* send: the status approve has loaded is the one it decides.
THEOREM ActionsAreWrittenOnce == Spec => []OneWritePerAction
<1>1. IInv /\ AloneInv => OneWritePerAction
  BY DEF AloneInv, OneWritePerAction
<1>2. QED
  BY <1>1, AloneInvariance, PTL

\* With one worker no decision is changed or repeated, wherever requests die:
\* neither CommitApprove nor CommitReject looks at the status again.
THEOREM DecisionsAreFinal == Spec => DecisionIsFinal
<1>1. IInv /\ AloneInv /\ [Next]_vars => [Final]_vars
  BY StepAlone
<1>2. Final <=> (Alone => \A a \in Action :
                    row[a].status \in {"SUCCEEDED", "REJECTED"} => row'[a] = row[a])
  BY DEF Final
<1>3. QED
  BY <1>1, <1>2, AloneInvariance, PTL DEF Spec, DecisionIsFinal
=============================================================================
