-------------------------- MODULE ActionGovernance --------------------------
(***************************************************************************)
(* The actions the system proposes and people decide on: ActionService of  *)
(* backend/app/services.py, which writes to the external system through    *)
(* MockActionService (v3_services.py), and the creation of an action with  *)
(* the resolution package.                                                 *)
(*                                                                         *)
(* An approval is two transactions: the external write is committed first, *)
(* the decision afterwards, from a row loaded before both.  Every database *)
(* round trip is one action.  Requests whose role is not an approver's     *)
(* role end before anything is read and are left out.                      *)
(***************************************************************************)
EXTENDS Naturals, FiniteSets

CONSTANTS
    Action,      \* the proposed actions, one per assessment run
    Kind,        \* pairs of action_type and case_id
    KindOf,      \* the pair of each action
    User,        \* the X-User-Id headers
    Maker,       \* created_by of every action
    Key,         \* the Idempotency-Key headers
    Handler,     \* the worker threads
    MaxCrashes,  \* bound: requests that die half way
    None

ASSUME KindsAreKnown == KindOf \in [Action -> Kind]
ASSUME MakerIsAUser == Maker \in User
ASSUME NoneIsNothing == None \notin User \cup Key \cup Action
ASSUME CrashesAreCounted == MaxCrashes \in Nat

VARIABLES
    workers,  \* the worker threads of this deployment, fixed
    row,      \* proposed_actions
    written,  \* mock_external_actions, by their unique idempotency_key
    req,      \* the request each handler is serving
    crashes

vars == <<workers, row, written, req, crashes>>

Row == [status : {"ABSENT", "PENDING_APPROVAL", "SUCCEEDED", "REJECTED"},
        by : User \cup {None}, key : Key \cup {None}, executed : BOOLEAN]

\* The payload of an external write names the action; None if the write was
\* ordered at the connector's own endpoint.
Write == [kind : Kind, action : Action \cup {None}, by : User]

NotWritten == [kind |-> None, action |-> None, by |-> None]

Request == [pc : {"idle", "create", "duplicate", "lookup", "insert", "commit", "reject"},
            action : Action \cup {None}, kind : Kind \cup {None},
            user : User \cup {None}, key : Key \cup {None}]

Idle == [pc |-> "idle", action |-> None, kind |-> None, user |-> None, key |-> None]

Init ==
    /\ workers \in (SUBSET Handler) \ {{}}
    /\ row = [a \in Action |-> [status |-> "ABSENT", by |-> None, key |-> None, executed |-> FALSE]]
    /\ written = [k \in Key |-> NotWritten]
    /\ req = [h \in Handler |-> Idle]
    /\ crashes = 0

Become(h, new) == req' = [req EXCEPT ![h] = new]

Exists(k) == written[k] # NotWritten

-----------------------------------------------------------------------------
(***************************************************************************)
(* ActionRepository.get_or_create, in a GET of the resolution package.     *)
(***************************************************************************)
OpenPackage(h, a) ==
    /\ req[h].pc = "idle"
    /\ row[a].status = "ABSENT"
    /\ Become(h, [Idle EXCEPT !.pc = "create", !.action = a])
    /\ UNCHANGED <<workers, row, written, crashes>>

CreateAction(h) ==
    /\ req[h].pc = "create"
    /\ row[req[h].action].status = "ABSENT"
    /\ row' = [row EXCEPT ![req[h].action].status = "PENDING_APPROVAL"]
    /\ Become(h, Idle)
    /\ UNCHANGED <<workers, written, crashes>>

\* Another GET inserted the same primary key first: the request fails.
CreateCollides(h) ==
    /\ req[h].pc = "create"
    /\ row[req[h].action].status # "ABSENT"
    /\ Become(h, Idle)
    /\ UNCHANGED <<workers, row, written, crashes>>

-----------------------------------------------------------------------------
(***************************************************************************)
(* ActionService.approve.                                                  *)
(***************************************************************************)
\* Mutants: the maker may approve; a decided action is approved again.
BeginApproveByMaker(h, a, u, k) ==
    /\ req[h].pc = "idle"
    /\ row[a].status = "PENDING_APPROVAL"
    /\ Become(h, [pc |-> "duplicate", action |-> a, kind |-> KindOf[a], user |-> u, key |-> k])
    /\ UNCHANGED <<workers, row, written, crashes>>
BeginApproveAgain(h, a, u, k) ==
    /\ req[h].pc = "idle"
    /\ row[a].status # "ABSENT"
    /\ u # Maker
    /\ Become(h, [pc |-> "duplicate", action |-> a, kind |-> KindOf[a], user |-> u, key |-> k])
    /\ UNCHANGED <<workers, row, written, crashes>>

\* The row is loaded; a decided action is answered as it is or with an error,
\* and so is a payload hash that is not the stored one.
BeginApprove(h, a, u, k) ==
    /\ req[h].pc = "idle"
    /\ row[a].status = "PENDING_APPROVAL"
    /\ u # Maker
    /\ Become(h, [pc |-> "duplicate", action |-> a, kind |-> KindOf[a], user |-> u, key |-> k])
    /\ UNCHANGED <<workers, row, written, crashes>>

\* IDEMPOTENCY_KEY_REUSED when another action carries the key.
CheckDuplicate(h) ==
    /\ req[h].pc = "duplicate"
    /\ IF \E a \in Action \ {req[h].action} : row[a].key = req[h].key
       THEN Become(h, Idle)
       ELSE Become(h, [req[h] EXCEPT !.pc = "lookup"])
    /\ UNCHANGED <<workers, row, written, crashes>>

\* After the external write: approve goes on to store the decision, a call of
\* the connector's endpoint has its answer.
AfterWrite(r) == IF r.action # None THEN [r EXCEPT !.pc = "commit"] ELSE Idle

\* Mutant: the kind of the earlier write is not compared.
LookupAnyKind(h) ==
    LET r == req[h] IN
    /\ r.pc = "lookup"
    /\ IF ~Exists(r.key) THEN Become(h, [r EXCEPT !.pc = "insert"]) ELSE Become(h, AfterWrite(r))
    /\ UNCHANGED <<workers, row, written, crashes>>

\* MockActionService.execute: an earlier write with the key is the answer,
\* if it is of the same kind.
Lookup(h) ==
    LET r == req[h] IN
    /\ r.pc = "lookup"
    /\ IF ~Exists(r.key) THEN Become(h, [r EXCEPT !.pc = "insert"])
       ELSE IF written[r.key].kind = r.kind THEN Become(h, AfterWrite(r))
       ELSE Become(h, Idle)
    /\ UNCHANGED <<workers, row, written, crashes>>

Insert(h) ==
    LET r == req[h] IN
    /\ r.pc = "insert"
    /\ ~Exists(r.key)
    /\ written' = [written EXCEPT ![r.key] = [kind |-> r.kind, action |-> r.action, by |-> r.user]]
    /\ Become(h, AfterWrite(r))
    /\ UNCHANGED <<workers, row, crashes>>

\* The unique idempotency_key refuses the write: the request fails.
InsertCollides(h) ==
    /\ req[h].pc = "insert"
    /\ Exists(req[h].key)
    /\ Become(h, Idle)
    /\ UNCHANGED <<workers, row, written, crashes>>

\* Mutant: execution_idempotency_key is not unique.
CommitAnyKey(h) ==
    LET r == req[h] IN
    /\ r.pc = "commit"
    /\ row' = [row EXCEPT ![r.action] =
                 [status |-> "SUCCEEDED", by |-> r.user, key |-> r.key, executed |-> TRUE]]
    /\ Become(h, Idle)
    /\ UNCHANGED <<workers, written, crashes>>

\* The decision is stored over whatever the row says by now.
CommitApprove(h) ==
    LET r == req[h] IN
    /\ r.pc = "commit"
    /\ \A a \in Action \ {r.action} : row[a].key # r.key
    /\ row' = [row EXCEPT ![r.action] =
                 [status |-> "SUCCEEDED", by |-> r.user, key |-> r.key, executed |-> TRUE]]
    /\ Become(h, Idle)
    /\ UNCHANGED <<workers, written, crashes>>

\* The unique execution_idempotency_key refuses the row: the request fails
\* and the external write stays.
CommitCollides(h) ==
    /\ req[h].pc = "commit"
    /\ \E a \in Action \ {req[h].action} : row[a].key = req[h].key
    /\ Become(h, Idle)
    /\ UNCHANGED <<workers, row, written, crashes>>

-----------------------------------------------------------------------------
\* Mutant: an executed action can be rejected.
BeginRejectExecuted(h, a, u) ==
    /\ req[h].pc = "idle"
    /\ row[a].status \in {"PENDING_APPROVAL", "SUCCEEDED"}
    /\ Become(h, [Idle EXCEPT !.pc = "reject", !.action = a, !.user = u])
    /\ UNCHANGED <<workers, row, written, crashes>>

\* ActionService.reject: the row is loaded and must be undecided.
BeginReject(h, a, u) ==
    /\ req[h].pc = "idle"
    /\ row[a].status = "PENDING_APPROVAL"
    /\ Become(h, [Idle EXCEPT !.pc = "reject", !.action = a, !.user = u])
    /\ UNCHANGED <<workers, row, written, crashes>>

\* The status and the decider are flushed; the execution columns stay.
CommitReject(h) ==
    LET r == req[h] IN
    /\ r.pc = "reject"
    /\ row' = [row EXCEPT ![r.action].status = "REJECTED", ![r.action].by = r.user]
    /\ Become(h, Idle)
    /\ UNCHANGED <<workers, written, crashes>>

\* The connector's own endpoints (v3_api.py, execute_mock_action).
CallConnector(h, kind, u, k) ==
    /\ req[h].pc = "idle"
    /\ Become(h, [pc |-> "lookup", action |-> None, kind |-> kind, user |-> u, key |-> k])
    /\ UNCHANGED <<workers, row, written, crashes>>

\* The worker or its connection dies: what is committed stays.
Crash(h) ==
    /\ req[h].pc # "idle"
    /\ crashes < MaxCrashes
    /\ crashes' = crashes + 1
    /\ Become(h, Idle)
    /\ UNCHANGED <<workers, row, written>>

Next ==
    \E h \in workers :
        \/ \E a \in Action :
              \/ OpenPackage(h, a)
              \/ \E u \in User : BeginReject(h, a, u) \/ \E k \in Key : BeginApprove(h, a, u, k)
        \/ \E u \in User, k \in Key, kind \in Kind : CallConnector(h, kind, u, k)
        \/ CreateAction(h) \/ CreateCollides(h)
        \/ CheckDuplicate(h) \/ Lookup(h) \/ Insert(h) \/ InsertCollides(h)
        \/ CommitApprove(h) \/ CommitCollides(h)
        \/ CommitReject(h)
        \/ Crash(h)

Spec == Init /\ [][Next]_vars
-----------------------------------------------------------------------------
(***************************************************************************)
(* Properties.                                                             *)
(***************************************************************************)
\* Rows, external writes and requests have the columns the code gives them.
TypeOK ==
    /\ workers \subseteq Handler
    /\ row \in [Action -> Row]
    /\ written \in [Key -> Write \cup {NotWritten}]
    /\ req \in [Handler -> Request]
    /\ crashes \in 0..MaxCrashes

\* No success without the write: an action that counts as executed points at
\* an external write of its own type and case, also when the write was made
\* by an earlier attempt that died or by another request with the same key.
SuccessWasWritten ==
    \A a \in Action : row[a].executed =>
        /\ row[a].key # None
        /\ written[row[a].key].kind = KindOf[a]

\* An executed action was decided by somebody else than its maker, whichever
\* of the overlapping approvals and rejections was stored last.
MakerNeverChecks ==
    \A a \in Action : row[a].status = "SUCCEEDED" => row[a].by \notin {Maker, None}

\* One idempotency key executes one action, although the check for another
\* action with the key, the external write and the decision are separate.
KeyExecutesOneAction ==
    \A a, b \in Action : row[a].key = row[b].key /\ row[a].key # None => a = b

\* What was written under a key is never written again or changed: a retry
\* is answered with the first write, whoever repeats it and when.
WritesAreFinal == [][\A k \in Key : Exists(k) => written'[k] = written[k]]_vars

\* One worker serves one request after the other.
Alone == \A g, h \in workers : g = h

\* An action is written to the external system at most once, whatever keys
\* its approvers use, if requests do not overlap and none dies half way.
OneWritePerAction ==
    Alone /\ crashes = 0 => \A k, l \in Key :
        written[k].action # None /\ written[k].action = written[l].action => k = l

\* A decision is final, if requests do not overlap: an approval leaves rejected
\* actions alone, a rejection executed ones, and neither is repeated.
DecisionIsFinal ==
    [][Alone => \A a \in Action :
          row[a].status \in {"SUCCEEDED", "REJECTED"} => row'[a] = row[a]]_vars
=============================================================================
