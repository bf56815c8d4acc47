---------------------------- MODULE SeedingProofs ----------------------------
(***************************************************************************)
(* Proofs about Seeding, for any number of scripts, accounts, requests,    *)
(* runs and crashes.                                                       *)
(*                                                                         *)
(* The accounts need no agreement between processes: they are stored all   *)
(* at once or not at all.  The cohort does: the invariant says what a      *)
(* script that refreshes it relies on, as long as nobody works while it    *)
(* runs, and what it leaves behind when it is killed half-way.             *)
(***************************************************************************)
EXTENDS Seeding, SequenceTheorems, TLAPS

Row == [data : Nat, shown : BOOLEAN]
RunRow == [data : Nat, status : {"RUNNING", "READY", "NOT_READY", "GONE"}]
ApprovalRow == [status : {"NONE", "OPEN", "APPROVED"}, basis : Nat]
Reading == [pc : {"down", "create", "created", "cases", "accounts", "staff", "serving", "mock",
                  "insert", "delete", "reload", "rewrite", "done", "dead"},
            case : Row, accounts : SUBSET Account, runs : Nat, refresh : BOOLEAN]
Request == [pc : {"idle", "run", "approve"}, run : Nat, epoch : Nat, basis : Nat]

TypeInv ==
    /\ config \in Config
    /\ schema \in BOOLEAN /\ accounts \subseteq Account
    /\ case \in Row
    /\ runs \in Seq(RunRow)
    /\ approval \in ApprovalRow
    /\ epoch \in Nat /\ half \in BOOLEAN /\ crashes \in Nat
    /\ proc \in [Process -> Reading]
    /\ req \in [Handler -> Request]

\* All accounts are there or none, and no process has seen more than there are.
AllOrNone ==
    /\ accounts \in {{}, Account}
    /\ \A p \in Process : proc[p].accounts \in {{}, accounts}
    /\ \A h \in Handler : req[h].pc = "approve" => accounts = Account

ServerPc == {"down", "create", "created", "cases", "accounts", "staff", "serving"}

\* The server does not touch the cohort, and serves while there are requests.
ServerInv ==
    /\ proc[Server].pc \in ServerPc
    /\ Requested => proc[Server].pc = "serving"
    /\ \A h \in Handler : req[h].pc # "idle" => req[h].run \in DOMAIN runs

\* Nothing hangs on a case that is not there.
NoCase ==
    case.data = 0 => runs = <<>> /\ approval.status = "NONE" /\ ~case.shown

(***************************************************************************)
(* If nobody works while the script runs.                                  *)
(***************************************************************************)
\* What a refresh has to know of rows it is about to delete or rewrite.
RefreshInv(q) ==
    /\ q.pc = "delete" => q.runs = Len(runs)
    /\ q.pc \in {"reload", "rewrite"} =>
          /\ \A i \in DOMAIN runs : runs[i].status = "GONE"
          /\ approval.status = "NONE"
    /\ q.pc = "rewrite" /\ case.shown => q.case.shown

\* Runs, requests and the approval are of the data the case has.
SameData ==
    /\ \A i \in DOMAIN runs : runs[i].status # "GONE" => runs[i].data = case.data
    /\ \A h \in Handler : req[h].pc = "approve" => req[h].basis = case.data
    /\ approval.status = "APPROVED" => approval.basis = case.data

Agreement ==
    ~half =>
        /\ case.shown => approval.status = "APPROVED"
        /\ config.kind = "MOCK" /\ approval.status = "APPROVED" => case.shown

QuietInv ==
    /\ ~(Scripting /\ Requested)
    /\ \A p \in Script : RefreshInv(proc[p])
    /\ SameData
    /\ Agreement

IInv == TypeInv /\ AllOrNone /\ ServerInv /\ NoCase /\ (config.quiet => QuietInv)

-----------------------------------------------------------------------------
LEMMA InitIInv == Init => IInv
<1> SUFFICES ASSUME Init PROVE IInv
  OBVIOUS
<1>1. Idle \in Request /\ Down \in Reading
  BY DEF Idle, Request, Down, Reading, Row
<1>2. \A p \in Process : proc[p] = Down
  BY DEF Init
<1>3. \A h \in Handler : req[h] = Idle
  BY DEF Init
<1>4. TypeInv
  <2>1. case \in Row /\ approval \in ApprovalRow /\ runs \in Seq(RunRow)
    BY DEF Init, Row, ApprovalRow
  <2>2. proc \in [Process -> Reading] /\ req \in [Handler -> Request]
    BY <1>1 DEF Init
  <2>3. QED
    BY <2>1, <2>2 DEF Init, TypeInv
<1>5. AllOrNone
  BY <1>2, <1>3 DEF Init, AllOrNone, Down, Idle
<1>6. ServerInv /\ ~Requested
  BY <1>2, <1>3 DEF ServerInv, ServerPc, Requested, Process, Down, Idle
<1>7. NoCase
  BY DEF Init, NoCase
<1>8. QuietInv
  <2>1. \A p \in Script : RefreshInv(proc[p])
    BY <1>2 DEF RefreshInv, Process, Down
  <2>2. SameData /\ Agreement
    BY <1>3 DEF Init, SameData, Agreement, Idle
  <2>3. QED
    BY <1>6, <2>1, <2>2 DEF QuietInv
<1>9. QED
  BY <1>4, <1>5, <1>6, <1>7, <1>8 DEF IInv

LEMMA Types ==
    ASSUME TypeInv
    PROVE  /\ proc \in [Process -> Reading] /\ \A p \in Process : proc[p] \in Reading
           /\ req \in [Handler -> Request] /\ \A h \in Handler : req[h] \in Request
           /\ runs \in Seq(RunRow) /\ Len(runs) \in Nat /\ DOMAIN runs = 1..Len(runs)
           /\ \A i \in DOMAIN runs : runs[i] \in RunRow
           /\ case \in Row /\ case.data \in Nat /\ case.shown \in BOOLEAN
           /\ Server \in Process /\ Server \notin Script /\ Script \subseteq Process
BY ServerIsNoScript DEF TypeInv, Row, Process

(***************************************************************************)
(* A step of a process that deletes and rewrites nothing: it may make the  *)
(* schema, the accounts and the case, and a fixture may be hidden.         *)
(***************************************************************************)
CaseStep ==
    \/ case' = case
    \/ case.data = 0 /\ case' = [data |-> 1, shown |-> FALSE]
    \/ /\ config.kind = "FIXTURE"
       /\ case' \in Row /\ case'.data = case.data /\ (case'.shown => case.shown)

LEMMA ProcessStep ==
    ASSUME IInv, NEW p \in Process, NEW q \in Reading, proc' = [proc EXCEPT ![p] = q],
           q.accounts \in {{}, accounts'}, accounts' \in {accounts, Account},
           schema' \in BOOLEAN, crashes' \in Nat, CaseStep,
           p = Server => (q.pc \in ServerPc /\ ~Requested) \/ q.pc = proc[p].pc,
           config.quiet /\ p \in Script =>
               RefreshInv(q) /\ (q.pc \in {"down", "done", "dead"} \/ ~Requested),
           UNCHANGED <<config, runs, approval, epoch, half, req>>
    PROVE  IInv'
<1>t. /\ proc \in [Process -> Reading] /\ Server \in Process /\ Server \notin Script
      /\ Script \subseteq Process /\ case \in Row /\ DOMAIN runs = 1..Len(runs)
  BY Types DEF IInv
<1>1. /\ proc'[p] = q /\ \A o \in Process \ {p} : proc'[o] = proc[o]
      /\ Requested' = Requested
  BY <1>t DEF Requested
<1>2. TypeInv'
  <2>1. case' \in Row
    <3>1. [data |-> 1, shown |-> FALSE] \in Row
      BY DEF Row
    <3>2. QED
      BY <1>t, <3>1 DEF CaseStep
  <2>2. proc' \in [Process -> Reading]
    BY <1>t
  <2>3. accounts' \subseteq Account
    BY DEF IInv, TypeInv
  <2>4. /\ config' = config /\ runs' = runs /\ approval' = approval /\ epoch' = epoch
        /\ half' = half /\ req' = req
    OBVIOUS
  <2>5. QED
    BY <2>1, <2>2, <2>3, <2>4 DEF IInv, TypeInv
<1>3. AllOrNone'
  BY <1>1 DEF IInv, AllOrNone, TypeInv
<1>4. ServerInv'
  <2>1. CASE p = Server
    BY <1>1, <2>1 DEF IInv, ServerInv
  <2>2. CASE p # Server
    BY <1>t, <1>1, <2>2 DEF IInv, ServerInv
  <2>3. QED
    BY <2>1, <2>2
<1>5. NoCase'
  BY <1>t DEF IInv, NoCase, CaseStep, Row
<1>6. ASSUME config.quiet PROVE QuietInv'
  <2>1. (~(Scripting /\ Requested))'
    BY <1>t, <1>1, <1>6 DEF IInv, QuietInv, Scripting
  <2>2. case'.shown => case.shown
    BY DEF CaseStep
  <2>3. ASSUME NEW o \in Script PROVE RefreshInv(proc[o])'
    <3>1. RefreshInv(proc'[o])
      BY <1>t, <1>1, <1>6 DEF IInv, QuietInv
    <3>2. QED
      BY <2>2, <3>1 DEF RefreshInv
  <2>4. SameData' /\ Agreement'
    <3>1. CASE case'.data = case.data /\ (case' = case \/ config.kind = "FIXTURE")
      BY <1>6, <2>2, <3>1 DEF IInv, QuietInv, SameData, Agreement
    <3>2. CASE case.data = 0 /\ case' = [data |-> 1, shown |-> FALSE]
      <4>1. runs = <<>> /\ approval.status = "NONE" /\ DOMAIN runs = {}
        BY <3>2 DEF IInv, NoCase
      <4>2. \A h \in Handler : req[h].pc = "idle"
        BY <4>1 DEF IInv, ServerInv
      <4>3. QED
        BY <3>2, <4>1, <4>2 DEF SameData, Agreement
    <3>3. QED
      BY <3>1, <3>2 DEF CaseStep
  <2>5. QED
    BY <2>1, <2>3, <2>4 DEF QuietInv
<1>7. QED
  BY <1>2, <1>3, <1>4, <1>5, <1>6 DEF IInv

\* What a process is when it has died or goes on.
LEMMA AfterStep ==
    ASSUME TypeInv, NEW p \in Process, NEW pc \in {"created", "accounts", "serving", "mock", "insert",
                                                    "reload", "done"}
    PROVE  /\ Dies(p) => \E q \in Reading :
                            /\ proc' = [proc EXCEPT ![p] = q] /\ q.accounts = {}
                            /\ q.pc = IF p = Server THEN "down" ELSE "dead"
           /\ Goto(p, pc) => \E q \in Reading :
                            /\ proc' = [proc EXCEPT ![p] = q] /\ q.accounts = {} /\ q.pc = pc
<1>1. Down \in Reading /\ Down.accounts = {}
  BY DEF Down, Reading, Row
<1>2. (proc[p].refresh /\ pc # "done") \in BOOLEAN
  BY Types DEF Reading
<1> DEFINE d == [Down EXCEPT !.pc = IF p = Server THEN "down" ELSE "dead"]
           g == [Down EXCEPT !.pc = pc, !.refresh = proc[p].refresh /\ pc # "done"]
<1>3. d \in Reading /\ d.accounts = {} /\ d.pc = IF p = Server THEN "down" ELSE "dead"
  BY <1>1 DEF Reading
<1>4. g \in Reading /\ g.accounts = {} /\ g.pc = pc
  BY <1>1, <1>2 DEF Reading
<1>5. QED
  BY <1>3, <1>4 DEF Dies, Goto

\* Only the processes themselves, nothing they store.
LEMMA ProcStep ==
    ASSUME IInv, NEW p \in Process, NEW q \in Reading, proc' = [proc EXCEPT ![p] = q],
           q.accounts \in {{}, accounts}, crashes' \in Nat,
           p = Server => (q.pc \in ServerPc /\ ~Requested) \/ q.pc = proc[p].pc,
           config.quiet /\ p \in Script =>
               RefreshInv(q) /\ (q.pc \in {"down", "done", "dead"} \/ ~Requested),
           UNCHANGED <<config, stored, req>>
    PROVE  IInv'
<1>1. CaseStep /\ accounts' \in {accounts, Account} /\ q.accounts \in {{}, accounts'}
  BY DEF CaseStep, stored
<1>2. schema' \in BOOLEAN
  BY DEF IInv, TypeInv, stored
<1>3. UNCHANGED <<config, runs, approval, epoch, half, req>>
  BY DEF stored
<1>4. QED
  BY <1>1, <1>2, <1>3, ProcessStep

\* A process that is at work is alone, and the server serves nobody yet.
LEMMA AtWork ==
    ASSUME IInv, NEW p \in Process, proc[p].pc \notin {"down", "serving", "done", "dead"}
    PROVE  /\ p = Server => ~Requested
           /\ config.quiet /\ p \in Script => ~Requested /\ RefreshInv(proc[p])
BY DEF IInv, ServerInv, QuietInv, Scripting

\* Where a refresh has nothing to know.
LEMMA Calm ==
    ASSUME NEW q, q.pc \notin {"delete", "reload", "rewrite"}
    PROVE  RefreshInv(q)
BY DEF RefreshInv

\* A process dies or goes on having stored what it may store.
LEMMA GoesOn ==
    ASSUME IInv, NEW p \in Process,
           NEW pc \in {"created", "accounts", "serving", "mock", "insert", "done"},
           Dies(p) \/ Goto(p, pc), proc[p].pc \notin {"down", "serving", "done", "dead"},
           p = Server => pc \in ServerPc,
           accounts' \in {accounts, Account}, schema' \in BOOLEAN, CaseStep,
           UNCHANGED <<config, runs, approval, epoch, half, req, crashes>>
    PROVE  IInv'
<1>1. PICK q \in Reading : /\ proc' = [proc EXCEPT ![p] = q] /\ q.accounts = {}
                           /\ \/ q.pc = pc
                              \/ q.pc = IF p = Server THEN "down" ELSE "dead"
  BY AfterStep DEF IInv
<1>2. p = Server => q.pc \in ServerPc /\ ~Requested
  BY <1>1, AtWork DEF ServerPc
<1>3. config.quiet /\ p \in Script => RefreshInv(q) /\ ~Requested
  BY <1>1, AtWork, Calm
<1>4. crashes' \in Nat
  BY DEF IInv, TypeInv
<1>5. QED
  BY <1>1, <1>2, <1>3, <1>4, ProcessStep

-----------------------------------------------------------------------------
(***************************************************************************)
(* The two commits of a refresh.                                           *)
(***************************************************************************)
LEMMA DeleteStep == ASSUME IInv, NEW p \in Process, DeleteRows(p) PROVE IInv'
<1>t. /\ proc \in [Process -> Reading] /\ Server \in Process /\ Server \notin Script
      /\ Script \subseteq Process /\ DOMAIN runs = 1..Len(runs) /\ Len(runs) \in Nat
      /\ \A i \in DOMAIN runs : runs[i] \in RunRow
  BY Types DEF IInv
<1>1. p # Server /\ p \in Script /\ proc[p].pc = "delete"
  BY DEF IInv, ServerInv, ServerPc, DeleteRows, Process
<1>2. PICK q \in Reading : proc' = [proc EXCEPT ![p] = q] /\ q.accounts = {} /\ q.pc = "reload"
  BY AfterStep DEF IInv, DeleteRows
<1>3. proc'[p] = q /\ \A o \in Process \ {p} : proc'[o] = proc[o]
  BY <1>t, <1>2
<1>4. /\ runs' \in Seq(RunRow) /\ DOMAIN runs' = DOMAIN runs /\ Len(runs') = Len(runs)
      /\ \A i \in DOMAIN runs :
            /\ runs'[i].data = runs[i].data
            /\ runs'[i].status = IF i <= proc[p].runs THEN "GONE" ELSE runs[i].status
  <2> DEFINE row(i) == IF i <= proc[p].runs THEN [runs[i] EXCEPT !.status = "GONE"] ELSE runs[i]
  <2>1. ASSUME NEW i \in DOMAIN runs
        PROVE  /\ row(i) \in RunRow /\ row(i).data = runs[i].data
               /\ row(i).status = IF i <= proc[p].runs THEN "GONE" ELSE runs[i].status
    <3>1. runs[i] \in RunRow
      BY <1>t
    <3>2. QED
      BY <3>1 DEF RunRow
  <2>2. runs' = [i \in 1..Len(runs) |-> row(i)]
    BY <1>t DEF DeleteRows
  <2> HIDE DEF row
  <2>3. QED
    BY <1>t, <2>1, <2>2
<1>5. /\ approval' = [status |-> "NONE", basis |-> 0] /\ approval' \in ApprovalRow
      /\ epoch' = epoch + 1 /\ half' = TRUE
      /\ UNCHANGED <<config, schema, accounts, case, req, crashes>>
  BY DEF DeleteRows, ApprovalRow
<1>6. TypeInv'
  <2>1. proc' \in [Process -> Reading] /\ epoch' \in Nat
    BY <1>t, <1>2, <1>5 DEF IInv, TypeInv
  <2>2. QED
    BY <1>4, <1>5, <2>1 DEF IInv, TypeInv
<1>7. AllOrNone'
  BY <1>2, <1>3, <1>5 DEF IInv, AllOrNone
<1>8. Requested' = Requested
  BY <1>5 DEF Requested
<1>9. ServerInv'
  BY <1>t, <1>1, <1>3, <1>4, <1>5, <1>8 DEF IInv, ServerInv
<1>10. NoCase'
  <2>1. runs = <<>> => runs' = <<>>
    BY <1>4
  <2>2. QED
    BY <1>5, <2>1 DEF IInv, NoCase
<1>11. ASSUME config.quiet PROVE QuietInv'
  <2>1. ~Requested /\ RefreshInv(proc[p])
    BY <1>1, <1>11, AtWork
  <2>2. \A i \in DOMAIN runs' : runs'[i].status = "GONE"
    BY <1>t, <1>1, <1>4, <2>1 DEF RefreshInv
  <2>3. ASSUME NEW o \in Script PROVE RefreshInv(proc[o])'
    <3>1. CASE o = p
      BY <1>2, <1>3, <1>5, <2>2, <3>1 DEF RefreshInv
    <3>2. CASE o # p
      <4>1. proc'[o] = proc[o] /\ RefreshInv(proc[o])
        BY <1>t, <1>3, <1>11, <3>2 DEF IInv, QuietInv
      <4>2. QED
        BY <1>4, <1>5, <2>2, <4>1 DEF RefreshInv
    <3>3. QED
      BY <3>1, <3>2
  <2>4. SameData'
    BY <1>5, <2>1, <2>2 DEF SameData, Requested
  <2>5. Agreement'
    BY <1>5 DEF Agreement
  <2>6. QED
    BY <1>8, <2>1, <2>3, <2>4, <2>5 DEF QuietInv
<1>12. QED
  BY <1>5, <1>6, <1>7, <1>9, <1>10, <1>11 DEF IInv

LEMMA RewriteStep == ASSUME IInv, NEW p \in Process, RewriteCase(p) PROVE IInv'
<1>t. /\ proc \in [Process -> Reading] /\ Server \in Process /\ Server \notin Script
      /\ Script \subseteq Process /\ proc[p] \in Reading
      /\ case \in Row /\ case.data \in Nat /\ case.shown \in BOOLEAN
  BY Types DEF IInv
<1>1. p # Server /\ p \in Script /\ proc[p].pc = "rewrite"
  BY DEF IInv, ServerInv, ServerPc, RewriteCase, Process
<1>2. PICK q \in Reading : proc' = [proc EXCEPT ![p] = q] /\ q.accounts = {} /\ q.pc = "done"
  BY AfterStep DEF IInv, RewriteCase
<1>3. proc'[p] = q /\ \A o \in Process \ {p} : proc'[o] = proc[o]
  BY <1>t, <1>2
<1>4. proc[p].case.shown \in BOOLEAN
  BY <1>t DEF Reading, Row
<1>5. /\ case' \in Row /\ case'.data = case.data + 1 /\ case'.data # 0
      /\ case'.shown <=> case.shown /\ ~proc[p].case.shown
  <2> DEFINE b == case.shown /\ ~proc[p].case.shown
  <2>1. b \in BOOLEAN
    BY <1>t, <1>4
  <2>2. case' = [data |-> case.data + 1, shown |-> b]
    BY DEF RewriteCase
  <2> HIDE DEF b
  <2>3. case' \in Row /\ case'.data = case.data + 1 /\ case'.data # 0 /\ case'.shown = b
    BY <1>t, <2>1, <2>2 DEF Row
  <2>4. QED
    BY <2>3 DEF b
<1>6. half' = FALSE /\ UNCHANGED <<config, schema, accounts, runs, approval, epoch, req, crashes>>
  BY DEF RewriteCase
<1>7. TypeInv'
  <2>1. proc' \in [Process -> Reading]
    BY <1>t, <1>2
  <2>2. QED
    BY <1>5, <1>6, <2>1 DEF IInv, TypeInv
<1>8. AllOrNone'
  BY <1>2, <1>3, <1>6 DEF IInv, AllOrNone
<1>9. Requested' = Requested
  BY <1>6 DEF Requested
<1>10. ServerInv'
  BY <1>t, <1>1, <1>3, <1>6, <1>9 DEF IInv, ServerInv
<1>11. NoCase'
  BY <1>5 DEF NoCase
<1>12. ASSUME config.quiet PROVE QuietInv'
  <2>1. ~Requested /\ RefreshInv(proc[p])
    BY <1>1, <1>12, AtWork
  <2>2. /\ \A i \in DOMAIN runs : runs[i].status = "GONE"
        /\ approval.status = "NONE" /\ (case.shown => proc[p].case.shown)
    BY <1>1, <2>1 DEF RefreshInv
  <2>3. ~case'.shown
    BY <1>5, <2>2
  <2>4. ASSUME NEW o \in Script PROVE RefreshInv(proc[o])'
    <3>1. CASE o = p
      BY <1>2, <1>3, <3>1 DEF RefreshInv
    <3>2. CASE o # p
      <4>1. proc'[o] = proc[o] /\ RefreshInv(proc[o])
        BY <1>t, <1>3, <1>12, <3>2 DEF IInv, QuietInv
      <4>2. QED
        BY <1>6, <2>3, <4>1 DEF RefreshInv
    <3>3. QED
      BY <3>1, <3>2
  <2>5. SameData'
    BY <1>6, <2>1, <2>2 DEF SameData, Requested
  <2>6. Agreement'
    BY <1>6, <2>2, <2>3 DEF Agreement
  <2>7. QED
    BY <1>9, <2>1, <2>4, <2>5, <2>6 DEF QuietInv
<1>13. QED
  BY <1>6, <1>7, <1>8, <1>10, <1>11, <1>12 DEF IInv

-----------------------------------------------------------------------------
(***************************************************************************)
(* The requests.  While there is one, no script is at work if the          *)
(* configuration is quiet.                                                 *)
(***************************************************************************)
LEMMA NoScript ==
    ASSUME IInv, config.quiet, ~Scripting, UNCHANGED proc,
           SameData', Agreement'
    PROVE  QuietInv'
<1>1. ~Scripting'
  BY DEF Scripting
<1>2. \A p \in Script : RefreshInv(proc[p])'
  BY <1>1 DEF Scripting, RefreshInv
<1>3. QED
  BY <1>1, <1>2 DEF QuietInv

LEMMA RequestStep ==
    ASSUME IInv, NEW h \in Handler, NEW r \in Request, req' = [req EXCEPT ![h] = r],
           r.pc # "idle" => r.run \in DOMAIN runs' /\ proc[Server].pc = "serving",
           r.pc = "approve" => accounts = Account /\ (config.quiet => r.basis = case.data),
           runs' \in Seq(RunRow), DOMAIN runs \subseteq DOMAIN runs',
           config.quiet => \A i \in DOMAIN runs' : runs'[i].status # "GONE" => runs'[i].data = case.data,
           approval' \in ApprovalRow, case' \in Row, case'.data = case.data,
           approval'.status = "APPROVED" => approval' = approval \/ (config.quiet => approval'.basis = case.data),
           case.data # 0, config.quiet => ~Scripting /\ Agreement',
           UNCHANGED <<config, schema, accounts, epoch, half, proc, crashes>>
    PROVE  IInv'
<1>t. req \in [Handler -> Request]
  BY Types DEF IInv
<1>1. req'[h] = r /\ \A g \in Handler \ {h} : req'[g] = req[g]
  BY <1>t
<1>2. TypeInv'
  <2>1. req' \in [Handler -> Request]
    BY <1>t
  <2>2. QED
    BY <2>1 DEF IInv, TypeInv
<1>3. AllOrNone'
  BY <1>1 DEF IInv, AllOrNone
<1>4. ServerInv'
  <2>1. Requested' => proc[Server].pc = "serving"
    BY <1>1 DEF IInv, ServerInv, Requested
  <2>2. \A g \in Handler : req'[g].pc # "idle" => req'[g].run \in DOMAIN runs'
    BY <1>1 DEF IInv, ServerInv
  <2>3. QED
    BY <2>1, <2>2 DEF IInv, ServerInv
<1>5. NoCase'
  BY DEF NoCase
<1>6. ASSUME config.quiet PROVE QuietInv'
  <2>1. SameData'
    <3>1. \A g \in Handler : req'[g].pc = "approve" => req'[g].basis = case'.data
      BY <1>1, <1>6 DEF IInv, QuietInv, SameData
    <3>2. approval'.status = "APPROVED" => approval'.basis = case'.data
      BY <1>6 DEF IInv, QuietInv, SameData
    <3>3. QED
      BY <1>6, <3>1, <3>2 DEF SameData
  <2>2. QED
    BY <1>6, <2>1, NoScript
<1>7. QED
  BY <1>2, <1>3, <1>4, <1>5, <1>6 DEF IInv

-----------------------------------------------------------------------------
LEMMA StepIInv == IInv /\ [Next]_vars => IInv'
<1> SUFFICES ASSUME IInv, [Next]_vars PROVE IInv'
  OBVIOUS
<1>t. /\ proc \in [Process -> Reading] /\ \A p \in Process : proc[p] \in Reading
      /\ req \in [Handler -> Request] /\ \A h \in Handler : req[h] \in Request
      /\ runs \in Seq(RunRow) /\ Len(runs) \in Nat /\ DOMAIN runs = 1..Len(runs)
      /\ \A i \in DOMAIN runs : runs[i] \in RunRow
      /\ case \in Row /\ case.data \in Nat /\ case.shown \in BOOLEAN
      /\ Server \in Process /\ Server \notin Script /\ Script \subseteq Process
      /\ accounts \in {{}, Account} /\ \A p \in Process : proc[p].accounts \in {{}, accounts}
      /\ schema \in BOOLEAN /\ crashes \in Nat /\ epoch \in Nat /\ approval \in ApprovalRow
  BY Types DEF IInv, TypeInv, AllOrNone
<1>1. ASSUME NEW p \in Process, NEW refresh \in BOOLEAN, Start(p, refresh) PROVE IInv'
  <2> DEFINE q == [proc[p] EXCEPT !.pc = IF schema THEN "created" ELSE "create", !.refresh = refresh]
  <2>1. q \in Reading /\ q.pc \in {"created", "create"} /\ q.accounts = proc[p].accounts
    <3>1. proc[p] \in Reading
      BY <1>t
    <3>2. CASE schema
      <4>1. q = [proc[p] EXCEPT !.pc = "created", !.refresh = refresh]
        BY <3>2
      <4> HIDE DEF q
      <4>2. QED
        BY <3>1, <4>1 DEF Reading
    <3>3. CASE ~schema
      <4>1. q = [proc[p] EXCEPT !.pc = "create", !.refresh = refresh]
        BY <3>3
      <4> HIDE DEF q
      <4>2. QED
        BY <3>1, <4>1 DEF Reading
    <3>4. QED
      BY <3>2, <3>3
  <2>2. proc' = [proc EXCEPT ![p] = q]
    BY <1>1, <1>t DEF Start
  <2>3. p = Server => q.pc \in ServerPc /\ ~Requested
    BY <1>1, <2>1 DEF Start, IInv, ServerInv, ServerPc
  <2>4. config.quiet /\ p \in Script => RefreshInv(q) /\ ~Requested
    BY <1>1, <2>1, Calm DEF Start
  <2>5. q.accounts \in {{}, accounts} /\ crashes' \in Nat /\ UNCHANGED <<config, stored, req>>
    BY <1>1, <1>t, <2>1 DEF Start
  <2> HIDE DEF q
  <2>6. QED
    BY <2>1, <2>2, <2>3, <2>4, <2>5, ProcStep
<1>2. ASSUME NEW p \in Process, CreateSchema(p) PROVE IInv'
  <2>1. Dies(p) \/ Goto(p, "created")
    BY <1>2 DEF CreateSchema
  <2>2. /\ proc[p].pc = "create" /\ schema' \in BOOLEAN
        /\ UNCHANGED <<config, accounts, case, runs, approval, epoch, half, req, crashes>>
    BY <1>2 DEF CreateSchema
  <2>3. "created" \in ServerPc /\ CaseStep
    BY <2>2 DEF ServerPc, CaseStep
  <2>4. QED
    BY <2>1, <2>2, <2>3, GoesOn
<1>3. ASSUME NEW p \in Process, LoadCases(p) PROVE IInv'
  <2>1. CASE Goto(p, "serving") /\ p = Server
    <3>1. proc[p].pc = "created" /\ UNCHANGED <<config, stored, req, crashes>>
      BY <1>3 DEF LoadCases
    <3>2. "serving" \in ServerPc /\ CaseStep /\ accounts' \in {accounts, Account} /\ schema' \in BOOLEAN
      BY <1>t, <3>1 DEF ServerPc, CaseStep, stored
    <3>3. UNCHANGED <<config, runs, approval, epoch, half, req, crashes>>
      BY <3>1 DEF stored
    <3>4. QED
      BY <2>1, <3>1, <3>2, <3>3, GoesOn
  <2>2. CASE proc' = [proc EXCEPT ![p].pc = "cases", ![p].case = case]
    <3> DEFINE q == [proc[p] EXCEPT !.pc = "cases", !.case = case]
    <3>1. q \in Reading /\ q.pc = "cases" /\ q.accounts = proc[p].accounts
      BY <1>t DEF Reading
    <3>2. proc' = [proc EXCEPT ![p] = q]
      BY <1>t, <2>2
    <3>3. /\ proc[p].pc = "created" /\ UNCHANGED <<config, stored, req>> /\ crashes' \in Nat
          /\ q.accounts \in {{}, accounts}
      BY <1>3, <1>t, <3>1 DEF LoadCases
    <3>4. p = Server => q.pc \in ServerPc /\ ~Requested
      BY <3>1, <3>3, AtWork DEF ServerPc
    <3>5. config.quiet /\ p \in Script => RefreshInv(q) /\ ~Requested
      BY <3>1, <3>3, AtWork, Calm
    <3> HIDE DEF q
    <3>6. QED
      BY <3>1, <3>2, <3>3, <3>4, <3>5, ProcStep
  <2>3. QED
    BY <1>3, <2>1, <2>2 DEF LoadCases
<1>4. ASSUME NEW p \in Process, StoreCases(p) PROVE IInv'
  <2>1. Dies(p) \/ Goto(p, "accounts")
    BY <1>4 DEF StoreCases
  <2>2. /\ proc[p].pc = "cases"
        /\ UNCHANGED <<config, schema, accounts, runs, approval, epoch, half, req, crashes>>
    BY <1>4 DEF StoreCases
  <2>3. CaseStep
    <3>1. CASE UNCHANGED case
      BY <3>1 DEF CaseStep
    <3>2. CASE case.data = 0 /\ case' = [data |-> 1, shown |-> FALSE]
      BY <3>2 DEF CaseStep
    <3>3. CASE config.kind = "FIXTURE" /\ case' = [case EXCEPT !.shown = @ /\ ~proc[p].case.shown]
      <4>1. (case.shown /\ ~proc[p].case.shown) \in BOOLEAN
        BY <1>t DEF Reading, Row
      <4>2. case' \in Row /\ case'.data = case.data /\ (case'.shown => case.shown)
        BY <1>t, <3>3, <4>1 DEF Row
      <4>3. QED
        BY <3>3, <4>2 DEF CaseStep
    <3>4. QED
      BY <1>4, <3>1, <3>2, <3>3 DEF StoreCases
  <2>4. "accounts" \in ServerPc /\ accounts' \in {accounts, Account} /\ schema' \in BOOLEAN
    BY <1>t, <2>2 DEF ServerPc
  <2>5. QED
    BY <2>1, <2>2, <2>3, <2>4, GoesOn
<1>5. ASSUME NEW p \in Process, LoadAccounts(p) PROVE IInv'
  <2> DEFINE q == [proc[p] EXCEPT !.pc = "staff", !.accounts = accounts]
  <2>1. q \in Reading /\ q.pc = "staff" /\ q.accounts = accounts
    BY <1>t DEF Reading, IInv, TypeInv
  <2>2. proc' = [proc EXCEPT ![p] = q]
    BY <1>5, <1>t DEF LoadAccounts
  <2>3. proc[p].pc = "accounts" /\ UNCHANGED <<config, stored, req>> /\ crashes' \in Nat
    BY <1>5, <1>t DEF LoadAccounts
  <2>4. p = Server => q.pc \in ServerPc /\ ~Requested
    BY <2>1, <2>3, AtWork DEF ServerPc
  <2>5. config.quiet /\ p \in Script => RefreshInv(q) /\ ~Requested
    BY <2>1, <2>3, AtWork, Calm
  <2> HIDE DEF q
  <2>6. QED
    BY <2>1, <2>2, <2>3, <2>4, <2>5, ProcStep
<1>6. ASSUME NEW p \in Process, StoreAccounts(p) PROVE IInv'
  <2>1. AfterStaff(p) \in {"serving", "mock"} /\ (p = Server => AfterStaff(p) \in ServerPc)
    BY DEF AfterStaff, ServerPc
  <2>2. UNCHANGED <<config, schema, case, runs, approval, epoch, half, req, crashes>>
    BY <1>6 DEF StoreAccounts
  <2>3. accounts' \in {accounts, Account}
    <3>1. CASE accounts' = accounts
      BY <3>1
    <3>2. CASE accounts' = accounts \cup (Account \ proc[p].accounts)
      BY <1>t, <3>2
    <3>3. QED
      BY <1>6, <3>1, <3>2 DEF StoreAccounts
  <2>4. proc[p].pc = "staff" /\ (Dies(p) \/ Goto(p, AfterStaff(p)))
    BY <1>6 DEF StoreAccounts
  <2>5. CaseStep /\ schema' \in BOOLEAN
    BY <1>t, <2>2 DEF CaseStep
  <2>6. QED
    BY <2>1, <2>2, <2>3, <2>4, <2>5, GoesOn
<1>7. ASSUME NEW p \in Process, LoadCohort(p) PROVE IInv'
  <2>1. p \in Script /\ p # Server /\ proc[p].pc = "mock"
    BY <1>7, <1>t DEF LoadCohort, IInv, ServerInv, ServerPc, Process
  <2>2. UNCHANGED <<config, stored, req, crashes>>
    BY <1>7 DEF LoadCohort
  <2>3. CASE \E pc \in {"insert", "done"} : Goto(p, pc)
    <3>1. PICK pc \in {"insert", "done"} : Goto(p, pc)
      BY <2>3
    <3>2. CaseStep /\ accounts' \in {accounts, Account} /\ schema' \in BOOLEAN
      BY <1>t, <2>2 DEF CaseStep, stored
    <3>3. UNCHANGED <<config, runs, approval, epoch, half, req, crashes>>
      BY <2>2 DEF stored
    <3>4. QED
      BY <2>1, <3>1, <3>2, <3>3, GoesOn
  <2>4. CASE proc' = [proc EXCEPT ![p].pc = "delete", ![p].runs = Len(runs)]
    <3> DEFINE q == [proc[p] EXCEPT !.pc = "delete", !.runs = Len(runs)]
    <3>1. q \in Reading /\ q.pc = "delete" /\ q.accounts = proc[p].accounts /\ q.runs = Len(runs)
      BY <1>t DEF Reading
    <3>2. proc' = [proc EXCEPT ![p] = q]
      BY <1>t, <2>4
    <3>3. crashes' \in Nat /\ q.accounts \in {{}, accounts}
      BY <1>t, <2>2, <3>1
    <3>4. RefreshInv(q)
      BY <3>1 DEF RefreshInv
    <3>5. config.quiet => ~Requested
      BY <2>1, AtWork
    <3> HIDE DEF q
    <3>6. QED
      BY <2>1, <2>2, <3>1, <3>2, <3>3, <3>4, <3>5, ProcStep
  <2>5. QED
    BY <1>7, <2>3, <2>4 DEF LoadCohort
<1>8. ASSUME NEW p \in Process, InsertCase(p) PROVE IInv'
  <2>1. p # Server /\ proc[p].pc = "insert"
    BY <1>8, <1>t DEF InsertCase, IInv, ServerInv, ServerPc
  <2>2. Dies(p) \/ Goto(p, "done")
    BY <1>8 DEF InsertCase
  <2>3. UNCHANGED <<config, schema, accounts, runs, approval, epoch, half, req, crashes>>
    BY <1>8 DEF InsertCase
  <2>4. CaseStep /\ accounts' \in {accounts, Account} /\ schema' \in BOOLEAN
    BY <1>8, <1>t, <2>3 DEF InsertCase, CaseStep
  <2>5. QED
    BY <2>1, <2>2, <2>3, <2>4, GoesOn
<1>9. ASSUME NEW p \in Process, ReloadCase(p) PROVE IInv'
  <2> DEFINE q == [proc[p] EXCEPT !.pc = "rewrite", !.case = case]
  <2>1. p \in Script /\ p # Server /\ proc[p].pc = "reload"
    BY <1>9, <1>t DEF ReloadCase, IInv, ServerInv, ServerPc, Process
  <2>2. q \in Reading /\ q.pc = "rewrite" /\ q.accounts = proc[p].accounts /\ q.case = case
    BY <1>t DEF Reading
  <2>3. proc' = [proc EXCEPT ![p] = q]
    BY <1>9, <1>t DEF ReloadCase
  <2>4. UNCHANGED <<config, stored, req>> /\ crashes' \in Nat /\ q.accounts \in {{}, accounts}
    BY <1>9, <1>t, <2>2 DEF ReloadCase
  <2>5. config.quiet => RefreshInv(q) /\ ~Requested
    BY <2>1, <2>2, AtWork DEF RefreshInv
  <2> HIDE DEF q
  <2>6. QED
    BY <2>1, <2>2, <2>3, <2>4, <2>5, ProcStep
<1>10. ASSUME NEW p \in Process, Crash(p), p # Server PROVE IInv'
  <2>1. PICK q \in Reading : proc' = [proc EXCEPT ![p] = q] /\ q.accounts = {} /\ q.pc = "dead"
    BY <1>10, AfterStep DEF Crash, IInv
  <2>2. UNCHANGED <<config, stored, req>> /\ crashes' \in Nat
    BY <1>10, <1>t DEF Crash
  <2>3. QED
    BY <1>10, <2>1, <2>2, Calm, ProcStep
<1>11. ASSUME Crash(Server) PROVE IInv'
  <2>1. PICK q \in Reading : proc' = [proc EXCEPT ![Server] = q] /\ q.accounts = {} /\ q.pc = "down"
    BY <1>11, <1>t, AfterStep DEF Crash, IInv
  <2>2. /\ UNCHANGED <<config, schema, accounts, case, runs, approval, epoch, half>>
        /\ crashes' \in Nat /\ req' = [h \in Handler |-> Idle]
    BY <1>11, <1>t DEF Crash, stored
  <2>3. proc'[Server] = q /\ \A o \in Process \ {Server} : proc'[o] = proc[o]
    BY <1>t, <2>1
  <2>4. Idle \in Request /\ Idle.pc = "idle"
    BY DEF Idle, Request
  <2>5. ~Requested' /\ \A h \in Handler : req'[h].pc = "idle"
    BY <2>2, <2>4 DEF Requested
  <2>6. TypeInv'
    <3>1. proc' \in [Process -> Reading] /\ req' \in [Handler -> Request]
      BY <1>t, <2>1, <2>2, <2>4
    <3>2. QED
      BY <2>2, <3>1 DEF IInv, TypeInv
  <2>7. AllOrNone'
    BY <2>1, <2>2, <2>3, <2>5 DEF IInv, AllOrNone
  <2>8. ServerInv'
    BY <2>1, <2>3, <2>5 DEF ServerInv, ServerPc
  <2>9. NoCase'
    BY <2>2 DEF IInv, NoCase
  <2>10. ASSUME config.quiet PROVE QuietInv'
    <3>1. ASSUME NEW o \in Script PROVE RefreshInv(proc[o])'
      <4>1. proc'[o] = proc[o] /\ RefreshInv(proc[o])
        BY <1>t, <2>3, <2>10 DEF IInv, QuietInv
      <4>2. QED
        BY <2>2, <4>1 DEF RefreshInv
    <3>2. SameData' /\ Agreement'
      BY <2>2, <2>5, <2>10 DEF IInv, QuietInv, SameData, Agreement
    <3>3. QED
      BY <2>5, <3>1, <3>2 DEF QuietInv
  <2>11. QED
    BY <2>2, <2>6, <2>7, <2>8, <2>9, <2>10 DEF IInv
<1>12. ASSUME NEW h \in Handler, BeginRun(h) PROVE IInv'
  <2> DEFINE r == [Idle EXCEPT !.pc = "run", !.run = Len(runs) + 1]
             row == [data |-> case.data, status |-> "RUNNING"]
  <2>1. r \in Request /\ r.pc = "run" /\ r.run = Len(runs) + 1
    <3>1. Idle \in Request
      BY DEF Idle, Request
    <3>2. Len(runs) + 1 \in Nat
      BY <1>t
    <3>3. QED
      BY <3>1, <3>2 DEF Request
  <2>2. row \in RunRow /\ row.data = case.data
    BY <1>t DEF RunRow
  <2>3. /\ proc[Server].pc = "serving" /\ case.data # 0 /\ (config.quiet => ~Scripting)
        /\ runs' = Append(runs, row) /\ req' = [req EXCEPT ![h] = r]
        /\ UNCHANGED <<config, schema, accounts, case, approval, epoch, half, proc, crashes>>
    BY <1>12 DEF BeginRun, MayWork
  <2> HIDE DEF r, row
  <2>4. /\ runs' \in Seq(RunRow) /\ DOMAIN runs' = 1..(Len(runs) + 1)
        /\ runs'[Len(runs) + 1] = row /\ \A i \in DOMAIN runs : runs'[i] = runs[i]
    BY <1>t, <2>2, <2>3
  <2>5. r.run \in DOMAIN runs' /\ DOMAIN runs \subseteq DOMAIN runs'
    BY <1>t, <2>1, <2>4
  <2>6. config.quiet => \A i \in DOMAIN runs' : runs'[i].status # "GONE" => runs'[i].data = case.data
    <3>1. config.quiet => \A i \in DOMAIN runs : runs[i].status # "GONE" => runs[i].data = case.data
      BY DEF IInv, QuietInv, SameData
    <3>2. \A i \in DOMAIN runs' : i \in DOMAIN runs \/ i = Len(runs) + 1
      BY <1>t, <2>4
    <3>3. QED
      BY <2>2, <2>4, <3>1, <3>2
  <2>7. config.quiet => Agreement'
    BY <2>3 DEF IInv, QuietInv, Agreement
  <2>8. approval' \in ApprovalRow /\ case' \in Row /\ case'.data = case.data
    BY <1>t, <2>3
  <2>9. QED
    BY <2>1, <2>3, <2>4, <2>5, <2>6, <2>7, <2>8, RequestStep
<1>13. ASSUME NEW h \in Handler, NEW status \in {"READY", "NOT_READY"}, CompleteRun(h, status)
       PROVE IInv'
  <2> DEFINE i == req[h].run
             row == [runs[i] EXCEPT !.status = status]
  <2>1. Idle \in Request /\ Idle.pc = "idle"
    BY DEF Idle, Request
  <2>2. /\ req[h].pc = "run" /\ i \in DOMAIN runs /\ Requested
        /\ req' = [req EXCEPT ![h] = Idle]
        /\ UNCHANGED <<config, schema, accounts, case, approval, epoch, half, proc, crashes>>
    BY <1>13 DEF CompleteRun, IInv, ServerInv, Requested
  <2>3. row \in RunRow /\ row.data = runs[i].data /\ row.status = status
    BY <1>t, <2>2 DEF RunRow
  <2>4. \/ runs' = runs
        \/ runs[i].status # "GONE" /\ runs' = [runs EXCEPT ![i] = row]
    BY <1>13, <1>t, <2>2 DEF CompleteRun
  <2>5. case.data # 0
    BY <2>2 DEF IInv, NoCase
  <2> HIDE DEF row, i
  <2>6. /\ runs' \in Seq(RunRow) /\ DOMAIN runs' = DOMAIN runs
        /\ \A j \in DOMAIN runs : runs'[j] = runs[j] \/ (j = i /\ runs[i].status # "GONE" /\ runs'[j] = row)
    <3>1. CASE runs' = runs
      BY <1>t, <3>1
    <3>2. CASE runs[i].status # "GONE" /\ runs' = [runs EXCEPT ![i] = row]
      <4>1. i \in 1..Len(runs) /\ row \in RunRow
        BY <1>t, <2>2, <2>3
      <4>2. /\ runs' \in Seq(RunRow) /\ Len(runs') = Len(runs)
            /\ \A j \in 1..Len(runs) : runs'[j] = IF j = i THEN row ELSE runs[j]
        BY <1>t, <3>2, <4>1, ExceptSeq
      <4>3. DOMAIN runs' = DOMAIN runs
        BY <1>t, <4>2
      <4>4. QED
        BY <1>t, <3>2, <4>2, <4>3
    <3>3. QED
      BY <2>4, <3>1, <3>2
  <2>7. config.quiet => \A j \in DOMAIN runs' : runs'[j].status # "GONE" => runs'[j].data = case.data
    BY <2>3, <2>6 DEF IInv, QuietInv, SameData
  <2>8. config.quiet => ~Scripting /\ Agreement'
    BY <2>2 DEF IInv, QuietInv, Agreement
  <2>9. approval' \in ApprovalRow /\ case' \in Row /\ case'.data = case.data
    BY <1>t, <2>2
  <2>10. /\ Idle.pc # "idle" => Idle.run \in DOMAIN runs' /\ proc[Server].pc = "serving"
         /\ Idle.pc = "approve" => accounts = Account /\ (config.quiet => Idle.basis = case.data)
         /\ DOMAIN runs \subseteq DOMAIN runs'
         /\ approval'.status = "APPROVED" =>
               approval' = approval \/ (config.quiet => approval'.basis = case.data)
         /\ UNCHANGED <<config, schema, accounts, epoch, half, proc, crashes>>
    BY <2>1, <2>2, <2>6
  <2>11. QED
    BY <2>1, <2>2, <2>5, <2>6, <2>7, <2>8, <2>9, <2>10, RequestStep
<1>14. ASSUME NEW h \in Handler, BeginApprove(h) PROVE IInv'
  <2>1. PICK i \in DOMAIN runs :
            /\ Latest(i) /\ runs[i].status = "READY"
            /\ req' = [req EXCEPT ![h] = [pc |-> "approve", run |-> i, epoch |-> epoch,
                                          basis |-> runs[i].data]]
    BY <1>14 DEF BeginApprove
  <2> DEFINE r == [pc |-> "approve", run |-> i, epoch |-> epoch, basis |-> runs[i].data]
  <2>2. r \in Request /\ r.pc = "approve" /\ r.run = i /\ r.basis = runs[i].data
    BY <1>t DEF Request, RunRow
  <2>3. /\ proc[Server].pc = "serving" /\ case.data # 0 /\ (config.quiet => ~Scripting)
        /\ accounts # {} /\ approval.status # "APPROVED"
        /\ approval' = [approval EXCEPT !.status = "OPEN"]
        /\ UNCHANGED <<config, schema, accounts, case, runs, epoch, half, proc, crashes>>
    BY <1>14 DEF BeginApprove, MayWork
  <2>4. accounts = Account
    BY <1>t, <2>3
  <2>5. approval' \in ApprovalRow /\ approval'.status = "OPEN"
    BY <1>t, <2>3 DEF ApprovalRow
  <2>6. config.quiet => /\ runs[i].data = case.data
                        /\ \A j \in DOMAIN runs' : runs'[j].status # "GONE" => runs'[j].data = case.data
    BY <2>1, <2>3 DEF IInv, QuietInv, SameData
  <2>7. config.quiet => Agreement'
    BY <2>3, <2>5 DEF IInv, QuietInv, Agreement
  <2>8. case' \in Row /\ case'.data = case.data /\ runs' \in Seq(RunRow) /\ runs' = runs
    BY <1>t, <2>3
  <2>9. req' = [req EXCEPT ![h] = r]
    BY <2>1
  <2> HIDE DEF r
  <2>10. /\ r.pc # "idle" => r.run \in DOMAIN runs' /\ proc[Server].pc = "serving"
         /\ r.pc = "approve" => accounts = Account /\ (config.quiet => r.basis = case.data)
         /\ DOMAIN runs \subseteq DOMAIN runs'
         /\ config.quiet => \A j \in DOMAIN runs' : runs'[j].status # "GONE" => runs'[j].data = case.data
         /\ approval'.status = "APPROVED" =>
               approval' = approval \/ (config.quiet => approval'.basis = case.data)
         /\ config.quiet => ~Scripting /\ Agreement'
         /\ UNCHANGED <<config, schema, accounts, epoch, half, proc, crashes>>
    BY <2>2, <2>3, <2>4, <2>5, <2>6, <2>7, <2>8
  <2>11. QED
    BY <2>2, <2>3, <2>5, <2>8, <2>9, <2>10, RequestStep
<1>15. ASSUME NEW h \in Handler, CommitApprove(h) PROVE IInv'
  <2>1. Idle \in Request /\ Idle.pc = "idle"
    BY DEF Idle, Request
  <2>2. /\ req[h].pc = "approve" /\ req[h].run \in DOMAIN runs /\ Requested /\ req[h].basis \in Nat
        /\ req' = [req EXCEPT ![h] = Idle]
        /\ UNCHANGED <<config, schema, accounts, runs, epoch, half, proc, crashes>>
    BY <1>15, <1>t DEF CommitApprove, IInv, ServerInv, Requested, Request
  <2>3. case.data # 0
    BY <2>2 DEF IInv, NoCase
  <2>4. \/ approval' = approval /\ case' = case
        \/ /\ approval' = [status |-> "APPROVED", basis |-> req[h].basis]
           /\ case' = [case EXCEPT !.shown = TRUE]
    BY <1>15 DEF CommitApprove
  <2>5. config.quiet => req[h].basis = case.data
    BY <2>2 DEF IInv, QuietInv, SameData
  <2>6. approval' \in ApprovalRow /\ case' \in Row /\ case'.data = case.data
    <3>1. [status |-> "APPROVED", basis |-> req[h].basis] \in ApprovalRow
      BY <2>2 DEF ApprovalRow
    <3>2. [case EXCEPT !.shown = TRUE] \in Row /\ [case EXCEPT !.shown = TRUE].data = case.data
      BY <1>t DEF Row
    <3>3. QED
      BY <1>t, <2>4, <3>1, <3>2
  <2>7. approval'.status = "APPROVED" =>
            approval' = approval \/ (config.quiet => approval'.basis = case.data)
    BY <2>4, <2>5
  <2>8. config.quiet => ~Scripting /\ Agreement'
    <3>1. config.quiet => ~Scripting
      BY <2>2 DEF IInv, QuietInv
    <3>2. CASE approval' = approval /\ case' = case
      BY <2>2, <3>1, <3>2 DEF IInv, QuietInv, Agreement
    <3>3. CASE /\ approval' = [status |-> "APPROVED", basis |-> req[h].basis]
               /\ case' = [case EXCEPT !.shown = TRUE]
      <4>1. case'.shown = TRUE /\ approval'.status = "APPROVED"
        BY <1>t, <3>3 DEF Row
      <4>2. QED
        BY <3>1, <4>1 DEF Agreement
    <3>4. QED
      BY <2>4, <3>2, <3>3
  <2>9. config.quiet => \A j \in DOMAIN runs' : runs'[j].status # "GONE" => runs'[j].data = case.data
    BY <2>2 DEF IInv, QuietInv, SameData
  <2>10. runs' = runs /\ runs' \in Seq(RunRow)
    BY <1>t, <2>2
  <2>11. /\ Idle.pc # "idle" => Idle.run \in DOMAIN runs' /\ proc[Server].pc = "serving"
         /\ Idle.pc = "approve" => accounts = Account /\ (config.quiet => Idle.basis = case.data)
         /\ DOMAIN runs \subseteq DOMAIN runs'
         /\ UNCHANGED <<config, schema, accounts, epoch, half, proc, crashes>>
    BY <2>1, <2>2, <2>10
  <2>12. QED
    BY <2>1, <2>2, <2>3, <2>6, <2>7, <2>8, <2>9, <2>10, <2>11, RequestStep
<1>16. CASE UNCHANGED vars
  <2>1. /\ UNCHANGED <<config, schema, accounts, case, runs, approval, epoch, half, proc, req, crashes>>
        /\ Requested' = Requested /\ Scripting' = Scripting
    BY <1>16 DEF vars, Requested, Scripting
  <2>2. TypeInv' /\ AllOrNone' /\ ServerInv' /\ NoCase'
    BY <2>1 DEF IInv, TypeInv, AllOrNone, ServerInv, NoCase
  <2>3. QuietInv => QuietInv'
    BY <2>1 DEF QuietInv, RefreshInv, SameData, Agreement
  <2>4. QED
    BY <2>1, <2>2, <2>3 DEF IInv
<1>17. Script \subseteq Process /\ Server \in Process /\ FALSE \in BOOLEAN
  BY <1>t
<1>18. QED
  BY <1>1, <1>2, <1>3, <1>4, <1>5, <1>6, <1>7, <1>8, <1>9, <1>10, <1>11, <1>12, <1>13, <1>14,
     <1>15, <1>16, <1>17, DeleteStep, RewriteStep DEF Next, Works

\* However processes start, race and die, the invariant holds.
THEOREM Invariance == Spec => []IInv
BY InitIInv, StepIInv, PTL DEF Spec

\* Whoever approves finds all accounts of the ladder, however many processes
\* seed them at the same time.
THEOREM TheLadderIsStaffed == Spec => []LadderIsStaffed
<1>1. IInv => LadderIsStaffed
  BY DEF IInv, AllOrNone, LadderIsStaffed
<1>2. QED
  BY <1>1, Invariance, PTL

\* An approval stands on an assessment of the data the case has now, if
\* nobody works while the script runs, wherever the script is killed.
THEOREM ApprovalsAreOfThisData == Spec => []ApprovalIsOfThisData
<1>1. IInv => ApprovalIsOfThisData
  BY DEF IInv, QuietInv, SameData, ApprovalIsOfThisData
<1>2. QED
  BY <1>1, Invariance, PTL

\* The list and the approval agree unless a refresh is half-way.
THEOREM TheListAgrees == Spec => []ListAgrees
<1>1. IInv => ListAgrees
  BY DEF IInv, QuietInv, Agreement, ListAgrees
<1>2. QED
  BY <1>1, Invariance, PTL
=============================================================================
