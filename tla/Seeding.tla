-------------------------------- MODULE Seeding --------------------------------
(***************************************************************************)
(* Start-up and seeding of the database: the lifespan of the server        *)
(* (app/main.py), create_schema (app/database.py), seed_cases and          *)
(* seed_mock_cases (app/seed.py), seed_roles_and_users (app/auth.py).      *)
(*                                                                         *)
(* The server starts, dies and is started again; people run the script     *)
(* app.seed against the same database, while the server serves requests.   *)
(* Every process looks first for what is there and then inserts what was   *)
(* not.  One case is followed, with its assessment runs and its approval;  *)
(* of the requests only assessing and approving are kept, in full they are *)
(* in AssessmentRuns and LoanApproval.                                     *)
(***************************************************************************)
EXTENDS Integers, Sequences, FiniteSets

CONSTANTS
    Server,      \* the backend container
    Script,      \* the runs of app.seed
    Handler,     \* worker threads of the server
    Account,     \* the accounts (with their roles) of seed_roles_and_users
    MaxRuns,     \* bound: assessment runs of the case
    MaxCrashes   \* bound: processes that are killed

ASSUME BoundsAreNumbers == MaxRuns \in Nat /\ MaxCrashes \in Nat
ASSUME ServerIsNoScript == Server \notin Script

Process == {Server} \cup Script

VARIABLES
    config,    \* fixed: see Config
    schema,    \* the tables exist
    accounts,  \* users and roles
    case,      \* the row of the case; data is a version, 0 if there is no row
    runs,      \* assessment_runs of the case in the order of started_at, with the
               \* data assessed and RUNNING, READY, NOT_READY or, deleted, GONE
    approval,  \* the row in loan_approvals; basis is the data of the run it relies on
    epoch,     \* how often the refresh has deleted the rows of the case
    half,      \* the refresh has deleted what belongs to the case but not rewritten it
    proc,      \* what each process is doing and has read
    req,       \* what each request is doing and has read
    crashes

vars == <<config, schema, accounts, case, runs, approval, epoch, half, proc, req, crashes>>
stored == <<schema, accounts, case, runs, approval, epoch, half>>

\* kind: a case of CASE_FIXTURES or of the mock cohort; demo: SEED_DEMO_DATA;
\* quiet: nobody works on cases while the script runs.
Config == [kind : {"FIXTURE", "MOCK"}, demo : BOOLEAN, quiet : BOOLEAN]

Idle == [pc |-> "idle", run |-> 0, epoch |-> 0, basis |-> 0]
Down == [pc |-> "down", case |-> [data |-> 0, shown |-> FALSE], accounts |-> {}, runs |-> 0, refresh |-> FALSE]

Init ==
    /\ config \in Config
    /\ schema = FALSE /\ accounts = {}
    /\ case = [data |-> 0, shown |-> FALSE]
    /\ runs = <<>>
    /\ approval = [status |-> "NONE", basis |-> 0]
    /\ epoch = 0 /\ half = FALSE
    /\ proc = [p \in Process |-> Down]
    /\ req = [h \in Handler |-> Idle]
    /\ crashes = 0

-----------------------------------------------------------------------------
(***************************************************************************)
(* The processes.  A process that meets a row somebody else has inserted   *)
(* since it looked dies of the unique constraint; its transaction is       *)
(* rolled back.  The server is started again (restart: unless-stopped).    *)
(***************************************************************************)
Scripting == \E p \in Script : proc[p].pc \notin {"down", "done", "dead"}
Requested == \E h \in Handler : req[h].pc # "idle"

\* p goes on and forgets what it has read.
Goto(p, pc) ==
    proc' = [proc EXCEPT ![p] = [Down EXCEPT !.pc = pc, !.refresh = proc[p].refresh /\ pc # "done"]]

Dies(p) == proc' = [proc EXCEPT ![p] = [Down EXCEPT !.pc = IF p = Server THEN "down" ELSE "dead"]]

Start(p, refresh) ==
    /\ proc[p].pc = "down"
    /\ p \in Script => ~(config.quiet /\ Requested)
    /\ proc' = [proc EXCEPT ![p].pc = IF schema THEN "created" ELSE "create",
                            ![p].refresh = refresh]
    /\ UNCHANGED <<config, stored, req, crashes>>

\* create_all found no tables.
CreateSchema(p) ==
    /\ proc[p].pc = "create"
    /\ schema' = TRUE
    /\ IF schema THEN Dies(p) ELSE Goto(p, "created")
    /\ UNCHANGED <<config, accounts, case, runs, approval, epoch, half, req, crashes>>

\* seed_cases reads the cases; a server without demo data is up.
LoadCases(p) ==
    /\ proc[p].pc = "created"
    /\ IF p = Server /\ ~config.demo
       THEN Goto(p, "serving")
       ELSE proc' = [proc EXCEPT ![p].pc = "cases", ![p].case = case]
    /\ UNCHANGED <<config, stored, req, crashes>>

\* Mutant: the fixtures are inserted without a look at what is there.
StoreCasesBlindly(p) ==
    /\ proc[p].pc = "cases"
    /\ \/ config.kind # "FIXTURE" /\ Goto(p, "accounts") /\ UNCHANGED case
       \/ config.kind = "FIXTURE" /\ case.data # 0 /\ Dies(p) /\ UNCHANGED case
       \/ config.kind = "FIXTURE" /\ case.data = 0 /\ Goto(p, "accounts")
                                  /\ case' = [data |-> 1, shown |-> FALSE]
    /\ UNCHANGED <<config, schema, accounts, runs, approval, epoch, half, req, crashes>>

\* It commits its fixtures: those it found get the columns that differ from
\* the fixture, display_status among them.
StoreCases(p) ==
    LET loaded == proc[p].case IN
    /\ proc[p].pc = "cases"
    /\ \/ config.kind # "FIXTURE" /\ Goto(p, "accounts") /\ UNCHANGED case
       \/ config.kind = "FIXTURE" /\ loaded.data = 0 /\ case.data # 0 /\ Dies(p) /\ UNCHANGED case
       \/ config.kind = "FIXTURE" /\ loaded.data = 0 /\ case.data = 0 /\ Goto(p, "accounts")
                                  /\ case' = [data |-> 1, shown |-> FALSE]
       \/ config.kind = "FIXTURE" /\ loaded.data # 0 /\ Goto(p, "accounts")
                                  /\ case' = [case EXCEPT !.shown = @ /\ ~loaded.shown]
    /\ UNCHANGED <<config, schema, accounts, runs, approval, epoch, half, req, crashes>>

\* seed_roles_and_users looks for each role and account ...
LoadAccounts(p) ==
    /\ proc[p].pc = "accounts"
    /\ proc' = [proc EXCEPT ![p].pc = "staff", ![p].accounts = accounts]
    /\ UNCHANGED <<config, stored, req, crashes>>

AfterStaff(p) == IF p = Server THEN "serving" ELSE "mock"

\* Mutant: each account is committed when it is made.
StoreAccountsOneByOne(p) ==
    LET missing == Account \ proc[p].accounts IN
    /\ proc[p].pc = "staff"
    /\ IF missing = {} THEN Goto(p, AfterStaff(p)) /\ UNCHANGED accounts
       ELSE \E a \in missing :
                IF a \in accounts THEN Dies(p) /\ UNCHANGED accounts
                ELSE /\ accounts' = accounts \cup {a}
                     /\ proc' = [proc EXCEPT ![p].accounts = @ \cup {a}]
    /\ UNCHANGED <<config, schema, case, runs, approval, epoch, half, req, crashes>>

\* ... and commits those it did not find, all of them or none.
StoreAccounts(p) ==
    LET missing == Account \ proc[p].accounts IN
    /\ proc[p].pc = "staff"
    /\ IF missing \cap accounts # {} THEN Dies(p) /\ UNCHANGED accounts
       ELSE Goto(p, AfterStaff(p)) /\ accounts' = accounts \cup missing
    /\ UNCHANGED <<config, schema, case, runs, approval, epoch, half, req, crashes>>

\* seed_mock_cases reads which cases there are and, to refresh them, which
\* runs they have.  A cohort that is there and not refreshed is skipped.
LoadCohort(p) ==
    /\ proc[p].pc = "mock"
    /\ CASE config.kind # "MOCK" -> Goto(p, "done")
         [] config.kind = "MOCK" /\ case.data = 0 -> Goto(p, "insert")
         [] config.kind = "MOCK" /\ case.data # 0 /\ ~proc[p].refresh -> Goto(p, "done")
         [] OTHER -> proc' = [proc EXCEPT ![p].pc = "delete", ![p].runs = Len(runs)]
    /\ UNCHANGED <<config, stored, req, crashes>>

InsertCase(p) ==
    /\ proc[p].pc = "insert"
    /\ IF case.data # 0 THEN Dies(p) /\ UNCHANGED case
       ELSE Goto(p, "done") /\ case' = [data |-> 1, shown |-> FALSE]
    /\ UNCHANGED <<config, schema, accounts, runs, approval, epoch, half, req, crashes>>

\* Mutant: the approvals of the cohort stay.
DeleteRunsOnly(p) ==
    /\ proc[p].pc = "delete"
    /\ runs' = [i \in DOMAIN runs |-> IF i <= proc[p].runs THEN [runs[i] EXCEPT !.status = "GONE"] ELSE runs[i]]
    /\ epoch' = epoch + 1
    /\ half' = TRUE
    /\ Goto(p, "reload")
    /\ UNCHANGED <<config, schema, accounts, case, approval, req, crashes>>

\* First commit of the refresh: approvals, actions and external writes of the
\* cohort go, and the runs it has read with all that belongs to them.  A
\* foreign key may refuse it; that is a script that dies here.
DeleteRows(p) ==
    /\ proc[p].pc = "delete"
    /\ approval' = [status |-> "NONE", basis |-> 0]
    /\ runs' = [i \in DOMAIN runs |-> IF i <= proc[p].runs THEN [runs[i] EXCEPT !.status = "GONE"] ELSE runs[i]]
    /\ epoch' = epoch + 1
    /\ half' = TRUE
    /\ Goto(p, "reload")
    /\ UNCHANGED <<config, schema, accounts, case, req, crashes>>

\* The generator selects each case again ...
ReloadCase(p) ==
    /\ proc[p].pc = "reload"
    /\ proc' = [proc EXCEPT ![p].pc = "rewrite", ![p].case = case]
    /\ UNCHANGED <<config, stored, req, crashes>>

\* Mutant: the new payload leaves display_status alone.
RewriteData(p) ==
    /\ proc[p].pc = "rewrite"
    /\ case' = [case EXCEPT !.data = @ + 1]
    /\ half' = FALSE
    /\ Goto(p, "done")
    /\ UNCHANGED <<config, schema, accounts, runs, approval, epoch, req, crashes>>

\* ... and the second commit stores what differs from the new payload, whose
\* metadata has the time it was made.
RewriteCase(p) ==
    /\ proc[p].pc = "rewrite"
    /\ case' = [data |-> case.data + 1, shown |-> case.shown /\ ~proc[p].case.shown]
    /\ half' = FALSE
    /\ Goto(p, "done")
    /\ UNCHANGED <<config, schema, accounts, runs, approval, epoch, req, crashes>>

\* The process is killed, and with the server its requests.
Crash(p) ==
    /\ crashes < MaxCrashes /\ crashes' = crashes + 1
    /\ proc[p].pc \notin {"down", "done", "dead"}
    /\ Dies(p)
    /\ req' = IF p = Server THEN [h \in Handler |-> Idle] ELSE req
    /\ UNCHANGED <<config, stored>>

-----------------------------------------------------------------------------
(***************************************************************************)
(* The requests: everybody may have a case assessed, people with an        *)
(* account approve.                                                        *)
(***************************************************************************)
MayWork(h) ==
    /\ proc[Server].pc = "serving"
    /\ req[h].pc = "idle"
    /\ case.data # 0
    /\ config.quiet => ~Scripting

\* AssessmentService.run, first commit.
BeginRun(h) ==
    /\ MayWork(h)
    /\ Len(runs) < MaxRuns
    /\ runs' = Append(runs, [data |-> case.data, status |-> "RUNNING"])
    /\ req' = [req EXCEPT ![h] = [Idle EXCEPT !.pc = "run", !.run = Len(runs) + 1]]
    /\ UNCHANGED <<config, schema, accounts, case, approval, epoch, half, proc, crashes>>

\* Its second commit; an UPDATE of a row that is gone is an error.
CompleteRun(h, status) ==
    /\ req[h].pc = "run"
    /\ runs' = IF runs[req[h].run].status = "GONE" THEN runs
               ELSE [runs EXCEPT ![req[h].run].status = status]
    /\ req' = [req EXCEPT ![h] = Idle]
    /\ UNCHANGED <<config, schema, accounts, case, approval, epoch, half, proc, crashes>>

Completed == {i \in DOMAIN runs : runs[i].status \in {"READY", "NOT_READY"}}
Latest(i) == i \in Completed /\ \A j \in Completed : j <= i

\* LoanApprovalService.approve: _record finds or inserts the row, the latest
\* completed run is ready.
BeginApprove(h) ==
    /\ MayWork(h)
    /\ accounts # {}
    /\ approval.status # "APPROVED"
    /\ \E i \in DOMAIN runs :
          /\ Latest(i) /\ runs[i].status = "READY"
          /\ req' = [req EXCEPT ![h] = [pc |-> "approve", run |-> i, epoch |-> epoch, basis |-> runs[i].data]]
    /\ approval' = [approval EXCEPT !.status = "OPEN"]
    /\ UNCHANGED <<config, schema, accounts, case, runs, epoch, half, proc, crashes>>

\* Its commit, of the row and of display_status; again an error if the row
\* it has loaded is gone.
CommitApprove(h) ==
    /\ req[h].pc = "approve"
    /\ req' = [req EXCEPT ![h] = Idle]
    /\ IF req[h].epoch = epoch
       THEN /\ approval' = [status |-> "APPROVED", basis |-> req[h].basis]
            /\ case' = [case EXCEPT !.shown = TRUE]
       ELSE UNCHANGED <<approval, case>>
    /\ UNCHANGED <<config, schema, accounts, runs, epoch, half, proc, crashes>>

Works(p) ==
    \/ CreateSchema(p) \/ LoadCases(p) \/ StoreCases(p) \/ LoadAccounts(p) \/ StoreAccounts(p)
    \/ LoadCohort(p) \/ InsertCase(p) \/ DeleteRows(p) \/ ReloadCase(p) \/ RewriteCase(p)

Next ==
    \/ Start(Server, FALSE)
    \/ \E p \in Script, refresh \in BOOLEAN : Start(p, refresh)
    \/ \E p \in Process : Works(p) \/ Crash(p)
    \/ \E h \in Handler :
          \/ BeginRun(h) \/ BeginApprove(h) \/ CommitApprove(h)
          \/ \E status \in {"READY", "NOT_READY"} : CompleteRun(h, status)

Spec == Init /\ [][Next]_vars

\* Docker starts the server again whenever it has ended, and a process that
\* has been started goes on.
Fairness ==
    /\ WF_vars(Start(Server, FALSE))
    /\ \A p \in Process : WF_vars(Works(p))

FairSpec == Spec /\ Fairness
-----------------------------------------------------------------------------
\* What LadderIsStaffed of LoanApproval assumes: whoever can log in finds
\* every role of the ladder staffed, however many processes were seeding the
\* accounts at the same time and wherever they were killed.
LadderIsStaffed == (\E h \in Handler : req[h].pc = "approve") => accounts = Account

\* An approval stands on an assessment of the data the case has now, if
\* nobody works while the script runs: also if the script was killed between
\* its two commits, people went on with what it left, and it was run again.
ApprovalIsOfThisData ==
    config.quiet /\ approval.status = "APPROVED" => approval.basis = case.data

\* The list and the approval agree on a case of the cohort unless a refresh
\* is under way or was killed half-way, and a completed one mends that.  (Of a
\* fixture only one direction holds: the start of the server takes back its
\* display_status and leaves its approval.)
ListAgrees ==
    config.quiet /\ ~half =>
        /\ case.shown => approval.status = "APPROVED"
        /\ config.kind = "MOCK" /\ approval.status = "APPROVED" => case.shown

\* The server comes up and stays up once nobody kills it any more: a start
\* that loses a race against the script dies, but the next one finds the rows.
EventuallyServing == <>[](proc[Server].pc = "serving")
=============================================================================
