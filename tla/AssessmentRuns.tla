--------------------------- MODULE AssessmentRuns ---------------------------
(***************************************************************************)
(* The assessment runs of one case: AssessmentService of                   *)
(* backend/app/services.py over AssessmentRepository of                    *)
(* backend/app/repositories.py, with case intake (readiness_service.py).   *)
(*                                                                         *)
(* A run is made in two ways.  run() creates it, has the agent execute     *)
(* every node and completes it, all in one request.  A stepwise run is     *)
(* created by one request and driven by the client, which posts back the   *)
(* WorkflowState it was last sent together with the next node: between two *)
(* nodes the state exists at the client only.                              *)
(*                                                                         *)
(* Each database round trip of a request is one action.  Requests overlap, *)
(* clients repeat them, responses get lost, round trips fail, the process  *)
(* restarts.                                                               *)
(***************************************************************************)
EXTENDS Integers, Sequences, FiniteSets

CONSTANTS
    Handler,     \* the worker threads
    ClientKey,   \* the Idempotency-Key headers clients send
    Outcome,     \* the final statuses and critic verdicts a run can end with
    LastNode,    \* the route is 1..LastNode
    MaxRuns,     \* bound: rows of assessment_runs
    MaxInput,    \* bound: how often a deployment changes what input_hash sees
    MaxRestarts  \* bound: restarts of the process

ASSUME BoundsAreNumbers ==
    /\ LastNode \in Nat \ {0} /\ MaxRuns \in Nat
    /\ MaxInput \in Nat \ {0} /\ MaxRestarts \in Nat

Node == 1..LastNode
Input == 1..MaxInput

\* The idempotency keys: the client's, those derived from the input and those
\* made from a uuid4 (one per row, so the row's number stands for it).
Key == ({"client"} \X ClientKey)
       \cup ({"auto", "create"} \X Input)
       \cup ({"rerun", "stepwise"} \X (1..MaxRuns))

\* What is asked for when the uuid has yet to be made.
FreshKey == {<<"rerun", 0>>, <<"stepwise", 0>>}

None == "NONE"

Run == [key : Key, hash : Input, status : {"RUNNING", "COMPLETED", "FAILED"},
        outcome : Outcome \cup {None}, artifacts : SUBSET Node]

VARIABLES
    exists,    \* the case row is there
    input,     \* the hash of the case as the deployed configuration sees it
    runs,      \* assessment_runs in the order of started_at
    sent,      \* the workflow states clients have been sent: run and artifacts
    job,       \* the request each handler is serving
    restarts,
    lost       \* history: the runs whose request broke off while executing them

vars == <<exists, input, runs, sent, job, restarts, lost>>

Message == [run : 1..MaxRuns, state : SUBSET Node]

Job == [pc : {"idle", "latest", "lookup", "insert", "agent", "start", "node", "reply"},
        kind : {"GET", "CREATE", "RUN", "STEPWISE"},
        key : Key \cup FreshKey,
        run : 0..MaxRuns, state : SUBSET Node, node : 0..LastNode]

Idle == [pc |-> "idle", kind |-> "GET", key |-> <<"rerun", 0>>,
         run |-> 0, state |-> {}, node |-> 0]

Init ==
    /\ exists = FALSE
    /\ input = 1
    /\ runs = <<>>
    /\ sent = {}
    /\ job = [h \in Handler |-> Idle]
    /\ restarts = 0
    /\ lost = {}

-----------------------------------------------------------------------------
(***************************************************************************)
(* What the repository's queries return: the number of a run, 0 for none.  *)
(***************************************************************************)
\* Mutant: a run counts as soon as it has not failed.
NotFailed == {r \in DOMAIN runs : runs[r].status # "FAILED"}

Completed == {r \in DOMAIN runs : runs[r].status = "COMPLETED"}

\* order_by(started_at.desc()).limit(1) over the COMPLETED runs
Latest == CHOOSE r \in Completed \cup {0} : \A s \in Completed : s <= r

HasKey(k) == {r \in DOMAIN runs : runs[r].key = k}

Become(h, new) == job' = [job EXCEPT ![h] = new]

\* The first node of the route that has no artifact in the posted state.
Expected(state) == CHOOSE n \in Node \ state : \A m \in Node \ state : n <= m

-----------------------------------------------------------------------------
(***************************************************************************)
(* Requests that end in a run of the whole route.                          *)
(***************************************************************************)
\* ReadinessService.create: the case is committed before it is assessed, with
\* the client's key or one derived from the input.
CreateCase(h, k) ==
    /\ job[h].pc = "idle"
    /\ ~exists
    /\ exists' = TRUE
    /\ Become(h, [Idle EXCEPT !.pc = "lookup", !.kind = "CREATE", !.key = k])
    /\ UNCHANGED <<input, runs, sent, restarts, lost>>

\* Any GET that goes through latest_or_run.
GetCase(h) ==
    /\ job[h].pc = "idle"
    /\ exists
    /\ Become(h, [Idle EXCEPT !.pc = "latest"])
    /\ UNCHANGED <<exists, input, runs, sent, restarts, lost>>

\* POST assessment-runs with the client's key, or rerun with a fresh one.
PostRun(h, k) ==
    /\ job[h].pc = "idle"
    /\ exists
    /\ Become(h, [Idle EXCEPT !.pc = "lookup", !.kind = "RUN", !.key = k])
    /\ UNCHANGED <<exists, input, runs, sent, restarts, lost>>

\* Mutant: the input hash is not compared.
ReadAnyLatest(h) ==
    /\ job[h].pc = "latest"
    /\ IF Latest # 0
       THEN Become(h, [job[h] EXCEPT !.pc = "reply", !.run = Latest])
       ELSE Become(h, [job[h] EXCEPT !.pc = "lookup", !.kind = "GET", !.key = <<"auto", input>>])
    /\ UNCHANGED <<exists, input, runs, sent, restarts, lost>>

\* latest_or_run: a completed run of the same input is the answer, otherwise
\* run() is called with a key derived from the input.
ReadLatest(h) ==
    /\ job[h].pc = "latest"
    /\ IF Latest # 0 /\ runs[Latest].hash = input
       THEN Become(h, [job[h] EXCEPT !.pc = "reply", !.run = Latest])
       ELSE Become(h, [job[h] EXCEPT !.pc = "lookup", !.kind = "GET", !.key = <<"auto", input>>])
    /\ UNCHANGED <<exists, input, runs, sent, restarts, lost>>

\* What a request does once run() has returned run r: create goes on to get.
AfterRun(j, r) ==
    IF j.kind = "CREATE" THEN [j EXCEPT !.pc = "latest"]
    ELSE [j EXCEPT !.pc = "reply", !.run = r]

\* Mutant: a run with the key that has not ended is taken up again.
LookupResumes(h) ==
    /\ job[h].pc = "lookup"
    /\ IF HasKey(job[h].key) = {}
       THEN Become(h, [job[h] EXCEPT !.pc = "insert"])
       ELSE \E r \in HasKey(job[h].key) :
               Become(h, IF runs[r].status = "RUNNING"
                         THEN [job[h] EXCEPT !.pc = "agent", !.run = r]
                         ELSE AfterRun(job[h], r))
    /\ UNCHANGED <<exists, input, runs, sent, restarts, lost>>

\* run(): a run with the key is returned whatever its status.
Lookup(h) ==
    /\ job[h].pc = "lookup"
    /\ IF HasKey(job[h].key) = {}
       THEN Become(h, [job[h] EXCEPT !.pc = "insert"])
       ELSE \E r \in HasKey(job[h].key) : Become(h, AfterRun(job[h], r))
    /\ UNCHANGED <<exists, input, runs, sent, restarts, lost>>

\* Mutant: the uuid is left out of the key.
KeyWithoutUuid(j) == j.key

\* A uuid key is a new one; the others are the ones looked up.
KeyOf(j) == IF j.key \in FreshKey THEN <<j.key[1], Len(runs) + 1>> ELSE j.key

\* AssessmentRepository.create.
Insert(h) ==
    /\ job[h].pc = "insert"
    /\ Len(runs) < MaxRuns
    /\ HasKey(KeyOf(job[h])) = {}
    /\ runs' = Append(runs, [key |-> KeyOf(job[h]), hash |-> input, status |-> "RUNNING",
                             outcome |-> None, artifacts |-> {}])
    /\ Become(h, [job[h] EXCEPT !.pc = IF job[h].kind = "STEPWISE" THEN "start" ELSE "agent",
                                !.run = Len(runs) + 1])
    /\ UNCHANGED <<exists, input, sent, restarts, lost>>

\* uq_run_case_idempotency refuses the row: the request ends with an error.
\* (So does a request that would exceed the bound on the rows.)
InsertCollides(h) ==
    /\ job[h].pc = "insert"
    /\ HasKey(KeyOf(job[h])) # {} \/ Len(runs) = MaxRuns
    /\ Become(h, Idle)
    /\ UNCHANGED <<exists, input, runs, sent, restarts, lost>>

Complete(r, state, o) ==
    runs' = [runs EXCEPT ![r].status = "COMPLETED", ![r].outcome = o, ![r].artifacts = state]

AgentCompletes(h, o) ==
    /\ job[h].pc = "agent"
    /\ Complete(job[h].run, Node, o)
    /\ Become(h, AfterRun(job[h], job[h].run))
    /\ UNCHANGED <<exists, input, sent, restarts, lost>>

\* Mutant: the error answers 502 but the run is not stored as FAILED.
AgentFailsUnstored(h) ==
    /\ job[h].pc = "agent"
    /\ Become(h, Idle)
    /\ UNCHANGED <<exists, input, runs, sent, restarts, lost>>

\* A node raises and the run is stored as FAILED: the request answers 502.
\* Also when it is complete() that fails the handler calls fail(), but on a
\* session that was not rolled back, whose commit raises: see BreakOff.
AgentFails(h) ==
    /\ job[h].pc = "agent"
    /\ runs' = [runs EXCEPT ![job[h].run].status = "FAILED"]
    /\ Become(h, Idle)
    /\ UNCHANGED <<exists, input, sent, restarts, lost>>

-----------------------------------------------------------------------------
(***************************************************************************)
(* Stepwise runs.                                                          *)
(***************************************************************************)
StartStepwise(h) ==
    /\ job[h].pc = "idle"
    /\ exists
    /\ Become(h, [Idle EXCEPT !.pc = "insert", !.kind = "STEPWISE", !.key = <<"stepwise", 0>>])
    /\ UNCHANGED <<exists, input, runs, sent, restarts, lost>>

\* The new run's first state goes to the client; nothing more is stored.
StartReturns(h) ==
    /\ job[h].pc = "start"
    /\ sent' = sent \cup {[run |-> job[h].run, state |-> {}]}
    /\ Become(h, Idle)
    /\ UNCHANGED <<exists, input, runs, restarts, lost>>

\* Mutant: the order of the route is not checked.
PostAnyStep(h, r, m, n) ==
    /\ job[h].pc = "idle"
    /\ runs[r].status = "RUNNING"
    /\ n \notin m.state
    /\ Become(h, [Idle EXCEPT !.pc = "node", !.kind = "STEPWISE", !.run = r,
                              !.state = m.state, !.node = n])
    /\ UNCHANGED <<exists, input, runs, sent, restarts, lost>>

\* execute_step, up to the node: the client posts a state it was sent, at any
\* later time and any number of times.  Nothing ties the state to the run: it
\* may be one that was sent for another stepwise run.
PostStep(h, r, m, n) ==
    /\ job[h].pc = "idle"
    /\ runs[r].status = "RUNNING"
    /\ n \notin m.state
    /\ n = Expected(m.state)
    /\ Become(h, [Idle EXCEPT !.pc = "node", !.kind = "STEPWISE", !.run = r,
                              !.state = m.state, !.node = n])
    /\ UNCHANGED <<exists, input, runs, sent, restarts, lost>>

StepReturns(h) ==
    LET j == job[h] IN
    /\ j.pc = "node" /\ j.node # LastNode
    /\ sent' = sent \cup {[run |-> j.run, state |-> j.state \cup {j.node}]}
    /\ Become(h, Idle)
    /\ UNCHANGED <<exists, input, runs, restarts, lost>>

\* Mutant: the artifacts get uuid keys.
NeverCollide(r) == FALSE

\* The primary keys of the artifacts are made of the run and the node: they
\* are refused when another request has completed the run in the meantime.
ArtifactsCollide(r) == runs[r].artifacts # {}

StepCompletes(h, o) ==
    LET j == job[h] IN
    /\ j.pc = "node" /\ j.node = LastNode
    /\ ~ArtifactsCollide(j.run)
    /\ Complete(j.run, j.state \cup {j.node}, o)
    /\ Become(h, [j EXCEPT !.pc = "reply"])
    /\ UNCHANGED <<exists, input, sent, restarts, lost>>

StepCollides(h) ==
    /\ job[h].pc = "node" /\ job[h].node = LastNode
    /\ ArtifactsCollide(job[h].run)
    /\ Become(h, Idle)
    /\ UNCHANGED <<exists, input, runs, sent, restarts, lost>>

\* start or a node raises: nothing is stored and the run stays RUNNING.
StepFails(h) ==
    /\ job[h].pc \in {"start", "node"}
    /\ Become(h, Idle)
    /\ UNCHANGED <<exists, input, runs, sent, restarts, lost>>

-----------------------------------------------------------------------------
Reply(h) ==
    /\ job[h].pc = "reply"
    /\ Become(h, Idle)
    /\ UNCHANGED <<exists, input, runs, sent, restarts, lost>>

\* The runs that these requests are executing.
ExecutedBy(hs) == {job[h].run : h \in {g \in hs : job[g].pc = "agent"}}

\* A round trip to the database fails, or its answer is lost: the request ends
\* with an error and stores nothing more.  When it is the commit of complete()
\* or that of fail(), the run stays RUNNING.
BreakOff(h) ==
    /\ job[h].pc # "idle"
    /\ lost' = lost \cup ExecutedBy({h})
    /\ Become(h, Idle)
    /\ UNCHANGED <<exists, input, runs, sent, restarts>>

\* The process restarts, perhaps with a new configuration of the agent, which
\* is part of what input_hash covers.  Requests in flight are gone.
Restart(i) ==
    /\ restarts < MaxRestarts
    /\ i \in {input, input + 1}
    /\ restarts' = restarts + 1
    /\ lost' = lost \cup ExecutedBy(Handler)
    /\ input' = i
    /\ job' = [h \in Handler |-> Idle]
    /\ UNCHANGED <<exists, runs, sent>>

\* What a handler does by itself once a request has reached it.
Step(h) ==
    \/ ReadLatest(h) \/ Lookup(h) \/ Insert(h) \/ InsertCollides(h)
    \/ \E o \in Outcome : AgentCompletes(h, o) \/ StepCompletes(h, o)
    \/ AgentFails(h) \/ StartReturns(h) \/ StepReturns(h) \/ StepCollides(h) \/ StepFails(h)
    \/ Reply(h)

Next ==
    \/ \E h \in Handler :
          \/ GetCase(h) \/ StartStepwise(h) \/ BreakOff(h) \/ Step(h)
          \/ \E k \in ({"client"} \X ClientKey) \cup {<<"create", input>>} : CreateCase(h, k)
          \/ \E k \in ({"client"} \X ClientKey) \cup {<<"rerun", 0>>} : PostRun(h, k)
          \/ \E r \in {m.run : m \in sent}, m \in sent, n \in Node : PostStep(h, r, m, n)
    \/ \E i \in Input : Restart(i)

Spec == Init /\ [][Next]_vars

\* A worker thread that has a request goes on with it: no node waits for
\* anything but a provider, whose every wait has a timeout.
FairSpec == Spec /\ \A h \in Handler : WF_vars(Step(h))

-----------------------------------------------------------------------------
(***************************************************************************)
(* Properties.                                                             *)
(***************************************************************************)
\* Rows, messages and requests have the columns and fields the code gives them.
TypeOK ==
    /\ exists \in BOOLEAN
    /\ input \in Input
    /\ runs \in Seq(Run) /\ Len(runs) <= MaxRuns
    /\ sent \subseteq Message
    /\ job \in [Handler -> Job]
    /\ restarts \in 0..MaxRestarts
    /\ lost \subseteq 1..MaxRuns

\* A completed run holds the artifacts of every node of its route and no
\* other run holds any, whatever states clients post back and in what order.
CompletedRunIsWhole ==
    \A r \in DOMAIN runs :
        runs[r].artifacts = IF runs[r].status = "COMPLETED" THEN Node ELSE {}

\* What latest_or_run answers was computed from the case as it is now, also
\* after a deployment changed what the input hash covers.
AnswerIsCurrent ==
    \A h \in Handler :
        job[h].pc = "reply" /\ job[h].kind = "GET" => runs[job[h].run].hash = input

\* test_full_api.py, "Rerun creates a new immutable AssessmentRun": a run that
\* has ended is never written again, by a repeated last step either.
EndedRunIsImmutable ==
    [][\A r \in DOMAIN runs : runs[r].status # "RUNNING" => runs'[r] = runs[r]]_vars

\* The assessment a case is judged by never goes back to a run started
\* earlier: a slow old run that completes late does not displace a newer one.
LatestNeverGoesBack == [][Latest' >= Latest]_vars

\* A run of the whole route is open only while one request, and no second one,
\* executes it.  The exception is a run whose request broke off: it stays
\* open, because a repeated request finds its key and executes nothing.
OpenRunHasOneWorker ==
    \A r \in DOMAIN runs :
        runs[r].key[1] # "stepwise" =>
            LET workers == {h \in Handler : r \in ExecutedBy({h})} IN
            /\ runs[r].status # "RUNNING" \/ r \in lost => workers = {}
            /\ runs[r].status = "RUNNING" /\ r \notin lost => \E h \in Handler : workers = {h}

\* A run that a request executes ends, whatever its nodes do, unless that very
\* request breaks off.
RunEndsUnlessLost ==
    \A r \in 1..MaxRuns :
        r \in ExecutedBy(Handler) ~> r \in DOMAIN runs /\ (runs[r].status # "RUNNING" \/ r \in lost)
=============================================================================
