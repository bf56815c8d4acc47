# NexusOps: specification and verification

TLA+ modules for the backend and the agent of this repository, with the TLC
configurations that check them on small instances and TLAPS proofs of what
matters most. Paths below are relative to `src/`; `app/` is `backend/app/` and
`agent/` is `agent/src/nexusops_agent/`.

Run one configuration with `tlc -workers 2 -config LoanApproval.cfg MCLoanApproval.tla`,
the proofs with `tlapm LoanApprovalProofs.tla`, and in the same way the other seven modules
`*Proofs`.

## 1. The system

A bank's officers submit financing cases of small companies. For each case the
backend has the agent work through a route of nodes and stores the result as an
assessment run; people approve the case up an authority ladder, and decide on
actions the system proposes, which are then written to external systems.
FastAPI runs every request in a worker thread with a SQLAlchemy session of its
own (`app/database.py`): nothing locks a row and no version column is compared,
so requests overlap between their reads and their commits.

| Component | State | Operations | Hard behaviour | What makes it correct |
|---|---|---|---|---|
| Loan approval (`app/approval_service.py`, `app/auth.py`) | one `loan_approvals` row per case, `cases.display_status` | check, approve, transfer | decisions on rows and assessments read before the commit; columns flushed one by one; the JSON history written back whole | nobody approves above a limit; level, assignee, status and history agree; the history is one legal escalation; somebody can always act; one after the other, people climb a ladder |
| Assessment runs (`app/services.py`, `app/repositories.py`, `app/readiness_service.py`) | `cases`, `assessment_runs` and their artifacts; the state of a stepwise run, which only the client has between two nodes | intake, GETs that assess, run, rerun, start a stepwise run, run a node | look-up and insert of an idempotency key apart; repeated and reordered steps; a restart in the middle; a configuration that changes the input hash | ended runs never change, completed runs are whole, an answer belongs to the case as it is, the latest result never goes back, runs end |
| Agent workflow (`agent/workflows/runner.py`, `agent/orchestration`, `agent/agents`, `agent/nodes`) | `WorkflowState` | the nodes, finalize, bounded rework, by two drivers | the model's and the retrieval's answers are open; the critic runs before the citation validator and again in the rework | a case is called ready only if nothing is held against it; a model makes the decision stricter, never milder; both drivers decide alike |
| Proposed actions (`app/services.py`, `app/v3_services.py`) | `proposed_actions`, `mock_external_actions` | create, approve, reject, the connector's own endpoints | an approval is two transactions, external write first; retries; keys reused for another action | success means written; one key executes one action; the maker does not check; writes are final |
| Workflow registry (`app/v3_services.py`) | `workflow_templates` | seed, create, validate, publish | publish reads the latest version twice | versions are immutable; what is published is sound |
| Evidence (`agent/rag`, `agent/scripts`) | normalized corpus, document registry, three generated files and a manifest; the corpus a process has read | audit, build, load, retrieve, validate citations | files written one by one; a corpus cached by a process; claims validated by another process than the one that made them | an agent finds only its material; citations hold in their process; what passes is vouched for by the registry |
| Readiness rules (`agent/contracts/case.py`, `agent/nodes`, `agent/configs/products`) | none; a case is normalised when it is posted and when it is read | normalisation, metrics, two rule packs | zero, missing and defaulted figures; rounding beside a threshold; two computations of one figure | ready is what the bank's rules call ready |
| Legal text parser (`agent/rag/legal_structure.py`) | units, open unit, headings in force | a line of each kind, a new page, the end | headings, articles, clauses, points and appendices in any order | no text lost, every unit under its article and headings, on its pages |
| Model providers (`agent/providers`, `agent/rag/reranker.py`, `agent/orchestration/model_router.py`) | none between calls | structured calls, candidate models, reranking | retries multiply under time-outs; every kind of failure goes another way | an answer before the proxy gives up; the agent's own result only after every model; evidence survives the reranker |
| Start-up and seeding (`app/main.py`, `app/database.py`, `app/seed.py`, `app/auth.py`) | schema, `users`, `roles`, `cases` and all that hangs on them | create the schema, seed fixtures, accounts and cohort, refresh the cohort | the server's start and the script at the same time; a refresh of two commits | every role has an account; an approval stands on the data of the case; the server comes up |
| Sessions (`app/auth.py`) | `auth_sessions` | login, logout | expiry | a revoked session stays revoked |
| Frontend (`frontend/src`) | the screens' copy of a run | drives stepwise runs | lost responses, double clicks | - |
| Mock bank tools, evaluation, LangGraph adapter | none | pure functions | - | - |

How they interact: an approval reads the latest *completed* run of its case
(`AssessmentRepository.latest`); a run calls the agent in the same request (or,
stepwise, once per request); completing a run stores the artifacts from which
a resolution package and its proposed action are made; the agent retrieves
evidence from the corpus and may ask a language model to review it. Behind all
of them, the start of the server and the script `app.seed` write the same tables.

## 2. Modules

| Module | Models | Checked by |
|---|---|---|
| `LoanApproval` | `LoanApprovalService` and the role ladder | `MCLoanApproval`, proofs in `LoanApprovalProofs` |
| `ApprovalLadder` | abstract: what the bank promises of a case that people decide on one after the other | refined by `LoanApproval` |
| `AssessmentRuns` | `AssessmentService`, `AssessmentRepository`, intake | `MCAssessmentRuns`, proofs in `AssessmentRunsProofs` |
| `CaseFacts`, `AgentWorkflow` | the case, the runner and everything it calls | `MCAgentWorkflow`, proofs in `AgentWorkflowProofs` |
| `Verdict` | abstract: the one decision an assessment promises, given the facts and whether its citations hold | refined by `AgentWorkflow` |
| `ActionGovernance` | `ActionService`, `MockActionService` | `MCActionGovernance`, proofs in `ActionGovernanceProofs` |
| `Evidence` | `agent/rag` and the build script | `MCEvidence`, proofs in `EvidenceProofs` |
| `WorkflowRegistry` | `WorkflowRegistryService` | `MCWorkflowRegistry`, proofs in `WorkflowRegistryProofs` |
| `ReadinessRules` | normalisation, metrics, rule packs and the nodes computed from the same case; uses `CaseFacts` | `MCReadinessRules`, proofs in `ReadinessRulesProofs` |
| `LegalStructure` | `LegalStructureParser` | `MCLegalStructure`, proofs in `EvidenceProofs` |
| `ModelCalls` | provider client, structured calls, candidate models, reranker | `MCModelCalls`, proofs in `AgentWorkflowProofs` |
| `Seeding` | start-up of the server and `app.seed`, with a case being assessed and approved | `MCSeeding`, proofs in `SeedingProofs` |

**Requests.** In the modules of the backend a `Handler` is a worker thread. Its
record in `req` (`job` in `AssessmentRuns`) holds a program counter and what the
request has loaded. Each action is one database round trip: a `SELECT`, or the
flush and commit of a transaction. A unique constraint gives two actions, the
insert and the collision. `Abort`, `Crash` and `Restart` end requests between
two round trips; their session is rolled back, their earlier commits stay.

**LoanApproval.** `row` is the `loan_approvals` row, `shown` says whether
`cases.display_status` shows the case as approved, `latest` what the latest
completed run says. A request loads the row (`Begin`, or `CreateRow` if there is
none), reads the assessment and decides (`Accept`, `Answer`), and stores what it
decided (`CommitApprove`, `CommitTransfer`). The code writes the limits down twice:
`RoleCanApprove` is what approve and transfer ask, `RequiredRole` the level check shows for an
amount; the properties about limits compare the two. `Flush` is SQLAlchemy's: it writes
the columns whose value differs from the *loaded* one and leaves the others as
they are stored now. Reasons and wording are left out. The mapping to
`ApprovalLadder` forgets requests, flushes and assessments; it reads the row, and a
case without one stands at the first level, held by nobody in particular.

**AssessmentRuns.** `runs` is the table in the order of `started_at`; a run's key
is the client's, or of one of the four kinds the code makes. `sent` holds every
`WorkflowState` a client has ever been sent: clients may post back any of them,
in any order and repeatedly, and for any stepwise run they have been told of, since the
code does not tie the state in the body to the run in the path (the screens keep the two
together). What the agent computes is an open outcome and a set
of nodes whose artifacts are there; each may fail. `BreakOff` is a database round trip that
fails, or whose answer is lost. It matters most in `run()`: the `except` there covers `complete()` as
well, and after a failed commit `fail()` works on a session that was not rolled back and raises,
so the run stays RUNNING; `lost` remembers such runs. A restart loses the requests
in flight and may change the configuration, and with it the input hash of a case.

**AgentWorkflow.** One execution over one case. `CaseFacts!Case` keeps what the
rules can tell apart: an amount becomes the outcome of the comparison the code
makes with it. Each node of the route reports a status as its handler does. What
the retrieval returns, whether its citations are valid, whether a model is
configured, answers, and what it answers are open choices. `mode` is the driver:
`AgentService.run` finalizes before and after the rework, the stepwise driver
only after. The shipped corpus cites only approved sources; invalid citations of
the product agent need another corpus (`NEXUSOPS_RAG_DATA_PATH`).

**ReadinessRules.** A payload is normalised, stored, normalised again when it is
read, and assessed; four steps, since a field the first normalisation fills is a
given field to the second. Amounts are integers and ratios exact fractions; only
where the code calls `round(x, 6)` a ratio becomes the nearest multiple of
`1/Unit`, ties to even. `Facts` is the abstraction `AgentWorkflow` starts from:
`CaseFacts!Case` computed from the figures. Metrics no rule looks at are kept as
whether any of them can be computed.

**LegalStructure.** A line is the kind the regular expressions, tried in their
order, give it; units, headings and labels are named by the line they stand in. Each
kind is an action; chunks are an operator of the units. In the model as in the code
a blank line at the top of a page extends the `page_to` of the unit before it, a title
on the line after a chapter heading is text of the unit before it, and an article or
an appendix without text gives no chunk of its own.

**ModelCalls.** The calls one agent's node makes in a stepwise request: the reranker,
then each candidate model, with the retries of `_request` inside each. A call ends
in one of the ways the code distinguishes. `clock` counts seconds spent waiting. `urlopen`'s
time-out bounds each wait on the socket and not the attempt: `Wait` is one that takes all
of it and still gets something, so that the next wait begins, and nothing in the code bounds how
many of those there are. Waits that are drawn out less count as none.

**Seeding.** One case, of the fixtures or of the mock cohort. `data` is the version of
its payload: a refresh makes a new one. Each select and each commit of a process is a
step; a unique constraint kills the process that comes second, a container starts
the server again. `quiet` says that nobody works on cases while the script runs; the
properties about approvals are claimed for that, because against a server in use the
refresh can leave an approval on data that is gone. `half` marks a refresh between
its two commits. A foreign key that refuses the first commit is a script that dies there.

**ActionGovernance.** `row` is `proposed_actions`, `written` the external writes
by their idempotency key. `approve` loads the row, looks for another action with
its key, has the connector look up and insert the write (first commit), then
stores the decision (second commit). `reject` loads and stores. Requests refused
for their role end before they read anything and are left out.

**WorkflowRegistry.** The versions of one template, in the order of `created_at`, which is
taken to be that of the commits (the column is filled at the flush just before; two creations that
overlap may get them in the other order; no property depends on it).
Every request begins with the service's constructor, which inserts the shipped
template. `Sound` is `validate_workflow_payload`.

**Evidence.** `source` and `registry` are what people edit, `files` and `manifest`
what the build script writes, one file after the other and line by line
(`WritePart`), `proc` the agent's process with the corpus it has read. A chunk keeps
what the gates look at: quality, domain, synthetic or not, and whether its disclaimer,
validity, hash and number are as they should be; its text is the wording of the
part that gets quoted. A hash stands for what it is the hash of. What a query finds is
any subset of what policy and namespace allow. Claims outlive the process, as they
do in the state of a stepwise run. Edits are assumed not to fall between the
script's own reads, which follow each other at its start.

**Overlap.** Some facts hold only while requests do not overlap. `LoanApproval`,
`ActionGovernance` and `WorkflowRegistry` therefore have a variable `workers`, the
worker threads of the deployment: chosen initially, then fixed. With one worker
(`Alone`) requests follow one another. Properties with the premise `Alone` are
claimed for those behaviours only, the others for all. So each run says what
the code guarantees and what is lost when two requests meet.

**What some properties leave open.** `DecisionIsFinal` and `OneWritePerAction` are claimed with one
worker, the latter also without a crash; the violations with two are listed in section 3.
`PassingCitationsAreVouchedFor` speaks of a process on an accepted file that the manifest describes; it
says nothing of files of two builds or of the normalized corpus. `AuditAgreesWithBuild` is about
official chunks marked ACCEPTED in one direction; a DEMO_ONLY chunk of a VERIFIED document is judged by the build
alone. `AnswerIsCurrent` compares the hash of a run's row: whether the states
posted to a stepwise run were computed from that input is checked nowhere in the code. The seeding
properties about approvals hold while nobody works on cases during a refresh.

## 3. Runs

| Run | States | Shows |
|---|---|---|
| `loan` | 585,037 | Two requests of five users (a disabled manager among them) on one case with an amount on either side of each limit. Always: limits, custody, coherence, no dead end, honest buttons. Alone: the ladder is implemented, so that approval is final and stays on the trail, a lower level decides nothing and a case never moves down. |
| `assessment_runs` | 491,998 | Two requests, two rows, three nodes, a change of the input, a restart, requests that break off anywhere. Completed runs whole, answers current, ended runs immutable, the latest result never older than before; a run is open only while exactly one request executes it, and ends unless that request breaks off. |
| `agent_workflow` | 100,381 | Every case with at most two facts against it, both drivers, with and without a model. Ready means clean; blockers stand; the workflow refines `Verdict`. |
| `readiness_rules` | 76,032 | Cases on, beside and beyond every threshold, zero or not given, in up to three fields. Ready means the bank's requirements are met and the reverse, up to the rounding; `Facts` decides as the figures do. |
| `actions` | 455,536 | Two actions of one kind, two keys, two approvers (one the maker), one crash. Success was written, the maker never checks, one key executes one action. Alone: one write per action, decisions final. |
| `registry` | 26,736 | Three versions, four definitions. Versions immutable, published stays published. Alone: what is published is sound. |
| `evidence` | 984,470 | A chunk and its document, one edit, builds that die anywhere, two processes on any of the three corpora. Agents keep to their material, a process's own citations hold, passing citations are vouched for where the manifest holds, audit and build agree. |
| `legal_structure` | 292,889 | Every text of up to five lines of the nine kinds on up to two pages. The chunks are its text in its order; every unit is under the headings, article and clause that precede it; its pages are those it was read on. |
| `model_calls` | 88,716 | Every registration of two models, the settings of `docker-compose.yml` and the defaults, up to four drawn-out waits. A node under compose answers before the proxy gives up if no more than three waits are drawn out; the agent's own result is taken only when every candidate has failed; no failure of the reranker loses evidence. |
| `seeding` | 316,391 | The server and two scripts, one worker, two kills anywhere. Whoever works finds the ladder staffed; quiet: approvals stand on the data of the case, the list agrees with them; the server comes up and stays up. |

Two runs end in a violation; each is a disagreement of the code with a sentence of a
document:

| Run | The code | The sentence |
|---|---|---|
| `loan_not_ready` | an approval reads the readiness, then commits; a run that is not ready may complete in between | `backend/README.md:78`, a case can be approved only when its workflow is ready |
| `registry_unsound` | `publish` validates a version newer than the one it publishes | `agent/docs/BA_AGENT_PHASE_PLAN.md:75`, an incomplete workflow is not published |

The models also contain, without a run of their own:

* Approval: a higher role approves a case never transferred to it (`README.md:141`
  allows that; `backend/tests/test_rbac_approval.py:69` is named "higher role cannot
  bypass required transfer"); when requests overlap, a lower level's decision stored
  after the case has moved up, and an approval dropped from the history.
* Runs: a run whose process died, or whose `complete()` failed in the database, stays RUNNING,
  and its key answers with it for ever (`README.md:156` says work can be resumed); the state of a stepwise run that no
  table holds before its last node (`agent/README.md:125` says it is stored after each);
  an automatic run that failed once, with which every later GET is answered.
* Agent: a model that asks for a revision twice leaves REVISE behind
  (`agent/docs/PHASE_5_REVIEW.md:6`, failed rework becomes ESCALATE); a critic that passes a
  workflow whose citations prove invalid only later in the same pass (the final status
  is still not READY).
* Actions: a rejection that overlaps an approval is stored over the executed action
  (`backend/tests/test_full_api.py:376`, "Cannot reject after execution"); an external write
  whose action is still PENDING_APPROVAL after a crash between the two transactions; a second write
  of one action, by approvals with different keys that overlap or after such a crash.
* Evidence: a chunk the build quarantines because its document is unverified, found by
  the compliance agent, because the runner reads the normalized corpus unless configured
  otherwise (`agent/docs/RAG_REMEDIATION_PHASES.md:51` wants the opposite; the validator looks at the
  chunk's own status only and lets the citation pass if the chunk is marked ACCEPTED); a chunk marked ACCEPTED of a document that is DEMO_ONLY, which
  the build accepts and the router treats as law by its domain.
* Rules: a credit turnover of zero is taken for missing and replaced by the account's
  turnover; the length of a relationship is defaulted when a case is posted and looks
  given when it is read; `TAX_CONSISTENCY` compares the unrounded gap and the rule the rounded
  one, so that a case beside the threshold passes one of them.
* Model calls: a provider that draws out a fourth wait keeps a stepwise request past the proxy's
  120 seconds; a whole run makes ten calls or more in one request and the defaults of
  `ProviderConfig` allow 60 seconds with two retries, both beyond the proxy's 120;
  a reranker that answers with an empty list leaves no evidence, and its ranks may be negative
  or repeated.
* Seeding: against a server in use a refresh leaves an approval on old data; each start
  of the server takes back the `display_status` of an approved fixture; a script killed
  between its two commits leaves a case shown as approved without approval until it is run
  again.

### Bounds

* Two handlers: every property relates one request to what another did since it
  read; a third adds no other kind of pair. (The safety properties of all modules
  with handlers are proved for any number.)
* Amounts: both sides of 500,000,000 and 1,000,000,000 VND, the only limits.
* Users: two active managers (the assignee and another), one disabled, one of
  each other role.
* `MaxRuns = 2`, `LastNode = 3`: an older and a newer run; a first, a middle and a
  last node, so that a state can be posted early, in order and late.
  `MaxInput = 2`, `MaxRestarts = 1`: before and after.
* Cases with at most two facts against them: every node looks at one fact, the
  critic at whether any of them objects, so two facts give each pair of objectors.
* Two keys and two actions: a key reused and an action retried with another key.
* One chunk and one document in `evidence`: no step and no property relates two
  of them, and the proofs are for any number. One edit and one restart give a corpus
  before and after. Six chunks and four entries, each wrong in one respect.
* `Unit = 20` and `MinRevenue = 50` stand for 1,000,000 and 10,000,000,000: the
  thresholds 0.1, 0.6 and 1.5 are multiples of 1/20, and a figure can lie on a threshold,
  round to it from either side, lie in the middle and round to even, or lie beyond. Three
  deviations make a value, its default and what is derived from both.
* Five lines: a heading, an article, a clause, a point and a text, or any of them
  twice; what the parser carries from line to line is five references, each reset by one kind.
* `MaxWaits = 4`: three drawn-out waits are what the proxy's time leaves room for, the
  fourth is one more, so that the premise of `AnsweredInTime` is needed.
* Two models, three hits of which two are used: a first and a last candidate, evidence that
  the reranker moves in, out or up.
* Two scripts and two kills in `seeding`: a race of script and script and of script and
  server, a killed refresh and its repetition; two runs, an older and a newer.
* Symmetry is used for handlers, equal managers, keys and unshipped versions, only
  in runs without liveness properties.

An execution of `AgentWorkflow`, of `ReadinessRules`, of `LegalStructure` and of `ModelCalls`
ends, and so does `Seeding` when the scripts are done and the bounds reached. Their runs do
not check deadlock; all others do.

### Fairness

`assessment_runs` uses `FairSpec`: a worker thread that holds a request
goes on with it (`WF_vars(Step(h))` for each handler). Nothing in a request waits
for another one, every wait for a provider has a timeout (`agent/providers/fpt_factory.py`), which a
provider can only get around by sending something for ever, and the operating system schedules threads.
`BreakOff` and `Restart` are not fair, they may happen or not. Nothing is assumed of clients: that a
stepwise run ends is not claimed, it ends only if its client goes on.

`seeding` uses a `FairSpec` too: docker starts the server whenever it has ended
(`restart: unless-stopped`), and a process that has been started goes on. Nothing is
assumed of those who start scripts or kill processes, except that kills are bounded.

## 4. Proofs

Eight modules hold proofs, two of them those of two components: `AgentWorkflowProofs` also
proves what the models asked from the workflow answer (`ModelCalls`), `EvidenceProofs` also where the
chunks of the corpus come from (`LegalStructure`). Each theorem is about every value of the constants: any number of
users, handlers, scripts, runs, restarts and crashes, any amounts, texts of any length. Every
invariant of the passing runs has its theorem. Where a property is not inductive, its module
defines an inductive invariant `IInv` (some also an `AloneInv` for
behaviours with one worker; `CallsInv` and `ParserInv` for the two components named above); TLC has
checked these on the instances of section 3. The proof that a step keeps the invariant
has one step per action, or for `ParserInv` one lemma per conjunct.

| Module | Theorems |
|---|---|
| `LoanApprovalProofs` | `Typing`, `Authority` (limits), `Assignment`, `AuditTrail` (the history is one legal escalation), `Coherence`, `SomebodyCanAct`, `OffersAreHonest`; `Implementation` (of `ApprovalLadder`) |
| `AssessmentRunsProofs` | `Typing`, `CompletedRunsAreWhole`, `AnswersAreCurrent`, `OpenRunsHaveOneWorker`, `EndedRunsAreImmutable`, `TheLatestNeverGoesBack` |
| `AgentWorkflowProofs` | `Typing`, `ReadyCasesAreClean`, `BlockersAlwaysStand`; `Implementation` (of `Verdict`); of `ModelCalls`: `StepwiseRequestsAreAnswered`, `FallbackComesLast`, `HitsSurvive` |
| `ReadinessRulesProofs` | `ReadyCasesMeetTheRules`, `CasesThatMeetTheRulesAreReady`, `TheFactsAreFaithful` |
| `ActionGovernanceProofs` | `Typing`, `ExecutedIsWritten`, `FourEyes`, `KeyIsSpentOnce`, `WritesStay`; with one worker `ActionsAreWrittenOnce`, `DecisionsAreFinal` |
| `WorkflowRegistryProofs` | `Typing`, `Immutability`; with one worker `Soundness` |
| `EvidenceProofs` | `Typing`, `Material`, `Citations`, `Vouching`, `AuditAndBuild`; of `LegalStructure`: `ParserTypeIsKept`, `TheTextIsKept`, `ChunksStandUnderTheirHeadings`, `ThePagesAreInOrder` |
| `SeedingProofs` | `TheLadderIsStaffed`, `ApprovalsAreOfThisData`, `TheListAgrees` |

**LoanApproval.** A commit stores columns derived from a row loaded earlier, of which
the properties say nothing. `IInv` therefore says of the *loaded* row of every request what
the properties say of the stored one, that `Stage` (absent, pending, decided) of the
stored row is never behind that of the loaded one, and that a request about to commit was
entitled to on what it loaded. `CustodyGrows` shows that a decision entered into a legal
open history keeps it legal; `FlushApprove` and `FlushTransfer` that a column-wise flush
mixes two legal rows into a legal one: a transfer writes level, assignee and history
together, so the three always come from the same request, and the only column that may
come from another is the status.

`SameLimits` shows that the two places where the code states a role's limit agree, which carries
the decisions of approve and transfer over to the required level of the properties.

For the refinement of `ApprovalLadder`, `AloneInv` says that with one worker the loaded row is
the stored one and an open row has no approver. Then a flush stores what the
request decided, `ApproveIsLadder` and `TransferIsLadder` map the two commits to the two
decisions of the ladder, and `QuietLadderStep` maps everything else to a stutter.

**AssessmentRuns.** The two ways a run is made need two reasons, and the invariant keeps them apart.
A run that one request executes has one owner (`SoleOwner`) until it has ended, so that
nobody else can end it a second time, and it has one as long as it is open and not `lost`
(`HasOwner`); together they are `OpenRunsHaveOneWorker`. A stepwise run has none, every client may post any
state it has ever been sent; but each such state is a beginning of the route
(`MessageInv`), only the last node ends the run, and it stores status and artifacts in one commit, the second
of which the primary keys of the artifacts refuse, whichever run the state was sent for. `RowInv` ties a completed row
to the artifacts of the whole route. `Kept` is what no step does to a row (remove it, rename
it, rewrite it once it has ended); the two action properties follow from it, and `HasLatest`
is what makes the `CHOOSE` in `Latest` mean something. `JobInv` ties the run a GET works on to the hash of
the case as it is, from the look-up by a key made of that hash to the answer; only a restart
changes the hash, and it ends every request.

**AgentWorkflow.** `RouteOrder` says what has been executed when a node of the route is next: first all of
the product's own nodes, then critic, validator, readiness and gate. `Progress` keeps that,
`Artifacts` says what each node can have reported of this case, `FirstVerdict` and
`SecondVerdict` what the critic can have concluded before and after the rework. The heart is
`CleanCase`: a case that is not clean has a node of its route that says so, whatever the
route. It is proved for every case, route and answer of models and retrieval, where
the run looks at cases with at most two facts against them. `Implementation` shows that
finalizing is the one step of `Verdict` and all others stutter.

**ModelCalls.** `CallsInv` says of every candidate that has been asked that it was asked in vain (`InVain`:
no fitting answer, and where a repetition could have helped, every repetition there is), and that
those still to be asked are the rest of the candidates in their order; that gives
`FallbackComesLast`. `TimeInv` says where the time can have gone under the settings of the composed system:
20 seconds for the reranker, 20 for each of at most two candidates and 20 for each drawn-out wait, because with
no retries nothing is waited for in between; three such waits make the 120 of the proxy. `HitsSurvive` rests on `FirstHits`: whatever the number of hits, and however
the reranker fails, those kept are hits of the search.

**LegalStructure.** The parser reads line by line and writes chunks root by root,
so the property about the chunks is far from what a step changes. Two arguments meet in the middle:

* *The units.* `ParserInv` says what the state means for the lines read so far. The mode is what the lines say
  (`ModeInv`); each unit was opened by the line it says, and each line that opens something
  opened one (`StartsInv`); the article and clause a unit was given, and the headings, are the last such lines
  above it (`FamilyInv`, `AboveInv`, `HeadingsInv`); its lines stand between its first and the
  next unit's (`LinesInv`); and the texts of the units, in the order they were opened, are the text read
  (`TextInv`). `Effects` puts every action down to one of four steps, and each conjunct has its
  lemma.
* *The trees.* `_flatten` walks the roots, their children and the children of these, three levels deep. A
  unit belongs to the last article before it, or to the last clause of that (`UnitsAreForest`); of every such
  forest `TreesInOrder` shows that the trees of the roots, one after another, are the units in their
  order. So `ChunksAre`: the chunks are the records of the units that have lines, in the order of
  the units. Text, pages and headings follow from that and from `ParserInv`, without the tree.

Both arguments are inductions on data: on the length of a list (`FlattenSeq` is a recursive function, of
which it has to be shown first that it exists) and on the number of units. The
library's induction theorems take the claim as an operator; here `Induction` says of a *set* of numbers that
it contains all of them if it contains 0 and with each number the next, and each proof
applies it to the set of numbers for which its claim holds.

**ReadinessRules.** A behaviour has two steps; the proof is about the arithmetic. `RoundingError` says that a rounded
metric is off by half a unit at most, `RoundingKeepsSides` that a figure on one side of
a multiple of the unit stays there, and one lemma per threshold puts them together. `ReadBackIs`
says what two normalisations make of a payload, one lemma per rule (`GapMet`,
`InflowMet`, `HistoryMet` ...) that the rule on the normalised case asks for what the bank asks for on
the posted one, and `ReadyIsMet` adds them up for both packs. `TheFactsAreFaithful` is what makes the
theorems of `AgentWorkflow` theorems about cases with amounts.

**ActionGovernance.** `IInv` keeps, for each program counter, what the request
established to get there: the action, user and key it loaded stay its own, and at
`commit` the connector's write under its key is of the kind of its action (`WrittenAs`).
That survives every step of the others because the connector never replaces a write, which
is why the crash between the two transactions of `approve` can leave a write without an
executed action and never the reverse. The check for a duplicate action is not what
makes a key execute one action, since two approvals may both pass it; the unique key of
`mock_external_actions` and of the execution does, and the proof uses those. With one
worker, `AloneInv` adds that what a request has read is still so when it comes back: its action is
undecided, nobody else has its key, and without a crash the action of every write is decided
or about to be (`WriteIsDecided`).

**WorkflowRegistry.** `PublishInv` says that a request that publishes has
picked the latest version, that the version it validated is the one it picked, and
that it is sound when the request goes on to publish. With one worker nothing is
created between the two reads; with two, `registry_unsound` shows the first
conjunct lost.

**Evidence.** `IInv` says that a claim made by the process that is up quotes
what the process has read (`ClaimInv`), that a process that is not up has made no claims
yet (`MadeBefore`), and that a manifest is the one its own corpus and registry call
for. The last is why `Vouching` holds although files of two builds may lie side by
side: then the manifest does not describe them.

**Seeding.** The accounts need no agreement between processes: they are stored all at once or
not at all, and no process has seen more of them than there are (`AllOrNone`).
The cohort does. `RefreshInv` says what a refreshing script relies on at each of its steps:
that the runs it counted are all there are when it deletes them, and that between its commits nobody approves.
`SameData` and `Agreement` are the properties said of runs and requests too; they hold while
`config.quiet`, because then scripts and requests exclude each other.

### Assumptions

The proofs rest on the named assumptions on the constants and on nothing else; TLC
evaluates them in every run of the module. Most say that bounds are numbers and that `None`
is not one of the things it stands in for. The others:

* `LadderIsStaffed` of `LoanApproval` (every role has an active user), which `SomebodyCanAct`
  needs: `seed_roles_and_users` provides it, nothing in the backend disables a user, and
  `TheLadderIsStaffed` proves of `Seeding` that no race or crash lets anybody log in to
  half a ladder.
* `UnitHoldsThresholds` of `ReadinessRules`: the thresholds are multiples of the rounding unit,
  as 0.1, 0.6 and 1.5 are of 0.000001. `PayloadsArePayloads`: amounts are natural
  numbers, as the request's model demands. `CodesAreCodes`: the canonical name of a
  document is a name of a document.
* `ConfigsAreConfigs` of `ModelCalls`: timeouts are whole seconds and retries are counted, as in
  `docker-compose.yml` and in `ProviderConfig`'s own values.
* `ServerIsNoScript` of `Seeding`: the server's start and `app.seed` are different processes.

`Typing` of `LoanApproval`, `AgentWorkflow`, `ActionGovernance`, `WorkflowRegistry` and `Evidence`, `ParserTypeIsKept`,
`Assignment` and `WritesStay` are proved only: no run repeats what the proof says for every instance.

### Checked by TLC only

Liveness. `RunEndsUnlessLost` and `EventuallyServing` rest on fairness, and with it on what is
enabled, which TLAPS does not reason about. Section 3 says on which instances they hold.

## 5. Not modelled

* Sessions: login inserts a row, logout stamps it, every request compares it with the
  clock; no step depends on what another one did.
* The mock bank's tools, evaluation and the LangGraph adapter: pure lookups, or unused by
  the backend.
* Projections of stored rows for the screens, and the screens' own state.
* `_mock_case`, the generator of the cohort's figures, and the migration of old chunks, which
  only adds tags.
* The wording of laws: the regular expressions of the parser are the kinds of lines.
* Scores, tags and the vector index of the retrieval; duplicate ids and hashes in the
  normalized corpus, which stop every load and build; the embedding endpoint.
* Metrics no rule looks at, beyond whether they can be computed.

## 6. Plan

The components that carry logic are modelled, and their safety properties are proved. What is left:

1. Shorter proofs: lemmas shared by the modules whose requests load, decide and store.
2. The lemmas on `FlattenSeq`, `Keep` and trees in a module of their own, once something other than
   the parser needs them.
