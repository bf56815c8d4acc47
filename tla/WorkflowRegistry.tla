-------------------------- MODULE WorkflowRegistry --------------------------
(***************************************************************************)
(* The versions of one workflow template: WorkflowRegistryService of       *)
(* backend/app/v3_services.py.  Every request first inserts the templates  *)
(* that ship with the agent, then creates, validates or publishes.         *)
(* Publish reads the latest version twice, once to publish it and once to  *)
(* validate it.  Every database round trip is one action.                  *)
(***************************************************************************)
EXTENDS Naturals, Sequences, FiniteSets

CONSTANTS
    Version,     \* the version numbers of the template
    Shipped,     \* the one in the agent's configs directory
    Definition,  \* the product and nodes of templates
    ShippedDefinition,
    Handler,     \* the worker threads
    None

ASSUME ShippedIsAVersion == Shipped \in Version /\ None \notin Version
ASSUME DefinitionsHaveNodes ==
    /\ ShippedDefinition \in Definition
    /\ \A d \in Definition : Len(d.nodes) >= 1

VARIABLES
    workers,   \* the worker threads of this deployment, fixed
    template,  \* workflow_templates
    made,      \* its versions in the order of created_at
    req        \* the request each handler is serving

vars == <<workers, template, made, req>>

MandatoryTail ==
    <<"MANDATORY_CRITIC", "CITATION_VALIDATOR", "READINESS_RULE_ENGINE", "POLICY_GATE">>

Nodes(d) == {d.nodes[i] : i \in DOMAIN d.nodes}

EndsInTail(d) ==
    /\ Len(d.nodes) >= 4
    /\ SubSeq(d.nodes, Len(d.nodes) - 3, Len(d.nodes)) = MandatoryTail

\* validate_workflow_payload finds no error.
Sound(d) ==
    /\ Cardinality(Nodes(d)) = Len(d.nodes)
    /\ EndsInTail(d)
    /\ {"EXISTING_CUSTOMER_GATE", "PRODUCT_AGENT", "DOCUMENT_COMPLETENESS"} \subseteq Nodes(d)
    /\ d.product = "CORPORATE_OVERDRAFT" => "ACCOUNT_TURNOVER" \in Nodes(d)
    /\ d.product = "WORKING_CAPITAL" =>
          {"FINANCIAL_METRICS", "TAX_CONSISTENCY", "CREDIT_AGENT"} \subseteq Nodes(d)

Row == [status : {"ABSENT", "DRAFT", "PUBLISHED"}, definition : Definition \cup {None}, errors : BOOLEAN]

Absent == [status |-> "ABSENT", definition |-> None, errors |-> FALSE]

Request == [pc : {"idle", "seed", "create", "insert", "pick", "validate", "store", "publish"},
            op : {"LIST", "CREATE", "VALIDATE", "PUBLISH"},
            version : Version \cup {None},   \* the one to create or to publish
            checked : Version \cup {None},   \* the one validate has read
            definition : Definition \cup {None}]

Idle == [pc |-> "idle", op |-> "LIST", version |-> None, checked |-> None, definition |-> None]

Init ==
    /\ workers \in (SUBSET Handler) \ {{}}
    /\ template = [v \in Version |-> Absent]
    /\ made = <<>>
    /\ req = [h \in Handler |-> Idle]

Become(h, new) == req' = [req EXCEPT ![h] = new]

\* _latest: order_by(created_at.desc()).limit(1).  created_at is the time of
\* the flush; the commits that follow are taken not to overtake each other.
Latest == IF made = <<>> THEN None ELSE made[Len(made)]

Put(v, d, status) ==
    /\ template' = [template EXCEPT ![v] =
                      [status |-> status, definition |-> d, errors |-> ~Sound(d)]]
    /\ made' = Append(made, v)
    /\ UNCHANGED workers

\* What a request does once the shipped template is there.
Continue(r) ==
    CASE r.op = "LIST" -> Idle
      [] r.op = "CREATE" -> [r EXCEPT !.pc = "create"]
      [] r.op = "VALIDATE" -> [r EXCEPT !.pc = "validate"]
      [] r.op = "PUBLISH" -> [r EXCEPT !.pc = "pick"]

-----------------------------------------------------------------------------
\* The service's constructor looks for the shipped template.
Begin(h, op, v, d) ==
    LET r == [Idle EXCEPT !.op = op, !.version = v, !.definition = d] IN
    /\ req[h].pc = "idle"
    /\ Become(h, IF template[Shipped].status = "ABSENT" THEN [r EXCEPT !.pc = "seed"] ELSE Continue(r))
    /\ UNCHANGED <<workers, template, made>>

Seed(h) ==
    /\ req[h].pc = "seed"
    /\ template[Shipped].status = "ABSENT"
    /\ Put(Shipped, ShippedDefinition, IF Sound(ShippedDefinition) THEN "PUBLISHED" ELSE "DRAFT")
    /\ Become(h, Continue(req[h]))

\* Another request inserted the same record_id first: the request fails.
SeedCollides(h) ==
    /\ req[h].pc = "seed"
    /\ template[Shipped].status # "ABSENT"
    /\ Become(h, Idle)
    /\ UNCHANGED <<workers, template, made>>

\* create: WORKFLOW_VERSION_EXISTS or on to the insert.
CheckVersion(h) ==
    /\ req[h].pc = "create"
    /\ IF template[req[h].version].status # "ABSENT"
       THEN Become(h, Idle)
       ELSE Become(h, [req[h] EXCEPT !.pc = "insert"])
    /\ UNCHANGED <<workers, template, made>>

\* Mutant: merge instead of add.
InsertOver(h) ==
    /\ req[h].pc = "insert"
    /\ Put(req[h].version, req[h].definition, "DRAFT")
    /\ Become(h, Idle)

Insert(h) ==
    /\ req[h].pc = "insert"
    /\ template[req[h].version].status = "ABSENT"
    /\ Put(req[h].version, req[h].definition, "DRAFT")
    /\ Become(h, Idle)

InsertCollides(h) ==
    /\ req[h].pc = "insert"
    /\ template[req[h].version].status # "ABSENT"
    /\ Become(h, Idle)
    /\ UNCHANGED <<workers, template, made>>

\* publish reads the latest version, the one it is going to publish.
Pick(h) ==
    /\ req[h].pc = "pick"
    /\ Become(h, [req[h] EXCEPT !.pc = "validate", !.version = Latest])
    /\ UNCHANGED <<workers, template, made>>

\* validate reads the latest version, the one it is going to validate.
ReadLatest(h) ==
    /\ req[h].pc = "validate"
    /\ Become(h, [req[h] EXCEPT !.pc = "store", !.checked = Latest])
    /\ UNCHANGED <<workers, template, made>>

\* Mutant: publish does not look at what validate returned.
StoreIgnored(h) ==
    LET v == req[h].checked IN
    /\ req[h].pc = "store"
    /\ template' = [template EXCEPT ![v].errors = ~Sound(template[v].definition)]
    /\ Become(h, IF req[h].op = "PUBLISH" THEN [req[h] EXCEPT !.pc = "publish"] ELSE Idle)
    /\ UNCHANGED <<workers, made>>

\* validate stores the errors; publish goes on if there are none.
Store(h) ==
    LET v == req[h].checked IN
    /\ req[h].pc = "store"
    /\ template' = [template EXCEPT ![v].errors = ~Sound(template[v].definition)]
    /\ Become(h, IF req[h].op = "PUBLISH" /\ Sound(template[v].definition)
                 THEN [req[h] EXCEPT !.pc = "publish"] ELSE Idle)
    /\ UNCHANGED <<workers, made>>

Publish(h) ==
    /\ req[h].pc = "publish"
    /\ template' = [template EXCEPT ![req[h].version].status = "PUBLISHED"]
    /\ Become(h, Idle)
    /\ UNCHANGED <<workers, made>>

\* The worker or its connection dies: what is committed stays.
Abort(h) ==
    /\ req[h].pc # "idle"
    /\ Become(h, Idle)
    /\ UNCHANGED <<workers, template, made>>

Next ==
    \E h \in workers :
        \/ \E op \in {"LIST", "VALIDATE", "PUBLISH"} : Begin(h, op, None, None)
        \/ \E v \in Version, d \in Definition : Begin(h, "CREATE", v, d)
        \/ Seed(h) \/ SeedCollides(h)
        \/ CheckVersion(h) \/ Insert(h) \/ InsertCollides(h)
        \/ Pick(h) \/ ReadLatest(h) \/ Store(h) \/ Publish(h)
        \/ Abort(h)

Spec == Init /\ [][Next]_vars
-----------------------------------------------------------------------------
(***************************************************************************)
(* Properties.                                                             *)
(***************************************************************************)
\* Rows and requests have the columns and fields the code gives them.
TypeOK ==
    /\ workers \subseteq Handler
    /\ template \in [Version -> Row]
    /\ made \in Seq(Version)
    /\ req \in [Handler -> Request]

\* A version that exists keeps its definition, and a published one stays
\* published, however requests to create, validate and publish overlap.
VersionsAreImmutable ==
    [][\A v \in Version : template[v].status # "ABSENT" =>
          /\ template'[v].definition = template[v].definition
          /\ template[v].status = "PUBLISHED" => template'[v].status = "PUBLISHED"]_vars

\* agent/docs/BA_AGENT_PHASE_PLAN.md, "Workflow publish thiếu Critic/Citation
\* Validator/Policy Gate bị reject": no published template lacks the critic,
\* the citation validator or the policy gate, or any other required node.
PublishedIsSound ==
    \A v \in Version : template[v].status = "PUBLISHED" => Sound(template[v].definition)

\* One worker serves one request after the other.
Alone == \A g, h \in workers : g = h

\* The same, if requests do not overlap: what is published has been validated.
PublishedOneByOneIsSound == Alone => PublishedIsSound
=============================================================================
