------------------------------ MODULE ModelCalls ------------------------------
(***************************************************************************)
(* The calls a stepwise request makes to the model provider while it runs  *)
(* the node of an agent.  The request for the last node asks nothing of    *)
(* its own but may run the critic again; a whole run makes the calls of    *)
(* all agents one after the other.                                         *)
(*                                                                         *)
(* Modelled are FptAiFactoryClient and its retries (agent/providers/       *)
(* fpt_factory.py), the structured reasoner and its candidate models       *)
(* (agent/providers/structured.py, agent/orchestration/model_router.py),   *)
(* the reranker that fails open (agent/rag/pipeline.py, agent/rag/         *)
(* reranker.py) and the agents' fallback (agent/agents), behind a proxy    *)
(* that gives up waiting (frontend/nginx.conf).                            *)
(*                                                                         *)
(* Time is counted in seconds spent on the provider.  urlopen's timeout    *)
(* bounds each wait on the socket, not the attempt: a provider that sends  *)
(* something just before it runs out is waited for once more.              *)
(***************************************************************************)
EXTENDS Integers, Sequences, SequencesExt, FiniteSets, FiniteSetsExt

CONSTANTS
    Model, None,  \* the names of models, and no name
    Configs,      \* the settings the agent may be started with
    TopK,         \* how many hits an agent works with
    MaxFound,     \* bound: hits of the lexical search
    MaxWaits      \* bound: waits that do not end their attempt

ASSUME BoundsAreNumbers == TopK \in Nat \ {0} /\ MaxFound \in Nat /\ MaxWaits \in Nat

\* ProviderConfig: seconds and a count.
ASSUME ConfigsAreConfigs == Configs \subseteq [timeout : Nat, retries : Nat]

\* docker-compose.yml, and ProviderConfig's own values.
Compose == [timeout |-> 20, retries |-> 0]
Defaults == [timeout |-> 60, retries |-> 2]

\* proxy_read_timeout of nginx.
ProxyTimeout == 120

VARIABLES
    config,
    registry,  \* the role in model_registry.json and its environment variable
    stage,     \* of the request: agent, rerank, ready, chat, stored
    models,    \* the candidates still to be asked
    attempt,   \* attempts of the current call that have failed
    found,     \* how many hits the lexical search has
    hits,      \* those the agent works with, by their rank in the search
    reranked,  \* what became of the reranking
    tries,     \* the models asked and how each call ended
    model,     \* the model the artifact names
    waits,     \* waits that ended with a piece of an answer and not with an attempt
    clock

callVars == <<config, registry, stage, models, attempt, found, hits, reranked, tries, model, waits, clock>>

\* ModelRegistry.select and candidates: the variable goes before the primary
\* model, a model is asked once.
Candidates ==
    LET primary == IF registry.override # None THEN registry.override ELSE registry.primary
        Named(m) == IF m = None THEN <<>> ELSE <<m>>
    IN  Named(primary) \o (IF registry.fallback = primary THEN <<>> ELSE Named(registry.fallback))

FirstOf(n) == [i \in 1..Min({n, TopK}) |-> i]

Reset == models' = <<>> /\ attempt' = 0

CallsInit ==
    /\ config \in Configs
    /\ registry \in [override : Model \cup {None}, primary : Model \cup {None}, fallback : Model \cup {None}]
    /\ stage = "agent"
    /\ models = <<>> /\ attempt = 0
    /\ found = 0 /\ hits = <<>> /\ reranked = "NO"
    /\ tries = <<>> /\ model = None
    /\ waits = 0 /\ clock = 0

-----------------------------------------------------------------------------
(***************************************************************************)
(* FptAiFactoryClient._request.                                            *)
(***************************************************************************)
\* Errors it retries: HTTPError, URLError, TimeoutError, JSONDecodeError.
Retried == {"HTTP_ERROR", "TIMEOUT", "NOT_JSON"}

\* Errors it does not: an answer that is no object, and a connection lost
\* while the answer is awaited, which urlopen does not turn into a URLError.
Raised == {"NOT_OBJECT", "CONNECTION_LOST"}

\* How long the last wait of an attempt takes that ends so.
Lasts(outcome) == IF outcome = "TIMEOUT" THEN config.timeout ELSE 0

Asking == stage \in {"rerank", "chat"}

\* A connection, a header or a piece of the answer comes when the timeout has
\* almost run out, and the next wait begins.
Wait ==
    /\ Asking
    /\ waits < MaxWaits
    /\ waits' = waits + 1
    /\ clock' = clock + config.timeout
    /\ UNCHANGED <<config, registry, stage, models, attempt, found, hits, reranked, tries, model>>

\* Mutant: max_retries attempts after the first retry.
RetriesOneMore == attempt <= config.retries

MayRetry == attempt < config.retries

\* An attempt fails and is made again after min(2^attempt, 4) seconds.
Retry(outcome) ==
    /\ Asking /\ outcome \in Retried /\ MayRetry
    /\ clock' = clock + Lasts(outcome) + Min({2 ^ attempt, 4})
    /\ attempt' = attempt + 1
    /\ UNCHANGED <<config, registry, stage, models, found, hits, reranked, tries, model, waits>>

\* The call ends with an error.
Fails(outcome) ==
    /\ outcome \in Raised \cup Retried
    /\ outcome \in Retried => ~MayRetry
    /\ clock' = clock + Lasts(outcome)

-----------------------------------------------------------------------------
(***************************************************************************)
(* RetrievalPipeline.retrieve and FptReranker.rerank.                      *)
(***************************************************************************)
\* Product and compliance agent search.  Without hits the reranker answers
\* without a call.
Search(n) ==
    /\ stage = "agent"
    /\ found' = n
    /\ hits' = <<>>
    /\ stage' = IF n = 0 THEN "ready" ELSE "rerank"
    /\ reranked' = "NO"
    /\ UNCHANGED <<config, registry, models, attempt, tries, model, waits, clock>>

\* Credit agent and critic search for nothing.
NoSearch ==
    /\ stage = "agent"
    /\ stage' = "ready"
    /\ UNCHANGED <<config, registry, models, attempt, found, hits, reranked, tries, model, waits, clock>>

\* Mutant: without a reranking there are no hits.
RerankClosed(outcome) ==
    /\ stage = "rerank"
    /\ Fails(outcome)
    /\ hits' = <<>> /\ reranked' = "FAILED"
    /\ stage' = "ready" /\ Reset
    /\ UNCHANGED <<config, registry, found, tries, model, waits>>

\* reranker_fail_open: the order of the search stands.
RerankFails(outcome) ==
    /\ stage = "rerank"
    /\ Fails(outcome)
    /\ hits' = FirstOf(found) /\ reranked' = "FAILED"
    /\ stage' = "ready" /\ Reset
    /\ UNCHANGED <<config, registry, found, tries, model, waits>>

\* hits[index] of Python counts from 0, and from the end below 0.
At(i) == IF i < 0 THEN found + i + 1 ELSE i + 1

\* The provider answers with a list of indexes.  One that points nowhere is
\* an error, and so fails open too.
RerankAnswers(list) ==
    /\ stage = "rerank"
    /\ IF \A i \in DOMAIN list : At(list[i]) \in 1..found
       THEN /\ hits' = [i \in 1..Min({Len(list), TopK}) |-> At(list[i])]
            /\ reranked' = "ANSWERED"
       ELSE /\ hits' = FirstOf(found) /\ reranked' = "FAILED"
    /\ stage' = "ready" /\ Reset
    /\ UNCHANGED <<config, registry, found, tries, model, waits, clock>>

-----------------------------------------------------------------------------
(***************************************************************************)
(* FptStructuredReasoner.invoke and the agent that calls it.               *)
(***************************************************************************)
\* What the agent retrieved is in its prompt and is not looked at again.
Invoke ==
    /\ stage = "ready"
    /\ found' = 0 /\ hits' = <<>> /\ reranked' = "NO"
    /\ models' = Candidates
    /\ attempt' = 0
    /\ tries' = <<>> /\ model' = None
    /\ stage' = IF Candidates = <<>> THEN "stored" ELSE "chat"
    /\ UNCHANGED <<config, registry, waits, clock>>

\* The current model is done with; without another one the agent falls back
\* to what it has itself.
NextModel(outcome) ==
    /\ tries' = Append(tries, [model |-> Head(models), outcome |-> outcome, attempts |-> attempt + 1])
    /\ models' = Tail(models)
    /\ attempt' = 0
    /\ stage' = IF Tail(models) = <<>> THEN "stored" ELSE "chat"

\* Mutant: the agent falls back as soon as a call has failed.
FallBackAtOnce(outcome) ==
    /\ stage = "chat"
    /\ Fails(outcome)
    /\ tries' = Append(tries, [model |-> Head(models), outcome |-> outcome, attempts |-> attempt + 1])
    /\ stage' = "stored" /\ Reset
    /\ UNCHANGED <<config, registry, found, hits, reranked, model, waits>>

ChatFails(outcome) ==
    /\ stage = "chat"
    /\ Fails(outcome)
    /\ NextModel(outcome)
    /\ UNCHANGED <<config, registry, found, hits, reranked, model, waits>>

\* An object arrives, but it has no content or does not fit the schema: no
\* second attempt, the next model is asked.
ChatUnfit ==
    /\ stage = "chat"
    /\ NextModel("UNFIT")
    /\ UNCHANGED <<config, registry, found, hits, reranked, model, waits, clock>>

ChatAnswers ==
    /\ stage = "chat"
    /\ tries' = Append(tries, [model |-> Head(models), outcome |-> "FIT", attempts |-> attempt + 1])
    /\ model' = Head(models)
    /\ stage' = "stored" /\ Reset
    /\ UNCHANGED <<config, registry, found, hits, reranked, waits, clock>>

CallsNext ==
    \/ \E n \in 0..MaxFound : Search(n)
    \/ NoSearch
    \/ Invoke
    \/ Wait
    \/ \E outcome \in Retried : Retry(outcome)
    \/ \E outcome \in Retried \cup Raised : RerankFails(outcome) \/ ChatFails(outcome)
    \/ \E list \in SeqOf(-(MaxFound + 1)..MaxFound, MaxFound) : RerankAnswers(list)
    \/ ChatUnfit
    \/ ChatAnswers

CallsSpec == CallsInit /\ [][CallsNext]_callVars
-----------------------------------------------------------------------------
\* A stepwise request of the composed system is answered before the proxy
\* gives up on it, though reranker, primary and fallback model all run into
\* their timeouts and three more waits are drawn out to the last moment.  (A
\* fourth is too many, as a whole run may be, or ProviderConfig's own values.)
AnsweredInTime ==
    config = Compose /\ waits <= 3 => clock <= ProxyTimeout

\* An artifact that names no model comes after every candidate has failed,
\* each with all the attempts its errors allow; one that names a model comes
\* from the first candidate whose answer fits.
FallbackIsTheLastResort ==
    stage = "stored" =>
        /\ [i \in DOMAIN tries |-> tries[i].model] = IF model = None THEN Candidates
                                                     ELSE SubSeq(Candidates, 1, Len(tries))
        /\ \A i \in DOMAIN tries :
              /\ tries[i].outcome = "FIT" <=> i = Len(tries) /\ model # None
              /\ tries[i].outcome \in Retried => tries[i].attempts = config.retries + 1
              /\ tries[i].attempts <= config.retries + 1
        /\ model # None => Last(tries).model = model

\* Agents work with hits of the search and with no more than they ask for,
\* whatever indexes the reranker sends; hits are lost only if it answers
\* with an empty list, never by its failure.
EvidenceSurvives ==
    stage = "ready" =>
        /\ Range(hits) \subseteq 1..found
        /\ Len(hits) <= TopK
        /\ found > 0 /\ reranked = "FAILED" => hits # <<>>
=============================================================================
