------------------------------ MODULE Evidence ------------------------------
(***************************************************************************)
(* The evidence agents cite (agent/src/nexusops_agent/rag): people keep a  *)
(* normalized corpus and a registry of documents; a script sorts the       *)
(* corpus by both into three files and a manifest, file by file; a process *)
(* of the agent reads a corpus once, retrieves from it and validates what  *)
(* was cited, also what an earlier process of a stepwise run has cited.    *)
(* Edits do not overlap the script's own reads, which come first.  What a  *)
(* query finds, and in which order a reranker puts it, is left open: a     *)
(* retrieval returns any of the chunks it may return.                      *)
(***************************************************************************)
EXTENDS Naturals, FiniteSets

CONSTANTS
    Chunk,       \* chunk ids
    Document,    \* document ids
    DocumentOf,  \* the document a chunk belongs to
    Text,        \* wordings of the part of a chunk that is quoted
    Shape,       \* the chunks people write
    Listing,     \* the registry entries people write
    MaxEdits,    \* bound: edits of the corpus and the registry
    MaxRestarts, \* bound: restarts of the agent's process
    None

VARIABLES
    source,    \* the normalized corpus, by chunk id
    registry,  \* document_registry.json, by document id
    files,     \* accepted.jsonl, quarantine.jsonl, rejected.jsonl
    manifest,  \* manifest.json; a hash is the value it is the hash of
    builder,   \* the script: the file it writes next, and what it has read
    proc,      \* the agent's process: its corpus, what it has read of it
    cited,     \* the claims of an agent in a workflow's state
    edits, restarts

vars == <<source, registry, files, manifest, builder, proc, cited, edits, restarts>>

Domain == {"COMPLIANCE_AML", "LENDING_REGULATION", "OTHER"}

EvidenceChunk ==
    [quality : {"ACCEPTED", "REVIEW_REQUIRED", "DEMO_ONLY", "REJECTED"}, domain : Domain,
     synthetic : BOOLEAN, disclaimer : BOOLEAN, active : BOOLEAN, intact : BOOLEAN,
     numbered : BOOLEAN, text : Text]

\* PENDING stands for the three statuses of a document still under review.
Entry ==
    [verification : {"VERIFIED", "DEMO_ONLY", "PENDING", "REJECTED"}, official : BOOLEAN,
     url : BOOLEAN, hash : BOOLEAN, active : BOOLEAN, domain : Domain]

Corpus == [Chunk -> EvidenceChunk \cup {None}]
Registry == [Document -> Entry \cup {None}]
Bucket == {"accepted", "quarantine", "rejected"}

ASSUME DocumentsAreKnown == DocumentOf \in [Chunk -> Document]
ASSUME ShapesAreChunks == Shape \subseteq EvidenceChunk
ASSUME ListingsAreEntries == Listing \subseteq Entry
ASSUME NoneIsNothing == None \notin EvidenceChunk \cup Entry \cup Corpus \cup Registry
ASSUME BoundsAreNaturals == MaxEdits \in Nat /\ MaxRestarts \in Nat

-----------------------------------------------------------------------------
(***************************************************************************)
(* The gates.                                                              *)
(***************************************************************************)
IsVerifiedForSearch(e) ==
    \/ e.verification = "DEMO_ONLY"
    \/ e.verification = "VERIFIED" /\ e.url /\ e.hash /\ e.active

\* Mutant: demo material is accepted whatever its document is.
BucketOfDemo(k, e) ==
    IF k.quality = "DEMO_ONLY" THEN "accepted"
    ELSE IF e # None /\ k.quality = "ACCEPTED" /\ IsVerifiedForSearch(e) THEN "accepted"
    ELSE "quarantine"

\* CorpusBuilder.bucket_for, for a chunk and its document's entry.
BucketFor(k, e) ==
    IF k.quality = "REJECTED" \/ (e # None /\ e.verification = "REJECTED") THEN "rejected"
    ELSE IF \/ e = None
            \/ k.quality = "REVIEW_REQUIRED"
            \/ (k.quality = "DEMO_ONLY" /\ e.verification # "DEMO_ONLY")
            \/ ~IsVerifiedForSearch(e)
         THEN "quarantine"
    ELSE "accepted"

\* LegalCorpusQualityGate.audit: whether it finds an error, ...
ChunkError(k, e) == e = None \/ ~k.numbered \/ k.domain # e.domain
EntryError(e) ==
    \/ e.verification \notin {"VERIFIED", "DEMO_ONLY"}
    \/ e.official /\ ~(e.url /\ e.hash /\ e.active)

ReadyForBuild ==
    /\ \A c \in Chunk : source[c] # None => ~ChunkError(source[c], registry[DocumentOf[c]])
    /\ \A d \in Document : registry[d] # None => ~EntryError(registry[d])

\* ... and which chunks it counts as searchable.
AuditedSearchable(k, e) ==
    k.quality \in {"ACCEPTED", "DEMO_ONLY"} /\ e # None /\ IsVerifiedForSearch(e)

\* Mutant: where a chunk comes from is asked before what it is.
NamespaceByDomain(k) ==
    IF k.quality = "REJECTED" THEN "rejected_not_indexed"
    ELSE IF k.quality = "REVIEW_REQUIRED" THEN "quarantine_review_required"
    ELSE IF k.domain = "COMPLIANCE_AML" THEN "legal_aml"
    ELSE IF k.domain = "LENDING_REGULATION" THEN "legal_lending"
    ELSE "demo_internal_policy"

NamespaceFor(k) ==
    IF k.quality = "REJECTED" THEN "rejected_not_indexed"
    ELSE IF k.quality = "REVIEW_REQUIRED" THEN "quarantine_review_required"
    ELSE IF k.quality = "DEMO_ONLY" \/ k.synthetic THEN "demo_internal_policy"
    ELSE IF k.domain = "COMPLIANCE_AML" THEN "legal_aml"
    ELSE IF k.domain = "LENDING_REGULATION" THEN "legal_lending"
    ELSE "quarantine_review_required"

Agent == {"COMPLIANCE_AGENT", "PRODUCT_AGENT", "CREDIT_AGENT", "DATA_REVIEWER"}

PolicyFor(a, demo) ==
    CASE a = "COMPLIANCE_AGENT" -> {"legal_aml"}
      [] a = "DATA_REVIEWER"    -> {"quarantine_review_required"}
      [] OTHER -> {"legal_lending"} \cup IF demo THEN {"demo_internal_policy"} ELSE {}

\* A claim: the quote is what the chunk said to the process that made it.
Claim == [agent : Agent, chunk : Chunk, quote : Text, made : 0..MaxRestarts]

\* CitationValidator.validate against the chunk the process has, if any.
Status(cl, k) ==
    IF k = None THEN "ABSTAIN_NO_EVIDENCE"
    ELSE IF ~k.intact THEN "INVALID_HASH"
    ELSE IF k.text # cl.quote THEN "INVALID_QUOTE"
    ELSE IF k.quality = "REVIEW_REQUIRED" THEN "REVIEW_REQUIRED"
    ELSE IF k.quality = "DEMO_ONLY" \/ k.synthetic
         THEN IF k.disclaimer THEN "WARNING_DEMO_ONLY" ELSE "INVALID_AUTHORITY"
    ELSE IF ~k.active THEN "STALE_OR_UNVERIFIED"
    ELSE "VALID"
-----------------------------------------------------------------------------
Builder == [pc : {"idle", "manifest"} \cup Bucket,
            source : Corpus \cup {None}, registry : Registry \cup {None}]
Resting == [pc |-> "idle", source |-> None, registry |-> None]

Process == [pc : {"down", "reading", "up"}, corpus : {None, "normalized", "generated", "reviewing"},
            chunks : Corpus \cup {None}, demo : BOOLEAN]
Down == [pc |-> "down", corpus |-> None, chunks |-> None, demo |-> FALSE]

\* What a build of a corpus under a registry puts into a file.
Rendered(src, reg, b) ==
    [c \in Chunk |->
        IF src[c] # None /\ BucketFor(src[c], reg[DocumentOf[c]]) = b THEN src[c] ELSE None]

Manifest(src, reg) ==
    [source |-> src, registry |-> reg, output |-> [b \in Bucket |-> Rendered(src, reg, b)]]

Init ==
    /\ source \in [Chunk -> Shape \cup {None}]
    /\ registry \in [Document -> Listing \cup {None}]
    /\ files = [b \in Bucket |-> None]
    /\ manifest = None
    /\ builder = Resting
    /\ proc = Down
    /\ cited = {}
    /\ edits = 0 /\ restarts = 0

\* People write or remove a chunk or an entry.
EditSource(c, k) ==
    /\ edits < MaxEdits
    /\ edits' = edits + 1
    /\ source' = [source EXCEPT ![c] = k]
    /\ UNCHANGED <<registry, files, manifest, builder, proc, cited, restarts>>

EditRegistry(d, e) ==
    /\ edits < MaxEdits
    /\ edits' = edits + 1
    /\ registry' = [registry EXCEPT ![d] = e]
    /\ UNCHANGED <<source, files, manifest, builder, proc, cited, restarts>>

-----------------------------------------------------------------------------
(***************************************************************************)
(* build_gated_rag_corpus.py.                                              *)
(***************************************************************************)
\* The script reads its input and sorts it; CorpusBuilder.write then goes
\* from file to file.
Build ==
    /\ builder.pc = "idle"
    /\ builder' = [pc |-> "accepted", source |-> source, registry |-> registry]
    /\ UNCHANGED <<source, registry, files, manifest, proc, cited, edits, restarts>>

\* A file under way holds some of its lines.
WritePart(b, part) ==
    /\ builder.pc = b
    /\ files' = [files EXCEPT ![b] =
          [c \in Chunk |-> IF c \in part THEN Rendered(builder.source, builder.registry, b)[c]
                                         ELSE None]]
    /\ UNCHANGED <<source, registry, manifest, builder, proc, cited, edits, restarts>>

FileAfter(b) ==
    CASE b = "accepted" -> "quarantine" [] b = "quarantine" -> "rejected" [] OTHER -> "manifest"

WriteFile(b) ==
    /\ builder.pc = b
    /\ files' = [files EXCEPT ![b] = Rendered(builder.source, builder.registry, b)]
    /\ builder' = [builder EXCEPT !.pc = FileAfter(b)]
    /\ UNCHANGED <<source, registry, manifest, proc, cited, edits, restarts>>

\* Mutant: the registry's hash is taken when the manifest is written.
WriteManifestLate ==
    /\ builder.pc = "manifest"
    /\ manifest' = [Manifest(builder.source, builder.registry) EXCEPT !.registry = registry]
    /\ builder' = Resting
    /\ UNCHANGED <<source, registry, files, proc, cited, edits, restarts>>

WriteManifest ==
    /\ builder.pc = "manifest"
    /\ manifest' = Manifest(builder.source, builder.registry)
    /\ builder' = Resting
    /\ UNCHANGED <<source, registry, files, proc, cited, edits, restarts>>

\* The script dies; a manifest cut short is not JSON.
BuildDies ==
    /\ builder.pc # "idle"
    /\ builder' = Resting
    /\ manifest' \in {manifest} \cup IF builder.pc = "manifest" THEN {None} ELSE {}
    /\ UNCHANGED <<source, registry, files, proc, cited, edits, restarts>>

-----------------------------------------------------------------------------
(***************************************************************************)
(* A process of the agent.                                                 *)
(***************************************************************************)
\* WorkflowRunner.__init__ has RagCorpus read its one file, or the first of
\* its two, and keep what it has read.
StartOn(corpus, chunks, demo) ==
    proc' = [pc |-> IF corpus = "reviewing" THEN "reading" ELSE "up",
             corpus |-> corpus, chunks |-> chunks, demo |-> demo]

Start(corpus, demo) ==
    /\ proc.pc = "down"
    /\ corpus # "normalized" => files["accepted"] # None
    /\ StartOn(corpus, IF corpus = "normalized" THEN source ELSE files["accepted"], demo)
    /\ UNCHANGED <<source, registry, files, manifest, builder, cited, edits, restarts>>

\* from_generated(include_quarantine=True): the second file is read; one that
\* is not there, or holds an id the first one holds, ends the process.
ReadQuarantine ==
    LET more == files["quarantine"] IN
    /\ proc.pc = "reading"
    /\ proc' = IF more = None \/ \E c \in Chunk : proc.chunks[c] # None /\ more[c] # None
               THEN Down
               ELSE [pc |-> "up", corpus |-> proc.corpus, demo |-> proc.demo,
                     chunks |-> [c \in Chunk |->
                                    IF more[c] # None THEN more[c] ELSE proc.chunks[c]]]
    /\ UNCHANGED <<source, registry, files, manifest, builder, cited, edits, restarts>>

Restart ==
    /\ proc.pc = "up"
    /\ restarts < MaxRestarts
    /\ restarts' = restarts + 1
    /\ proc' = Down
    /\ UNCHANGED <<source, registry, files, manifest, builder, cited, edits>>

\* What RetrievalPipeline.retrieve may return to an agent.
Candidates(a, chunks) ==
    {c \in Chunk : chunks[c] # None /\ NamespaceFor(chunks[c]) \in PolicyFor(a, proc.demo)}

CiteFrom(a, found, chunks) ==
    cited' = {[agent |-> a, chunk |-> c, quote |-> chunks[c].text, made |-> restarts] : c \in found}

\* Mutant: the corpus is read again for each retrieval.
RetrieveAfresh(a, found) ==
    /\ proc.pc = "up"
    /\ LET chunks == IF proc.corpus = "normalized" THEN source ELSE files["accepted"] IN
       found \subseteq Candidates(a, chunks) /\ CiteFrom(a, found, chunks)
    /\ UNCHANGED <<source, registry, files, manifest, builder, proc, edits, restarts>>

\* An agent retrieves and claims what it has found; a reranker returns some of
\* the candidates, by their position.
Retrieve(a, found) ==
    /\ proc.pc = "up"
    /\ found \subseteq Candidates(a, proc.chunks)
    /\ CiteFrom(a, found, proc.chunks)
    /\ UNCHANGED <<source, registry, files, manifest, builder, proc, edits, restarts>>

Next ==
    \/ \E c \in Chunk, k \in Shape \cup {None} : EditSource(c, k)
    \/ \E d \in Document, e \in Listing \cup {None} : EditRegistry(d, e)
    \/ Build
    \/ \E b \in Bucket : WriteFile(b) \/ \E part \in SUBSET Chunk : WritePart(b, part)
    \/ WriteManifest \/ BuildDies
    \/ \E corpus \in {"normalized", "generated", "reviewing"}, demo \in BOOLEAN : Start(corpus, demo)
    \/ ReadQuarantine \/ Restart
    \/ \E a \in Agent, found \in SUBSET Chunk : Retrieve(a, found)

Spec == Init /\ [][Next]_vars

-----------------------------------------------------------------------------
(***************************************************************************)
(* Properties.                                                             *)
(***************************************************************************)
\* Corpora, files, the manifest and the claims have the fields the code gives
\* them, and a process that is up has a corpus.
TypeOK ==
    /\ source \in Corpus /\ registry \in Registry
    /\ files \in [Bucket -> Corpus \cup {None}]
    /\ manifest \in [source : Corpus, registry : Registry, output : [Bucket -> Corpus]] \cup {None}
    /\ builder \in Builder
    /\ builder.pc # "idle" => builder.source # None /\ builder.registry # None
    /\ proc \in Process
    /\ proc.pc # "down" => proc.chunks # None
    /\ cited \subseteq Claim
    /\ edits \in 0..MaxEdits /\ restarts \in 0..MaxRestarts

\* The claims this process has made.
Own == {cl \in cited : proc.pc = "up" /\ cl.made = restarts}

\* PHASE_2_REVIEW.md: an agent finds only what its work allows, in whichever
\* corpus its process runs on.  Law is never synthetic or under review, demo
\* policy is found in demo mode only, and nothing rejected is ever found.
AgentsKeepToTheirMaterial ==
    \A cl \in Own :
        LET k == proc.chunks[cl.chunk]
            law == k.quality = "ACCEPTED" /\ ~k.synthetic
            demo == k.quality = "DEMO_ONLY" \/ k.synthetic
        IN /\ k.quality # "REJECTED"
           /\ cl.agent # "DATA_REVIEWER" => k.quality # "REVIEW_REQUIRED"
           /\ cl.agent = "COMPLIANCE_AGENT" => law /\ k.domain = "COMPLIANCE_AML"
           /\ cl.agent \in {"PRODUCT_AGENT", "CREDIT_AGENT"} =>
                 \/ law /\ k.domain = "LENDING_REGULATION"
                 \/ demo /\ proc.demo

\* A process never finds its own claims missing or misquoted, whatever people
\* and the script do to the files between its retrieval and its validation.
CitationsHoldInTheirProcess ==
    \A cl \in Own :
        Status(cl, proc.chunks[cl.chunk]) \notin {"ABSTAIN_NO_EVIDENCE", "INVALID_QUOTE"}

\* The manifest describes the files and the corpus and registry of today.
ManifestHolds ==
    /\ manifest # None
    /\ manifest.source = source /\ manifest.registry = registry
    /\ \A b \in Bucket : manifest.output[b] = files[b]

\* RAG_REMEDIATION_PHASES.md, phase 3: where the manifest holds and the process
\* runs on the accepted file, a citation that passes, be it made by an earlier
\* process from another corpus, is of a document the registry lets be searched.
\* No crash, torn file or edit gets around it.
PassingCitationsAreVouchedFor ==
    ManifestHolds /\ proc.pc = "up" /\ proc.chunks = files["accepted"] =>
        \A cl \in cited :
            Status(cl, proc.chunks[cl.chunk]) \in {"VALID", "WARNING_DEMO_ONLY"} =>
                LET e == registry[DocumentOf[cl.chunk]] IN e # None /\ IsVerifiedForSearch(e)

\* The audit and the build, which decide by conditions of their own, agree:
\* the build accepts only what the audit counts as searchable, and of a corpus
\* without errors every accepted chunk of an official document.
AuditAgreesWithBuild ==
    \A c \in Chunk :
        LET k == source[c]
            e == registry[DocumentOf[c]]
        IN k # None =>
            /\ BucketFor(k, e) = "accepted" => AuditedSearchable(k, e)
            /\ ReadyForBuild /\ e.official /\ k.quality = "ACCEPTED" => BucketFor(k, e) = "accepted"
=============================================================================
