--------------------------- MODULE EvidenceProofs ---------------------------
(***************************************************************************)
(* Proofs about the rag package: Evidence, the corpus and what agents cite *)
(* from it, and LegalStructure, the parser its chunks come from.           *)
(*                                                                         *)
(* Evidence, for any chunks, documents, wordings and numbers of edits and  *)
(* restarts.  The inductive invariant adds to the types what makes a claim *)
(* the work of one process (what the process read has not changed since),  *)
(* and that a manifest describes the build of its input.                   *)
(*                                                                         *)
(* LegalStructure, for a text of any number of lines and pages.  The       *)
(* chunks are put together root by root, the text is read line by line:    *)
(* the proof shows by induction on the units that the trees of units, one  *)
(* after the other, are the units in the order of the text, whose lines    *)
(* the inductive invariant knows.                                          *)
(***************************************************************************)
EXTENDS Evidence, LegalStructure, SequenceTheorems, WellFoundedInduction, NaturalsInduction,
        TLAPS

\* A claim of the process that is up says what the process has read.
ClaimInv(cl) ==
    LET k == proc.chunks[cl.chunk] IN
    /\ k # None
    /\ cl.quote = k.text
    /\ NamespaceFor(k) \in PolicyFor(cl.agent, proc.demo)

\* Claims are of this process or an earlier one, and a process that is not up
\* yet has made none.
MadeBefore(cl) == cl.made <= restarts /\ (proc.pc # "up" => cl.made # restarts)

IInv ==
    /\ TypeOK
    /\ \A cl \in cited : MadeBefore(cl)
    /\ \A cl \in Own : ClaimInv(cl)
    /\ manifest # None => manifest = Manifest(manifest.source, manifest.registry)

-----------------------------------------------------------------------------
LEMMA RenderedType ==
    ASSUME NEW src \in Corpus, NEW reg, NEW b
    PROVE  Rendered(src, reg, b) \in Corpus
BY DEF Rendered, Corpus

LEMMA ManifestType ==
    ASSUME NEW src \in Corpus, NEW reg \in Registry
    PROVE  /\ Manifest(src, reg) \in [source : Corpus, registry : Registry, output : [Bucket -> Corpus]]
           /\ Manifest(src, reg).source = src /\ Manifest(src, reg).registry = reg
           /\ \A b \in Bucket : Manifest(src, reg).output[b] = Rendered(src, reg, b)
BY RenderedType DEF Manifest

\* What is missing can be told from what is there.
LEMMA NoneIsNoCorpus == None \notin Corpus \cup Registry \cup EvidenceChunk
BY NoneIsNothing

LEMMA InitIInv == Init => IInv
<1> SUFFICES ASSUME Init PROVE IInv
  OBVIOUS
<1>1. source \in Corpus /\ registry \in Registry
  BY ShapesAreChunks, ListingsAreEntries DEF Init, Corpus, Registry
<1>2. Resting \in Builder /\ Down \in Process
  BY DEF Resting, Builder, Down, Process
<1>3. TypeOK
  BY <1>1, <1>2, BoundsAreNaturals DEF Init, TypeOK, Resting, Down
<1>4. QED
  BY <1>3 DEF Init, IInv, Own

(***************************************************************************)
(* A step that changes no process and no claim.                            *)
(***************************************************************************)
LEMMA ClaimsKept ==
    ASSUME IInv, UNCHANGED <<proc, cited, restarts>>
    PROVE  (\A cl \in cited : MadeBefore(cl))' /\ (\A cl \in Own : ClaimInv(cl))'
BY DEF IInv, MadeBefore, Own, ClaimInv

LEMMA StepIInv == IInv /\ [Next]_vars => IInv'
<1> SUFFICES ASSUME IInv, [Next]_vars PROVE IInv'
  OBVIOUS
<1> USE DEF IInv
<1>1. ASSUME NEW c \in Chunk, NEW k \in Shape \cup {None}, EditSource(c, k) PROVE IInv'
  <2>1. source' \in Corpus /\ edits' \in 0..MaxEdits
    BY <1>1, ShapesAreChunks, BoundsAreNaturals DEF EditSource, TypeOK, Corpus
  <2>2. TypeOK'
    BY <1>1, <2>1 DEF EditSource, TypeOK
  <2>3. QED
    BY <1>1, <2>2, ClaimsKept DEF EditSource
<1>2. ASSUME NEW d \in Document, NEW e \in Listing \cup {None}, EditRegistry(d, e) PROVE IInv'
  <2>1. registry' \in Registry /\ edits' \in 0..MaxEdits
    BY <1>2, ListingsAreEntries, BoundsAreNaturals DEF EditRegistry, TypeOK, Registry
  <2>2. TypeOK'
    BY <1>2, <2>1 DEF EditRegistry, TypeOK
  <2>3. QED
    BY <1>2, <2>2, ClaimsKept DEF EditRegistry
<1>3. CASE Build
  <2>1. builder' \in Builder /\ builder'.source # None /\ builder'.registry # None
    BY <1>3, NoneIsNoCorpus DEF Build, TypeOK, Builder, Bucket
  <2>2. TypeOK'
    BY <1>3, <2>1 DEF Build, TypeOK
  <2>3. QED
    BY <1>3, <2>2, ClaimsKept DEF Build
<1>4. ASSUME NEW b \in Bucket, WriteFile(b) PROVE IInv'
  <2>1. builder.pc # "idle" /\ builder \in Builder
    BY <1>4 DEF WriteFile, TypeOK, Bucket
  <2>2. builder.source \in Corpus /\ builder.registry \in Registry
    BY <2>1 DEF Builder, TypeOK
  <2>3. Rendered(builder.source, builder.registry, b) \in Corpus
    BY <2>2, RenderedType
  <2>4. files' \in [Bucket -> Corpus \cup {None}]
    BY <1>4, <2>3 DEF WriteFile, TypeOK
  <2>5. builder' \in Builder /\ builder'.source = builder.source /\ builder'.registry = builder.registry
    BY <1>4, <2>1 DEF WriteFile, FileAfter, Builder, Bucket
  <2>6. TypeOK'
    BY <1>4, <2>1, <2>4, <2>5 DEF WriteFile, TypeOK
  <2>7. QED
    BY <1>4, <2>6, ClaimsKept DEF WriteFile
<1>5. ASSUME NEW b \in Bucket, NEW written \in SUBSET Chunk, WritePart(b, written) PROVE IInv'
  <2> DEFINE all == Rendered(builder.source, builder.registry, b)
             some == [c \in Chunk |-> IF c \in written THEN all[c] ELSE None]
  <2>1. builder.source \in Corpus
    BY <1>5 DEF WritePart, TypeOK, Builder, Bucket
  <2>2. all \in Corpus
    BY <2>1, RenderedType
  <2>3. some \in Corpus
    BY <2>2 DEF Corpus
  <2>4. files' \in [Bucket -> Corpus \cup {None}]
    BY <1>5, <2>3 DEF WritePart, TypeOK
  <2>5. TypeOK'
    BY <1>5, <2>4 DEF WritePart, TypeOK
  <2>6. QED
    BY <1>5, <2>5, ClaimsKept DEF WritePart
<1>6. CASE WriteManifest
  <2>1. builder.source \in Corpus /\ builder.registry \in Registry
    BY <1>6 DEF WriteManifest, TypeOK, Builder
  <2>2. manifest' = Manifest(manifest'.source, manifest'.registry)
    BY <1>6, <2>1, ManifestType DEF WriteManifest
  <2>3. TypeOK'
    BY <1>6, <2>1, ManifestType DEF WriteManifest, TypeOK, Resting, Builder
  <2>4. QED
    BY <1>6, <2>2, <2>3, ClaimsKept DEF WriteManifest
<1>7. CASE BuildDies
  <2>1. TypeOK'
    BY <1>7 DEF BuildDies, TypeOK, Resting, Builder
  <2>2. manifest' # None => manifest' = manifest
    BY <1>7 DEF BuildDies
  <2>3. QED
    BY <1>7, <2>1, <2>2, ClaimsKept DEF BuildDies
<1>8. ASSUME NEW corpus \in {"normalized", "generated", "reviewing"}, NEW demo \in BOOLEAN,
             Start(corpus, demo)
      PROVE  IInv'
  <2> DEFINE chunks == IF corpus = "normalized" THEN source ELSE files["accepted"]
  <2>1. chunks \in Corpus
    BY <1>8 DEF Start, TypeOK, Bucket
  <2>2. proc' \in Process /\ proc'.chunks = chunks
    BY <1>8, <2>1 DEF Start, StartOn, Process
  <2>3. TypeOK'
    BY <1>8, <2>1, <2>2, NoneIsNoCorpus DEF Start, TypeOK
  <2>4. \A cl \in cited : cl.made <= restarts /\ cl.made # restarts
    BY <1>8 DEF Start, MadeBefore
  <2>5. (\A cl \in cited : MadeBefore(cl))' /\ Own' = {}
    BY <1>8, <2>4 DEF Start, MadeBefore, Own
  <2>6. QED
    BY <1>8, <2>3, <2>5 DEF Start
<1>9. CASE ReadQuarantine
  <2> DEFINE more == files["quarantine"]
             both == [c \in Chunk |-> IF more[c] # None THEN more[c] ELSE proc.chunks[c]]
  <2>1. proc \in Process /\ proc.chunks \in Corpus /\ proc.pc = "reading"
    BY <1>9 DEF ReadQuarantine, TypeOK, Process
  <2>2. proc' = Down \/ (/\ more # None
                             /\ proc' = [pc |-> "up", corpus |-> proc.corpus,
                                         demo |-> proc.demo, chunks |-> both])
    BY <1>9, <2>1 DEF ReadQuarantine, Process
  <2>3. more # None => both \in Corpus
    BY <2>1 DEF TypeOK, Bucket, Corpus
  <2> HIDE DEF both
  <2>4. proc' \in Process /\ (proc'.pc # "down" => proc'.chunks # None)
    <3>1. CASE proc' = Down
      BY <3>1 DEF Process, Down
    <3>2. CASE proc' # Down
      <4>1. proc'.pc = "up" /\ proc'.chunks = both /\ both \in Corpus
        BY <2>2, <2>3, <3>2
      <4>2. proc' \in Process
        BY <2>1, <2>2, <3>2, <4>1 DEF Process
      <4>3. QED
        BY <4>1, <4>2, NoneIsNoCorpus
    <3>3. QED
      BY <3>1, <3>2
  <2>5. TypeOK'
    BY <1>9, <2>4 DEF ReadQuarantine, TypeOK
  <2>6. \A cl \in cited : cl.made <= restarts /\ cl.made # restarts
    BY <2>1 DEF MadeBefore
  <2>7. (\A cl \in cited : MadeBefore(cl))' /\ Own' = {}
    BY <1>9, <2>6 DEF ReadQuarantine, MadeBefore, Own
  <2>8. QED
    BY <1>9, <2>5, <2>7 DEF ReadQuarantine
<1>10. CASE Restart
  <2>1. TypeOK'
    BY <1>10, BoundsAreNaturals DEF Restart, TypeOK, Down, Process
  <2>2. ASSUME NEW cl \in cited PROVE cl.made <= restarts' /\ cl.made # restarts'
    <3>1. cl.made \in Nat /\ restarts \in Nat /\ cl.made <= restarts
      BY BoundsAreNaturals DEF TypeOK, Claim, MadeBefore
    <3>2. QED
      BY <1>10, <3>1 DEF Restart
  <2>3. (\A cl \in cited : MadeBefore(cl))' /\ Own' = {}
    BY <1>10, <2>2 DEF Restart, MadeBefore, Own, Down
  <2>4. QED
    BY <1>10, <2>1, <2>3 DEF Restart
<1>11. ASSUME NEW a \in Agent, NEW found \in SUBSET Chunk, Retrieve(a, found) PROVE IInv'
  <2>1. proc.pc = "up" /\ proc.chunks \in Corpus /\ restarts \in 0..MaxRestarts
    BY <1>11 DEF Retrieve, TypeOK, Process
  <2>2. ASSUME NEW c \in found
        PROVE  /\ proc.chunks[c] \in EvidenceChunk
               /\ NamespaceFor(proc.chunks[c]) \in PolicyFor(a, proc.demo)
    BY <1>11, <2>1, <2>2 DEF Retrieve, Candidates, Corpus
  <2>3. ASSUME NEW cl \in cited'
        PROVE  /\ cl \in Claim /\ cl.made = restarts /\ cl.agent = a /\ cl.chunk \in found
               /\ cl.quote = proc.chunks[cl.chunk].text
    <3>1. PICK c \in found :
             cl = [agent |-> a, chunk |-> c, quote |-> proc.chunks[c].text, made |-> restarts]
      BY <1>11, <2>3 DEF Retrieve, CiteFrom
    <3>2. proc.chunks[c].text \in Text
      BY <2>2 DEF EvidenceChunk
    <3>3. QED
      BY <2>1, <3>1, <3>2 DEF Claim
  <2>4. TypeOK'
    BY <1>11, <2>3 DEF Retrieve, TypeOK
  <2>5. (\A cl \in cited : MadeBefore(cl))'
    BY <1>11, <2>1, <2>3, BoundsAreNaturals DEF Retrieve, MadeBefore
  <2>6. ASSUME NEW cl \in Own' PROVE ClaimInv(cl)'
    <3>1. cl \in cited' /\ proc' = proc
      BY <1>11, <2>6 DEF Own, Retrieve
    <3>2. proc.chunks[cl.chunk] # None
      BY <2>2, <2>3, <3>1, NoneIsNoCorpus
    <3>3. QED
      BY <2>2, <2>3, <3>1, <3>2 DEF ClaimInv
  <2>7. QED
    BY <1>11, <2>4, <2>5, <2>6 DEF Retrieve
<1>12. CASE UNCHANGED vars
  BY <1>12 DEF vars, TypeOK, MadeBefore, Own, ClaimInv
<1>13. QED
  BY <1>1, <1>2, <1>3, <1>4, <1>5, <1>6, <1>7, <1>8, <1>9, <1>10, <1>11, <1>12 DEF Next

LEMMA Invariance == Spec => []IInv
<1>1. IInv /\ [Next]_vars => IInv'
  BY StepIInv
<1>2. QED
  BY <1>1, InitIInv, PTL DEF Spec

-----------------------------------------------------------------------------
(***************************************************************************)
(* The theorems.                                                           *)
(***************************************************************************)
\* Corpora, files, manifest and claims keep the fields the code gives them.
THEOREM Typing == Spec => []TypeOK
<1>1. IInv => TypeOK
  BY DEF IInv
<1>2. QED
  BY <1>1, Invariance, PTL

\* An agent finds only what its policy allows, in whichever corpus.
THEOREM Material == Spec => []AgentsKeepToTheirMaterial
<1>1. IInv => AgentsKeepToTheirMaterial
  <2> SUFFICES ASSUME IInv, NEW cl \in Own
               PROVE  LET k == proc.chunks[cl.chunk]
                          law == k.quality = "ACCEPTED" /\ ~k.synthetic
                          demo == k.quality = "DEMO_ONLY" \/ k.synthetic
                      IN /\ k.quality # "REJECTED"
                         /\ cl.agent # "DATA_REVIEWER" => k.quality # "REVIEW_REQUIRED"
                         /\ cl.agent = "COMPLIANCE_AGENT" => law /\ k.domain = "COMPLIANCE_AML"
                         /\ cl.agent \in {"PRODUCT_AGENT", "CREDIT_AGENT"} =>
                               \/ law /\ k.domain = "LENDING_REGULATION"
                               \/ demo /\ proc.demo
    BY DEF AgentsKeepToTheirMaterial
  <2> DEFINE k == proc.chunks[cl.chunk]
  <2>1. cl.agent \in Agent /\ cl.chunk \in Chunk /\ proc.chunks \in Corpus
    BY DEF Own, IInv, TypeOK, Claim, Process
  <2>2. k \in EvidenceChunk /\ NamespaceFor(k) \in PolicyFor(cl.agent, proc.demo)
    BY <2>1 DEF IInv, ClaimInv, Corpus
  <2>3. QED
    BY <2>1, <2>2 DEF NamespaceFor, PolicyFor, Agent, EvidenceChunk
<1>2. QED
  BY <1>1, Invariance, PTL

\* A process never finds its own claims missing or misquoted.
THEOREM Citations == Spec => []CitationsHoldInTheirProcess
<1>1. IInv => CitationsHoldInTheirProcess
  <2> SUFFICES ASSUME IInv, NEW cl \in Own
               PROVE  Status(cl, proc.chunks[cl.chunk]) \notin
                         {"ABSTAIN_NO_EVIDENCE", "INVALID_QUOTE"}
    BY DEF CitationsHoldInTheirProcess
  <2>1. ClaimInv(cl)
    BY DEF IInv
  <2>2. QED
    BY <2>1 DEF ClaimInv, Status
<1>2. QED
  BY <1>1, Invariance, PTL

\* What the build accepts is of a document that may be searched.
LEMMA AcceptedIsSearchable ==
    ASSUME NEW k, NEW e, BucketFor(k, e) = "accepted"
    PROVE  e # None /\ IsVerifiedForSearch(e) /\ k.quality \notin {"REJECTED", "REVIEW_REQUIRED"}
BY DEF BucketFor

\* Where the manifest holds, what passes validation is of a document the
\* registry lets be searched, although files are written one by one.
THEOREM Vouching == Spec => []PassingCitationsAreVouchedFor
<1>1. IInv => PassingCitationsAreVouchedFor
  <2> SUFFICES ASSUME IInv, ManifestHolds, proc.chunks = files["accepted"], NEW cl \in cited,
                      Status(cl, proc.chunks[cl.chunk]) \in {"VALID", "WARNING_DEMO_ONLY"}
               PROVE  /\ registry[DocumentOf[cl.chunk]] # None
                      /\ IsVerifiedForSearch(registry[DocumentOf[cl.chunk]])
    BY DEF PassingCitationsAreVouchedFor
  <2>1. source \in Corpus /\ registry \in Registry /\ cl.chunk \in Chunk
    BY DEF IInv, TypeOK, Claim
  <2>2. files["accepted"] = Rendered(source, registry, "accepted")
    BY <2>1, ManifestType DEF IInv, ManifestHolds, Bucket
  <2>3. proc.chunks[cl.chunk] # None
    BY DEF Status
  <2>4. BucketFor(source[cl.chunk], registry[DocumentOf[cl.chunk]]) = "accepted"
    BY <2>1, <2>2, <2>3 DEF Rendered
  <2>5. QED
    BY <2>4, AcceptedIsSearchable
<1>2. QED
  BY <1>1, Invariance, PTL

\* The audit and the build agree on every corpus and registry.
THEOREM AuditAndBuild == Spec => []AuditAgreesWithBuild
<1>1. IInv => AuditAgreesWithBuild
  <2> SUFFICES ASSUME IInv, NEW c \in Chunk, source[c] # None
               PROVE  LET k == source[c]
                          e == registry[DocumentOf[c]]
                      IN /\ BucketFor(k, e) = "accepted" => AuditedSearchable(k, e)
                         /\ ReadyForBuild /\ e.official /\ k.quality = "ACCEPTED"
                               => BucketFor(k, e) = "accepted"
    BY DEF AuditAgreesWithBuild
  <2> DEFINE k == source[c]
             e == registry[DocumentOf[c]]
  <2>1. k \in EvidenceChunk /\ e \in Entry \cup {None} /\ DocumentOf[c] \in Document
    BY DocumentsAreKnown DEF IInv, TypeOK, Corpus, Registry
  <2>2. BucketFor(k, e) = "accepted" => AuditedSearchable(k, e)
    BY <2>1, AcceptedIsSearchable DEF AuditedSearchable, EvidenceChunk
  <2>3. ASSUME ReadyForBuild, e.official, k.quality = "ACCEPTED"
        PROVE  BucketFor(k, e) = "accepted"
    <3>1. e # None /\ ~EntryError(e)
      BY <2>1, <2>3 DEF ReadyForBuild, ChunkError
    <3>2. QED
      BY <2>3, <3>1 DEF EntryError, BucketFor, IsVerifiedForSearch
  <2>4. QED
    BY <2>2, <2>3
<1>2. QED
  BY <1>1, Invariance, PTL

-----------------------------------------------------------------------------
(***************************************************************************)
(* LegalStructure: sequences.  FlattenSeq is defined by a choice, so what  *)
(* it gives is shown first: appending to the list appends to what the list *)
(* flattens to.                                                            *)
(***************************************************************************)

LEMMA LeastNumber ==
    ASSUME NEW S \in SUBSET Nat, S # {}
    PROVE  \E m \in S : \A n \in S : m <= n
<1>1. IsWellFoundedOn(OpToRel(<, Nat), Nat)
  BY NatLessThanWellFounded
<1>2. PICK m \in S : \A n \in S : <<n, m>> \notin OpToRel(<, Nat)
  BY <1>1, WFMin
<1>3. \A n \in S : ~(n < m)
  BY <1>2 DEF OpToRel
<1>4. QED
  BY <1>3

LEMMA Induction ==
    ASSUME NEW S \in SUBSET Nat, 0 \in S, \A n \in S : n + 1 \in S
    PROVE  S = Nat
<1> SUFFICES ASSUME Nat \ S # {} PROVE FALSE
  OBVIOUS
<1>1. PICK m \in Nat \ S : \A n \in Nat \ S : m <= n
  BY LeastNumber
<1>2. m - 1 \in Nat /\ m - 1 \in S
  BY <1>1
<1>3. QED
  BY <1>1, <1>2

\* f is a flattening of s, as FlattenSeq computes it.
Flattens(f, s) ==
    f = [i \in 1..Len(s) |-> IF i = 1 THEN s[i] ELSE f[i - 1] \o s[i]]

\* f does so as far as the first n of s.
FlattensUpTo(f, s, n) ==
    \A i \in 1..n : f[i] = IF i = 1 THEN s[i] ELSE f[i - 1] \o s[i]

LEMMA FlattenIs ==
    ASSUME NEW s
    PROVE  FlattenSeq(s) = IF Len(s) = 0 THEN s ELSE (CHOOSE f : Flattens(f, s))[Len(s)]
BY DEF FlattenSeq, Flattens

LEMMA FlattenExists ==
    ASSUME NEW V, NEW s \in Seq(Seq(V))
    PROVE  \E f \in [1..Len(s) -> Seq(V)] : Flattens(f, s)
<1> DEFINE S == {n \in Nat : n <= Len(s) => \E f \in [1..n -> Seq(V)] : FlattensUpTo(f, s, n)}
<1>0. Len(s) \in Nat
  BY LenProperties
<1>1. 0 \in S
  <2> DEFINE f == [i \in 1..0 |-> <<>>]
  <2>1. f \in [1..0 -> Seq(V)] /\ FlattensUpTo(f, s, 0)
    BY DEF FlattensUpTo
  <2>2. QED
    BY <2>1
<1>2. ASSUME NEW n \in S PROVE n + 1 \in S
  <2>1. SUFFICES ASSUME n + 1 <= Len(s)
                 PROVE  \E f \in [1..(n + 1) -> Seq(V)] : FlattensUpTo(f, s, n + 1)
    BY <1>0
  <2>2. n \in Nat
    OBVIOUS
  <2>3. PICK f \in [1..n -> Seq(V)] : FlattensUpTo(f, s, n)
    <3>1. n <= Len(s)
      BY <1>0, <2>1, <2>2
    <3>2. QED
      BY <3>1
  <2>4. s[n + 1] \in Seq(V)
    BY <1>0, <2>1, <2>2, ElementOfSeq
  <2> DEFINE x == IF n + 1 = 1 THEN s[n + 1] ELSE f[n] \o s[n + 1]
             g == [i \in 1..(n + 1) |-> IF i = n + 1 THEN x ELSE f[i]]
  <2>5. x \in Seq(V)
    <3>1. CASE n = 0
      BY <2>4, <3>1
    <3>2. CASE n # 0
      <4>1. f[n] \in Seq(V)
        BY <2>2, <2>3, <3>2
      <4>2. f[n] \o s[n + 1] \in Seq(V)
        BY <2>4, <4>1, ConcatProperties
      <4>3. QED
        BY <2>2, <3>2, <4>2
    <3>3. QED
      BY <3>1, <3>2
  <2>6. g \in [1..(n + 1) -> Seq(V)]
    BY <2>2, <2>3, <2>5
  <2>7. FlattensUpTo(g, s, n + 1)
    <3>1. ASSUME NEW i \in 1..(n + 1) PROVE g[i] = IF i = 1 THEN s[i] ELSE g[i - 1] \o s[i]
      <4>1. CASE i = n + 1
        BY <2>2, <4>1
      <4>2. CASE i # n + 1
        <5>1. i \in 1..n /\ g[i] = f[i] /\ (i # 1 => g[i - 1] = f[i - 1])
          BY <2>2, <4>2
        <5>2. f[i] = IF i = 1 THEN s[i] ELSE f[i - 1] \o s[i]
          BY <2>3, <5>1 DEF FlattensUpTo
        <5>3. QED
          BY <5>1, <5>2
      <4>3. QED
        BY <4>1, <4>2
    <3>2. QED
      BY <3>1 DEF FlattensUpTo
  <2>8. QED
    BY <2>6, <2>7
<1> HIDE DEF S
<1>3. S = Nat
  <2>1. S \in SUBSET Nat
    BY DEF S
  <2>2. QED
    BY <1>1, <1>2, <2>1, Induction
<1>4. PICK f \in [1..Len(s) -> Seq(V)] : FlattensUpTo(f, s, Len(s))
  <2>1. Len(s) \in S /\ Len(s) <= Len(s)
    BY <1>0, <1>3
  <2>2. QED
    BY <2>1 DEF S
<1>5. Flattens(f, s)
  BY <1>4 DEF Flattens, FlattensUpTo
<1>6. QED
  BY <1>5

\* Two flattenings agree as far as the sequences they flatten do.
LEMMA FlattenUnique ==
    ASSUME NEW s, NEW t, NEW f, NEW g, Flattens(f, s), Flattens(g, t),
           Len(s) \in Nat, Len(t) \in Nat,
           NEW n \in Nat, n <= Len(s), n <= Len(t), \A i \in 1..n : s[i] = t[i]
    PROVE  \A i \in 1..n : f[i] = g[i]
<1> DEFINE S == {i \in Nat : i \in 1..n => f[i] = g[i]}
<1>1. /\ \A i \in 1..Len(s) : f[i] = IF i = 1 THEN s[i] ELSE f[i - 1] \o s[i]
      /\ \A i \in 1..Len(t) : g[i] = IF i = 1 THEN t[i] ELSE g[i - 1] \o t[i]
  <2>1. f = [i \in 1..Len(s) |-> IF i = 1 THEN s[i] ELSE f[i - 1] \o s[i]]
    BY DEF Flattens
  <2>2. g = [i \in 1..Len(t) |-> IF i = 1 THEN t[i] ELSE g[i - 1] \o t[i]]
    BY DEF Flattens
  <2>3. \A i \in 1..Len(s) : f[i] = IF i = 1 THEN s[i] ELSE f[i - 1] \o s[i]
    BY <2>1
  <2>4. \A i \in 1..Len(t) : g[i] = IF i = 1 THEN t[i] ELSE g[i - 1] \o t[i]
    BY <2>2
  <2>5. QED
    BY <2>3, <2>4
<1>2. 0 \in S
  OBVIOUS
<1>3. ASSUME NEW i \in S PROVE i + 1 \in S
  <2>1. SUFFICES ASSUME i + 1 \in 1..n PROVE f[i + 1] = g[i + 1]
    OBVIOUS
  <2>2. i \in Nat /\ i + 1 \in 1..Len(s) /\ i + 1 \in 1..Len(t) /\ s[i + 1] = t[i + 1]
    BY <2>1
  <2>3. CASE i = 0
    BY <1>1, <2>2, <2>3
  <2>4. CASE i # 0
    <3>1. f[i] = g[i]
      BY <2>1, <2>2, <2>4
    <3>2. f[i + 1] = f[i] \o s[i + 1] /\ g[i + 1] = g[i] \o t[i + 1]
      <4>1. i + 1 # 1 /\ (i + 1) - 1 = i
        BY <2>2, <2>4
      <4>2. QED
        BY <1>1, <2>2, <4>1
    <3>3. QED
      BY <2>2, <3>1, <3>2
  <2>5. QED
    BY <2>3, <2>4
<1> HIDE DEF S
<1>4. S = Nat
  <2>1. S \in SUBSET Nat
    BY DEF S
  <2>2. QED
    BY <1>2, <1>3, <2>1, Induction
<1>5. QED
  BY <1>4 DEF S

LEMMA FlattenEmpty == FlattenSeq(<<>>) = <<>>
BY DEF FlattenSeq

\* What is appended to the list is appended to its flattening.
LEMMA FlattenAppend ==
    ASSUME NEW V, NEW s \in Seq(Seq(V)), NEW x \in Seq(V)
    PROVE  /\ FlattenSeq(s) \in Seq(V)
           /\ FlattenSeq(Append(s, x)) = FlattenSeq(s) \o x
<1> DEFINE t == Append(s, x)
           n == Len(s)
<1>1. /\ t \in Seq(Seq(V)) /\ Len(t) = n + 1 /\ n \in Nat
      /\ \A i \in 1..n : t[i] = s[i]
      /\ t[n + 1] = x
  BY AppendProperties, LenProperties
<1> HIDE DEF t
<1>2. PICK a \in [1..Len(s) -> Seq(V)] : Flattens(a, s)
  BY FlattenExists
<1>3. PICK b \in [1..Len(t) -> Seq(V)] : Flattens(b, t)
  BY <1>1, FlattenExists
<1> DEFINE f == CHOOSE h : Flattens(h, s)
           g == CHOOSE h : Flattens(h, t)
<1>4. Flattens(f, s) /\ Flattens(g, t)
  BY <1>2, <1>3
<1> HIDE DEF f, g
<1>5. \A i \in 1..n : f[i] = g[i]
  <2>1. n <= Len(s) /\ n <= Len(t) /\ Len(s) \in Nat /\ Len(t) \in Nat
    BY <1>1
  <2>2. \A i \in 1..n : s[i] = t[i]
    BY <1>1
  <2> HIDE DEF n
  <2>3. n \in Nat
    BY <1>1
  <2>4. QED
    BY <1>4, <2>1, <2>2, <2>3, FlattenUnique
<1>6. g[n + 1] = IF n + 1 = 1 THEN x ELSE g[n] \o x
  <2>1. g = [i \in 1..Len(t) |-> IF i = 1 THEN t[i] ELSE g[i - 1] \o t[i]]
    BY <1>4 DEF Flattens
  <2>2. n + 1 \in 1..Len(t) /\ (n + 1) - 1 = n
    BY <1>1
  <2>3. g[n + 1] = IF n + 1 = 1 THEN t[n + 1] ELSE g[(n + 1) - 1] \o t[n + 1]
    BY <2>1, <2>2
  <2>4. QED
    BY <1>1, <2>2, <2>3
<1>7. FlattenSeq(t) = g[n + 1]
  <2>1. Len(t) # 0
    BY <1>1
  <2>2. QED
    BY <1>1, <2>1, FlattenIs DEF g
<1>8. CASE n = 0
  <2>1. s = <<>>
    BY <1>8, EmptySeq
  <2>2. FlattenSeq(s) = <<>>
    BY <2>1, FlattenEmpty
  <2>3. FlattenSeq(t) = x
    BY <1>6, <1>7, <1>8
  <2>4. <<>> \o x = x
    BY ConcatEmptySeq
  <2>5. QED
    BY <2>2, <2>3, <2>4 DEF t
<1>9. CASE n # 0
  <2>1. FlattenSeq(s) = f[n]
    BY <1>1, <1>9, FlattenIs DEF f
  <2>2. f[n] = a[n]
    <3>1. n \in 1..n /\ n <= Len(s)
      BY <1>1, <1>9
    <3> HIDE DEF n
    <3>2. Len(s) \in Nat /\ n \in Nat /\ \A i \in 1..n : s[i] = s[i]
      BY <1>1 DEF n
    <3>3. \A i \in 1..n : f[i] = a[i]
      BY <1>2, <1>4, <3>1, <3>2, FlattenUnique
    <3>4. QED
      BY <3>1, <3>3
  <2>3. a[n] \in Seq(V)
    <3>1. n \in 1..Len(s)
      BY <1>1, <1>9
    <3>2. QED
      BY <1>2, <3>1
  <2>4. f[n] = g[n]
    BY <1>1, <1>5, <1>9
  <2>5. FlattenSeq(t) = f[n] \o x
    BY <1>1, <1>6, <1>7, <1>9, <2>4
  <2>6. QED
    BY <2>1, <2>2, <2>3, <2>5 DEF t
<1>10. QED
  BY <1>8, <1>9

\* Concatenation is associative.
LEMMA Associative ==
    ASSUME NEW V, NEW s \in Seq(V), NEW t \in Seq(V), NEW u \in Seq(V)
    PROVE  s \o (t \o u) = (s \o t) \o u
BY ConcatAssociative

\* A list of n + 1 is a list of n and one more.
LEMMA ListAppend ==
    ASSUME NEW V, NEW n \in Nat, NEW f \in [1..(n + 1) -> V]
    PROVE  /\ [i \in 1..n |-> f[i]] \in Seq(V)
           /\ f[n + 1] \in V
           /\ f = Append([i \in 1..n |-> f[i]], f[n + 1])
<1> DEFINE s == [i \in 1..n |-> f[i]]
<1>1. s \in [1..n -> V] /\ f[n + 1] \in V
  OBVIOUS
<1>2. s \in Seq(V)
  BY <1>1, SeqDef
<1>3. DOMAIN s = 1..n
  OBVIOUS
<1>4. Len(s) = n
  BY <1>2, <1>3, LenProperties
<1>5. f \in Seq(V) /\ DOMAIN f = 1..(n + 1)
  <2>1. n + 1 \in Nat
    OBVIOUS
  <2>2. QED
    BY <2>1, SeqDef
<1>6. Len(f) = n + 1
  BY <1>5, LenProperties
<1> DEFINE t == Append(s, f[n + 1])
<1>7. /\ t \in Seq(V) /\ Len(t) = n + 1
      /\ \A i \in 1..n : t[i] = s[i]
      /\ t[n + 1] = f[n + 1]
  <2> HIDE DEF s
  <2>1. QED
    BY <1>1, <1>2, <1>4, AppendProperties
<1>8. \A i \in 1..(n + 1) : f[i] = t[i]
  <2>1. \A i \in 1..n : s[i] = f[i]
    OBVIOUS
  <2> HIDE DEF s, t
  <2>2. QED
    BY <1>7, <2>1
<1> HIDE DEF s, t
<1>9. f = t
  BY <1>5, <1>6, <1>7, <1>8, SeqEqual
<1>10. QED
  BY <1>1, <1>2, <1>9 DEF s, t

\* What a list of one more flattens to ...
LEMMA FlattenStep ==
    ASSUME NEW V, NEW n \in Nat, NEW f \in [1..(n + 1) -> Seq(V)]
    PROVE  /\ FlattenSeq([i \in 1..n |-> f[i]]) \in Seq(V)
           /\ FlattenSeq(f) = FlattenSeq([i \in 1..n |-> f[i]]) \o f[n + 1]
<1> DEFINE s == [i \in 1..n |-> f[i]]
<1>1. s \in Seq(Seq(V)) /\ f[n + 1] \in Seq(V) /\ f = Append(s, f[n + 1])
  BY ListAppend
<1> HIDE DEF s
<1>2. FlattenSeq(s) \in Seq(V) /\ FlattenSeq(Append(s, f[n + 1])) = FlattenSeq(s) \o f[n + 1]
  BY <1>1, FlattenAppend
<1>3. QED
  BY <1>1, <1>2 DEF s

\* ... and what it is a sequence of.
LEMMA FlattenType ==
    ASSUME NEW V, NEW n \in Nat, NEW f \in [1..n -> Seq(V)]
    PROVE  FlattenSeq(f) \in Seq(V)
<1>1. f \in Seq(Seq(V))
  BY SeqDef
<1>2. <<>> \in Seq(V)
  BY EmptySeq
<1>3. QED
  BY <1>1, <1>2, FlattenAppend

(***************************************************************************)
(* What f gives for the elements of s, one after the other.                *)
(***************************************************************************)
Over(s, f) == FlattenSeq([i \in DOMAIN s |-> f[s[i]]])

\* Nothing over nothing, and one more over one more.
LEMMA NothingOver == ASSUME NEW f PROVE Over(<<>>, f) = <<>>
<1>1. [i \in DOMAIN <<>> |-> f[<<>>[i]]] = <<>>
  OBVIOUS
<1>2. QED
  BY <1>1, FlattenEmpty DEF Over

LEMMA OverAppend ==
    ASSUME NEW V, NEW W, NEW s \in Seq(V), NEW x \in V, NEW f, \A v \in V : f[v] \in Seq(W)
    PROVE  /\ Over(s, f) \in Seq(W)
           /\ Over(Append(s, x), f) = Over(s, f) \o f[x]
<1> DEFINE n == Len(s)
           t == Append(s, x)
           g == [i \in DOMAIN t |-> f[t[i]]]
           h == [i \in DOMAIN s |-> f[s[i]]]
<1>1. /\ n \in Nat /\ DOMAIN s = 1..n /\ \A i \in 1..n : s[i] \in V
  BY LenProperties, ElementOfSeq
<1>2. /\ t \in Seq(V) /\ Len(t) = n + 1 /\ \A i \in 1..n : t[i] = s[i]
      /\ t[n + 1] = x
  BY AppendProperties
<1>3. DOMAIN t = 1..(n + 1) /\ \A i \in 1..(n + 1) : t[i] \in V
  BY <1>2, LenProperties, ElementOfSeq
<1> HIDE DEF t, n
<1>4. g \in [1..(n + 1) -> Seq(W)] /\ g[n + 1] = f[x]
  BY <1>1, <1>2, <1>3
<1>5. h = [i \in 1..n |-> g[i]]
  BY <1>1, <1>2, <1>3
<1> HIDE DEF g, h
<1>6. FlattenSeq(h) \in Seq(W) /\ FlattenSeq(g) = FlattenSeq(h) \o f[x]
  BY <1>1, <1>4, <1>5, FlattenStep
<1>7. QED
  BY <1>6 DEF Over, g, h, t

\* It depends on what f gives for the elements only.
LEMMA OverSame ==
    ASSUME NEW V, NEW s \in Seq(V), NEW f, NEW g, \A v \in V : f[v] = g[v]
    PROVE  Over(s, f) = Over(s, g)
<1>1. \A i \in DOMAIN s : s[i] \in V
  BY LenProperties, ElementOfSeq
<1>2. [i \in DOMAIN s |-> f[s[i]]] = [i \in DOMAIN s |-> g[s[i]]]
  BY <1>1
<1>3. QED
  BY <1>2 DEF Over

\* f and g give the same for all of B.
Agree(B, W, f, g) == \A v \in B : f[v] \in Seq(W) /\ g[v] = f[v]

\* One more at the end, or more of the one at the end.
LEMMA OverOneMore ==
    ASSUME NEW B, NEW W, NEW s \in Seq(B), NEW X, NEW x \in X, NEW f, NEW g,
           Agree(B, W, f, g), g[x] \in Seq(W)
    PROVE  /\ Over(s, f) \in Seq(W)
           /\ Over(Append(s, x), g) = Over(s, f) \o g[x]
<1> DEFINE V == B \cup {x}
<1>1. s \in Seq(V) /\ x \in V /\ \A v \in V : g[v] \in Seq(W)
  BY SeqMonotonic DEF Agree
<1> HIDE DEF V
<1>2. Over(s, g) \in Seq(W) /\ Over(Append(s, x), g) = Over(s, g) \o g[x]
  BY <1>1, OverAppend
<1>3. Over(s, f) = Over(s, g)
  <2>1. \A v \in B : f[v] = g[v]
    BY DEF Agree
  <2>2. QED
    BY <2>1, OverSame
<1>4. QED
  BY <1>2, <1>3

\* t is s with y at its end.
Longer(W, s, t, y) == s \in Seq(W) /\ y \in Seq(W) /\ t = s \o y

LEMMA OverMoreOfLast ==
    ASSUME NEW B, NEW W, NEW s \in Seq(B), NEW X, NEW x \in X, NEW f, NEW g,
           Agree(B, W, f, g), NEW y, Longer(W, f[x], g[x], y)
    PROVE  Longer(W, Over(Append(s, x), f), Over(Append(s, x), g), y)
<1> DEFINE a == Over(s, f)
           b == f[x]
<1>1. f[x] \in Seq(W) /\ g[x] \in Seq(W)
  BY ConcatProperties DEF Longer
<1>2. Over(s, f) \in Seq(W) /\ Over(Append(s, x), g) = Over(s, f) \o g[x]
  BY <1>1, OverOneMore
<1>3. Over(Append(s, x), f) = Over(s, f) \o f[x]
  <2>1. Agree(B, W, f, f)
    BY DEF Agree
  <2>2. QED
    BY <1>1, <2>1, OverOneMore
<1>4. /\ a \in Seq(W) /\ b \in Seq(W) /\ y \in Seq(W)
      /\ Over(Append(s, x), g) = a \o (b \o y) /\ Over(Append(s, x), f) = a \o b
  BY <1>2, <1>3 DEF Longer
<1> HIDE DEF a, b
<1>5. a \o b \in Seq(W)
  BY <1>4, ConcatProperties
<1>6. a \o (b \o y) = (a \o b) \o y
  BY <1>4, Associative
<1>7. QED
  BY <1>4, <1>5, <1>6 DEF Longer

(***************************************************************************)
(* Keep.                                                                   *)
(***************************************************************************)
\* One more element is kept at the end, or not at all.
LEMMA KeepAppend ==
    ASSUME NEW V, NEW s \in Seq(V), NEW x \in V, NEW S
    PROVE  /\ Keep(s, S) \in Seq(V \cap S)
           /\ Keep(Append(s, x), S) = Keep(s, S) \o (IF x \in S THEN <<x>> ELSE <<>>)
<1> DEFINE f == [v \in V |-> IF v \in S THEN <<v>> ELSE <<>>]
<1>1. \A v \in V : f[v] \in Seq(V \cap S)
  <2> SUFFICES ASSUME NEW v \in V PROVE f[v] \in Seq(V \cap S)
    OBVIOUS
  <2>1. CASE v \in S
    BY <2>1
  <2>2. CASE v \notin S
    BY <2>2
  <2>3. QED
    BY <2>1, <2>2
<1>2. f[x] = IF x \in S THEN <<x>> ELSE <<>>
  OBVIOUS
<1>3. ASSUME NEW t \in Seq(V) PROVE Keep(t, S) = Over(t, f)
  <2>1. \A i \in DOMAIN t : t[i] \in V
    BY LenProperties, ElementOfSeq
  <2>2. [i \in DOMAIN t |-> IF t[i] \in S THEN <<t[i]>> ELSE <<>>] = [i \in DOMAIN t |-> f[t[i]]]
    BY <2>1
  <2>3. QED
    BY <2>2 DEF Keep, Over
<1> HIDE DEF f
<1>4. Append(s, x) \in Seq(V)
  BY AppendProperties
<1>5. Over(s, f) \in Seq(V \cap S) /\ Over(Append(s, x), f) = Over(s, f) \o f[x]
  BY <1>1, OverAppend
<1>6. QED
  BY <1>2, <1>3, <1>4, <1>5

LEMMA KeepNothing == ASSUME NEW S PROVE Keep(<<>>, S) = <<>>
<1>1. [i \in DOMAIN <<>> |-> IF <<>>[i] \in S THEN <<<<>>[i]>> ELSE <<>>] = <<>>
  OBVIOUS
<1>2. QED
  BY <1>1, FlattenEmpty DEF Keep

LEMMA KeepType ==
    ASSUME NEW V, NEW s \in Seq(V), NEW S
    PROVE  Keep(s, S) \in Seq(V \cap S)
<1>1. CASE s = <<>>
  BY <1>1, KeepNothing, EmptySeq
<1>2. CASE s # <<>>
  <2>1. s[1] \in V
    BY <1>2, EmptySeq, ElementOfSeq
  <2>2. QED
    BY <2>1, KeepAppend
<1>3. QED
  BY <1>1, <1>2

\* What is kept depends on the elements there are only.
LEMMA KeepSame ==
    ASSUME NEW V, NEW s \in Seq(V), NEW S, NEW T, V \cap S = V \cap T
    PROVE  Keep(s, S) = Keep(s, T)
<1>1. \A i \in DOMAIN s : s[i] \in V
  BY LenProperties, ElementOfSeq
<1>2. \A i \in DOMAIN s : s[i] \in S <=> s[i] \in T
  BY <1>1
<1>3. [i \in DOMAIN s |-> IF s[i] \in S THEN <<s[i]>> ELSE <<>>]
        = [i \in DOMAIN s |-> IF s[i] \in T THEN <<s[i]>> ELSE <<>>]
  BY <1>2
<1>4. QED
  BY <1>3 DEF Keep

\* The same of the numbers up to n, of which a set is kept.
LEMMA UpToNext ==
    ASSUME NEW n \in Nat
    PROVE  UpTo(n) \in Seq(1..n) /\ UpTo(n + 1) = Append(UpTo(n), n + 1)
<1> DEFINE f == UpTo(n + 1)
<1>1. f \in [1..(n + 1) -> 1..(n + 1)] /\ f[n + 1] = n + 1
  BY DEF UpTo
<1>2. [i \in 1..n |-> f[i]] = UpTo(n)
  BY DEF UpTo
<1> HIDE DEF f
<1>3. f = Append([i \in 1..n |-> f[i]], f[n + 1])
  BY <1>1, ListAppend
<1>4. UpTo(n) \in Seq(1..n)
  BY SeqDef DEF UpTo
<1>5. QED
  BY <1>1, <1>2, <1>3, <1>4 DEF f

LEMMA KeepUpTo ==
    ASSUME NEW n \in Nat, NEW S
    PROVE  /\ Keep(UpTo(n), S) \in Seq(1..n \cap S)
           /\ n + 1 \in S => Keep(UpTo(n + 1), S) = Append(Keep(UpTo(n), S), n + 1)
           /\ n + 1 \notin S => Keep(UpTo(n + 1), S) = Keep(UpTo(n), S)
<1>1. UpTo(n) \in Seq(1..n) /\ UpTo(n + 1) = Append(UpTo(n), n + 1)
  BY UpToNext
<1>2. UpTo(n) \in Seq(1..(n + 1)) /\ n + 1 \in 1..(n + 1)
  BY <1>1, SeqMonotonic
<1>3. Keep(UpTo(n + 1), S) = Keep(UpTo(n), S) \o (IF n + 1 \in S THEN <<n + 1>> ELSE <<>>)
  <2> DEFINE V == 1..(n + 1)
             s == UpTo(n)
             x == n + 1
  <2>1. s \in Seq(V) /\ x \in V
    BY <1>2
  <2> HIDE DEF V, s, x
  <2>2. Keep(Append(s, x), S) = Keep(s, S) \o (IF x \in S THEN <<x>> ELSE <<>>)
    BY <2>1, KeepAppend
  <2>3. QED
    BY <1>1, <2>2 DEF s, x
<1>4. Keep(UpTo(n), S) \in Seq(1..n \cap S)
  BY <1>1, KeepType
<1>5. Keep(UpTo(n), S) \o <<>> = Keep(UpTo(n), S)
  BY <1>4, ConcatEmptySeq
<1>6. Keep(UpTo(n), S) \o <<n + 1>> = Append(Keep(UpTo(n), S), n + 1)
  <2>1. Keep(UpTo(n), S) \in Seq(Nat)
    BY <1>4, SeqMonotonic
  <2>2. QED
    BY <2>1, AppendIsConcat
<1>7. QED
  BY <1>3, <1>4, <1>5, <1>6

\* The last of S up to n is the last that is kept.
LEMMA KeepLast ==
    ASSUME NEW n \in Nat, NEW S, NEW m \in 1..n, m \in S, \A j \in (m + 1)..n : j \notin S
    PROVE  Keep(UpTo(n), S) = Append(Keep(UpTo(m - 1), S), m)
<1> DEFINE G == {d \in Nat : m + d <= n => Keep(UpTo(m + d), S) = Append(Keep(UpTo(m - 1), S), m)}
<1>1. 0 \in G
  <2>1. m - 1 \in Nat /\ (m - 1) + 1 = m /\ m + 0 = m
    OBVIOUS
  <2>2. Keep(UpTo(m), S) = Append(Keep(UpTo(m - 1), S), m)
    BY <2>1, KeepUpTo
  <2>3. QED
    BY <2>1, <2>2
<1>2. ASSUME NEW d \in G PROVE d + 1 \in G
  <2>1. d \in Nat /\ m + d \in Nat /\ m + (d + 1) = (m + d) + 1
    OBVIOUS
  <2>2. SUFFICES ASSUME (m + d) + 1 <= n
                 PROVE  Keep(UpTo((m + d) + 1), S) = Append(Keep(UpTo(m - 1), S), m)
    BY <2>1
  <2>3. (m + d) + 1 \notin S
    BY <2>1, <2>2
  <2>4. Keep(UpTo((m + d) + 1), S) = Keep(UpTo(m + d), S)
    BY <2>1, <2>3, KeepUpTo
  <2>5. m + d <= n
    BY <2>1, <2>2
  <2>6. QED
    BY <2>4, <2>5
<1> HIDE DEF G
<1>3. G = Nat
  <2>1. G \in SUBSET Nat
    BY DEF G
  <2>2. QED
    BY <1>1, <1>2, <2>1, Induction
<1>4. n - m \in G /\ m + (n - m) = n /\ n - m \in Nat
  BY <1>3
<1>5. QED
  BY <1>4 DEF G

(***************************************************************************)
(* Trees of units.  P gives the parent of each unit, 0 for a root, and c   *)
(* what a unit stands for; in the first k units, a unit of the second      *)
(* level stands for itself and its children, a root for itself and those   *)
(* below it.                                                               *)
(***************************************************************************)
Kids(P, k, n) == Keep(UpTo(k), {m \in DOMAIN P : P[m] = n})
Twig(P, c, k) == [n \in DOMAIN P |-> c[n] \o Over(Kids(P, k, n), c)]
Tree(P, c, k) == [n \in DOMAIN P |-> c[n] \o Over(Kids(P, k, n), Twig(P, c, k))]

\* A unit is a root, a child of the last root before it, or a child of the
\* last child of that root.
RootOf(P, m) == IF P[m] = 0 THEN m ELSE IF P[P[m]] = 0 THEN P[m] ELSE P[P[m]]

NestedAt(P, m) ==
    /\ P[m] \in 0..(m - 1)
    /\ P[RootOf(P, m)] = 0
    /\ \A j \in (RootOf(P, m) + 1)..m : P[j] # 0
    /\ P[m] # 0 /\ P[m] # RootOf(P, m) => \A j \in (P[m] + 1)..m : P[j] # RootOf(P, m)

Forest(P, N) ==
    /\ N \in Nat
    /\ P \in [1..N -> Nat]
    /\ \A m \in 1..N : NestedAt(P, m)

\* The children of n among the first k units.
Below(P, k, n) == {j \in 1..k : P[j] = n}

\* Each unit stands for a sequence.
Pieces(c, N, V) == \A n \in 1..N : c[n] \in Seq(V)

\* One more unit is one more child of its parent, and of nobody else.
LEMMA KidsAre ==
    ASSUME NEW N, NEW P, Forest(P, N), NEW k \in 0..(N - 1), NEW n \in Nat
    PROVE  /\ Kids(P, k, n) \in Seq(Below(P, k, n))
           /\ P[k + 1] # n => Kids(P, k + 1, n) = Kids(P, k, n)
           /\ P[k + 1] = n => Kids(P, k + 1, n) = Append(Kids(P, k, n), k + 1)
           /\ n > k => Kids(P, k, n) = <<>>
<1> DEFINE S == {m \in DOMAIN P : P[m] = n}
<1>1. DOMAIN P = 1..N /\ k + 1 \in 1..N /\ N \in Nat /\ k \in Nat
  BY DEF Forest
<1>2. k + 1 \in S <=> P[k + 1] = n
  BY <1>1
<1>3. 1..k \cap S = Below(P, k, n)
  BY <1>1 DEF Below
<1>4. n > k => Below(P, k, n) = {}
  BY <1>1 DEF Below, Forest, NestedAt
<1> HIDE DEF S
<1>5. /\ Keep(UpTo(k), S) \in Seq(1..k \cap S)
      /\ k + 1 \in S => Keep(UpTo(k + 1), S) = Append(Keep(UpTo(k), S), k + 1)
      /\ k + 1 \notin S => Keep(UpTo(k + 1), S) = Keep(UpTo(k), S)
  BY <1>1, KeepUpTo
<1>6. /\ Kids(P, k, n) = Keep(UpTo(k), S)
      /\ Kids(P, k + 1, n) = Keep(UpTo(k + 1), S)
  BY DEF Kids, S
<1>7. Kids(P, k, n) \in Seq(Below(P, k, n))
  BY <1>3, <1>5, <1>6
<1>8. n > k => Kids(P, k, n) = <<>>
  <2> SUFFICES ASSUME n > k PROVE Kids(P, k, n) = <<>>
    OBVIOUS
  <2>1. Kids(P, k, n) \in Seq({})
    BY <1>4, <1>7
  <2>2. Kids(P, k, n) # <<>> => Kids(P, k, n)[1] \in {}
    BY <2>1, EmptySeq, ElementOfSeq
  <2>3. QED
    BY <2>2
<1>9. QED
  BY <1>2, <1>5, <1>6, <1>7, <1>8

\* What twigs and trees are sequences of.
LEMMA TreeTypes ==
    ASSUME NEW N, NEW P, Forest(P, N), NEW V, NEW c, Pieces(c, N, V), NEW k \in 0..(N - 1)
    PROVE  \A n \in 1..N : Twig(P, c, k)[n] \in Seq(V) /\ Tree(P, c, k)[n] \in Seq(V)
<1>0. DOMAIN P = 1..N /\ N \in Nat
  BY DEF Forest
<1>1. ASSUME NEW f, \A n \in 1..N : f[n] \in Seq(V), NEW n \in 1..N
      PROVE  Over(Kids(P, k, n), f) \in Seq(V)
  <2>1. n \in Nat /\ 1..k \subseteq 1..N /\ Below(P, k, n) \subseteq 1..N /\ 1 \in 1..N
    BY <1>0 DEF Below
  <2>2. Kids(P, k, n) \in Seq(1..N)
    <3>1. Kids(P, k, n) \in Seq(Below(P, k, n))
      BY <2>1, KidsAre
    <3>2. QED
      BY <2>1, <3>1, SeqMonotonic
  <2> DEFINE M == 1..N
  <2>3. Kids(P, k, n) \in Seq(M) /\ 1 \in M /\ \A j \in M : f[j] \in Seq(V)
    BY <1>1, <2>1, <2>2
  <2> HIDE DEF M
  <2>4. QED
    BY <2>3, OverAppend
<1>2. \A n \in 1..N : c[n] \in Seq(V)
  BY DEF Pieces
<1>3. ASSUME NEW n \in 1..N PROVE Twig(P, c, k)[n] \in Seq(V)
  <2>1. Over(Kids(P, k, n), c) \in Seq(V)
    BY <1>1, <1>2
  <2>2. c[n] \o Over(Kids(P, k, n), c) \in Seq(V)
    BY <1>2, <2>1, ConcatProperties
  <2>3. QED
    BY <1>0, <2>2 DEF Twig
<1>4. ASSUME NEW n \in 1..N PROVE Tree(P, c, k)[n] \in Seq(V)
  <2>1. Over(Kids(P, k, n), Twig(P, c, k)) \in Seq(V)
    BY <1>1, <1>3
  <2>2. c[n] \o Over(Kids(P, k, n), Twig(P, c, k)) \in Seq(V)
    BY <1>2, <2>1, ConcatProperties
  <2>3. QED
    BY <1>0, <2>2 DEF Tree
<1>5. QED
  BY <1>3, <1>4

\* The last unit has no children yet.
LEMMA TwigOfLast ==
    ASSUME NEW N, NEW P, Forest(P, N), NEW V, NEW c, Pieces(c, N, V), NEW k \in 0..(N - 1)
    PROVE  Twig(P, c, k)[k + 1] = c[k + 1] /\ Tree(P, c, k + 1)[k + 1] = c[k + 1]
<1>0. DOMAIN P = 1..N /\ N \in Nat /\ k + 1 \in Nat /\ k + 1 \in 1..N /\ k + 1 > k /\ P[k + 1] # k + 1
  BY DEF Forest, NestedAt
<1>1. Kids(P, k, k + 1) = <<>> /\ Kids(P, k + 1, k + 1) = <<>>
  <2> DEFINE n == k + 1
  <2>1. n \in Nat /\ n > k /\ P[k + 1] # n
    BY <1>0
  <2> HIDE DEF n
  <2>2. Kids(P, k, n) = <<>> /\ Kids(P, k + 1, n) = Kids(P, k, n)
    BY <2>1, KidsAre
  <2>3. QED
    BY <2>2 DEF n
<1>2. /\ Twig(P, c, k)[k + 1] = c[k + 1] \o Over(Kids(P, k, k + 1), c)
      /\ Tree(P, c, k + 1)[k + 1] = c[k + 1] \o Over(Kids(P, k + 1, k + 1), Twig(P, c, k + 1))
  BY <1>0 DEF Twig, Tree
<1>3. c[k + 1] \in Seq(V)
  BY <1>0 DEF Pieces
<1>4. c[k + 1] \o <<>> = c[k + 1]
  BY <1>3, ConcatEmptySeq
<1>5. Over(Kids(P, k, k + 1), c) = <<>> /\ Over(Kids(P, k + 1, k + 1), Twig(P, c, k + 1)) = <<>>
  BY <1>1, NothingOver
<1>6. QED
  BY <1>2, <1>4, <1>5

\* Another unit stands at the end of the twig it belongs to ...
LEMMA TwigGrows ==
    ASSUME NEW N, NEW P, Forest(P, N), NEW V, NEW c, Pieces(c, N, V), NEW k \in 0..(N - 1), NEW n \in 1..N
    PROVE  Twig(P, c, k + 1)[n] =
              IF P[k + 1] = n THEN Twig(P, c, k)[n] \o c[k + 1] ELSE Twig(P, c, k)[n]
<1>0. DOMAIN P = 1..N /\ N \in Nat /\ n \in Nat /\ k \in Nat /\ k + 1 \in 1..N
  BY DEF Forest
<1> DEFINE M == Below(P, k, n) \cup {k + 1}
           a == c[n]
           b == Over(Kids(P, k, n), c)
           d == c[k + 1]
<1>1. /\ Kids(P, k, n) \in Seq(Below(P, k, n))
      /\ P[k + 1] # n => Kids(P, k + 1, n) = Kids(P, k, n)
      /\ P[k + 1] = n => Kids(P, k + 1, n) = Append(Kids(P, k, n), k + 1)
  BY <1>0, KidsAre
<1>2. Kids(P, k, n) \in Seq(M) /\ k + 1 \in M
  BY <1>1, SeqMonotonic
<1>3. \A j \in M : c[j] \in Seq(V)
  BY <1>0 DEF Pieces, Below
<1> HIDE DEF M
<1>4. /\ Over(Kids(P, k, n), c) \in Seq(V)
      /\ Over(Append(Kids(P, k, n), k + 1), c) = Over(Kids(P, k, n), c) \o c[k + 1]
  BY <1>2, <1>3, OverAppend
<1>5. /\ Twig(P, c, k)[n] = c[n] \o Over(Kids(P, k, n), c)
      /\ Twig(P, c, k + 1)[n] = c[n] \o Over(Kids(P, k + 1, n), c)
  BY <1>0 DEF Twig
<1>7. CASE P[k + 1] = n
  <2>1. a \in Seq(V) /\ b \in Seq(V) /\ d \in Seq(V)
    BY <1>0, <1>4 DEF Pieces
  <2>2. Twig(P, c, k + 1)[n] = a \o (b \o d) /\ Twig(P, c, k)[n] = a \o b
    BY <1>1, <1>4, <1>5, <1>7
  <2> HIDE DEF a, b, d
  <2>3. a \o (b \o d) = (a \o b) \o d
    BY <2>1, Associative
  <2>4. QED
    BY <1>7, <2>2, <2>3 DEF d
<1>8. CASE P[k + 1] # n
  BY <1>1, <1>5, <1>8
<1>9. QED
  BY <1>7, <1>8

\* ... and of the tree.
LEMMA TreeGrows ==
    ASSUME NEW N, NEW P, Forest(P, N), NEW V, NEW c, Pieces(c, N, V), NEW k \in 0..(N - 1),
           NEW n \in 1..k, P[n] = 0
    PROVE  Tree(P, c, k + 1)[n] =
              IF P[k + 1] # 0 /\ \A j \in (n + 1)..(k + 1) : P[j] # 0
              THEN Tree(P, c, k)[n] \o c[k + 1] ELSE Tree(P, c, k)[n]
<1> DEFINE K == Kids(P, k, n)
           M == Below(P, k, n)
           a == c[n]
           d == c[k + 1]
           q == P[k + 1]
           t == Twig(P, c, k)
           u == Twig(P, c, k + 1)
<1>0. /\ DOMAIN P = 1..N /\ N \in Nat /\ P \in [1..N -> Nat] /\ k \in Nat /\ n \in Nat
      /\ n \in 1..N /\ k + 1 \in 1..N /\ M \subseteq 1..N
      /\ \A j \in M : P[j] = n
  BY DEF Forest, Below
<1>1. /\ K \in Seq(M)
      /\ q # n => Kids(P, k + 1, n) = K
      /\ q = n => Kids(P, k + 1, n) = Append(K, k + 1)
  BY <1>0, KidsAre
<1>2. /\ Tree(P, c, k)[n] = a \o Over(K, t)
      /\ Tree(P, c, k + 1)[n] = a \o Over(Kids(P, k + 1, n), u)
  BY <1>0 DEF Tree
<1>3. \A j \in 1..N : u[j] = IF q = j THEN t[j] \o d ELSE t[j]
  BY TwigGrows
<1>4. \A j \in 1..N : t[j] \in Seq(V)
  BY TreeTypes
<1>5. a \in Seq(V) /\ d \in Seq(V)
  BY <1>0 DEF Pieces
<1>6. NestedAt(P, k + 1)
  BY <1>0 DEF Forest
<1>7. t[k + 1] = d /\ u[k + 1] = d
  <2>1. t[k + 1] = d
    BY TwigOfLast
  <2>2. q # k + 1
    BY <1>0, <1>6 DEF NestedAt
  <2>3. QED
    BY <1>0, <1>3, <2>1, <2>2
<1> DEFINE o == Over(K, t)
<1>8. o \in Seq(V)
  <2>1. K \in Seq(1..N)
    BY <1>0, <1>1, SeqMonotonic
  <2> HIDE DEF K, t
  <2>2. QED
    BY <1>0, <1>4, <2>1, OverAppend
<1> HIDE DEF K, M, q, t, u, a, d
<1>9. a \o (o \o d) = (a \o o) \o d
  <2> HIDE DEF o
  <2>1. QED
    BY <1>5, <1>8, Associative
<1>10. CASE q = 0
  <2>1. \A j \in M : u[j] = t[j]
    <3> SUFFICES ASSUME NEW j \in M PROVE u[j] = t[j]
      OBVIOUS
    <3>1. j \in 1..N /\ q # j
      BY <1>0, <1>10
    <3>2. QED
      BY <1>3, <3>1
  <2>2. Over(K, u) = o
    BY <1>1, <2>1, OverSame
  <2>3. q # n
    BY <1>0, <1>10
  <2>4. QED
    BY <1>1, <1>2, <1>10, <2>2, <2>3 DEF q
<1>11. CASE q = n
  <2>1. n # 0 /\ \A j \in (n + 1)..(k + 1) : P[j] # 0
    BY <1>6, <1>0, <1>11 DEF NestedAt, RootOf, q
  <2>2. Agree(M, V, t, u)
    <3> SUFFICES ASSUME NEW j \in M PROVE t[j] \in Seq(V) /\ u[j] = t[j]
      BY DEF Agree
    <3>1. j \in 1..N /\ P[j] = n
      BY <1>0
    <3>2. q # j
      BY <1>0, <1>11, <3>1
    <3>3. QED
      BY <1>3, <1>4, <3>1, <3>2
  <2>3. Over(Append(K, k + 1), u) = o \o d
    <3> DEFINE I == 1..N
               m == k + 1
    <3>1. K \in Seq(M) /\ u[m] \in Seq(V) /\ m \in I
      BY <1>0, <1>1, <1>5, <1>7
    <3> HIDE DEF I, m
    <3>2. Over(Append(K, m), u) = Over(K, t) \o u[m]
      BY <2>2, <3>1, OverOneMore
    <3>3. QED
      BY <1>7, <3>2 DEF o, m
  <2>4. QED
    BY <1>1, <1>2, <1>9, <1>11, <2>1, <2>3 DEF q, d
<1>12. CASE q # 0 /\ q # n /\ P[q] = n
  <2>1. /\ n # 0 /\ q \in 1..k
        /\ \A j \in (n + 1)..(k + 1) : P[j] # 0
        /\ \A j \in (q + 1)..(k + 1) : P[j] # n
    BY <1>6, <1>0, <1>12 DEF NestedAt, RootOf, q
  <2> DEFINE Q == Kids(P, q - 1, n)
             B == Below(P, q - 1, n)
  <2>2. K = Append(Q, q) /\ Q \in Seq(B)
    <3> DEFINE S == {m \in DOMAIN P : P[m] = n}
    <3>1. q \in 1..k /\ q \in S /\ \A j \in (q + 1)..k : j \notin S
      BY <1>0, <1>12, <2>1
    <3> HIDE DEF S
    <3>2. Keep(UpTo(k), S) = Append(Keep(UpTo(q - 1), S), q)
      BY <1>0, <3>1, KeepLast
    <3>3. q - 1 \in 0..(N - 1)
      BY <1>0, <2>1
    <3>4. Q \in Seq(B)
      BY <1>0, <3>3, KidsAre
    <3>5. QED
      BY <3>2, <3>4 DEF K, Kids, S
  <2>3. Agree(B, V, t, u)
    <3>1. \A j \in B : j \in 1..N /\ q # j
      BY <1>0, <2>1 DEF Below
    <3>2. QED
      BY <1>3, <1>4, <3>1 DEF Agree
  <2>4. t[q] \in Seq(V) /\ u[q] = t[q] \o d
    <3>1. q \in 1..N
      BY <1>0, <2>1
    <3>2. QED
      BY <1>3, <1>4, <3>1
  <2> HIDE DEF Q, B
  <2>5. Over(K, u) = o \o d
    <3> DEFINE I == 1..N
    <3>0. q \in I
      BY <1>0, <2>1
    <3> HIDE DEF I
    <3>1. Longer(V, t[q], u[q], d)
      BY <1>5, <2>4 DEF Longer
    <3>2. Q \in Seq(B)
      BY <2>2
    <3>3. Longer(V, Over(Append(Q, q), t), Over(Append(Q, q), u), d)
      BY <3>0, <3>1, <3>2, <2>3, OverMoreOfLast
    <3>4. QED
      BY <2>2, <3>3 DEF o, Longer
  <2>6. QED
    BY <1>1, <1>2, <1>9, <1>12, <2>1, <2>5 DEF q, d
<1>13. CASE q # 0 /\ q # n /\ P[q] # n
  <2>1. \E j \in (n + 1)..(k + 1) : P[j] = 0
    <3> DEFINE r == RootOf(P, k + 1)
    <3>1. q \in 1..k /\ P[r] = 0 /\ r # n /\ r \in 0..k
      <4>1. q \in 1..k /\ P[r] = 0
        BY <1>6, <1>0, <1>13 DEF NestedAt, q
      <4>2. NestedAt(P, q)
        BY <1>0, <4>1 DEF Forest
      <4>3. P[q] \in 0..k
        BY <1>0, <4>1, <4>2 DEF NestedAt
      <4>4. r = IF P[q] = 0 THEN q ELSE P[q]
        BY <1>13 DEF RootOf, q
      <4>5. QED
        BY <1>13, <4>1, <4>3, <4>4
    <3>2. r # 0
      <4>1. r = IF P[q] = 0 THEN q ELSE P[q]
        BY <1>13 DEF RootOf, q
      <4>2. QED
        BY <1>13, <4>1
    <3>3. \A j \in (r + 1)..(k + 1) : P[j] # 0
      BY <1>6 DEF NestedAt
    <3> HIDE DEF r
    <3>4. r > n
      BY <1>0, <3>1, <3>2, <3>3
    <3>5. QED
      BY <1>0, <3>1, <3>4
  <2>2. \A j \in M : u[j] = t[j]
    <3> SUFFICES ASSUME NEW j \in M PROVE u[j] = t[j]
      OBVIOUS
    <3>1. j \in 1..N /\ P[j] = n
      BY <1>0
    <3>2. QED
      BY <1>3, <1>13, <3>1
  <2>3. Over(K, u) = o
    BY <1>1, <2>2, OverSame
  <2>4. q # n
    BY <1>13
  <2>5. QED
    BY <1>1, <1>2, <2>1, <2>3, <2>4
<1>14. QED
  BY <1>10, <1>11, <1>12, <1>13

\* One after the other the trees of the roots are the units in their order: the
\* nesting of chunks in chunks changes nothing of the order of the text.
LEMMA TreesInOrder ==
    ASSUME NEW N, NEW P, Forest(P, N), NEW V, NEW c, Pieces(c, N, V), NEW k \in 0..N
    PROVE  Over(Kids(P, k, 0), Tree(P, c, k)) = FlattenSeq([n \in 1..k |-> c[n]])
<1> DEFINE All(j) == FlattenSeq([n \in 1..j |-> c[n]])
           S == {j \in Nat : j <= N => Over(Kids(P, j, 0), Tree(P, c, j)) = All(j)}
<1>0. N \in Nat /\ P \in [1..N -> Nat] /\ DOMAIN P = 1..N
  BY DEF Forest
<1>1. 0 \in S
  <2>1. Kids(P, 0, 0) = <<>>
    <3>1. UpTo(0) = <<>>
      BY DEF UpTo
    <3>2. QED
      BY <3>1, KeepNothing DEF Kids
  <2>2. Over(Kids(P, 0, 0), Tree(P, c, 0)) = <<>>
    BY <2>1, NothingOver
  <2>3. All(0) = <<>>
    BY FlattenEmpty
  <2>4. QED
    BY <2>2, <2>3
<1>2. ASSUME NEW j \in S PROVE j + 1 \in S
  <2> HIDE DEF All
  <2>1. SUFFICES ASSUME j + 1 <= N
                 PROVE  Over(Kids(P, j + 1, 0), Tree(P, c, j + 1)) = All(j + 1)
    OBVIOUS
  <2>2. j \in 0..(N - 1) /\ j + 1 \in 1..N /\ j \in Nat
    BY <1>0, <2>1
  <2> DEFINE R == Kids(P, j, 0)
             t == Tree(P, c, j)
             u == Tree(P, c, j + 1)
             d == c[j + 1]
             B == Below(P, j, 0)
  <2>3. Over(R, t) = All(j)
    BY <1>0, <2>1, <2>2
  <2>4. All(j) \in Seq(V) /\ All(j + 1) = All(j) \o d
    <3> DEFINE f == [n \in 1..(j + 1) |-> c[n]]
               g == [n \in 1..j |-> c[n]]
    <3>1. f \in [1..(j + 1) -> Seq(V)] /\ f[j + 1] = d
      BY <1>0, <2>2 DEF Pieces
    <3>2. [n \in 1..j |-> f[n]] = g
      BY <2>2
    <3> HIDE DEF f, g
    <3>3. FlattenSeq(g) \in Seq(V) /\ FlattenSeq(f) = FlattenSeq(g) \o d
      BY <2>2, <3>1, <3>2, FlattenStep
    <3>4. QED
      BY <3>3 DEF All, f, g
  <2>5. d \in Seq(V)
    BY <2>2 DEF Pieces
  <2>6. NestedAt(P, j + 1)
    BY <2>2 DEF Forest
  <2>7. \A n \in 1..N : t[n] \in Seq(V)
    BY <2>2, TreeTypes
  <2>8. \A n \in 1..j : P[n] = 0 =>
            u[n] = IF P[j + 1] # 0 /\ \A i \in (n + 1)..(j + 1) : P[i] # 0
                   THEN t[n] \o d ELSE t[n]
    BY <2>2, TreeGrows
  <2>9. CASE P[j + 1] = 0
    <3>1. R \in Seq(B) /\ Kids(P, j + 1, 0) = Append(R, j + 1)
      BY <2>2, <2>9, KidsAre
    <3>2. u[j + 1] = d
      BY <2>2, TwigOfLast
    <3>3. Agree(B, V, t, u)
      <4> SUFFICES ASSUME NEW i \in B PROVE t[i] \in Seq(V) /\ u[i] = t[i]
        BY DEF Agree
      <4>1. i \in 1..j /\ i \in 1..N /\ P[i] = 0
        BY <1>0, <2>2 DEF Below
      <4>2. QED
        BY <2>7, <2>8, <2>9, <4>1
    <3> DEFINE I == 1..N
               m == j + 1
    <3>4. u[m] \in Seq(V) /\ m \in I
      BY <2>2, <2>5, <3>2
    <3> HIDE DEF I, m, R, t, u, B, d
    <3>5. Over(Append(R, m), u) = Over(R, t) \o u[m]
      BY <3>1, <3>3, <3>4, OverOneMore
    <3>6. Over(Append(R, m), u) = Over(R, t) \o d
      BY <3>2, <3>5 DEF m
    <3>7. QED
      BY <2>3, <2>4, <3>1, <3>6 DEF m, u
  <2>10. CASE P[j + 1] # 0
    <3> DEFINE r == RootOf(P, j + 1)
               Q == Kids(P, r - 1, 0)
               C == Below(P, r - 1, 0)
    <3>1. /\ r \in 1..j /\ P[r] = 0
          /\ \A i \in (r + 1)..(j + 1) : P[i] # 0
      <4> DEFINE q == P[j + 1]
      <4>1. q \in 1..j /\ P[r] = 0 /\ \A i \in (r + 1)..(j + 1) : P[i] # 0
        BY <1>0, <2>2, <2>6, <2>10 DEF NestedAt
      <4>2. NestedAt(P, q)
        BY <1>0, <2>2, <4>1 DEF Forest
      <4>3. P[q] \in 0..j
        BY <1>0, <2>2, <4>1, <4>2 DEF NestedAt
      <4>4. r = IF P[q] = 0 THEN q ELSE P[q]
        BY <2>10 DEF RootOf
      <4> HIDE DEF q, r
      <4>5. QED
        BY <4>1, <4>3, <4>4
    <3> HIDE DEF r
    <3>2. R = Append(Q, r) /\ Q \in Seq(C)
      <4> DEFINE T == {i \in DOMAIN P : P[i] = 0}
      <4>1. r \in 1..j /\ r \in T /\ \A i \in (r + 1)..j : i \notin T
        BY <1>0, <2>2, <3>1
      <4> HIDE DEF T
      <4>2. Keep(UpTo(j), T) = Append(Keep(UpTo(r - 1), T), r)
        BY <2>2, <4>1, KeepLast
      <4>3. r - 1 \in 0..(N - 1)
        BY <1>0, <2>2, <3>1
      <4>4. Q \in Seq(C)
        BY <4>3, KidsAre
      <4>5. QED
        BY <4>2, <4>4 DEF Kids, T
    <3>3. Agree(C, V, t, u)
      <4> SUFFICES ASSUME NEW i \in C PROVE t[i] \in Seq(V) /\ u[i] = t[i]
        BY DEF Agree
      <4>1. i \in 1..(r - 1) /\ P[i] = 0
        BY DEF Below
      <4>2. i \in 1..j /\ i \in 1..N /\ r \in (i + 1)..(j + 1)
        BY <1>0, <2>2, <3>1, <4>1
      <4>3. QED
        BY <2>7, <2>8, <3>1, <4>1, <4>2
    <3>4. Longer(V, t[r], u[r], d)
      <4>1. r \in 1..N
        BY <1>0, <2>2, <3>1
      <4>2. u[r] = t[r] \o d
        BY <2>8, <2>10, <3>1
      <4>3. QED
        BY <2>5, <2>7, <4>1, <4>2 DEF Longer
    <3> DEFINE I == 1..N
    <3>5. r \in I
      BY <1>0, <2>2, <3>1
    <3>6. Q \in Seq(C)
      BY <3>2
    <3> HIDE DEF I, R, t, u, d, Q, C
    <3>7. Longer(V, Over(Append(Q, r), t), Over(Append(Q, r), u), d)
      BY <3>3, <3>4, <3>5, <3>6, OverMoreOfLast
    <3>8. Over(R, u) = Over(R, t) \o d
      BY <3>2, <3>7 DEF Longer
    <3>9. Kids(P, j + 1, 0) = R
      BY <2>2, <2>10, KidsAre DEF R
    <3>10. QED
      BY <2>3, <2>4, <3>8, <3>9 DEF u
  <2>11. QED
    BY <2>9, <2>10
<1> HIDE DEF S, All
<1>3. S = Nat
  <2>1. S \in SUBSET Nat
    BY DEF S
  <2>2. QED
    BY <1>1, <1>2, <2>1, Induction
<1>4. k \in S /\ k <= N
  BY <1>0, <1>3
<1>5. QED
  BY <1>4 DEF S, All

\* What is kept of 1, 2, ... n stays in its order.
LEMMA KeptInOrder ==
    ASSUME NEW n \in Nat, NEW S
    PROVE  \A i, j \in DOMAIN Keep(UpTo(n), S) : i < j => Keep(UpTo(n), S)[i] < Keep(UpTo(n), S)[j]
<1> DEFINE Sorted(s) == \A i, j \in DOMAIN s : i < j => s[i] < s[j]
           G == {m \in Nat : Sorted(Keep(UpTo(m), S))}
<1>1. 0 \in G
  <2>1. UpTo(0) = <<>>
    BY DEF UpTo
  <2>2. Keep(UpTo(0), S) = <<>>
    BY <2>1, KeepNothing
  <2>3. QED
    BY <2>2
<1>2. ASSUME NEW m \in G PROVE m + 1 \in G
  <2> DEFINE K == Keep(UpTo(m), S)
             J == Keep(UpTo(m + 1), S)
  <2>1. /\ K \in Seq(1..m \cap S)
        /\ m + 1 \in S => J = Append(K, m + 1)
        /\ m + 1 \notin S => J = K
    BY KeepUpTo
  <2>2. Sorted(K)
    OBVIOUS
  <2> HIDE DEF K, J
  <2>3. CASE m + 1 \in S
    <3>1. K \in Seq(Nat) /\ m + 1 \in Nat
      BY <2>1, SeqMonotonic
    <3>2. /\ DOMAIN K = 1..Len(K) /\ Len(K) \in Nat
          /\ \A i \in DOMAIN K : K[i] \in Nat /\ K[i] < m + 1
      BY <2>1, <3>1, LenProperties, ElementOfSeq
    <3>3. /\ DOMAIN J = 1..(Len(K) + 1) /\ J[Len(K) + 1] = m + 1
          /\ \A i \in 1..Len(K) : J[i] = K[i]
      <4>1. J = Append(K, m + 1)
        BY <2>1, <2>3
      <4>2. J \in Seq(Nat) /\ Len(J) = Len(K) + 1
        BY <3>1, <4>1, AppendProperties
      <4>3. DOMAIN J = 1..(Len(K) + 1)
        BY <4>2, LenProperties
      <4>4. QED
        BY <3>1, <4>1, <4>3, AppendProperties
    <3>4. ASSUME NEW i \in DOMAIN J, NEW j \in DOMAIN J, i < j PROVE J[i] < J[j]
      <4>1. i \in 1..Len(K) /\ J[i] = K[i]
        BY <3>2, <3>3, <3>4
      <4>2. CASE j = Len(K) + 1
        BY <3>2, <3>3, <4>1, <4>2
      <4>3. CASE j # Len(K) + 1
        <5>1. j \in 1..Len(K) /\ J[j] = K[j]
          BY <3>2, <3>3, <4>3
        <5>2. QED
          BY <2>2, <3>2, <3>4, <4>1, <5>1
      <4>4. QED
        BY <4>2, <4>3
    <3>5. QED
      BY <3>4 DEF J
  <2>4. CASE m + 1 \notin S
    BY <2>1, <2>2, <2>4 DEF J
  <2>5. QED
    BY <2>3, <2>4
<1> HIDE DEF G
<1>3. G = Nat
  <2>1. G \in SUBSET Nat
    BY DEF G
  <2>2. QED
    BY <1>1, <1>2, <2>1, Induction
<1>4. QED
  BY <1>3 DEF G

\* A list flattens to what its parts that are not empty flatten to.
Only(N, W, w, E) == \A n \in 1..N : w[n] \in Seq(W) /\ (n \notin E => w[n] = <<>>)

LEMMA OverKept ==
    ASSUME NEW N \in Nat, NEW W, NEW w, NEW E, Only(N, W, w, E)
    PROVE  Over(Keep(UpTo(N), E), w) = FlattenSeq([n \in 1..N |-> w[n]])
<1>0. \A n \in 1..N : w[n] \in Seq(W) /\ (n \notin E => w[n] = <<>>)
  BY DEF Only
<1> DEFINE All(m) == FlattenSeq([n \in 1..m |-> w[n]])
           G == {m \in Nat : m <= N => Over(Keep(UpTo(m), E), w) = All(m)}
<1>1. 0 \in G
  <2>1. UpTo(0) = <<>>
    BY DEF UpTo
  <2>2. Over(Keep(UpTo(0), E), w) = <<>>
    BY <2>1, KeepNothing, NothingOver
  <2>3. All(0) = <<>>
    BY FlattenEmpty
  <2>4. QED
    BY <2>2, <2>3
<1>2. ASSUME NEW m \in G PROVE m + 1 \in G
  <2> HIDE DEF All
  <2>1. SUFFICES ASSUME m + 1 <= N PROVE Over(Keep(UpTo(m + 1), E), w) = All(m + 1)
    OBVIOUS
  <2> DEFINE K == Keep(UpTo(m), E)
             J == Keep(UpTo(m + 1), E)
             d == w[m + 1]
             I == 1..N
  <2>2. /\ K \in Seq(1..m \cap E)
        /\ m + 1 \in E => J = Append(K, m + 1)
        /\ m + 1 \notin E => J = K
    BY KeepUpTo
  <2>3. All(m) \in Seq(W) /\ All(m + 1) = All(m) \o d
    <3> DEFINE f == [n \in 1..(m + 1) |-> w[n]]
               g == [n \in 1..m |-> w[n]]
    <3>1. f \in [1..(m + 1) -> Seq(W)] /\ f[m + 1] = d
      BY <1>0, <2>1
    <3>2. [n \in 1..m |-> f[n]] = g
      OBVIOUS
    <3> HIDE DEF f, g
    <3>3. FlattenSeq(g) \in Seq(W) /\ FlattenSeq(f) = FlattenSeq(g) \o d
      BY <3>1, <3>2, FlattenStep
    <3>4. QED
      BY <3>3 DEF All, f, g
  <2>4. Over(K, w) = All(m)
    BY <2>1
  <2>5. CASE m + 1 \in E
    <3>1. K \in Seq(I) /\ m + 1 \in I /\ \A v \in I : w[v] \in Seq(W)
      <4>1. 1..m \cap E \subseteq I /\ m + 1 \in I
        BY <2>1
      <4>2. QED
        BY <1>0, <2>2, <4>1, SeqMonotonic
    <3> DEFINE x == m + 1
    <3>a. K \in Seq(I) /\ x \in I /\ \A v \in I : w[v] \in Seq(W)
      BY <1>0, <3>1
    <3> HIDE DEF K, I, x
    <3>2. Over(Append(K, x), w) = Over(K, w) \o w[x]
      BY <3>a, OverAppend
    <3>3. QED
      BY <2>2, <2>3, <2>4, <2>5, <3>2 DEF x
  <2>6. CASE m + 1 \notin E
    <3>1. d = <<>>
      BY <1>0, <2>1, <2>6
    <3> DEFINE a == All(m)
    <3>2. a \in Seq(W) /\ All(m + 1) = a \o <<>>
      BY <2>3, <3>1
    <3> HIDE DEF a
    <3>3. All(m + 1) = a
      BY <3>2, ConcatEmptySeq
    <3>4. QED
      BY <2>2, <2>4, <2>6, <3>3 DEF a
  <2>7. QED
    BY <2>5, <2>6
<1> HIDE DEF G, All
<1>3. G = Nat
  <2>1. G \in SUBSET Nat
    BY DEF G
  <2>2. QED
    BY <1>1, <1>2, <2>1, Induction
<1>4. QED
  BY <1>3 DEF G, All

\* A list of lists of one is the list of them.
LEMMA FlattenSingles ==
    ASSUME NEW V, NEW n \in Nat, NEW a \in [1..n -> V]
    PROVE  FlattenSeq([i \in 1..n |-> <<a[i]>>]) = a
<1> DEFINE Cut(m) == [i \in 1..m |-> a[i]]
           Singles(m) == [i \in 1..m |-> <<a[i]>>]
           G == {m \in Nat : m <= n => FlattenSeq(Singles(m)) = Cut(m)}
<1>1. 0 \in G
  BY FlattenEmpty
<1>2. ASSUME NEW m \in G PROVE m + 1 \in G
  <2>1. SUFFICES ASSUME m + 1 <= n PROVE FlattenSeq(Singles(m + 1)) = Cut(m + 1)
    OBVIOUS
  <2> DEFINE f == Singles(m + 1)
             h == Cut(m + 1)
             p == Cut(m)
             x == a[m + 1]
  <2>2. f \in [1..(m + 1) -> Seq(V)] /\ f[m + 1] = <<x>> /\ [i \in 1..m |-> f[i]] = Singles(m)
    BY <2>1
  <2>3. h \in [1..(m + 1) -> V] /\ h[m + 1] = x /\ [i \in 1..m |-> h[i]] = p
    BY <2>1
  <2>4. FlattenSeq(Singles(m)) = p
    BY <2>1
  <2> HIDE DEF f, h, p, x, Singles, Cut
  <2>5. FlattenSeq(f) = p \o <<x>>
    BY <2>2, <2>4, FlattenStep
  <2>6. p \in Seq(V) /\ x \in V /\ h = Append(p, x)
    BY <2>3, ListAppend
  <2>7. Append(p, x) = p \o <<x>>
    BY <2>6, AppendIsConcat
  <2>8. QED
    BY <2>5, <2>6, <2>7 DEF f, h
<1> HIDE DEF G
<1>3. G = Nat
  <2>1. G \in SUBSET Nat
    BY DEF G
  <2>2. QED
    BY <1>1, <1>2, <2>1, Induction
<1>4. FlattenSeq(Singles(n)) = Cut(n)
  <2>1. n \in G /\ n <= n
    BY <1>3
  <2>2. QED
    BY <2>1 DEF G
<1>5. Cut(n) = a
  OBVIOUS
<1>6. QED
  BY <1>4, <1>5

\* The records r of the units in E, each a list of one, and as one list.
OneEach(N, r, E) == [n \in 1..N |-> IF n \in E THEN <<r[n]>> ELSE <<>>]
Listed(s, r) == [i \in DOMAIN s |-> r[s[i]]]

\* A list of the records of the units in E, each in its place.
LEMMA RecordsInOrder ==
    ASSUME NEW N \in Nat, NEW V, NEW r \in [1..N -> V], NEW E
    PROVE  FlattenSeq(OneEach(N, r, E)) = Listed(Keep(UpTo(N), E), r)
<1> DEFINE K == Keep(UpTo(N), E)
           c == [n \in 1..N |-> IF n \in E THEN <<r[n]>> ELSE <<>>]
           a == [i \in DOMAIN K |-> r[K[i]]]
<1>1. K \in Seq(1..N \cap E)
  BY KeepUpTo
<1>2. DOMAIN K = 1..Len(K) /\ Len(K) \in Nat /\ \A i \in DOMAIN K : K[i] \in 1..N /\ K[i] \in E
  BY <1>1, LenProperties, ElementOfSeq
<1>3. \A n \in 1..N : c[n] \in Seq(V) /\ (n \notin E => c[n] = <<>>)
  <2> SUFFICES ASSUME NEW n \in 1..N PROVE c[n] \in Seq(V) /\ (n \notin E => c[n] = <<>>)
    OBVIOUS
  <2>1. r[n] \in V
    OBVIOUS
  <2>2. CASE n \in E
    BY <2>1, <2>2
  <2>3. CASE n \notin E
    BY <2>3
  <2>4. QED
    BY <2>2, <2>3
<1>4. [i \in DOMAIN K |-> c[K[i]]] = [i \in 1..Len(K) |-> <<a[i]>>]
  BY <1>2
<1>5. a \in [1..Len(K) -> V]
  BY <1>2
<1>6. [n \in 1..N |-> c[n]] = c
  OBVIOUS
<1> HIDE DEF a, c
<1>7. Over(K, c) = FlattenSeq(c)
  <2>1. Only(N, V, c, E)
    BY <1>3 DEF Only
  <2>2. QED
    BY <1>6, <2>1, OverKept
<1>8. Over(K, c) = FlattenSeq([i \in 1..Len(K) |-> <<a[i]>>])
  BY <1>4 DEF Over
<1> HIDE DEF K
<1>9. FlattenSeq([i \in 1..Len(K) |-> <<a[i]>>]) = a
  BY <1>2, <1>5, FlattenSingles
<1>10. QED
  BY <1>7, <1>8, <1>9 DEF a, c, K, OneEach, Listed

-----------------------------------------------------------------------------
(***************************************************************************)
(* The inductive invariant.                                                *)
(***************************************************************************)
\* The lines read, and the units opened.
Lines == Len(kinds)
Units == Len(nodes)

\* The next line of text goes to the unit opened last.
ParserType ==
    /\ ParserTypeOK
    /\ active = Units
    /\ Units <= Lines + 1

\* The mode says what the lines say.
ModeInv ==
    /\ appendix <=> \E j \in 1..Lines : kinds[j] = "appendix"
    /\ appendix => article = 0 /\ clause = 0
    /\ ~appendix => (article # 0 <=> \E j \in 1..Lines : kinds[j] = "article")

\* The lines that open a unit of a kind.
Opener(kind) == IF kind = "CLAUSE" THEN {"clause"} ELSE
                IF kind = "POINT" THEN {"point"} ELSE {"article", "appendix"}

\* The units are opened one after the other, by the lines that open something.
StartsInv ==
    /\ nodes[1].kind = "PREAMBLE" /\ nodes[1].at = 0
    /\ \A n \in 2..Units : /\ nodes[n].kind # "PREAMBLE"
                           /\ nodes[n].at \in 1..Lines
                           /\ Opens(nodes[n].at)
                           /\ kinds[nodes[n].at] \in Opener(nodes[n].kind)
    /\ \A m, n \in 1..Units : m < n => nodes[m].at < nodes[n].at
    /\ \A j \in 1..Lines : Opens(j) => \E n \in 2..Units : nodes[n].at = j

\* A clause or point after the first n units belongs to article a and clause c.
Kin(n, a, c) ==
    /\ a # 0 => /\ a \in 1..n /\ nodes[a].kind = "ARTICLE"
                /\ \A j \in (a + 1)..n : nodes[j].article # 0
    /\ c # 0 => /\ a # 0 /\ c \in (a + 1)..n
                /\ nodes[c].kind = "CLAUSE" /\ nodes[c].article = a
                /\ \A j \in (c + 1)..n : nodes[j].clause # 0

\* The open article and clause, and those a unit was given when it was opened.
FamilyInv ==
    /\ Kin(Units, article, clause)
    /\ \A n \in 1..Units :
          /\ nodes[n].kind \in {"PREAMBLE", "ARTICLE"} => nodes[n].article = 0
          /\ nodes[n].kind \in {"CLAUSE", "POINT"} =>
                nodes[n].article # 0 /\ Kin(n - 1, nodes[n].article, nodes[n].clause)
          /\ nodes[n].kind # "POINT" => nodes[n].clause = 0

\* The lines of kind k that open something or are headings.
Marked(k) == {j \in 1..Lines : kinds[j] = k /\ (Opens(j) \/ IsHeading(j))}

\* x is the last of S from line i back to line above, 0 if there is none.
LastIs(x, S, i, above) ==
    IF x = 0 THEN \A j \in S : j <= i => j <= above
             ELSE /\ x \in S /\ above < x /\ x <= i
                  /\ \A j \in S : j <= i => j <= x

\* The units that are open, and those a unit belongs to, are the last above.
AboveInv ==
    /\ ~appendix => LastIs(LabelOf(article), Marked("article"), Lines, 0)
    /\ article # 0 => LastIs(LabelOf(clause), Marked("clause"), Lines, LabelOf(article))
    /\ \A n \in 1..Units :
          /\ nodes[n].kind \in {"CLAUSE", "POINT"} =>
                LastIs(LabelOf(nodes[n].article), Marked("article"), nodes[n].at, 0)
          /\ nodes[n].kind = "POINT" =>
                LastIs(LabelOf(nodes[n].clause), Marked("clause"), nodes[n].at,
                       LabelOf(nodes[n].article))

\* So are the headings.
Under(pt, ch, sc, i) ==
    /\ LastIs(pt, Marked("part"), i, 0)
    /\ LastIs(ch, Marked("chapter"), i, pt)
    /\ LastIs(sc, Marked("section"), i, IF pt > ch THEN pt ELSE ch)

HeadingsInv ==
    /\ Under(part, chapter, section, Lines)
    /\ \A n \in 1..Units :
          Under(nodes[n].part, nodes[n].chapter, nodes[n].section, nodes[n].at)

\* The lines of a unit are in order and between its first line and the next
\* unit's, and the first of them has text.
LinesInv ==
    \A n \in 1..Units :
        LET s == nodes[n].lines IN
        /\ \A i \in DOMAIN s : /\ s[i] \in 1..Lines /\ nodes[n].at <= s[i]
                               /\ n < Units => s[i] < nodes[n + 1].at
        /\ \A i, j \in DOMAIN s : i < j => s[i] < s[j]
        /\ s # <<>> => kinds[s[1]] # "blank"

\* Lines are read page by page.
PagesInv ==
    /\ \A i \in 1..Lines : pages[i] <= page
    /\ \A i, j \in 1..Lines : i <= j => pages[i] <= pages[j]

\* The text of the units is the text.
TextInv ==
    FlattenSeq([n \in 1..Units |-> Keep(nodes[n].lines, Written)]) = Keep(UpTo(Lines), BodyLines)

ParserInv ==
    /\ ParserType /\ ModeInv /\ StartsInv /\ FamilyInv
    /\ AboveInv /\ HeadingsInv /\ LinesInv /\ PagesInv /\ TextInv

-----------------------------------------------------------------------------
(***************************************************************************)
(* What a step does to the lines and the units.                            *)
(***************************************************************************)
\* The type of the state, field by field.
LEMMA TypeFacts ==
    ASSUME ParserType
    PROVE  /\ kinds \in Seq(Kind) /\ pages \in Seq(1..MaxPages) /\ nodes \in Seq(Unit)
           /\ MaxLines \in Nat /\ Lines \in 0..MaxLines /\ Units \in 1..(MaxLines + 1)
           /\ DOMAIN kinds = 1..Lines /\ DOMAIN pages = 1..Lines /\ DOMAIN nodes = 1..Units
           /\ \A j \in 1..Lines : kinds[j] \in Kind /\ pages[j] \in 1..MaxPages
           /\ \A n \in 1..Units : nodes[n] \in Unit
           /\ active = Units /\ article \in 0..Units /\ clause \in 0..Units
           /\ part \in 0..Lines /\ chapter \in 0..Lines /\ section \in 0..Lines
           /\ page \in 1..MaxPages /\ appendix \in BOOLEAN
<1>1. kinds \in Seq(Kind) /\ pages \in Seq(1..MaxPages) /\ nodes \in Seq(Unit) /\ MaxLines \in Nat
  BY BoundsAreNumbers DEF ParserType, ParserTypeOK
<1>2. /\ Lines \in Nat /\ Units \in Nat
      /\ DOMAIN kinds = 1..Lines /\ DOMAIN nodes = 1..Units
      /\ \A j \in 1..Lines : kinds[j] \in Kind
      /\ \A n \in 1..Units : nodes[n] \in Unit
  BY <1>1, LenProperties, ElementOfSeq DEF Lines, Units
<1>3. Len(pages) = Lines
  BY DEF ParserType, ParserTypeOK, Lines
<1>4. DOMAIN pages = 1..Lines /\ \A j \in 1..Lines : pages[j] \in 1..MaxPages
  BY <1>1, <1>2, <1>3, LenProperties, ElementOfSeq
<1>5. /\ Lines <= MaxLines /\ Units <= Lines + 1 /\ active = Units /\ active \in DOMAIN nodes
      /\ article \in {0} \cup DOMAIN nodes /\ clause \in {0} \cup DOMAIN nodes
      /\ part \in 0..Lines /\ chapter \in 0..Lines /\ section \in 0..Lines
      /\ page \in 1..MaxPages /\ appendix \in BOOLEAN
  BY DEF ParserType, ParserTypeOK, Lines
<1>6. QED
  BY <1>1, <1>2, <1>4, <1>5

\* The lines before keep their sense, and the mode tells that of the new one.
LEMMA LineRead ==
    ASSUME ParserType, ModeInv, NEW k \in Kind, Line(k)
    PROVE  /\ Lines' = Lines + 1 /\ Lines + 1 <= MaxLines /\ page' = page
           /\ kinds' \in Seq(Kind) /\ pages' \in Seq(1..MaxPages) /\ Len(pages') = Lines + 1
           /\ kinds'[Lines + 1] = k /\ pages'[Lines + 1] = page
           /\ \A j \in 1..Lines : /\ kinds'[j] = kinds[j] /\ pages'[j] = pages[j]
                                  /\ Opens(j)' <=> Opens(j)
                                  /\ IsHeading(j)' <=> IsHeading(j)
           /\ \A j \in Nat : j = Lines + 1 =>
                 /\ Opens(j)' <=> \/ k = "appendix"
                                  \/ ~appendix /\ k = "article"
                                  \/ ~appendix /\ k \in {"clause", "point"} /\ article # 0
                 /\ IsHeading(j)' <=> ~appendix /\ k \in {"part", "chapter", "section"}
<1>1. /\ kinds \in Seq(Kind) /\ pages \in Seq(1..MaxPages) /\ Lines \in Nat
      /\ page \in 1..MaxPages
  BY TypeFacts
<1>2. Lines < MaxLines /\ kinds' = Append(kinds, k) /\ pages' = Append(pages, page) /\ page' = page
  BY DEF Line, Lines
<1>3. Len(pages) = Lines
  BY DEF ParserType, ParserTypeOK, Lines
<1>4. /\ kinds' \in Seq(Kind) /\ Len(kinds') = Lines + 1 /\ kinds'[Lines + 1] = k
      /\ \A j \in 1..Lines : kinds'[j] = kinds[j]
  BY <1>1, <1>2, AppendProperties DEF Lines
<1>5. /\ pages' \in Seq(1..MaxPages) /\ Len(pages') = Lines + 1 /\ pages'[Lines + 1] = page
      /\ \A j \in 1..Lines : pages'[j] = pages[j]
  <2> DEFINE V == 1..MaxPages
  <2>1. pages \in Seq(V) /\ page \in V
    BY <1>1
  <2> HIDE DEF V
  <2>2. Append(pages, page) \in Seq(V) /\ Len(Append(pages, page)) = Len(pages) + 1
    BY <2>1, AppendProperties
  <2>3. /\ Append(pages, page)[Len(pages) + 1] = page
        /\ \A j \in 1..Len(pages) : Append(pages, page)[j] = pages[j]
    BY <2>1, AppendProperties
  <2>4. QED
    BY <1>2, <1>3, <2>2, <2>3 DEF V
<1>6. ASSUME NEW j \in 1..(Lines + 1)
      PROVE  /\ InAppendix(j)' <=> \E i \in 1..(j - 1) : kinds[i] = "appendix"
             /\ InArticle(j)' <=> \E i \in 1..(j - 1) : kinds[i] = "article"
  <2>1. \A i \in 1..(j - 1) : kinds'[i] = kinds[i]
    BY <1>1, <1>4
  <2>2. QED
    BY <2>1 DEF InAppendix, InArticle
<1>7. ASSUME NEW j \in 1..Lines
      PROVE  (Opens(j)' <=> Opens(j)) /\ (IsHeading(j)' <=> IsHeading(j))
  <2>1. kinds'[j] = kinds[j] /\ (InAppendix(j)' <=> InAppendix(j)) /\ (InArticle(j)' <=> InArticle(j))
    BY <1>1, <1>4, <1>6 DEF InAppendix, InArticle
  <2>2. QED
    BY <2>1 DEF Opens, IsHeading
<1>8. ASSUME NEW j \in Nat, j = Lines + 1
      PROVE  /\ Opens(j)' <=> \/ k = "appendix"
                              \/ ~appendix /\ k = "article"
                              \/ ~appendix /\ k \in {"clause", "point"} /\ article # 0
             /\ IsHeading(j)' <=> ~appendix /\ k \in {"part", "chapter", "section"}
  <2>1. j \in 1..(Lines + 1) /\ j - 1 = Lines /\ kinds'[j] = k
    BY <1>1, <1>4, <1>8
  <2>2. (InAppendix(j)' <=> appendix) /\ (~appendix => (InArticle(j)' <=> article # 0))
    BY <1>6, <2>1 DEF ModeInv
  <2>3. /\ Opens(j)' <=> \/ k = "appendix"
                         \/ ~InAppendix(j)' /\ k = "article"
                         \/ ~InAppendix(j)' /\ k \in {"clause", "point"} /\ InArticle(j)'
        /\ IsHeading(j)' <=> k \in {"part", "chapter", "section"} /\ ~InAppendix(j)'
    BY <2>1 DEF Opens, IsHeading
  <2>4. QED
    BY <2>2, <2>3
<1>10. Lines' = Lines + 1 /\ Lines + 1 <= MaxLines
  BY <1>1, <1>2, <1>4, BoundsAreNumbers DEF Lines
<1>11. QED
  BY <1>2, <1>4, <1>5, <1>7, <1>8, <1>10

\* A line of text changes the lines of its unit only.
SameHead(u, v) ==
    /\ u.kind = v.kind /\ u.at = v.at /\ u.article = v.article /\ u.clause = v.clause
    /\ u.part = v.part /\ u.chapter = v.chapter /\ u.section = v.section

LEMMA UnitExtended ==
    ASSUME ParserType, Lines < MaxLines, nodes' = Extended(active)
    PROVE  /\ nodes' \in Seq(Unit) /\ Units' = Units
           /\ \A n \in 1..Units : /\ SameHead(nodes'[n], nodes[n])
                                  /\ n # Units => nodes'[n] = nodes[n]
           /\ nodes'[Units].lines = Append(nodes[Units].lines, Lines + 1)
<1>1. /\ nodes \in Seq(Unit) /\ DOMAIN nodes = 1..Units /\ Units \in 1..(MaxLines + 1) /\ active = Units
      /\ Lines \in 0..MaxLines /\ MaxLines \in Nat
      /\ \A n \in 1..Units : nodes[n] \in Unit
  BY TypeFacts
<1> DEFINE v == [nodes[Units] EXCEPT !.lines = Append(@, Lines + 1)]
<1>2. v \in Unit /\ SameHead(v, nodes[Units]) /\ v.lines = Append(nodes[Units].lines, Lines + 1)
  <2>1. nodes[Units] \in Unit /\ Lines + 1 \in 1..MaxLines
    BY <1>1
  <2>2. Append(nodes[Units].lines, Lines + 1) \in Seq(1..MaxLines)
    <3> DEFINE V == 1..MaxLines
    <3>1. nodes[Units].lines \in Seq(V) /\ Lines + 1 \in V
      BY <2>1 DEF Unit
    <3> HIDE DEF V
    <3>2. Append(nodes[Units].lines, Lines + 1) \in Seq(V)
      BY <3>1, AppendProperties
    <3>3. QED
      BY <3>2 DEF V
  <2>3. QED
    BY <2>1, <2>2 DEF Unit, SameHead
<1>3. nodes' = [nodes EXCEPT ![Units] = v]
  BY <1>1 DEF Extended, Here, Lines
<1> HIDE DEF v
<1>4. nodes' \in Seq(Unit) /\ Len(nodes') = Len(nodes)
  BY <1>1, <1>2, <1>3, ExceptSeq
<1>5. nodes'[Units] = v /\ \A n \in 1..Units : n # Units => nodes'[n] = nodes[n]
  BY <1>1, <1>3
<1>6. QED
  BY <1>2, <1>4, <1>5 DEF Units, SameHead

\* A line that opens a unit changes no other one.
LEMMA UnitAdded ==
    ASSUME ParserType, NEW u \in Unit, nodes' = Append(nodes, u)
    PROVE  /\ nodes' \in Seq(Unit) /\ Units' = Units + 1
           /\ \A n \in 1..Units : nodes'[n] = nodes[n]
           /\ nodes'[Units + 1] = u
<1>1. nodes \in Seq(Unit)
  BY TypeFacts
<1>2. QED
  BY <1>1, AppendProperties DEF Units

(***************************************************************************)
(* A line of text or a blank one, a heading, a line that opens a unit, and *)
(* the step to the next page.                                              *)
(***************************************************************************)
Spoken(k) ==
    /\ Line(k) /\ UNCHANGED <<open, headings>>
    /\ \/ k \in {"text", "blank"}
       \/ appendix /\ k \in {"part", "chapter", "section", "article"}
       \/ (appendix \/ article = 0) /\ k \in {"clause", "point"}
    /\ \/ nodes' = Extended(active) /\ (k = "blank" => nodes[active].lines # <<>>)
       \/ nodes' = nodes /\ k = "blank"

Headed(k) ==
    /\ Line(k) /\ UNCHANGED <<nodes, open>>
    /\ k \in {"part", "chapter", "section"} /\ ~appendix
    /\ part' = IF k = "part" THEN Here ELSE part
    /\ chapter' = IF k = "part" THEN 0 ELSE IF k = "chapter" THEN Here ELSE chapter
    /\ section' = IF k = "section" THEN Here ELSE 0

Opening(k) ==
    NewUnit(CASE k = "clause" -> "CLAUSE" [] k = "point" -> "POINT" [] OTHER -> "ARTICLE",
            IF k \in {"clause", "point"} THEN article ELSE 0,
            IF k = "point" THEN clause ELSE 0,
            IF k \in {"clause", "point"} THEN <<Here>> ELSE <<>>)

Opened(k) ==
    /\ Line(k) /\ UNCHANGED headings
    /\ k \in {"appendix", "article", "clause", "point"}
    /\ k # "appendix" => ~appendix
    /\ k \in {"clause", "point"} => article # 0
    /\ nodes' = Append(nodes, Opening(k)) /\ active' = NewNode
    /\ article' = IF k = "appendix" THEN 0 ELSE IF k = "article" THEN NewNode ELSE article
    /\ clause' = IF k = "clause" THEN NewNode ELSE IF k = "point" THEN clause ELSE 0
    /\ appendix' = (appendix \/ k = "appendix")

Turned ==
    /\ UNCHANGED <<kinds, pages, nodes, open, headings>>
    /\ \/ page' = page
       \/ page < MaxPages /\ page' = page + 1

\* There are no other steps.
LEMMA Effects ==
    ASSUME ParserType, [ParseNext]_parserVars
    PROVE  \/ \E k \in Kind : Spoken(k)
           \/ \E k \in Kind : Headed(k)
           \/ \E k \in Kind : Opened(k)
           \/ Turned
<1> USE DEF open, headings
<1>0. /\ appendix \in BOOLEAN
      /\ \A k \in {"appendix", "article", "clause", "point", "part", "chapter", "section", "text", "blank"} :
            k \in Kind
  BY TypeFacts DEF Kind
<1>1. CASE Blank
  <2>1. Spoken("blank")
    BY <1>1 DEF Blank, Spoken
  <2>2. QED
    BY <1>0, <2>1
<1>2. CASE Appendix
  <2>1. Opening("appendix") = NewUnit("ARTICLE", 0, 0, <<>>)
    BY DEF Opening
  <2>2. Opened("appendix")
    BY <1>2, <2>1 DEF Appendix, Opened
  <2>3. QED
    BY <1>0, <2>2
<1>3. CASE Part
  <2>1. Headed("part")
    BY <1>3 DEF Part, Headed
  <2>2. QED
    BY <1>0, <2>1
<1>4. CASE Chapter
  <2>1. Headed("chapter")
    BY <1>4 DEF Chapter, Headed
  <2>2. QED
    BY <1>0, <2>1
<1>5. CASE Section
  <2>1. Headed("section")
    BY <1>5 DEF Section, Headed
  <2>2. QED
    BY <1>0, <2>1
<1>6. CASE Article
  <2>1. Opening("article") = NewUnit("ARTICLE", 0, 0, <<>>)
    BY DEF Opening
  <2>2. Opened("article")
    BY <1>0, <1>6, <2>1 DEF Article, Opened
  <2>3. QED
    BY <1>0, <2>2
<1>7. CASE Clause
  <2>1. Opening("clause") = NewUnit("CLAUSE", article, 0, <<Here>>)
    BY DEF Opening
  <2>2. Opened("clause")
    BY <1>0, <1>7, <2>1 DEF Clause, Opened
  <2>3. QED
    BY <1>0, <2>2
<1>8. CASE Point
  <2>1. Opening("point") = NewUnit("POINT", article, clause, <<Here>>)
    BY DEF Opening
  <2>2. Opened("point")
    BY <1>0, <1>8, <2>1 DEF Point, Opened
  <2>3. QED
    BY <1>0, <2>2
<1>9. ASSUME NEW k \in Kind, TextLine(k) PROVE Spoken(k)
  BY <1>9 DEF TextLine, Spoken
<1>10. CASE TurnPage
  BY <1>10 DEF TurnPage, Turned
<1>11. CASE UNCHANGED parserVars
  BY <1>11 DEF parserVars, Turned
<1>12. QED
  BY <1>1, <1>2, <1>3, <1>4, <1>5, <1>6, <1>7, <1>8, <1>9, <1>10, <1>11 DEF ParseNext

\* What is said above of the lines, for each of these steps.
LEMMA SpokenIs ==
    ASSUME ParserType, ModeInv, NEW k \in Kind, Spoken(k)
    PROVE  /\ \A j \in Nat : j = Lines + 1 => ~Opens(j)' /\ ~IsHeading(j)'
           /\ nodes' \in Seq(Unit) /\ Units' = Units
           /\ \A n \in 1..Units : SameHead(nodes'[n], nodes[n])
           /\ UNCHANGED <<active, article, clause, appendix, part, chapter, section>>
<1>1. Line(k)
  BY DEF Spoken
<1>2. Lines < MaxLines /\ nodes \in Seq(Unit) /\ appendix \in BOOLEAN
  BY <1>1, TypeFacts DEF Line, Lines
<1>3. \A j \in Nat : j = Lines + 1 => ~Opens(j)' /\ ~IsHeading(j)'
  BY <1>1, <1>2, LineRead DEF Spoken
<1>4. /\ nodes' \in Seq(Unit) /\ Units' = Units
      /\ \A n \in 1..Units : SameHead(nodes'[n], nodes[n])
  <2>1. CASE nodes' = nodes
    <3>1. Units' = Units /\ \A n \in 1..Units : nodes'[n] = nodes[n]
      BY <2>1 DEF Units
    <3>2. QED
      BY <1>2, <2>1, <3>1 DEF SameHead
  <2>2. CASE nodes' = Extended(active)
    BY <1>2, <2>2, UnitExtended
  <2>3. QED
    BY <2>1, <2>2 DEF Spoken
<1>5. UNCHANGED <<active, article, clause, appendix, part, chapter, section>>
  BY DEF Spoken, open, headings
<1>6. QED
  BY <1>3, <1>4, <1>5

\* The unit that is opened, field by field.
LEMMA OpenedIs ==
    ASSUME ParserType, NEW k \in Kind, Opened(k)
    PROVE  /\ nodes' \in Seq(Unit) /\ Units' = Units + 1
           /\ \A n \in 1..Units : nodes'[n] = nodes[n]
           /\ nodes'[Units + 1] = Opening(k)
           /\ Opening(k).at = Lines + 1
           /\ Opening(k).kind = IF k = "clause" THEN "CLAUSE" ELSE IF k = "point" THEN "POINT" ELSE "ARTICLE"
           /\ Opening(k).article = IF k \in {"clause", "point"} THEN article ELSE 0
           /\ Opening(k).clause = IF k = "point" THEN clause ELSE 0
           /\ Opening(k).part = part /\ Opening(k).chapter = chapter /\ Opening(k).section = section
           /\ Opening(k).lines = IF k \in {"clause", "point"} THEN <<Lines + 1>> ELSE <<>>
           /\ active' = Units + 1
           /\ article' = IF k = "appendix" THEN 0 ELSE IF k = "article" THEN Units + 1 ELSE article
           /\ clause' = IF k = "clause" THEN Units + 1 ELSE IF k = "point" THEN clause ELSE 0
<1>1. Lines < MaxLines
  BY DEF Opened, Line, Lines
<1>2. /\ Lines \in Nat /\ MaxLines \in Nat /\ Units \in 1..(MaxLines + 1)
      /\ article \in 0..Units /\ clause \in 0..Units
      /\ part \in 0..Lines /\ chapter \in 0..Lines /\ section \in 0..Lines
  BY TypeFacts
<1>3. Here = Lines + 1 /\ NewNode = Units + 1
  BY DEF Here, NewNode, Lines, Units
<1>4. /\ Opening(k).at = Lines + 1
      /\ Opening(k).kind = IF k = "clause" THEN "CLAUSE" ELSE IF k = "point" THEN "POINT" ELSE "ARTICLE"
      /\ Opening(k).article = IF k \in {"clause", "point"} THEN article ELSE 0
      /\ Opening(k).clause = IF k = "point" THEN clause ELSE 0
      /\ Opening(k).part = part /\ Opening(k).chapter = chapter /\ Opening(k).section = section
      /\ Opening(k).lines = IF k \in {"clause", "point"} THEN <<Lines + 1>> ELSE <<>>
  BY <1>3 DEF Opening, NewUnit
<1>5. Opening(k) \in Unit
  <2> DEFINE l == IF k \in {"clause", "point"} THEN <<Lines + 1>> ELSE <<>>
             d == CASE k = "clause" -> "CLAUSE" [] k = "point" -> "POINT" [] OTHER -> "ARTICLE"
             a == IF k \in {"clause", "point"} THEN article ELSE 0
             c == IF k = "point" THEN clause ELSE 0
             V == 1..MaxLines
  <2>1. l \in Seq(V)
    <3>1. Lines + 1 \in V
      BY <1>1, <1>2
    <3> HIDE DEF V
    <3>2. QED
      BY <3>1
  <2>2. d \in {"PREAMBLE", "ARTICLE", "CLAUSE", "POINT"}
    OBVIOUS
  <2>3. a \in 0..(MaxLines + 1) /\ c \in 0..(MaxLines + 1) /\ Lines + 1 \in 0..MaxLines
    BY <1>1, <1>2
  <2>4. part \in 0..MaxLines /\ chapter \in 0..MaxLines /\ section \in 0..MaxLines
    BY <1>1, <1>2
  <2>5. Opening(k) = [kind |-> d, at |-> Lines + 1, part |-> part, chapter |-> chapter,
                      section |-> section, article |-> a, clause |-> c, lines |-> l]
    BY <1>3 DEF Opening, NewUnit
  <2> HIDE DEF l, d, a, c
  <2>6. QED
    BY <2>1, <2>2, <2>3, <2>4, <2>5 DEF Unit, V
<1>6. nodes' = Append(nodes, Opening(k))
  BY DEF Opened
<1>7. /\ nodes' \in Seq(Unit) /\ Units' = Units + 1
      /\ \A n \in 1..Units : nodes'[n] = nodes[n]
      /\ nodes'[Units + 1] = Opening(k)
  BY <1>5, <1>6, UnitAdded
<1>8. /\ active' = Units + 1
      /\ article' = IF k = "appendix" THEN 0 ELSE IF k = "article" THEN Units + 1 ELSE article
      /\ clause' = IF k = "clause" THEN Units + 1 ELSE IF k = "point" THEN clause ELSE 0
  BY <1>3 DEF Opened
<1>9. QED
  BY <1>4, <1>7, <1>8

\* Each part of the invariant is kept by every step.  The types:
LEMMA TypeStep ==
    ASSUME ParserType, ModeInv, [ParseNext]_parserVars
    PROVE  ParserType'
<1>1. /\ MaxLines \in Nat /\ Lines \in 0..MaxLines /\ Units \in 1..(MaxLines + 1) /\ Units <= Lines + 1
      /\ active = Units /\ article \in 0..Units /\ clause \in 0..Units
      /\ part \in 0..Lines /\ chapter \in 0..Lines /\ section \in 0..Lines
      /\ page \in 1..MaxPages /\ appendix \in BOOLEAN /\ nodes \in Seq(Unit)
  BY TypeFacts DEF ParserType
<1>2. ASSUME /\ kinds' \in Seq(Kind) /\ Lines' <= MaxLines
             /\ pages' \in Seq(1..MaxPages) /\ Len(pages') = Lines'
             /\ page' \in 1..MaxPages /\ nodes' \in Seq(Unit)
             /\ active' = Units' /\ Units' \in Nat \ {0} /\ Units' <= Lines' + 1
             /\ article' \in 0..Units' /\ clause' \in 0..Units'
             /\ part' \in 0..Lines' /\ chapter' \in 0..Lines' /\ section' \in 0..Lines'
             /\ appendix' \in BOOLEAN
      PROVE  ParserType'
  <2>1. DOMAIN nodes' = 1..Units'
    BY <1>2, LenProperties DEF Units
  <2>2. /\ active' \in DOMAIN nodes' /\ article' \in {0} \cup DOMAIN nodes'
        /\ clause' \in {0} \cup DOMAIN nodes'
    BY <1>2, <2>1
  <2>3. ParserTypeOK'
    BY <1>2, <2>2 DEF ParserTypeOK, Lines
  <2>4. QED
    BY <1>2, <2>3 DEF ParserType
<1>3. ASSUME NEW k \in Kind, Line(k)
      PROVE  /\ kinds' \in Seq(Kind) /\ Lines' = Lines + 1 /\ Lines + 1 <= MaxLines
             /\ pages' \in Seq(1..MaxPages) /\ Len(pages') = Lines + 1
             /\ page' = page
  BY <1>3, LineRead
<1>4. CASE \E k \in Kind : Spoken(k)
  <2>1. PICK k \in Kind : Spoken(k)
    BY <1>4
  <2>2. Line(k)
    BY <2>1 DEF Spoken
  <2>3. /\ nodes' \in Seq(Unit) /\ Units' = Units
        /\ UNCHANGED <<active, article, clause, appendix, part, chapter, section>>
    BY <2>1, SpokenIs
  <2>4. QED
    BY <1>1, <1>2, <1>3, <2>2, <2>3
<1>5. CASE \E k \in Kind : Headed(k)
  <2>1. PICK k \in Kind : Headed(k)
    BY <1>5
  <2>2. /\ Line(k) /\ nodes' = nodes /\ Units' = Units
        /\ UNCHANGED <<active, article, clause, appendix>>
    BY <2>1 DEF Headed, open, Units
  <2>3. part' \in 0..(Lines + 1) /\ chapter' \in 0..(Lines + 1) /\ section' \in 0..(Lines + 1)
    BY <1>1, <2>1 DEF Headed, Here, Lines
  <2>4. QED
    BY <1>1, <1>2, <1>3, <2>2, <2>3
<1>6. CASE \E k \in Kind : Opened(k)
  <2>1. PICK k \in Kind : Opened(k)
    BY <1>6
  <2>2. Line(k) /\ UNCHANGED <<part, chapter, section>> /\ appendix' \in BOOLEAN
    BY <1>1, <2>1 DEF Opened, headings
  <2>3. /\ nodes' \in Seq(Unit) /\ Units' = Units + 1 /\ active' = Units + 1
        /\ article' = IF k = "appendix" THEN 0 ELSE IF k = "article" THEN Units + 1 ELSE article
        /\ clause' = IF k = "clause" THEN Units + 1 ELSE IF k = "point" THEN clause ELSE 0
    BY <2>1, OpenedIs
  <2>4. QED
    BY <1>1, <1>2, <1>3, <2>2, <2>3
<1>7. CASE Turned
  <2>1. /\ UNCHANGED <<kinds, pages, nodes, active, article, clause, appendix, part, chapter, section>>
        /\ page' \in 1..MaxPages
    BY <1>1, <1>7, BoundsAreNumbers DEF Turned, open, headings
  <2>2. Lines' = Lines /\ Units' = Units
    BY <2>1 DEF Lines, Units
  <2>3. kinds \in Seq(Kind) /\ pages \in Seq(1..MaxPages) /\ Len(pages) = Lines
    BY DEF ParserType, ParserTypeOK, Lines
  <2>4. QED
    BY <1>1, <1>2, <2>1, <2>2, <2>3
<1>8. QED
  BY <1>4, <1>5, <1>6, <1>7, Effects

\* The mode:
LEMMA ModeStep ==
    ASSUME ParserType, ModeInv, [ParseNext]_parserVars
    PROVE  ModeInv'
<1>1. Lines \in Nat /\ Units \in Nat \ {0} /\ appendix \in BOOLEAN
  BY TypeFacts
<1>2. ASSUME NEW k \in Kind, Line(k)
      PROVE  /\ Lines' = Lines + 1
             /\ \A j \in 1..(Lines + 1) : kinds'[j] = IF j = Lines + 1 THEN k ELSE kinds[j]
  <2>1. /\ Lines' = Lines + 1 /\ kinds'[Lines + 1] = k
        /\ \A j \in 1..Lines : kinds'[j] = kinds[j]
    BY <1>2, LineRead
  <2>2. QED
    BY <1>1, <2>1
<1>3. CASE \E k \in Kind : Spoken(k)
  <2>1. PICK k \in Kind : Spoken(k)
    BY <1>3
  <2>2. Line(k) /\ UNCHANGED <<article, clause, appendix>>
    BY <2>1 DEF Spoken, open
  <2>3. k # "appendix" /\ (~appendix => k # "article")
    BY <2>1 DEF Spoken
  <2>4. QED
    BY <1>1, <1>2, <2>2, <2>3 DEF ModeInv
<1>4. CASE \E k \in Kind : Headed(k)
  <2>1. PICK k \in Kind : Headed(k)
    BY <1>4
  <2>2. Line(k) /\ UNCHANGED <<article, clause, appendix>> /\ k # "appendix" /\ k # "article"
    BY <2>1 DEF Headed, open
  <2>3. QED
    BY <1>1, <1>2, <2>2 DEF ModeInv
<1>5. CASE \E k \in Kind : Opened(k)
  <2>1. PICK k \in Kind : Opened(k)
    BY <1>5
  <2>2. /\ Line(k) /\ appendix' = (appendix \/ k = "appendix")
        /\ k \in {"appendix", "article", "clause", "point"}
        /\ (k # "appendix" => ~appendix) /\ (k \in {"clause", "point"} => article # 0)
    BY <2>1 DEF Opened
  <2>3. /\ article' = IF k = "appendix" THEN 0 ELSE IF k = "article" THEN Units + 1 ELSE article
        /\ clause' = IF k = "clause" THEN Units + 1 ELSE IF k = "point" THEN clause ELSE 0
    BY <2>1, OpenedIs
  <2>4. /\ Lines' = Lines + 1
        /\ \A j \in 1..(Lines + 1) : kinds'[j] = IF j = Lines + 1 THEN k ELSE kinds[j]
    BY <1>2, <2>2
  <2>5. CASE k = "appendix"
    <3>1. appendix' /\ article' = 0 /\ clause' = 0
      BY <2>2, <2>3, <2>5
    <3>2. Lines' = Lines + 1 /\ Lines + 1 \in 1..(Lines + 1) /\ kinds'[Lines + 1] = "appendix"
      BY <1>1, <2>4, <2>5
    <3>3. \E j \in 1..Lines' : kinds'[j] = "appendix"
      BY <3>2
    <3>4. QED
      BY <3>1, <3>3 DEF ModeInv
  <2>6. CASE k = "article"
    BY <1>1, <2>2, <2>3, <2>4, <2>6 DEF ModeInv
  <2>7. CASE k \in {"clause", "point"}
    BY <1>1, <2>2, <2>3, <2>4, <2>7 DEF ModeInv
  <2>8. QED
    BY <2>2, <2>5, <2>6, <2>7
<1>6. CASE Turned
  BY <1>6 DEF Turned, open, headings, ModeInv, Lines
<1>7. QED
  BY <1>3, <1>4, <1>5, <1>6, Effects

\* The first line of a unit has been read, 0 for the preamble.
LEMMA Starts ==
    ASSUME ParserType, StartsInv
    PROVE  \A n \in 1..Units : nodes[n].at \in 0..Lines
<1>1. Lines \in Nat /\ Units \in Nat
  BY TypeFacts
<1>2. ASSUME NEW n \in 1..Units PROVE nodes[n].at \in 0..Lines
  <2>1. CASE n = 1
    BY <1>1, <2>1 DEF StartsInv
  <2>2. CASE n # 1
    <3>1. n \in 2..Units
      BY <1>1, <2>2
    <3>2. QED
      BY <1>1, <3>1 DEF StartsInv
  <2>3. QED
    BY <2>1, <2>2
<1>3. QED
  BY <1>2

\* The first lines of the units:
LEMMA StartsStep ==
    ASSUME ParserType, ModeInv, StartsInv, [ParseNext]_parserVars
    PROVE  StartsInv'
<1>1. Lines \in Nat /\ Units \in Nat \ {0} /\ appendix \in BOOLEAN
  BY TypeFacts
<1>2. ASSUME NEW k \in Kind, Line(k)
      PROVE  /\ Lines' = Lines + 1
             /\ \A j \in 1..(Lines + 1) :
                   /\ kinds'[j] = IF j = Lines + 1 THEN k ELSE kinds[j]
                   /\ Opens(j)' <=> IF j = Lines + 1
                                    THEN \/ k = "appendix"
                                         \/ ~appendix /\ k = "article"
                                         \/ ~appendix /\ k \in {"clause", "point"} /\ article # 0
                                    ELSE Opens(j)
  <2>1. /\ Lines' = Lines + 1 /\ kinds'[Lines + 1] = k
        /\ \A j \in 1..Lines : kinds'[j] = kinds[j] /\ (Opens(j)' <=> Opens(j))
    BY <1>2, LineRead
  <2>2. \A j \in Nat : j = Lines + 1 =>
            (Opens(j)' <=> \/ k = "appendix"
                           \/ ~appendix /\ k = "article"
                           \/ ~appendix /\ k \in {"clause", "point"} /\ article # 0)
    BY <1>2, LineRead
  <2>3. QED
    BY <1>1, <2>1, <2>2
\* No unit is opened.
<1>3. ASSUME NEW k \in Kind, Line(k), Units' = Units,
             \A n \in 1..Units : SameHead(nodes'[n], nodes[n]),
             \A j \in Nat : j = Lines + 1 => ~Opens(j)'
      PROVE  StartsInv'
  <2>1. \A n \in 1..Units : nodes'[n].kind = nodes[n].kind /\ nodes'[n].at = nodes[n].at
    BY <1>3 DEF SameHead
  <2>2. /\ Lines' = Lines + 1
        /\ \A j \in 1..Lines : kinds'[j] = kinds[j] /\ (Opens(j)' <=> Opens(j))
    BY <1>1, <1>2, <1>3
  <2>3. nodes'[1].kind = "PREAMBLE" /\ nodes'[1].at = 0
    BY <1>1, <2>1 DEF StartsInv
  <2>4. ASSUME NEW n \in 2..Units
        PROVE  /\ nodes'[n].kind # "PREAMBLE" /\ nodes'[n].at \in 1..(Lines + 1)
               /\ Opens(nodes[n].at)' /\ nodes'[n].at = nodes[n].at
               /\ kinds'[nodes'[n].at] \in Opener(nodes'[n].kind)
    <3>1. n \in 1..Units
      BY <1>1
    <3>2. PICK j \in 1..Lines : j = nodes[n].at
      BY DEF StartsInv
    <3>3. QED
      BY <1>1, <2>1, <2>2, <3>1, <3>2 DEF StartsInv
  <2>5. ASSUME NEW j \in 1..(Lines + 1), Opens(j)' PROVE \E n \in 2..Units : nodes'[n].at = j
    <3>1. j \in 1..Lines /\ Opens(j)
      BY <1>1, <1>3, <2>2, <2>5
    <3>2. PICK n \in 2..Units : nodes[n].at = j
      BY <3>1 DEF StartsInv
    <3>3. QED
      BY <1>1, <2>1, <3>2
  <2>6. \A m, n \in 1..Units : m < n => nodes'[m].at < nodes'[n].at
    BY <2>1 DEF StartsInv
  <2>7. QED
    BY <1>3, <2>2, <2>3, <2>4, <2>5, <2>6 DEF StartsInv
<1>4. CASE \E k \in Kind : Spoken(k)
  <2>1. PICK k \in Kind : Spoken(k)
    BY <1>4
  <2>2. QED
    BY <1>3, <2>1, SpokenIs DEF Spoken
<1>5. CASE \E k \in Kind : Headed(k)
  <2>1. PICK k \in Kind : Headed(k)
    BY <1>5
  <2>2. Line(k) /\ nodes' = nodes /\ Units' = Units /\ k \in {"part", "chapter", "section"}
    BY <2>1 DEF Headed, Units
  <2>3. \A j \in Nat : j = Lines + 1 => ~Opens(j)'
    BY <1>1, <1>2, <2>2
  <2>4. \A n \in 1..Units : SameHead(nodes'[n], nodes[n])
    BY <2>2 DEF SameHead
  <2>5. QED
    BY <1>3, <2>2, <2>3, <2>4
<1>6. CASE \E k \in Kind : Opened(k)
  <2>1. PICK k \in Kind : Opened(k)
    BY <1>6
  <2>2. /\ Line(k) /\ k \in {"appendix", "article", "clause", "point"}
        /\ (k # "appendix" => ~appendix) /\ (k \in {"clause", "point"} => article # 0)
    BY <2>1 DEF Opened
  <2>3. /\ Units' = Units + 1
        /\ \A n \in 1..Units : nodes'[n] = nodes[n]
        /\ nodes'[Units + 1].at = Lines + 1
        /\ nodes'[Units + 1].kind = IF k = "clause" THEN "CLAUSE" ELSE IF k = "point" THEN "POINT" ELSE "ARTICLE"
    BY <2>1, OpenedIs
  <2>4. /\ Lines' = Lines + 1 /\ kinds'[Lines + 1] = k
        /\ \A j \in 1..Lines : kinds'[j] = kinds[j] /\ (Opens(j)' <=> Opens(j))
        /\ \A j \in Nat : j = Lines + 1 => Opens(j)'
    BY <1>1, <1>2, <2>2
  <2>5. nodes'[1].kind = "PREAMBLE" /\ nodes'[1].at = 0
    BY <1>1, <2>3 DEF StartsInv
  <2>6. ASSUME NEW n \in 2..(Units + 1)
        PROVE  /\ nodes'[n].kind # "PREAMBLE" /\ nodes'[n].at \in 1..(Lines + 1)
               /\ \A j \in Nat : j = nodes'[n].at => Opens(j)'
               /\ kinds'[nodes'[n].at] \in Opener(nodes'[n].kind)
    <3>1. CASE n = Units + 1
      <4>1. kinds'[nodes'[n].at] \in Opener(nodes'[n].kind)
        BY <2>2, <2>3, <2>4, <3>1 DEF Opener
      <4>2. QED
        BY <1>1, <2>3, <2>4, <3>1, <4>1
    <3>2. CASE n # Units + 1
      <4>1. n \in 2..Units /\ n \in 1..Units
        BY <1>1, <3>2
      <4>2. PICK j \in 1..Lines : j = nodes[n].at
        BY <4>1 DEF StartsInv
      <4>3. nodes[n].kind # "PREAMBLE" /\ Opens(j) /\ kinds[j] \in Opener(nodes[n].kind)
        BY <4>1, <4>2 DEF StartsInv
      <4>4. QED
        BY <1>1, <2>3, <2>4, <4>1, <4>2, <4>3
    <3>3. QED
      BY <3>1, <3>2
  <2>7. ASSUME NEW j \in 1..(Lines + 1), Opens(j)' PROVE \E n \in 2..(Units + 1) : nodes'[n].at = j
    <3>1. CASE j = Lines + 1
      BY <1>1, <2>3, <3>1
    <3>2. CASE j # Lines + 1
      <4>1. j \in 1..Lines /\ Opens(j)
        BY <1>1, <2>4, <2>7, <3>2
      <4>2. PICK n \in 2..Units : nodes[n].at = j
        BY <4>1 DEF StartsInv
      <4>3. QED
        BY <1>1, <2>3, <4>2
    <3>3. QED
      BY <3>1, <3>2
  <2>8. ASSUME NEW m \in 1..(Units + 1), NEW n \in 1..(Units + 1), m < n
        PROVE  nodes'[m].at < nodes'[n].at
    <3>1. m \in 1..Units /\ nodes'[m] = nodes[m] /\ nodes[m].at \in 0..Lines
      <4>1. m \in 1..Units
        BY <1>1, <2>8
      <4>2. nodes[m].at \in 0..Lines
        BY <4>1, Starts
      <4>3. QED
        BY <2>3, <4>1, <4>2
    <3>2. CASE n = Units + 1
      BY <1>1, <2>3, <3>1, <3>2
    <3>3. CASE n # Units + 1
      <4>1. n \in 1..Units
        BY <1>1, <3>3
      <4>2. QED
        BY <2>3, <2>8, <3>1, <4>1 DEF StartsInv
    <3>4. QED
      BY <3>2, <3>3
  <2>9. QED
    BY <2>3, <2>4, <2>5, <2>6, <2>7, <2>8 DEF StartsInv
<1>7. CASE Turned
  <2>1. kinds' = kinds /\ nodes' = nodes
    BY <1>7 DEF Turned
  <2>2. QED
    BY <2>1 DEF StartsInv, Lines, Units, Opens, InAppendix, InArticle
<1>8. QED
  BY <1>4, <1>5, <1>6, <1>7, Effects

\* What the line read adds to the lines that open something or are headings.
Meant(k) ==
    \/ k = "appendix"
    \/ ~appendix /\ k \in {"article", "part", "chapter", "section"}
    \/ ~appendix /\ k \in {"clause", "point"} /\ article # 0

LEMMA MarkedStep ==
    ASSUME ParserType, ModeInv, NEW k \in Kind, Line(k), NEW q
    PROVE  /\ Marked(q) \subseteq 1..Lines
           /\ Marked(q)' = Marked(q) \cup (IF q = k /\ Meant(k) THEN {Lines + 1} ELSE {})
<1>1. Lines \in Nat /\ Lines' = Lines + 1 /\ kinds'[Lines + 1] = k
  BY TypeFacts, LineRead
<1>2. \A j \in 1..Lines : /\ kinds'[j] = kinds[j]
                          /\ Opens(j)' <=> Opens(j)
                          /\ IsHeading(j)' <=> IsHeading(j)
  BY LineRead
<1>3. \A j \in Nat : j = Lines + 1 => (Opens(j)' \/ IsHeading(j)' <=> Meant(k))
  <2>1. ASSUME NEW j \in Nat, j = Lines + 1
        PROVE  /\ Opens(j)' <=> \/ k = "appendix"
                                \/ ~appendix /\ k = "article"
                                \/ ~appendix /\ k \in {"clause", "point"} /\ article # 0
               /\ IsHeading(j)' <=> ~appendix /\ k \in {"part", "chapter", "section"}
    BY <2>1, LineRead
  <2>2. QED
    BY <2>1 DEF Meant
<1>4. Marked(q)' = {j \in 1..(Lines + 1) : kinds'[j] = q /\ (Opens(j)' \/ IsHeading(j)')}
  BY <1>1 DEF Marked
<1>5. ASSUME NEW j \in 1..(Lines + 1)
      PROVE  (kinds'[j] = q /\ (Opens(j)' \/ IsHeading(j)')) <=>
                 IF j = Lines + 1 THEN q = k /\ Meant(k)
                                  ELSE kinds[j] = q /\ (Opens(j) \/ IsHeading(j))
  <2>1. CASE j = Lines + 1
    BY <1>1, <1>3, <2>1
  <2>2. CASE j # Lines + 1
    <3>1. j \in 1..Lines
      BY <1>1, <2>2
    <3>2. QED
      BY <1>2, <2>2, <3>1
  <2>3. QED
    BY <2>1, <2>2
<1>6. Marked(q)' = {j \in 1..(Lines + 1) : IF j = Lines + 1 THEN q = k /\ Meant(k)
                                           ELSE kinds[j] = q /\ (Opens(j) \/ IsHeading(j))}
  BY <1>4, <1>5
<1>7. 1..(Lines + 1) = 1..Lines \cup {Lines + 1} /\ Lines + 1 \notin 1..Lines
  BY <1>1
<1>8. QED
  BY <1>6, <1>7 DEF Marked

\* No unit is opened: the units stay what they are but for their lines.
LEMMA NotOpened ==
    ASSUME ParserType, ModeInv, NEW k \in Kind, Spoken(k) \/ Headed(k)
    PROVE  /\ Line(k) /\ Units' = Units
           /\ \A n \in 1..Units : SameHead(nodes'[n], nodes[n])
           /\ UNCHANGED <<article, clause, appendix>>
           /\ Meant(k) => Headed(k) /\ k \in {"part", "chapter", "section"}
<1>1. CASE Spoken(k)
  <2>1. Line(k) /\ ~Meant(k)
    BY <1>1 DEF Spoken, Meant
  <2>2. QED
    BY <1>1, <2>1, SpokenIs
<1>2. CASE Headed(k)
  <2>1. Line(k) /\ nodes' = nodes /\ UNCHANGED <<article, clause, appendix>> /\ k \in {"part", "chapter", "section"}
    BY <1>2 DEF Headed, open
  <2>2. Units' = Units /\ \A n \in 1..Units : SameHead(nodes'[n], nodes[n])
    BY <2>1 DEF Units, SameHead
  <2>3. QED
    BY <1>2, <2>1, <2>2
<1>3. QED
  BY <1>1, <1>2

\* A line that opens a unit is one of those that mean something.
LEMMA OpenedMeans ==
    ASSUME NEW k \in Kind, Opened(k)
    PROVE  Line(k) /\ Meant(k) /\ k \in {"appendix", "article", "clause", "point"}
BY DEF Opened, Meant

\* The articles and clauses of the units:
LEMMA FamilyStep ==
    ASSUME ParserType, ModeInv, FamilyInv, [ParseNext]_parserVars
    PROVE  FamilyInv'
<1>1. /\ Lines \in Nat /\ Units \in Nat \ {0}
      /\ article \in 0..Units /\ clause \in 0..Units
  BY TypeFacts
<1>2. ASSUME NEW k \in Kind, Spoken(k) \/ Headed(k) PROVE FamilyInv'
  <2>1. Units' = Units /\ UNCHANGED <<article, clause>>
    BY <1>2, NotOpened
  <2>2. \A n \in 1..Units : /\ nodes'[n].kind = nodes[n].kind
                            /\ nodes'[n].article = nodes[n].article
                            /\ nodes'[n].clause = nodes[n].clause
    BY <1>2, NotOpened DEF SameHead
  <2>3. ASSUME NEW n \in 0..Units, NEW a \in Nat, NEW c \in Nat, Kin(n, a, c) PROVE Kin(n, a, c)'
    BY <1>1, <2>2, <2>3 DEF Kin
  <2>4. Kin(Units, article, clause)'
    <3>1. PICK n \in 0..Units, a \in Nat, c \in Nat : n = Units /\ a = article /\ c = clause
      BY <1>1
    <3>2. Kin(n, a, c)'
      BY <2>3, <3>1 DEF FamilyInv
    <3>3. QED
      BY <2>1, <3>1, <3>2 DEF Kin
  <2>5. ASSUME NEW n \in 1..Units
        PROVE  /\ nodes'[n].kind \in {"PREAMBLE", "ARTICLE"} => nodes'[n].article = 0
               /\ nodes'[n].kind \in {"CLAUSE", "POINT"} =>
                     nodes'[n].article # 0 /\ Kin(n - 1, nodes[n].article, nodes[n].clause)'
               /\ nodes'[n].kind # "POINT" => nodes'[n].clause = 0
    <3>1. /\ nodes[n].kind \in {"PREAMBLE", "ARTICLE"} => nodes[n].article = 0
          /\ nodes[n].kind \in {"CLAUSE", "POINT"} =>
                nodes[n].article # 0 /\ Kin(n - 1, nodes[n].article, nodes[n].clause)
          /\ nodes[n].kind # "POINT" => nodes[n].clause = 0
      BY DEF FamilyInv
    <3>2. PICK a \in Nat, c \in Nat : a = nodes[n].article /\ c = nodes[n].clause
      <4>1. nodes[n] \in Unit
        BY TypeFacts
      <4>2. QED
        BY <4>1, BoundsAreNumbers DEF Unit
    <3>3. n - 1 \in 0..Units
      BY <1>1
    <3>4. Kin(n - 1, a, c) => Kin(n - 1, a, c)'
      BY <2>3, <3>3
    <3>5. Kin(n - 1, a, c)' => Kin(n - 1, nodes[n].article, nodes[n].clause)'
      BY <2>2, <3>2 DEF Kin
    <3>6. QED
      BY <2>2, <3>1, <3>2, <3>4, <3>5
  <2>6. QED
    BY <2>1, <2>4, <2>5 DEF FamilyInv
<1>3. CASE \E k \in Kind : Opened(k)
  <2>1. PICK k \in Kind : Opened(k)
    BY <1>3
  <2>2. /\ Units' = Units + 1
        /\ \A n \in 1..Units : nodes'[n] = nodes[n]
        /\ nodes'[Units + 1].kind = IF k = "clause" THEN "CLAUSE" ELSE IF k = "point" THEN "POINT" ELSE "ARTICLE"
        /\ nodes'[Units + 1].article = IF k \in {"clause", "point"} THEN article ELSE 0
        /\ nodes'[Units + 1].clause = IF k = "point" THEN clause ELSE 0
        /\ article' = IF k = "appendix" THEN 0 ELSE IF k = "article" THEN Units + 1 ELSE article
        /\ clause' = IF k = "clause" THEN Units + 1 ELSE IF k = "point" THEN clause ELSE 0
    BY <2>1, OpenedIs
  <2>3. /\ k \in {"appendix", "article", "clause", "point"}
        /\ k \in {"clause", "point"} => article # 0
    BY <2>1 DEF Opened
  <2>4. ASSUME NEW n \in 0..Units, NEW a \in Nat, NEW c \in Nat, Kin(n, a, c) PROVE Kin(n, a, c)'
    BY <1>1, <2>2, <2>4 DEF Kin
  <2>5. Kin(Units, article, clause)
    BY DEF FamilyInv
  <2>6. Kin(Units, article, clause)'
    <3>1. CASE k = "appendix"
      BY <2>2, <3>1 DEF Kin
    <3>2. CASE k = "article"
      BY <1>1, <2>2, <3>2 DEF Kin
    <3>3. CASE k = "clause"
      BY <1>1, <2>2, <2>3, <2>5, <3>3 DEF Kin
    <3>4. CASE k = "point"
      BY <1>1, <2>2, <2>3, <2>5, <3>4 DEF Kin
    <3>5. QED
      BY <2>3, <3>1, <3>2, <3>3, <3>4
  <2>7. ASSUME NEW n \in 1..(Units + 1)
        PROVE  /\ nodes'[n].kind \in {"PREAMBLE", "ARTICLE"} => nodes'[n].article = 0
               /\ nodes'[n].kind \in {"CLAUSE", "POINT"} =>
                     nodes'[n].article # 0 /\ Kin(n - 1, nodes[n].article, nodes[n].clause)'
               /\ nodes'[n].kind # "POINT" => nodes'[n].clause = 0
    <3>1. CASE n = Units + 1
      <4>1. k = "clause" => nodes'[n].article # 0 /\ Kin(n - 1, nodes[n].article, nodes[n].clause)'
        BY <1>1, <2>2, <2>3, <2>5, <3>1 DEF Kin
      <4>2. k = "point" => nodes'[n].article # 0 /\ Kin(n - 1, nodes[n].article, nodes[n].clause)'
        BY <1>1, <2>2, <2>3, <2>5, <3>1 DEF Kin
      <4>3. QED
        BY <2>2, <2>3, <3>1, <4>1, <4>2
    <3>2. CASE n # Units + 1
      <4>0. n \in 1..Units /\ n - 1 \in 0..Units
        BY <1>1, <3>2
      <4>1. /\ nodes[n].kind \in {"PREAMBLE", "ARTICLE"} => nodes[n].article = 0
            /\ nodes[n].kind \in {"CLAUSE", "POINT"} =>
                  nodes[n].article # 0 /\ Kin(n - 1, nodes[n].article, nodes[n].clause)
            /\ nodes[n].kind # "POINT" => nodes[n].clause = 0
        BY <4>0 DEF FamilyInv
      <4>2. PICK a \in Nat, c \in Nat : a = nodes[n].article /\ c = nodes[n].clause
        <5>1. nodes[n] \in Unit
          BY <4>0, TypeFacts
        <5>2. QED
          BY <5>1, BoundsAreNumbers DEF Unit
      <4>3. Kin(n - 1, a, c) => Kin(n - 1, a, c)'
        BY <2>4, <4>0
      <4>4. Kin(n - 1, a, c)' => Kin(n - 1, nodes[n].article, nodes[n].clause)'
        BY <2>2, <4>0, <4>2 DEF Kin
      <4>5. QED
        BY <2>2, <4>0, <4>1, <4>2, <4>3, <4>4
    <3>3. QED
      BY <3>1, <3>2
  <2>8. QED
    BY <2>2, <2>6, <2>7 DEF FamilyInv
<1>4. CASE Turned
  <2>1. UNCHANGED <<nodes, article, clause>>
    BY <1>4 DEF Turned, open
  <2>2. QED
    BY <2>1 DEF FamilyInv, Units, Kin
<1>5. QED
  BY <1>2, <1>3, <1>4, Effects

\* Their headings:
LEMMA HeadingsStep ==
    ASSUME ParserType, ModeInv, StartsInv, HeadingsInv, [ParseNext]_parserVars
    PROVE  HeadingsInv'
<1>1. /\ Lines \in Nat /\ Units \in Nat \ {0}
      /\ part \in 0..Lines /\ chapter \in 0..Lines /\ section \in 0..Lines
      /\ \A n \in 1..Units : nodes[n].at \in 0..Lines
  BY TypeFacts, Starts
<1> DEFINE P == Marked("part")
           C == Marked("chapter")
           S == Marked("section")
           B(pt, ch, sc, p, c, s, i) ==
               /\ LastIs(pt, p, i, 0)
               /\ LastIs(ch, c, i, pt)
               /\ LastIs(sc, s, i, IF pt > ch THEN pt ELSE ch)
           U(n) == B(nodes[n].part, nodes[n].chapter, nodes[n].section, P, C, S, nodes[n].at)
\* A line that is none of the headings.
<1>2. ASSUME NEW k \in Kind, Line(k), Meant(k) => k \notin {"part", "chapter", "section"}
      PROVE  Lines' = Lines + 1 /\ P' = P /\ C' = C /\ S' = S
  BY <1>2, LineRead, MarkedStep
<1>3. P \subseteq 1..Lines /\ C \subseteq 1..Lines /\ S \subseteq 1..Lines
  BY DEF Marked
<1>4. B(part, chapter, section, P, C, S, Lines) /\ \A n \in 1..Units : U(n)
  BY DEF HeadingsInv, Under
<1>5. ASSUME /\ B(part, chapter, section, P, C, S, Lines)'
             /\ \A n \in 1..Units' : U(n)'
      PROVE  HeadingsInv'
  BY <1>5 DEF HeadingsInv, Under
<1> HIDE DEF P, C, S
\* The headings of the units opened before.
<1>6. ASSUME NEW n \in 1..Units, SameHead(nodes'[n], nodes[n]),
             P' = P \/ P' = P \cup {Lines + 1},
             C' = C \/ C' = C \cup {Lines + 1},
             S' = S \/ S' = S \cup {Lines + 1}
      PROVE  U(n)'
  <2>1. U(n) /\ nodes[n].at \in 0..Lines
    BY <1>1, <1>4
  <2>2. U(n)' = B(nodes[n].part, nodes[n].chapter, nodes[n].section, P', C', S', nodes[n].at)
    BY <1>6 DEF SameHead
  <2>4. \A j : j <= nodes[n].at => /\ j \in P' <=> j \in P
                                   /\ j \in C' <=> j \in C
                                   /\ j \in S' <=> j \in S
    BY <1>1, <1>6, <2>1
  <2>5. nodes[n].part \in Nat /\ nodes[n].chapter \in Nat /\ nodes[n].section \in Nat
    <3>1. nodes[n] \in Unit
      BY TypeFacts
    <3>2. QED
      BY <3>1, BoundsAreNumbers DEF Unit
  <2> DEFINE i == nodes[n].at
             pt == nodes[n].part
             ch == nodes[n].chapter
             sc == nodes[n].section
  <2>6. B(pt, ch, sc, P, C, S, i)
    BY <2>1
  <2>7. i \in Nat /\ pt \in Nat /\ ch \in Nat /\ sc \in Nat
    BY <1>1, <2>1, <2>5
  <2>8. \A j : j <= i => (j \in P' <=> j \in P) /\ (j \in C' <=> j \in C) /\ (j \in S' <=> j \in S)
    BY <2>4
  <2> HIDE DEF i, pt, ch, sc
  <2>9. LastIs(pt, P', i, 0)
    BY <2>6, <2>7, <2>8 DEF LastIs
  <2>10. LastIs(ch, C', i, pt)
    BY <2>6, <2>7, <2>8 DEF LastIs
  <2>11. LastIs(sc, S', i, IF pt > ch THEN pt ELSE ch)
    BY <2>6, <2>7, <2>8 DEF LastIs
  <2>12. QED
    BY <2>2, <2>9, <2>10, <2>11 DEF i, pt, ch, sc
<1>7. ASSUME NEW k \in Kind, Spoken(k) \/ Opened(k) PROVE HeadingsInv'
  <2>1. /\ UNCHANGED <<part, chapter, section>>
        /\ Line(k) /\ (Meant(k) => k \notin {"part", "chapter", "section"})
    <3>1. CASE Spoken(k)
      BY <3>1 DEF Spoken, headings, Meant
    <3>2. CASE Opened(k)
      BY <3>2 DEF Opened, headings
    <3>3. QED
      BY <1>7, <3>1, <3>2
  <2>2. Lines' = Lines + 1 /\ P' = P /\ C' = C /\ S' = S
    BY <1>2, <2>1
  <2>3. B(part, chapter, section, P, C, S, Lines)'
    <3>1. B(part, chapter, section, P, C, S, Lines + 1)
      BY <1>1, <1>3, <1>4 DEF LastIs
    <3>2. QED
      BY <2>1, <2>2, <3>1
  <2>4. CASE Spoken(k)
    <3>1. Units' = Units /\ \A n \in 1..Units : SameHead(nodes'[n], nodes[n])
      BY <2>4, SpokenIs
    <3>2. QED
      BY <1>5, <1>6, <2>2, <2>3, <3>1
  <2>5. CASE Opened(k)
    <3>1. /\ Units' = Units + 1
          /\ \A n \in 1..Units : nodes'[n] = nodes[n]
          /\ nodes'[Units + 1].at = Lines + 1
          /\ nodes'[Units + 1].part = part /\ nodes'[Units + 1].chapter = chapter
          /\ nodes'[Units + 1].section = section
      BY <2>5, OpenedIs
    <3>2. \A n \in 1..Units : U(n)'
      BY <1>6, <2>2, <3>1 DEF SameHead
    <3>3. ASSUME NEW n \in 1..Units', n = Units + 1 PROVE U(n)'
      BY <2>1, <2>2, <2>3, <3>1, <3>3
    <3>4. \A n \in 1..Units' : n \in 1..Units \/ n = Units + 1
      BY <1>1, <3>1
    <3>5. QED
      BY <1>5, <2>3, <3>2, <3>3, <3>4
  <2>6. QED
    BY <1>7, <2>4, <2>5
<1>8. CASE \E k \in Kind : Headed(k)
  <2>1. PICK k \in Kind : Headed(k)
    BY <1>8
  <2>2. /\ Line(k) /\ nodes' = nodes /\ Units' = Units
        /\ k \in {"part", "chapter", "section"} /\ Meant(k)
        /\ part' = IF k = "part" THEN Lines + 1 ELSE part
        /\ chapter' = IF k = "part" THEN 0 ELSE IF k = "chapter" THEN Lines + 1 ELSE chapter
        /\ section' = IF k = "section" THEN Lines + 1 ELSE 0
    BY <2>1 DEF Headed, Meant, Here, Lines, Units
  <2>3. /\ Lines' = Lines + 1
        /\ P' = IF k = "part" THEN P \cup {Lines + 1} ELSE P
        /\ C' = IF k = "chapter" THEN C \cup {Lines + 1} ELSE C
        /\ S' = IF k = "section" THEN S \cup {Lines + 1} ELSE S
    <3>1. Lines' = Lines + 1
      BY <2>2, LineRead
    <3>2. \A q : Marked(q)' = Marked(q) \cup (IF q = k THEN {Lines + 1} ELSE {})
      BY <2>2, MarkedStep
    <3>3. QED
      BY <3>1, <3>2 DEF P, C, S
  <2>4. \A n \in 1..Units : SameHead(nodes'[n], nodes[n])
    BY <2>2 DEF SameHead
  <2>5. \A n \in 1..Units : U(n)'
    BY <1>6, <2>3, <2>4
  <2>6. CASE k = "part"
    <3>1. B(Lines + 1, 0, 0, P \cup {Lines + 1}, C, S, Lines + 1)
      BY <1>1, <1>3 DEF LastIs
    <3>2. QED
      BY <1>5, <2>2, <2>3, <2>5, <2>6, <3>1
  <2>7. CASE k = "chapter"
    <3>1. B(part, Lines + 1, 0, P, C \cup {Lines + 1}, S, Lines + 1)
      BY <1>1, <1>3, <1>4 DEF LastIs
    <3>2. QED
      BY <1>5, <2>2, <2>3, <2>5, <2>7, <3>1
  <2>8. CASE k = "section"
    <3>1. B(part, chapter, Lines + 1, P, C, S \cup {Lines + 1}, Lines + 1)
      BY <1>1, <1>3, <1>4 DEF LastIs
    <3>2. QED
      BY <1>5, <2>2, <2>3, <2>5, <2>8, <3>1
  <2>9. QED
    BY <2>2, <2>6, <2>7, <2>8
<1>9. CASE Turned
  <2>1. UNCHANGED <<kinds, nodes, part, chapter, section>>
    BY <1>9 DEF Turned, headings
  <2>2. QED
    BY <2>1 DEF HeadingsInv, Under, Units, Lines, Marked, Opens, IsHeading, InAppendix, InArticle
<1>10. QED
  BY <1>7, <1>8, <1>9, Effects

\* The pages of the lines:
LEMMA PagesStep ==
    ASSUME ParserType, ModeInv, PagesInv, [ParseNext]_parserVars
    PROVE  PagesInv'
<1>1. Lines \in Nat /\ page \in Nat /\ \A j \in 1..Lines : pages[j] \in Nat
  BY TypeFacts, BoundsAreNumbers
<1>2. ASSUME NEW k \in Kind, Line(k) PROVE PagesInv'
  <2>1. /\ Lines' = Lines + 1 /\ page' = page /\ pages'[Lines + 1] = page
        /\ \A j \in 1..Lines : pages'[j] = pages[j]
    BY <1>2, LineRead
  <2>2. \A j \in 1..(Lines + 1) : pages'[j] = IF j = Lines + 1 THEN page ELSE pages[j]
    BY <1>1, <2>1
  <2>3. QED
    BY <1>1, <2>1, <2>2 DEF PagesInv
<1>3. CASE Turned
  BY <1>1, <1>3 DEF Turned, PagesInv, Lines
<1>4. QED
  BY <1>2, <1>3, Effects DEF Spoken, Headed, Opened

\* Where the open units and those of a unit stand in the text:
LEMMA AboveStep ==
    ASSUME ParserType, ModeInv, StartsInv, FamilyInv, AboveInv, [ParseNext]_parserVars
    PROVE  AboveInv'
<1>1. /\ Lines \in Nat /\ Units \in Nat \ {0} /\ appendix \in BOOLEAN
      /\ article \in 0..Units /\ clause \in 0..Units
      /\ \A n \in 1..Units : nodes[n].at \in 0..Lines
  BY TypeFacts, Starts
<1> DEFINE A == Marked("article")
           C == Marked("clause")
           Mine(n) == /\ nodes[n].kind \in {"CLAUSE", "POINT"} =>
                            LastIs(LabelOf(nodes[n].article), A, nodes[n].at, 0)
                      /\ nodes[n].kind = "POINT" =>
                            LastIs(LabelOf(nodes[n].clause), C, nodes[n].at,
                                   LabelOf(nodes[n].article))
<1>2. A \subseteq 1..Lines /\ C \subseteq 1..Lines
  BY DEF Marked
<1>3. /\ ~appendix => LastIs(LabelOf(article), A, Lines, 0)
      /\ article # 0 => LastIs(LabelOf(clause), C, Lines, LabelOf(article))
      /\ \A n \in 1..Units : Mine(n)
  BY DEF AboveInv
<1>4. ASSUME /\ ~appendix' => LastIs(LabelOf(article), A, Lines, 0)'
             /\ article' # 0 => LastIs(LabelOf(clause), C, Lines, LabelOf(article))'
             /\ \A n \in 1..Units' : Mine(n)'
      PROVE  AboveInv'
  BY <1>4 DEF AboveInv
<1>5. \A n \in 1..Units : nodes[n].kind \in {"CLAUSE", "POINT"} =>
          nodes[n].article \in 1..Units /\ nodes[n].clause \in 0..Units
  <2> SUFFICES ASSUME NEW n \in 1..Units, nodes[n].kind \in {"CLAUSE", "POINT"}
               PROVE  nodes[n].article \in 1..Units /\ nodes[n].clause \in 0..Units
    OBVIOUS
  <2>1. nodes[n].article # 0 /\ Kin(n - 1, nodes[n].article, nodes[n].clause)
    BY DEF FamilyInv
  <2>2. nodes[n].article \in Nat /\ nodes[n].clause \in Nat
    <3>1. nodes[n] \in Unit
      BY TypeFacts
    <3>2. QED
      BY <3>1, BoundsAreNumbers DEF Unit
  <2>3. QED
    BY <1>1, <2>1, <2>2 DEF Kin
<1> HIDE DEF A, C
\* The units opened before keep those they belong to.
<1>6. ASSUME \A n \in 1..Units : SameHead(nodes'[n], nodes[n]),
             A' = A \/ A' = A \cup {Lines + 1}, C' = C \/ C' = C \cup {Lines + 1}
      PROVE  \A n \in 1..Units : Mine(n)'
  <2> SUFFICES ASSUME NEW n \in 1..Units PROVE Mine(n)'
    OBVIOUS
  <2>1. CASE nodes[n].kind \in {"CLAUSE", "POINT"}
    <3> DEFINE a == nodes[n].article
               c == nodes[n].clause
               la == LabelOf(a)
               lc == LabelOf(c)
               i == nodes[n].at
    <3>1. a \in 1..Units /\ c \in 0..Units /\ i \in 0..Lines
      BY <1>1, <1>5, <2>1
    <3>2. nodes'[n].article = a /\ nodes'[n].clause = c /\ nodes'[n].at = i /\ nodes'[n].kind = nodes[n].kind
      BY <1>6 DEF SameHead
    <3>3. \A m \in 1..Units : nodes'[m].at = nodes[m].at
      BY <1>6 DEF SameHead
    <3>4. LabelOf(nodes[n].article)' = la /\ LabelOf(nodes[n].clause)' = lc
      BY <1>1, <3>1, <3>2, <3>3 DEF LabelOf
    <3>5. la \in 0..Lines /\ lc \in 0..Lines
      BY <1>1, <3>1 DEF LabelOf
    <3>6. \A j : j <= i => (j \in A' <=> j \in A) /\ (j \in C' <=> j \in C)
      BY <1>1, <1>6, <3>1
    <3>7. LastIs(la, A, i, 0) /\ (nodes[n].kind = "POINT" => LastIs(lc, C, i, la))
      BY <1>3, <2>1
    <3>8. i \in Nat /\ la \in Nat /\ lc \in Nat
      BY <1>1, <3>1, <3>5
    <3> HIDE DEF a, c, la, lc, i
    <3>9. LastIs(la, A', i, 0)
      BY <3>6, <3>7, <3>8 DEF LastIs
    <3>10. nodes[n].kind = "POINT" => LastIs(lc, C', i, la)
      BY <3>6, <3>7, <3>8 DEF LastIs
    <3>11. QED
      BY <3>2, <3>4, <3>9, <3>10
  <2>2. CASE nodes[n].kind \notin {"CLAUSE", "POINT"}
    BY <1>6, <2>2 DEF SameHead
  <2>3. QED
    BY <2>1, <2>2
\* A label of a unit opened before stays.
<1>7. ASSUME NEW n \in 0..Units, \A m \in 1..Units : SameHead(nodes'[m], nodes[m])
      PROVE  LabelOf(n)' = LabelOf(n) /\ LabelOf(n) \in 0..Lines
  <2>1. n # 0 => nodes'[n].at = nodes[n].at
    BY <1>1, <1>7 DEF SameHead
  <2>2. QED
    BY <1>1, <2>1 DEF LabelOf
<1>8. ASSUME NEW k \in Kind, Spoken(k) \/ Headed(k) PROVE AboveInv'
  <2>1. /\ Line(k) /\ Units' = Units
        /\ \A n \in 1..Units : SameHead(nodes'[n], nodes[n])
        /\ article' = article /\ clause' = clause /\ appendix' = appendix
        /\ Meant(k) => k \in {"part", "chapter", "section"}
    BY <1>8, NotOpened
  <2>2. Lines' = Lines + 1 /\ A' = A /\ C' = C
    <3>1. Lines' = Lines + 1
      BY <2>1, LineRead
    <3>2. \A q : Marked(q)' = Marked(q) \cup (IF q = k /\ Meant(k) THEN {Lines + 1} ELSE {})
      BY <2>1, MarkedStep
    <3>3. QED
      BY <2>1, <3>1, <3>2 DEF A, C
  <2>3. LabelOf(article)' = LabelOf(article) /\ LabelOf(clause)' = LabelOf(clause)
    <3>1. /\ article # 0 => nodes'[article].at = nodes[article].at
          /\ clause # 0 => nodes'[clause].at = nodes[clause].at
      BY <1>1, <2>1 DEF SameHead
    <3>2. QED
      BY <2>1, <3>1 DEF LabelOf
  <2>4. LabelOf(article) \in 0..Lines /\ LabelOf(clause) \in 0..Lines
    BY <1>1, <2>1, <1>7
  <2> DEFINE la == LabelOf(article)
             lc == LabelOf(clause)
  <2>5. /\ la \in Nat /\ lc \in Nat
        /\ ~appendix => LastIs(la, A, Lines, 0)
        /\ article # 0 => LastIs(lc, C, Lines, la)
    BY <1>1, <1>3, <2>4
  <2> HIDE DEF la, lc
  <2>6. /\ ~appendix => LastIs(la, A, Lines + 1, 0)
        /\ article # 0 => LastIs(lc, C, Lines + 1, la)
    BY <1>1, <1>2, <2>5 DEF LastIs
  <2>7. QED
    BY <1>4, <1>6, <2>1, <2>2, <2>3, <2>6 DEF la, lc
<1>9. CASE \E k \in Kind : Opened(k)
  <2>1. PICK k \in Kind : Opened(k)
    BY <1>9
  <2>2. /\ Units' = Units + 1
        /\ \A n \in 1..Units : nodes'[n] = nodes[n]
        /\ nodes'[Units + 1].at = Lines + 1
        /\ nodes'[Units + 1].kind = IF k = "clause" THEN "CLAUSE" ELSE IF k = "point" THEN "POINT" ELSE "ARTICLE"
        /\ nodes'[Units + 1].article = IF k \in {"clause", "point"} THEN article ELSE 0
        /\ nodes'[Units + 1].clause = IF k = "point" THEN clause ELSE 0
        /\ article' = IF k = "appendix" THEN 0 ELSE IF k = "article" THEN Units + 1 ELSE article
        /\ clause' = IF k = "clause" THEN Units + 1 ELSE IF k = "point" THEN clause ELSE 0
    BY <2>1, OpenedIs
  <2>3. /\ Line(k) /\ Meant(k) /\ k \in {"appendix", "article", "clause", "point"}
        /\ k # "appendix" => ~appendix
        /\ k \in {"clause", "point"} => article # 0
        /\ appendix' = (appendix \/ k = "appendix")
    BY <2>1, OpenedMeans DEF Opened
  <2>4. /\ Lines' = Lines + 1
        /\ A' = IF k = "article" THEN A \cup {Lines + 1} ELSE A
        /\ C' = IF k = "clause" THEN C \cup {Lines + 1} ELSE C
    <3>1. Lines' = Lines + 1
      BY <2>3, LineRead
    <3>2. \A q : Marked(q)' = Marked(q) \cup (IF q = k THEN {Lines + 1} ELSE {})
      BY <2>3, MarkedStep
    <3>3. QED
      BY <3>1, <3>2 DEF A, C
  <2>5. \A n \in 1..Units : SameHead(nodes'[n], nodes[n])
    BY <2>2 DEF SameHead
  <2>6. \A n \in 1..Units : Mine(n)'
    BY <1>6, <2>4, <2>5
  <2>7. \A n \in 1..Units' : n \in 1..Units \/ n = Units + 1
    BY <1>1, <2>2
  <2> DEFINE la == LabelOf(article)
             lc == LabelOf(clause)
  <2>8. la \in 0..Lines /\ lc \in 0..Lines /\ la \in Nat /\ lc \in Nat
    BY <1>1, <1>7, <2>5
  <2>9. /\ ~appendix => LastIs(la, A, Lines, 0)
        /\ article # 0 => LastIs(lc, C, Lines, la)
    BY <1>3
  \* What the labels of the units before are called in the next state.
  <2>10. \A n \in 0..Units : LabelOf(n)' = LabelOf(n)
    BY <1>7, <2>5
  <2>11. /\ k \in {"clause", "point"} => LabelOf(article)' = la
         /\ k = "point" => LabelOf(clause)' = lc
         /\ k = "article" => LabelOf(article)' = Lines + 1
         /\ k = "clause" => LabelOf(clause)' = Lines + 1
         /\ k \in {"appendix", "article"} => LabelOf(clause)' = 0
    <3>1. article # 0 => nodes'[article].at = nodes[article].at
      BY <1>1, <2>2
    <3>2. clause # 0 => nodes'[clause].at = nodes[clause].at
      BY <1>1, <2>2
    <3>3. QED
      BY <1>1, <2>2, <3>1, <3>2 DEF LabelOf
  <2> HIDE DEF la, lc
  <2>12. CASE k = "appendix"
    <3>1. appendix' /\ article' = 0
      BY <2>2, <2>3, <2>12
    <3>2. \A n \in 1..Units' : n = Units + 1 => Mine(n)'
      BY <2>2, <2>12
    <3>3. QED
      BY <1>4, <2>6, <2>7, <3>1, <3>2
  <2>13. CASE k = "article"
    <3>1. LastIs(Lines + 1, A \cup {Lines + 1}, Lines + 1, 0) /\ LastIs(0, C, Lines + 1, Lines + 1)
      BY <1>1, <1>2 DEF LastIs
    <3>2. \A n \in 1..Units' : n = Units + 1 => Mine(n)'
      BY <2>2, <2>13
    <3>3. LastIs(LabelOf(article), A, Lines, 0)'
      BY <2>4, <2>11, <2>13, <3>1
    <3>4. LastIs(LabelOf(clause), C, Lines, LabelOf(article))'
      BY <2>4, <2>11, <2>13, <3>1
    <3>5. QED
      BY <1>4, <2>6, <2>7, <3>2, <3>3, <3>4
  <2>14. CASE k = "clause"
    <3>1. LastIs(la, A, Lines + 1, 0) /\ LastIs(Lines + 1, C \cup {Lines + 1}, Lines + 1, la)
      <4>1. LastIs(la, A, Lines, 0)
        BY <2>3, <2>9, <2>14
      <4>2. LastIs(la, A, Lines + 1, 0)
        BY <1>1, <1>2, <2>8, <4>1 DEF LastIs
      <4>3. LastIs(Lines + 1, C \cup {Lines + 1}, Lines + 1, la)
        BY <1>1, <1>2, <2>8 DEF LastIs
      <4>4. QED
        BY <4>2, <4>3
    <3>2. ASSUME NEW n \in 1..Units', n = Units + 1 PROVE Mine(n)'
      <4>1. LabelOf(nodes[n].article)' = LabelOf(article)'
        BY <2>2, <2>14, <3>2
      <4>2. LabelOf(nodes[n].article)' = la
        BY <2>11, <2>14, <4>1
      <4>3. QED
        BY <2>2, <2>4, <2>14, <3>1, <3>2, <4>2
    <3>3. LastIs(LabelOf(article), A, Lines, 0)'
      BY <2>4, <2>11, <2>14, <3>1
    <3>4. LastIs(LabelOf(clause), C, Lines, LabelOf(article))'
      BY <2>4, <2>11, <2>14, <3>1
    <3>5. QED
      BY <1>4, <2>6, <2>7, <3>2, <3>3, <3>4
  <2>15. CASE k = "point"
    <3>1. LastIs(la, A, Lines + 1, 0) /\ LastIs(lc, C, Lines + 1, la)
      BY <1>1, <1>2, <2>3, <2>8, <2>9, <2>15 DEF LastIs
    <3>2. ASSUME NEW n \in 1..Units', n = Units + 1 PROVE Mine(n)'
      <4>1. LabelOf(nodes[n].article)' = LabelOf(article)' /\ LabelOf(nodes[n].clause)' = LabelOf(clause)'
        BY <2>2, <2>15, <3>2
      <4>2. LabelOf(nodes[n].article)' = la /\ LabelOf(nodes[n].clause)' = lc
        BY <2>11, <2>15, <4>1
      <4>3. QED
        BY <2>2, <2>4, <2>15, <3>1, <3>2, <4>2
    <3>3. LastIs(LabelOf(article), A, Lines, 0)'
      BY <2>4, <2>11, <2>15, <3>1
    <3>4. LastIs(LabelOf(clause), C, Lines, LabelOf(article))'
      BY <2>4, <2>11, <2>15, <3>1
    <3>5. QED
      BY <1>4, <2>6, <2>7, <3>2, <3>3, <3>4
  <2>16. QED
    BY <2>3, <2>12, <2>13, <2>14, <2>15
<1>10. CASE Turned
  <2>1. UNCHANGED <<kinds, nodes, article, clause, appendix>>
    BY <1>10 DEF Turned, open
  <2>2. QED
    BY <2>1 DEF AboveInv, LabelOf, Units, Lines, Marked, Opens, IsHeading, InAppendix, InArticle
<1>11. QED
  BY <1>8, <1>9, <1>10, Effects

\* What a sequence is after another element.
LEMMA Appended ==
    ASSUME NEW V, NEW s \in Seq(V), NEW x \in V
    PROVE  /\ Append(s, x) \in Seq(V) /\ Append(s, x) # <<>>
           /\ DOMAIN Append(s, x) = 1..(Len(s) + 1) /\ DOMAIN s = 1..Len(s) /\ Len(s) \in Nat
           /\ \A i \in DOMAIN s : Append(s, x)[i] = s[i] /\ s[i] \in V
           /\ Append(s, x)[Len(s) + 1] = x
<1>1. /\ Append(s, x) \in Seq(V) /\ Len(Append(s, x)) = Len(s) + 1
      /\ \A i \in 1..Len(s) : Append(s, x)[i] = s[i]
      /\ Append(s, x)[Len(s) + 1] = x
  BY AppendProperties
<1>2. DOMAIN Append(s, x) = 1..(Len(s) + 1) /\ DOMAIN s = 1..Len(s) /\ Len(s) \in Nat
  BY <1>1, LenProperties
<1>3. \A i \in DOMAIN s : s[i] \in V
  BY <1>2, ElementOfSeq
<1>4. Append(s, x) # <<>>
  BY <1>1, <1>2
<1>5. QED
  BY <1>1, <1>2, <1>3, <1>4

\* The lines of a unit are lines that were read.
LEMMA LinesType ==
    ASSUME ParserType, LinesInv, NEW n \in 1..Units
    PROVE  nodes[n].lines \in Seq(1..Lines) /\ nodes[n].lines \in Seq(Nat)
<1>1. nodes[n].lines \in Seq(1..MaxLines) /\ MaxLines \in Nat
  <2>1. nodes[n] \in Unit
    BY TypeFacts
  <2>2. QED
    BY <2>1, BoundsAreNumbers DEF Unit
<1>2. nodes[n].lines \in Seq(Nat)
  BY <1>1, SeqMonotonic
<1>3. \A i \in DOMAIN nodes[n].lines : nodes[n].lines[i] \in 1..Lines
  BY DEF LinesInv
<1> DEFINE s == nodes[n].lines
           m == Len(s)
<1>4. m \in Nat /\ s \in [1..m -> Nat] /\ \A i \in 1..m : s[i] \in 1..Lines
  BY <1>2, <1>3, LenProperties
<1> HIDE DEF s, m
<1>5. s \in [1..m -> 1..Lines]
  BY <1>4
<1>6. s \in Seq(1..Lines)
  BY <1>4, <1>5, SeqDef
<1>7. QED
  BY <1>2, <1>6 DEF s

\* The lines of the units:
LEMMA LinesStep ==
    ASSUME ParserType, ModeInv, StartsInv, LinesInv, [ParseNext]_parserVars
    PROVE  LinesInv'
<1>1. /\ Lines \in Nat /\ Units \in Nat \ {0} /\ active = Units
      /\ \A n \in 1..Units : nodes[n].at \in 0..Lines
  BY TypeFacts, Starts
<1>2. ASSUME NEW k \in Kind, Line(k)
      PROVE  /\ Lines' = Lines + 1 /\ kinds'[Lines + 1] = k
             /\ \A j \in 1..Lines : kinds'[j] = kinds[j]
  BY <1>2, LineRead
<1> DEFINE Of(n) ==
               /\ \A i \in DOMAIN nodes[n].lines :
                     /\ nodes[n].lines[i] \in 1..Lines /\ nodes[n].at <= nodes[n].lines[i]
                     /\ n < Units => nodes[n].lines[i] < nodes[n + 1].at
               /\ \A i, j \in DOMAIN nodes[n].lines : i < j => nodes[n].lines[i] < nodes[n].lines[j]
               /\ nodes[n].lines # <<>> => kinds[nodes[n].lines[1]] # "blank"
<1>3. \A n \in 1..Units : Of(n)
  BY DEF LinesInv
<1>4. ASSUME \A n \in 1..Units' : Of(n)' PROVE LinesInv'
  BY <1>4 DEF LinesInv
<1>5. ASSUME NEW n \in 1..Units, nodes[n].lines # <<>> PROVE 1 \in DOMAIN nodes[n].lines
  BY <1>5, LinesType, EmptySeq, LenProperties
<1> HIDE DEF Of
\* A unit that is given no line.
<1>6. ASSUME NEW k \in Kind, Line(k), NEW n \in 1..Units, nodes'[n] = nodes[n],
             n < Units' => nodes'[n + 1].at = IF n < Units THEN nodes[n + 1].at ELSE Lines + 1
      PROVE  Of(n)'
  <2>1. Of(n)
    BY <1>3
  <2>2. /\ Lines' = Lines + 1 /\ \A j \in 1..Lines : kinds'[j] = kinds[j]
    BY <1>2, <1>6
  <2>3. \A i \in DOMAIN nodes'[n].lines :
            /\ nodes'[n].lines[i] \in 1..(Lines + 1) /\ nodes'[n].at <= nodes'[n].lines[i]
            /\ n < Units' => nodes'[n].lines[i] < nodes'[n + 1].at
    BY <1>1, <1>6, <2>1 DEF Of
  <2>4. \A i, j \in DOMAIN nodes'[n].lines : i < j => nodes'[n].lines[i] < nodes'[n].lines[j]
    BY <1>6, <2>1 DEF Of
  <2>5. nodes'[n].lines # <<>> => kinds'[nodes'[n].lines[1]] # "blank"
    BY <1>5, <1>6, <2>1, <2>2 DEF Of
  <2>6. QED
    BY <2>2, <2>3, <2>4, <2>5 DEF Of
<1>7. ASSUME NEW k \in Kind, Line(k), nodes' = nodes PROVE LinesInv'
  <2>1. Units' = Units
    BY <1>7 DEF Units
  <2>2. QED
    BY <1>4, <1>6, <1>7, <2>1
<1>8. CASE \E k \in Kind : Spoken(k)
  <2>1. PICK k \in Kind : Spoken(k)
    BY <1>8
  <2>2. Line(k)
    BY <2>1 DEF Spoken
  <2>3. CASE nodes' = nodes
    BY <1>7, <2>2, <2>3
  <2>4. CASE nodes' = Extended(active) /\ (k = "blank" => nodes[active].lines # <<>>)
    <3>1. /\ Units' = Units
          /\ \A n \in 1..Units : /\ nodes'[n].at = nodes[n].at
                                 /\ n # Units => nodes'[n] = nodes[n]
          /\ nodes'[Units].lines = Append(nodes[Units].lines, Lines + 1)
      <4>1. Lines < MaxLines
        BY <2>2 DEF Line, Lines
      <4>2. QED
        BY <2>4, <4>1, UnitExtended DEF SameHead
    <3>2. \A n \in 1..Units : n # Units => Of(n)'
      <4> SUFFICES ASSUME NEW n \in 1..Units, n # Units PROVE Of(n)'
        OBVIOUS
      <4>1. n + 1 \in 1..Units /\ n < Units
        BY <1>1
      <4>2. QED
        BY <1>6, <2>2, <3>1, <4>1
    <3>3. \A n \in 1..Units : n = Units => Of(n)'
      <4> SUFFICES ASSUME NEW n \in 1..Units, n = Units PROVE Of(n)'
        OBVIOUS
      <4> DEFINE s == nodes[n].lines
                 t == nodes'[n].lines
      <4>1. s \in Seq(Nat)
        BY LinesType
      <4>2. t = Append(s, Lines + 1)
        BY <3>1
      <4>3. Of(n)
        BY <1>3
      <4>4. /\ Lines' = Lines + 1 /\ kinds'[Lines + 1] = k
            /\ \A j \in 1..Lines : kinds'[j] = kinds[j]
        BY <1>2, <2>2
      <4>5. /\ \A i \in DOMAIN s : s[i] \in 1..Lines /\ nodes[n].at <= s[i]
            /\ \A i, j \in DOMAIN s : i < j => s[i] < s[j]
            /\ s # <<>> => 1 \in DOMAIN s /\ kinds[s[1]] # "blank"
            /\ nodes[n].at \in 0..Lines /\ nodes'[n].at = nodes[n].at
            /\ k = "blank" => s # <<>>
        BY <1>1, <1>5, <2>4, <3>1, <4>3 DEF Of
      <4> HIDE DEF s
      <4>6. /\ DOMAIN t = 1..(Len(s) + 1) /\ DOMAIN s = 1..Len(s) /\ Len(s) \in Nat
            /\ \A i \in DOMAIN s : t[i] = s[i]
            /\ t[Len(s) + 1] = Lines + 1
        BY <1>1, <4>1, <4>2, Appended
      <4>7. s = <<>> <=> Len(s) = 0
        BY <4>1, EmptySeq
      <4> HIDE DEF t
      <4>8. \A i \in DOMAIN t : t[i] \in 1..(Lines + 1) /\ nodes'[n].at <= t[i]
        BY <1>1, <4>5, <4>6
      <4>9. ASSUME NEW i \in DOMAIN t, NEW j \in DOMAIN t, i < j PROVE t[i] < t[j]
        <5>1. i \in DOMAIN s
          BY <4>6, <4>9
        <5>2. CASE j \in DOMAIN s
          BY <4>5, <4>6, <4>9, <5>1, <5>2
        <5>3. CASE j = Len(s) + 1
          BY <1>1, <4>5, <4>6, <5>1, <5>3
        <5>4. QED
          BY <4>6, <5>2, <5>3
      <4>10. kinds'[t[1]] # "blank"
        <5>1. CASE s = <<>>
          BY <4>4, <4>5, <4>6, <4>7, <5>1
        <5>2. CASE s # <<>>
          BY <4>4, <4>5, <4>6, <5>2
        <5>3. QED
          BY <5>1, <5>2
      <4>11. QED
        BY <3>1, <4>4, <4>8, <4>9, <4>10 DEF Of, t
    <3>4. QED
      BY <1>4, <3>1, <3>2, <3>3
  <2>5. QED
    BY <2>1, <2>3, <2>4 DEF Spoken
<1>9. CASE \E k \in Kind : Headed(k)
  BY <1>7, <1>9 DEF Headed
<1>10. CASE \E k \in Kind : Opened(k)
  <2>1. PICK k \in Kind : Opened(k)
    BY <1>10
  <2>2. Line(k) /\ k \in {"appendix", "article", "clause", "point"}
    BY <2>1 DEF Opened
  <2>3. /\ Units' = Units + 1
        /\ \A n \in 1..Units : nodes'[n] = nodes[n]
        /\ nodes'[Units + 1].at = Lines + 1
        /\ nodes'[Units + 1].lines = IF k \in {"clause", "point"} THEN <<Lines + 1>> ELSE <<>>
    BY <2>1, OpenedIs
  <2>4. \A n \in 1..Units : Of(n)'
    <3> SUFFICES ASSUME NEW n \in 1..Units PROVE Of(n)'
      OBVIOUS
    <3>1. nodes'[n + 1].at = IF n < Units THEN nodes[n + 1].at ELSE Lines + 1
      <4>1. CASE n < Units
        <5>1. n + 1 \in 1..Units
          BY <1>1, <4>1
        <5>2. QED
          BY <2>3, <4>1, <5>1
      <4>2. CASE n = Units
        BY <1>1, <2>3, <4>2
      <4>3. QED
        BY <1>1, <4>1, <4>2
    <3>2. QED
      BY <1>6, <2>2, <2>3, <3>1
  <2>5. \A n \in 1..Units' : n = Units + 1 => Of(n)'
    <3> SUFFICES ASSUME NEW n \in 1..Units', n = Units + 1 PROVE Of(n)'
      OBVIOUS
    <3>1. Lines' = Lines + 1 /\ kinds'[Lines + 1] = k /\ ~(n < Units')
      BY <1>1, <1>2, <2>2, <2>3
    <3>2. CASE k \in {"clause", "point"}
      <4>1. nodes'[n].lines = <<Lines + 1>> /\ nodes'[n].at = Lines + 1
        BY <2>3, <3>2
      <4>2. DOMAIN nodes'[n].lines = {1} /\ nodes'[n].lines[1] = Lines + 1
        BY <4>1
      <4>3. QED
        BY <1>1, <3>1, <3>2, <4>1, <4>2 DEF Of
    <3>3. CASE k \notin {"clause", "point"}
      <4>1. nodes'[n].lines = <<>>
        BY <2>3, <3>3
      <4>2. DOMAIN nodes'[n].lines = {}
        BY <4>1
      <4>3. QED
        BY <4>1, <4>2 DEF Of
    <3>4. QED
      BY <3>2, <3>3
  <2>6. \A n \in 1..Units' : n \in 1..Units \/ n = Units + 1
    BY <1>1, <2>3
  <2>7. QED
    BY <1>4, <2>4, <2>5, <2>6
<1>11. CASE Turned
  <2>1. UNCHANGED <<kinds, nodes>>
    BY <1>11 DEF Turned
  <2>2. QED
    BY <2>1 DEF LinesInv, Units, Lines
<1>12. QED
  BY <1>8, <1>9, <1>10, <1>11, Effects

\* What is longer is so after anything else.
LEMMA LongerAfter ==
    ASSUME NEW V, NEW a \in Seq(V), NEW b, NEW c, NEW x, Longer(V, b, c, x)
    PROVE  Longer(V, a \o b, a \o c, x)
<1>1. b \in Seq(V) /\ x \in Seq(V) /\ c = b \o x
  BY DEF Longer
<1>2. a \o b \in Seq(V)
  BY <1>1, ConcatProperties
<1>3. a \o (b \o x) = (a \o b) \o x
  BY <1>1, Associative
<1>4. QED
  BY <1>1, <1>2, <1>3 DEF Longer

\* One more at the end of the last sequence of a list is one more at the end
\* of its flattening.
LEMMA FlattenLast ==
    ASSUME NEW V, NEW n \in Nat, n # 0, NEW f \in [1..n -> Seq(V)], NEW g \in [1..n -> Seq(V)],
           NEW x \in Seq(V), \A i \in 1..(n - 1) : g[i] = f[i], Longer(V, f[n], g[n], x)
    PROVE  Longer(V, FlattenSeq(f), FlattenSeq(g), x)
<1> DEFINE m == n - 1
           h == [i \in 1..m |-> f[i]]
           a == FlattenSeq(h)
<1>1. m \in Nat /\ m + 1 = n
  OBVIOUS
<1>2. [i \in 1..m |-> g[i]] = h
  OBVIOUS
<1> HIDE DEF m
<1>3. /\ a \in Seq(V) /\ FlattenSeq(f) = a \o f[n] /\ FlattenSeq(g) = a \o g[n]
  <2>1. f \in [1..(m + 1) -> Seq(V)] /\ g \in [1..(m + 1) -> Seq(V)]
    BY <1>1
  <2>2. a \in Seq(V) /\ FlattenSeq(f) = a \o f[m + 1]
    BY <1>1, <2>1, FlattenStep
  <2>3. FlattenSeq(g) = FlattenSeq([i \in 1..m |-> g[i]]) \o g[m + 1]
    BY <1>1, <2>1, FlattenStep
  <2>4. QED
    BY <1>1, <1>2, <2>2, <2>3
<1>4. Longer(V, a \o f[n], a \o g[n], x)
  <2> HIDE DEF a
  <2>1. a \in Seq(V)
    BY <1>3
  <2>2. QED
    BY <2>1, LongerAfter
<1>5. QED
  BY <1>3, <1>4

\* The next line of text.
IsBody(k) ==
    /\ k # "blank" /\ k # "appendix"
    /\ ~appendix => k \notin {"part", "chapter", "section", "article"}

\* What a line adds to the text.
Added(k) == IF IsBody(k) THEN <<Lines + 1>> ELSE <<>>

\* A line is written unless it is blank, and those before it stay so ...
LEMMA WrittenStep ==
    ASSUME ParserType, ModeInv, NEW k \in Kind, Line(k)
    PROVE  /\ 1..Lines \cap Written' = 1..Lines \cap Written
           /\ Lines + 1 \in Written' <=> k # "blank"
<1>1. /\ Lines \in Nat /\ Lines' = Lines + 1 /\ kinds'[Lines + 1] = k
      /\ \A j \in 1..Lines : kinds'[j] = kinds[j]
      /\ DOMAIN kinds = 1..Lines /\ kinds' \in Seq(Kind)
  BY TypeFacts, LineRead
<1>2. DOMAIN kinds' = 1..(Lines + 1)
  BY <1>1, LenProperties DEF Lines
<1>3. Written = {l \in 1..Lines : kinds[l] # "blank"} /\ Written' = {l \in 1..(Lines + 1) : kinds'[l] # "blank"}
  BY <1>1, <1>2 DEF Written
<1>4. QED
  BY <1>1, <1>3

\* ... and it is of the body as IsBody says.
LEMMA BodyStep ==
    ASSUME ParserType, ModeInv, NEW k \in Kind, Line(k)
    PROVE  /\ 1..Lines \cap BodyLines' = 1..Lines \cap BodyLines
           /\ Lines + 1 \in BodyLines' <=> IsBody(k)
<1>1. /\ Lines \in Nat /\ Lines' = Lines + 1 /\ kinds'[Lines + 1] = k
      /\ \A j \in 1..Lines : /\ kinds'[j] = kinds[j]
                             /\ Opens(j)' <=> Opens(j)
                             /\ IsHeading(j)' <=> IsHeading(j)
      /\ DOMAIN kinds = 1..Lines /\ kinds' \in Seq(Kind)
  BY TypeFacts, LineRead
<1>2. DOMAIN kinds' = 1..(Lines + 1)
  BY <1>1, LenProperties DEF Lines
<1>3. /\ BodyLines = {i \in 1..Lines : /\ kinds[i] # "blank" /\ ~IsHeading(i)
                                       /\ ~(Opens(i) /\ kinds[i] \in {"appendix", "article"})}
      /\ BodyLines' = {i \in 1..(Lines + 1) :
                          /\ kinds'[i] # "blank" /\ ~IsHeading(i)'
                          /\ ~(Opens(i)' /\ kinds'[i] \in {"appendix", "article"})}
  BY <1>1, <1>2 DEF BodyLines
<1>4. 1..Lines \cap BodyLines' = 1..Lines \cap BodyLines
  BY <1>1, <1>3
<1>5. ASSUME NEW j \in Nat, j = Lines + 1 PROVE j \in BodyLines' <=> IsBody(k)
  <2>1. /\ Opens(j)' <=> \/ k = "appendix"
                         \/ ~appendix /\ k = "article"
                         \/ ~appendix /\ k \in {"clause", "point"} /\ article # 0
        /\ IsHeading(j)' <=> ~appendix /\ k \in {"part", "chapter", "section"}
    BY <1>5, LineRead
  <2>2. j \in BodyLines' <=> /\ k # "blank" /\ ~IsHeading(j)'
                             /\ ~(Opens(j)' /\ k \in {"appendix", "article"})
    BY <1>1, <1>3, <1>5
  <2>3. QED
    BY <2>1, <2>2 DEF IsBody
<1>6. QED
  BY <1>1, <1>4, <1>5

\* The text of each unit.
TextOf == [n \in 1..Units |-> Keep(nodes[n].lines, Written)]

LEMMA TextType ==
    ASSUME ParserType, LinesInv
    PROVE  TextOf \in [1..Units -> Seq(Nat)]
<1>1. ASSUME NEW n \in 1..Units PROVE Keep(nodes[n].lines, Written) \in Seq(Nat)
  <2>1. nodes[n].lines \in Seq(Nat)
    BY LinesType
  <2>2. Keep(nodes[n].lines, Written) \in Seq(Nat \cap Written)
    BY <2>1, KeepType
  <2>3. QED
    BY <2>2, SeqMonotonic
<1>2. QED
  BY <1>1 DEF TextOf

\* What the line read adds to the text.
LEMMA BodyGrows ==
    ASSUME ParserType, ModeInv, NEW k \in Kind, Line(k)
    PROVE  Longer(Nat, Keep(UpTo(Lines), BodyLines), Keep(UpTo(Lines), BodyLines)', Added(k))
<1> DEFINE K == Keep(UpTo(Lines), BodyLines)
           B == BodyLines
           C == BodyLines'
           m == Lines + 1
<1>1. Lines \in Nat /\ Lines' = m
  BY TypeFacts, LineRead
<1>2. 1..Lines \cap C = 1..Lines \cap B /\ (m \in C <=> IsBody(k))
  BY BodyStep
<1>3. Keep(UpTo(Lines), BodyLines)' = Keep(UpTo(m), C)
  BY <1>1 DEF UpTo, Keep
<1> HIDE DEF B, C
<1>4. /\ Keep(UpTo(Lines), C) \in Seq(1..Lines \cap C)
      /\ m \in C => Keep(UpTo(m), C) = Append(Keep(UpTo(Lines), C), m)
      /\ m \notin C => Keep(UpTo(m), C) = Keep(UpTo(Lines), C)
  BY <1>1, KeepUpTo
<1>5. Keep(UpTo(Lines), C) = K
  <2>1. UpTo(Lines) \in Seq(1..Lines)
    BY <1>1, UpToNext
  <2> DEFINE V == 1..Lines
  <2>2. UpTo(Lines) \in Seq(V) /\ V \cap C = V \cap B
    BY <1>2, <2>1
  <2> HIDE DEF V
  <2>3. Keep(UpTo(Lines), C) = Keep(UpTo(Lines), B)
    BY <2>2, KeepSame
  <2>4. QED
    BY <2>3 DEF B
<1> HIDE DEF K
<1>6. K \in Seq(Nat)
  BY <1>4, <1>5, SeqMonotonic
<1>7. m \in Nat
  BY <1>1
<1>8. Append(K, m) = K \o <<m>> /\ K \o <<>> = K /\ <<m>> \in Seq(Nat) /\ <<>> \in Seq(Nat)
  BY <1>6, <1>7, AppendIsConcat, ConcatEmptySeq
<1>9. Keep(UpTo(m), C) = K \o Added(k) /\ Added(k) \in Seq(Nat)
  BY <1>2, <1>4, <1>5, <1>8 DEF Added
<1>10. QED
  BY <1>3, <1>6, <1>9 DEF Longer, K

\* The text of the units:
LEMMA TextStep ==
    ASSUME ParserType, ModeInv, LinesInv, TextInv, [ParseNext]_parserVars
    PROVE  TextInv'
<1>1. Lines \in Nat /\ Units \in Nat \ {0} /\ active = Units
  BY TypeFacts
<1> DEFINE f == TextOf
           g == TextOf'
<1>2. FlattenSeq(f) = Keep(UpTo(Lines), BodyLines) /\ f \in [1..Units -> Seq(Nat)]
  BY TextType DEF TextInv, TextOf
<1>3. ASSUME FlattenSeq(TextOf)' = Keep(UpTo(Lines), BodyLines)' PROVE TextInv'
  BY <1>3 DEF TextInv, TextOf
\* The text grows by the line read.
<1>4. ASSUME NEW k \in Kind, Line(k), Longer(Nat, FlattenSeq(f), FlattenSeq(g), Added(k)) PROVE TextInv'
  <2>1. Longer(Nat, FlattenSeq(f), Keep(UpTo(Lines), BodyLines)', Added(k))
    BY <1>2, <1>4, BodyGrows
  <2>2. FlattenSeq(g) = Keep(UpTo(Lines), BodyLines)'
    BY <1>4, <2>1 DEF Longer
  <2>3. QED
    BY <1>3, <2>2
\* A unit that is given no line.
<1>5. ASSUME NEW k \in Kind, Line(k), NEW n \in 1..Units, nodes'[n] = nodes[n], n \in 1..Units'
      PROVE  g[n] = f[n]
  <2> DEFINE V == 1..Lines
             s == nodes[n].lines
  <2>1. s \in Seq(V) /\ V \cap Written' = V \cap Written
    BY <1>5, LinesType, WrittenStep
  <2>2. f[n] = Keep(s, Written) /\ g[n] = Keep(s, Written')
    <3>1. g[n] = Keep(nodes'[n].lines, Written')
      BY <1>5 DEF TextOf, Keep
    <3>2. QED
      BY <1>5, <3>1 DEF TextOf
  <2> HIDE DEF V, s
  <2>3. Keep(s, Written') = Keep(s, Written)
    BY <2>1, KeepSame
  <2>4. QED
    BY <2>2, <2>3
<1>6. ASSUME NEW k \in Kind, Line(k), nodes' = nodes, ~IsBody(k) PROVE TextInv'
  <2>1. Units' = Units
    BY <1>6 DEF Units
  <2>2. \A n \in 1..Units : g[n] = f[n]
    BY <1>5, <1>6, <2>1
  <2>3. g = f
    BY <2>1, <2>2 DEF TextOf
  <2>4. FlattenSeq(f) \in Seq(Nat)
    BY <1>1, <1>2, FlattenType
  <2> DEFINE F == FlattenSeq(f)
  <2>5. F \in Seq(Nat) /\ FlattenSeq(g) = F
    BY <2>3, <2>4
  <2> HIDE DEF F
  <2>6. F = F \o <<>> /\ <<>> \in Seq(Nat)
    BY <2>5, ConcatEmptySeq
  <2>7. Longer(Nat, F, FlattenSeq(g), <<>>)
    BY <2>5, <2>6 DEF Longer
  <2>8. QED
    BY <1>4, <1>6, <2>7 DEF F, Added
<1>7. CASE \E k \in Kind : Spoken(k)
  <2>1. PICK k \in Kind : Spoken(k)
    BY <1>7
  <2>2. Line(k) /\ appendix \in BOOLEAN
    BY <2>1, TypeFacts DEF Spoken
  <2>3. k # "blank" <=> IsBody(k)
    BY <2>1, <2>2 DEF Spoken, IsBody
  <2>4. CASE nodes' = nodes /\ k = "blank"
    BY <1>6, <2>2, <2>3, <2>4
  <2>5. CASE nodes' = Extended(active)
    <3>1. /\ Units' = Units
          /\ \A n \in 1..Units : n # Units => nodes'[n] = nodes[n]
          /\ nodes'[Units].lines = Append(nodes[Units].lines, Lines + 1)
      <4>1. Lines < MaxLines
        BY <2>2 DEF Line, Lines
      <4>2. QED
        BY <2>5, <4>1, UnitExtended
    <3>2. \A i \in 1..(Units - 1) : g[i] = f[i]
      <4> SUFFICES ASSUME NEW i \in 1..(Units - 1) PROVE g[i] = f[i]
        OBVIOUS
      <4>1. i \in 1..Units /\ i # Units
        BY <1>1
      <4>2. QED
        BY <1>5, <2>2, <3>1, <4>1
    <3>3. Longer(Nat, f[Units], g[Units], Added(k))
      <4> DEFINE s == nodes[Units].lines
                 m == Lines + 1
                 a == Keep(s, Written)
                 V == 1..Lines
      <4>1. s \in Seq(V) /\ s \in Seq(Nat) /\ m \in Nat /\ V \cap Written' = V \cap Written
            /\ (m \in Written' <=> k # "blank")
        BY <1>1, <2>2, LinesType, WrittenStep
      <4>2. f[Units] = a /\ g[Units] = Keep(Append(s, m), Written')
        <5>1. f[Units] = Keep(nodes[Units].lines, Written)
          BY <1>1 DEF TextOf
        <5>2. Units \in 1..Units'
          BY <1>1, <3>1
        <5>3. g[Units] = Keep(nodes'[Units].lines, Written')
          BY <5>2 DEF TextOf, Keep
        <5>4. QED
          BY <3>1, <5>1, <5>3
      <4>3. a \in Seq(Nat)
        BY <1>1, <1>2, <4>2
      <4> HIDE DEF s, V
      <4>4. Keep(s, Written') = a
        BY <4>1, KeepSame
      <4> DEFINE Z == Nat
      <4>9. s \in Seq(Z) /\ m \in Z
        BY <4>1
      <4> HIDE DEF m, a, Z
      <4>5. Keep(Append(s, m), Written') = Keep(s, Written') \o (IF m \in Written' THEN <<m>> ELSE <<>>)
        BY <4>9, KeepAppend
      <4>6. Added(k) = (IF m \in Written' THEN <<m>> ELSE <<>>)
        BY <2>3, <4>1 DEF Added, m
      <4>7. Added(k) \in Seq(Nat)
        BY <1>1 DEF Added
      <4>8. QED
        BY <4>2, <4>3, <4>4, <4>5, <4>6, <4>7 DEF Longer
    <3>4. g \in [1..Units -> Seq(Nat)]
      <4>1. g = [n \in 1..Units |-> g[n]]
        BY <3>1 DEF TextOf
      <4>2. g[Units] \in Seq(Nat)
        BY <3>3, ConcatProperties DEF Longer
      <4>3. \A n \in 1..Units : g[n] \in Seq(Nat)
        <5> SUFFICES ASSUME NEW n \in 1..Units PROVE g[n] \in Seq(Nat)
          OBVIOUS
        <5>1. n = Units \/ n \in 1..(Units - 1)
          BY <1>1
        <5>2. QED
          BY <1>2, <3>2, <4>2, <5>1
      <4> HIDE DEF g
      <4>4. QED
        BY <4>1, <4>3
    <3>5. Longer(Nat, FlattenSeq(f), FlattenSeq(g), Added(k))
      <4>1. Added(k) \in Seq(Nat) /\ Units \in Nat /\ Units # 0
        BY <1>1 DEF Added
      <4> HIDE DEF f, g
      <4>2. QED
        BY <1>2, <3>2, <3>3, <3>4, <4>1, FlattenLast
    <3>6. QED
      BY <1>4, <2>2, <3>5
  <2>6. QED
    BY <2>1, <2>4, <2>5 DEF Spoken
<1>8. CASE \E k \in Kind : Headed(k)
  <2>1. PICK k \in Kind : Headed(k)
    BY <1>8
  <2>2. Line(k) /\ nodes' = nodes /\ ~IsBody(k)
    BY <2>1 DEF Headed, IsBody
  <2>3. QED
    BY <1>6, <2>2
<1>9. CASE \E k \in Kind : Opened(k)
  <2>1. PICK k \in Kind : Opened(k)
    BY <1>9
  <2>2. /\ Line(k) /\ k \in {"appendix", "article", "clause", "point"}
        /\ IsBody(k) <=> k \in {"clause", "point"}
    BY <2>1 DEF Opened, IsBody
  <2>3. /\ Units' = Units + 1
        /\ \A n \in 1..Units : nodes'[n] = nodes[n]
        /\ nodes'[Units + 1].lines = IF k \in {"clause", "point"} THEN <<Lines + 1>> ELSE <<>>
    BY <2>1, OpenedIs
  <2>4. nodes'[Units + 1].lines = Added(k)
    BY <2>2, <2>3 DEF Added
  <2>5. \A n \in 1..Units : g[n] = f[n]
    <3> SUFFICES ASSUME NEW n \in 1..Units PROVE g[n] = f[n]
      OBVIOUS
    <3>1. n \in 1..Units'
      BY <1>1, <2>3
    <3>2. QED
      BY <1>5, <2>2, <2>3, <3>1
  <2>6. g[Units + 1] = Added(k)
    <3> DEFINE m == Lines + 1
    <3>1. g[Units + 1] = Keep(Added(k), Written')
      <4>1. g[Units + 1] = Keep(nodes'[Units + 1].lines, Written')
        BY <1>1, <2>3 DEF TextOf, Keep
      <4>2. QED
        BY <2>4, <4>1
    <3>2. m \in Nat /\ (m \in Written' <=> k # "blank")
      BY <1>1, <2>2, WrittenStep
    <3>3. CASE IsBody(k)
      <4> DEFINE Z == Nat
                 e == <<>>
      <4>0. Append(e, m) = <<m>> /\ e \in Seq(Nat)
        OBVIOUS
      <4>1. e \in Seq(Z) /\ m \in Z /\ m \in Written'
        BY <2>2, <3>2, <3>3 DEF IsBody
      <4> HIDE DEF m, Z, e
      <4>2. Keep(Append(e, m), Written') = Keep(e, Written') \o (IF m \in Written' THEN <<m>> ELSE <<>>)
        BY <4>1, KeepAppend
      <4>3. Keep(<<m>>, Written') = <<>> \o <<m>>
        BY <4>0, <4>1, <4>2, KeepNothing DEF e
      <4>4. <<>> \o <<m>> = <<m>>
        BY <3>2, ConcatEmptySeq
      <4>5. QED
        BY <3>1, <3>3, <4>3, <4>4 DEF Added, m
    <3>4. CASE ~IsBody(k)
      BY <3>1, <3>4, KeepNothing DEF Added
    <3>5. QED
      BY <3>3, <3>4
  <2>7. Added(k) \in Seq(Nat)
    BY <1>1 DEF Added
  <2>8. g \in [1..(Units + 1) -> Seq(Nat)]
    <3>1. g = [n \in 1..(Units + 1) |-> g[n]]
      BY <2>3 DEF TextOf
    <3>2. \A n \in 1..(Units + 1) : g[n] \in Seq(Nat)
      <4> SUFFICES ASSUME NEW n \in 1..(Units + 1) PROVE g[n] \in Seq(Nat)
        OBVIOUS
      <4>1. n = Units + 1 \/ n \in 1..Units
        BY <1>1
      <4>2. QED
        BY <1>2, <2>5, <2>6, <2>7, <4>1
    <3> HIDE DEF g
    <3>3. QED
      BY <3>1, <3>2
  <2>9. [n \in 1..Units |-> g[n]] = f
    BY <2>5 DEF TextOf
  <2>10. Longer(Nat, FlattenSeq(f), FlattenSeq(g), Added(k))
    <3> HIDE DEF f, g
    <3>1. Units \in Nat
      BY <1>1
    <3>2. FlattenSeq(f) \in Seq(Nat) /\ FlattenSeq(g) = FlattenSeq(f) \o g[Units + 1]
      BY <2>8, <2>9, <3>1, FlattenStep
    <3>3. QED
      BY <2>6, <2>7, <3>2 DEF Longer
  <2>11. QED
    BY <1>4, <2>2, <2>10
<1>10. CASE Turned
  <2>1. UNCHANGED <<kinds, nodes>>
    BY <1>10 DEF Turned
  <2>2. QED
    BY <2>1 DEF TextInv, Units, Lines, Keep, Written, UpTo, BodyLines, Opens, IsHeading, InAppendix, InArticle
<1>11. QED
  BY <1>7, <1>8, <1>9, <1>10, Effects

\* Nothing has been read yet.
LEMMA InvInit ==
    ASSUME ParseInit
    PROVE  ParserInv
<1>1. /\ kinds = <<>> /\ pages = <<>> /\ nodes = <<Preamble>>
      /\ Lines = 0 /\ Units = 1 /\ nodes[1] = Preamble
      /\ page = 1 /\ active = 1 /\ article = 0 /\ clause = 0
      /\ part = 0 /\ chapter = 0 /\ section = 0 /\ appendix = FALSE
  BY DEF ParseInit, Lines, Units
<1>2. ParserType
  <2>1. Preamble \in Unit
    <3>1. <<>> \in Seq(1..MaxLines)
      BY EmptySeq
    <3>2. 0 \in 0..MaxLines /\ 0 \in 0..(MaxLines + 1)
      BY BoundsAreNumbers
    <3>3. QED
      BY <3>1, <3>2 DEF Preamble, Unit
  <2>2. nodes \in Seq(Unit) /\ DOMAIN nodes = {1}
    BY <1>1, <2>1
  <2>3. kinds \in Seq(Kind) /\ pages \in Seq(1..MaxPages) /\ Len(kinds) = 0 /\ Len(pages) = 0
    BY <1>1, EmptySeq
  <2>4. page \in 1..MaxPages /\ 0 <= MaxLines
    BY <1>1, BoundsAreNumbers
  <2>5. /\ active \in DOMAIN nodes /\ {article, clause} \subseteq {0} \cup DOMAIN nodes
        /\ appendix \in BOOLEAN
    BY <1>1, <2>2
  <2>6. Len(kinds) <= MaxLines /\ Len(pages) = Len(kinds) /\ {part, chapter, section} \subseteq 0..Len(kinds)
    BY <1>1, <2>3, <2>4
  <2>7. ParserTypeOK
    BY <2>2, <2>3, <2>4, <2>5, <2>6 DEF ParserTypeOK
  <2>8. active = Units /\ Units <= Lines + 1
    BY <1>1
  <2>9. QED
    BY <2>7, <2>8 DEF ParserType
<1>3. \A j \in 1..Lines : FALSE
  BY <1>1
<1>4. /\ nodes[1].kind = "PREAMBLE" /\ nodes[1].at = 0 /\ nodes[1].article = 0 /\ nodes[1].clause = 0
      /\ nodes[1].part = 0 /\ nodes[1].chapter = 0 /\ nodes[1].section = 0 /\ nodes[1].lines = <<>>
  BY <1>1 DEF Preamble
<1>5. ModeInv
  BY <1>1, <1>3 DEF ModeInv
<1>6. StartsInv
  BY <1>1, <1>3, <1>4 DEF StartsInv
<1>7. FamilyInv
  BY <1>1, <1>4 DEF FamilyInv, Kin
<1>8. Marked("part") = {} /\ Marked("chapter") = {} /\ Marked("section") = {}
      /\ Marked("article") = {} /\ Marked("clause") = {}
  BY <1>3 DEF Marked
<1>9. AboveInv
  BY <1>1, <1>4, <1>8 DEF AboveInv, LastIs, LabelOf
<1>10. HeadingsInv
  BY <1>1, <1>4, <1>8 DEF HeadingsInv, Under, LastIs
<1>11. LinesInv
  BY <1>1, <1>4 DEF LinesInv
<1>12. PagesInv
  BY <1>3 DEF PagesInv
<1>13. TextInv
  <2>1. UpTo(Lines) = <<>> /\ Keep(UpTo(Lines), BodyLines) = <<>>
    BY <1>1, KeepNothing DEF UpTo
  <2> DEFINE f == [n \in 1..Units |-> Keep(nodes[n].lines, Written)]
             e == Keep(nodes[1].lines, Written)
             z == 0
             g == [i \in 1..z |-> f[i]]
  <2>2. e = <<>> /\ e \in Seq(Nat)
    BY <1>4, KeepNothing, EmptySeq
  <2>3. f \in [1..(z + 1) -> Seq(Nat)] /\ f[z + 1] = e
    BY <1>1, <2>2
  <2>4. FlattenSeq(g) = <<>>
    <3>1. g = <<>>
      OBVIOUS
    <3> HIDE DEF g
    <3>2. QED
      BY <3>1, FlattenEmpty
  <2>5. z \in Nat
    OBVIOUS
  <2> HIDE DEF f, e, z
  <2>6. FlattenSeq(f) = FlattenSeq(g) \o e
    BY <2>3, <2>5, FlattenStep
  <2>7. FlattenSeq(f) = FlattenSeq(g)
    <3> HIDE DEF g
    <3>1. FlattenSeq(g) \in Seq(Nat)
      BY <2>4, EmptySeq
    <3>2. \A x \in Seq(Nat) : x \o <<>> = x
      OBVIOUS
    <3>3. QED
      BY <2>2, <2>6, <3>1, <3>2
  <2>8. QED
    BY <2>1, <2>4, <2>7 DEF TextInv, f
<1>14. QED
  BY <1>2, <1>5, <1>6, <1>7, <1>9, <1>10, <1>11, <1>12, <1>13 DEF ParserInv

\* Every step keeps the invariant, part by part.
LEMMA InvStep ==
    ASSUME ParserInv, [ParseNext]_parserVars
    PROVE  ParserInv'
BY TypeStep, ModeStep, StartsStep, FamilyStep, AboveStep, HeadingsStep, LinesStep, PagesStep, TextStep
   DEF ParserInv

\* So it holds after every line of every text.
LEMMA ParserInvariant == Parsing => []ParserInv
<1>1. ParseInit => ParserInv
  BY InvInit
<1>2. ParserInv /\ [ParseNext]_parserVars => ParserInv'
  BY InvStep
<1>3. QED
  BY <1>1, <1>2, PTL DEF Parsing

-----------------------------------------------------------------------------
(***************************************************************************)
(* The chunks are those of the units in their order.                       *)
(***************************************************************************)
\* The forest of the units.
ParentOf == [n \in 1..Units |-> Parent(n)]

\* The type _flatten gives the chunk of unit n.
TypeOf(n) ==
    CASE nodes[n].kind = "PREAMBLE" -> "PREAMBLE"
      [] IsAppendix(n) -> "APPENDIX"
      [] nodes[n].kind = "ARTICLE" /\ ~IsAppendix(n) ->
            IF Children(n) = <<>> THEN "ARTICLE" ELSE "ARTICLE_INTRO"
      [] nodes[n].kind = "CLAUSE" -> IF Children(n) = <<>> THEN "CLAUSE" ELSE "CLAUSE_INTRO"
      [] nodes[n].kind = "POINT" -> "POINT"

\* The chunk of each unit, if it has lines, and the units that have.
Pieced == [n \in 1..Units |-> ChunkOf(n, TypeOf(n))]
Told == {n \in 1..Units : nodes[n].lines # <<>>}
Record(n) == ChunkOf(n, TypeOf(n))[1]
Records == {Record(n) : n \in 1..Units}

\* Whose child a unit is.
LEMMA ChildOf ==
    ASSUME ParserInv, NEW n \in 1..Units
    PROVE  /\ nodes[n].kind \in {"PREAMBLE", "ARTICLE"} => ParentOf[n] = 0
           /\ nodes[n].kind \in {"CLAUSE", "POINT"} =>
                 /\ nodes[n].article \in 2..(n - 1)
                 /\ nodes[nodes[n].article].kind = "ARTICLE"
                 /\ ~IsAppendix(nodes[n].article)
                 /\ \A j \in (nodes[n].article + 1)..(n - 1) : nodes[j].article # 0
           /\ nodes[n].kind # "POINT" => nodes[n].clause = 0
           /\ nodes[n].clause # 0 =>
                 /\ nodes[n].clause \in (nodes[n].article + 1)..(n - 1)
                 /\ nodes[nodes[n].clause].kind = "CLAUSE"
                 /\ nodes[nodes[n].clause].article = nodes[n].article
                 /\ \A j \in (nodes[n].clause + 1)..(n - 1) : nodes[j].clause # 0
           /\ ParentOf[n] = IF nodes[n].clause # 0 THEN nodes[n].clause ELSE nodes[n].article
<1>1. ParserType /\ StartsInv /\ FamilyInv /\ AboveInv
  BY DEF ParserInv
<1>2. /\ nodes[n] \in Unit /\ Units \in Nat /\ Lines \in Nat
      /\ nodes[n].article \in Nat /\ nodes[n].clause \in Nat
  <2>1. nodes[n] \in Unit /\ Units \in Nat /\ Lines \in Nat
    BY <1>1, TypeFacts
  <2>2. QED
    BY <2>1, BoundsAreNumbers DEF Unit
<1>3. /\ nodes[n].kind \in {"PREAMBLE", "ARTICLE"} => nodes[n].article = 0
      /\ nodes[n].kind \in {"CLAUSE", "POINT"} =>
            nodes[n].article # 0 /\ Kin(n - 1, nodes[n].article, nodes[n].clause)
      /\ nodes[n].kind # "POINT" => nodes[n].clause = 0
  BY <1>1 DEF FamilyInv
<1>4. ParentOf[n] = IF nodes[n].clause # 0 THEN nodes[n].clause ELSE nodes[n].article
  BY DEF ParentOf, Parent
<1>5. nodes[n].kind \in {"PREAMBLE", "ARTICLE"} => ParentOf[n] = 0
  BY <1>3, <1>4
<1>6. ASSUME nodes[n].kind \in {"CLAUSE", "POINT"}
      PROVE  /\ nodes[n].article \in 2..(n - 1)
             /\ nodes[nodes[n].article].kind = "ARTICLE"
             /\ ~IsAppendix(nodes[n].article)
             /\ \A j \in (nodes[n].article + 1)..(n - 1) : nodes[j].article # 0
  <2> DEFINE a == nodes[n].article
  <2>1. /\ a \in 1..(n - 1) /\ nodes[a].kind = "ARTICLE"
        /\ \A j \in (a + 1)..(n - 1) : nodes[j].article # 0
    BY <1>2, <1>3, <1>6 DEF Kin
  <2>2. LastIs(LabelOf(a), Marked("article"), nodes[n].at, 0)
    BY <1>1, <1>6 DEF AboveInv
  <2>3. a # 1
    BY <1>1, <2>1 DEF StartsInv
  <2>4. nodes[a].at \in 1..Lines
    <3>1. a \in 2..Units
      BY <1>2, <2>1, <2>3
    <3> HIDE DEF a
    <3>2. QED
      BY <1>1, <3>1 DEF StartsInv
  <2>5. LabelOf(a) = nodes[a].at /\ LabelOf(a) # 0
    BY <1>2, <2>1, <2>4 DEF LabelOf
  <2>6. nodes[a].at \in Marked("article")
    BY <2>2, <2>5 DEF LastIs
  <2>7. ~IsAppendix(a)
    BY <2>6 DEF Marked, IsAppendix
  <2>8. QED
    BY <1>2, <2>1, <2>3, <2>7
<1>7. ASSUME nodes[n].clause # 0
      PROVE  /\ nodes[n].clause \in (nodes[n].article + 1)..(n - 1)
             /\ nodes[nodes[n].clause].kind = "CLAUSE"
             /\ nodes[nodes[n].clause].article = nodes[n].article
             /\ \A j \in (nodes[n].clause + 1)..(n - 1) : nodes[j].clause # 0
  <2>1. Kin(n - 1, nodes[n].article, nodes[n].clause)
    BY <1>3, <1>7
  <2>2. QED
    BY <1>7, <2>1 DEF Kin
<1>8. QED
  BY <1>3, <1>4, <1>5, <1>6, <1>7

\* A unit belongs to the last article before it, or the last clause of that.
LEMMA UnitsAreForest ==
    ASSUME ParserInv
    PROVE  Forest(ParentOf, Units)
<1>1. /\ Units \in Nat
      /\ \A n \in 1..Units : /\ nodes[n].kind \in {"PREAMBLE", "ARTICLE", "CLAUSE", "POINT"}
                             /\ nodes[n].article \in Nat /\ nodes[n].clause \in Nat
  <2>1. ParserType
    BY DEF ParserInv
  <2>2. Units \in Nat /\ \A n \in 1..Units : nodes[n] \in Unit
    BY <2>1, TypeFacts
  <2>3. QED
    BY <2>2, BoundsAreNumbers DEF Unit
<1> DEFINE P == ParentOf
<1>2. P \in [1..Units -> Nat]
  BY <1>1 DEF ParentOf, Parent
<1>3. ASSUME NEW n \in 1..Units PROVE NestedAt(P, n)
  <2>1. CASE nodes[n].kind \in {"PREAMBLE", "ARTICLE"}
    <3>1. P[n] = 0
      BY <2>1, ChildOf
    <3> HIDE DEF P
    <3>2. QED
      BY <1>1, <3>1 DEF NestedAt, RootOf
  <2>2. CASE nodes[n].kind \in {"CLAUSE", "POINT"}
    <3> DEFINE a == nodes[n].article
               c == nodes[n].clause
    <3>1. /\ a \in 2..(n - 1) /\ nodes[a].kind = "ARTICLE"
          /\ \A j \in (a + 1)..(n - 1) : nodes[j].article # 0
          /\ P[n] = IF c # 0 THEN c ELSE a
      BY <2>2, ChildOf
    <3>2. a \in 1..Units /\ P[a] = 0
      BY <1>1, <3>1, ChildOf
    <3>3. \A j \in (a + 1)..n : P[j] # 0
      <4> SUFFICES ASSUME NEW j \in (a + 1)..n PROVE P[j] # 0
        OBVIOUS
      <4>1. j \in 1..Units
        BY <1>1, <3>1
      <4>2. P[j] = IF nodes[j].clause # 0 THEN nodes[j].clause ELSE nodes[j].article
        BY <4>1, ChildOf
      <4>3. CASE j = n
        BY <1>1, <3>1, <4>2, <4>3
      <4>4. CASE j # n
        <5>1. j \in (a + 1)..(n - 1)
          BY <1>1, <4>4
        <5>2. nodes[j].article # 0
          BY <3>1, <5>1
        <5>3. QED
          BY <4>2, <5>2
      <4>5. QED
        BY <4>3, <4>4
    <3>4. CASE c = 0
      <4>1. P[n] = a
        BY <3>1, <3>4
      <4>2. RootOf(P, n) = a
        BY <3>1, <3>2, <4>1 DEF RootOf
      <4> HIDE DEF P, a
      <4>3. QED
        BY <1>1, <3>1, <3>2, <3>3, <4>1, <4>2 DEF NestedAt
    <3>5. CASE c # 0
      <4>1. /\ c \in (a + 1)..(n - 1) /\ nodes[c].kind = "CLAUSE" /\ nodes[c].article = a
            /\ \A j \in (c + 1)..(n - 1) : nodes[j].clause # 0
        BY <3>5, ChildOf
      <4>2. c \in 1..Units /\ P[n] = c
        BY <1>1, <3>1, <3>5, <4>1
      <4>3. P[c] = a
        <5>1. nodes[c].clause = 0
          BY <4>1, <4>2, ChildOf
        <5>2. P[c] = IF nodes[c].clause # 0 THEN nodes[c].clause ELSE nodes[c].article
          BY <4>2, ChildOf
        <5>3. QED
          BY <4>1, <5>1, <5>2
      <4>4. \A j \in (c + 1)..n : P[j] # a
        <5> SUFFICES ASSUME NEW j \in (c + 1)..n PROVE P[j] # a
          OBVIOUS
        <5>1. j \in 1..Units
          BY <1>1, <4>1, <4>2
        <5>2. CASE j = n
          BY <1>1, <3>1, <4>1, <4>2, <5>2
        <5>3. CASE j # n
          <6>1. j \in (c + 1)..(n - 1)
            BY <1>1, <5>3
          <6>2. nodes[j].clause # 0
            BY <4>1, <6>1
          <6>3. nodes[nodes[j].clause].kind = "CLAUSE" /\ P[j] = nodes[j].clause
            BY <5>1, <6>2, ChildOf
          <6>4. QED
            BY <3>1, <6>3
        <5>4. QED
          BY <5>2, <5>3
      <4>5. RootOf(P, n) = a
        BY <1>1, <3>1, <4>1, <4>2, <4>3 DEF RootOf
      <4> HIDE DEF P, a, c
      <4>6. QED
        BY <1>1, <3>1, <3>2, <3>3, <4>1, <4>2, <4>4, <4>5 DEF NestedAt
    <3>6. QED
      BY <3>4, <3>5
  <2>3. QED
    BY <1>1, <2>1, <2>2
<1>4. QED
  BY <1>1, <1>2, <1>3 DEF Forest

\* Whose children a unit has.
LEMMA FamilyOf ==
    ASSUME ParserInv, NEW n \in 1..Units, NEW m \in 1..Units, ParentOf[m] = n
    PROVE  \/ nodes[n].kind = "ARTICLE" /\ ~IsAppendix(n) /\ nodes[m].kind \in {"CLAUSE", "POINT"}
           \/ nodes[n].kind = "CLAUSE" /\ nodes[m].kind = "POINT"
<1>1. n # 0
  OBVIOUS
<1>2. nodes[m].kind \in {"PREAMBLE", "ARTICLE", "CLAUSE", "POINT"}
  BY TypeFacts DEF ParserInv, Unit
<1>3. nodes[m].kind \notin {"PREAMBLE", "ARTICLE"}
  BY <1>1, ChildOf
<1>4. nodes[m].kind \in {"CLAUSE", "POINT"}
  BY <1>2, <1>3
<1>5. CASE nodes[m].clause # 0
  <2>1. nodes[m].kind = "POINT" /\ n = nodes[m].clause /\ nodes[nodes[m].clause].kind = "CLAUSE"
    BY <1>4, <1>5, ChildOf
  <2>2. QED
    BY <2>1
<1>6. CASE nodes[m].clause = 0
  <2>1. /\ n = nodes[m].article /\ nodes[nodes[m].article].kind = "ARTICLE"
        /\ ~IsAppendix(nodes[m].article)
    BY <1>4, <1>6, ChildOf
  <2>2. QED
    BY <1>4, <2>1
<1>7. QED
  BY <1>5, <1>6

\* The children of a unit are its kids among all units, and the roots those of none.
LEMMA ChildrenAre ==
    ASSUME ParserInv
    PROVE  /\ \A n \in 1..Units :
                 /\ Children(n) = Kids(ParentOf, Units, n)
                 /\ \A i \in DOMAIN Children(n) :
                       Children(n)[i] \in 1..Units /\ ParentOf[Children(n)[i]] = n
                 /\ Children(n) # <<>> => \E m \in 1..Units : ParentOf[m] = n
           /\ Roots = Kids(ParentOf, Units, 0)
           /\ \A i \in DOMAIN Roots : Roots[i] \in 1..Units /\ nodes[Roots[i]].kind \in {"PREAMBLE", "ARTICLE"}
<1>1. /\ Units \in Nat /\ DOMAIN nodes = 1..Units
      /\ \A n \in 1..Units : nodes[n].kind \in {"PREAMBLE", "ARTICLE", "CLAUSE", "POINT"}
  <2>1. ParserType
    BY DEF ParserInv
  <2>2. Units \in Nat /\ DOMAIN nodes = 1..Units /\ \A n \in 1..Units : nodes[n] \in Unit
    BY <2>1, TypeFacts
  <2>3. QED
    BY <2>2 DEF Unit
<1>2. ASSUME NEW n \in 1..Units
      PROVE  /\ Children(n) = Kids(ParentOf, Units, n)
             /\ \A i \in DOMAIN Children(n) :
                   Children(n)[i] \in 1..Units /\ ParentOf[Children(n)[i]] = n
             /\ Children(n) # <<>> => \E m \in 1..Units : ParentOf[m] = n
  <2> DEFINE S == {m \in DOMAIN nodes : Parent(m) = n}
             T == {m \in DOMAIN ParentOf : ParentOf[m] = n}
  <2>1. S = T /\ \A m \in S : m \in 1..Units /\ ParentOf[m] = n
    BY <1>1 DEF ParentOf
  <2>2. Children(n) = Keep(UpTo(Units), S) /\ Kids(ParentOf, Units, n) = Keep(UpTo(Units), T)
    BY DEF Children, Kids, Units
  <2> HIDE DEF S, T
  <2>3. Children(n) = Kids(ParentOf, Units, n)
    BY <2>1, <2>2
  <2>4. Children(n) \in Seq(1..Units \cap S)
    BY <1>1, <2>2, KeepUpTo
  <2>5. \A i \in DOMAIN Children(n) : Children(n)[i] \in S
    BY <2>4
  <2>6. Children(n) # <<>> => 1 \in DOMAIN Children(n)
    BY <2>4
  <2>7. QED
    BY <2>1, <2>3, <2>5, <2>6
<1>3. /\ Roots = Kids(ParentOf, Units, 0)
      /\ \A i \in DOMAIN Roots : Roots[i] \in 1..Units /\ nodes[Roots[i]].kind \in {"PREAMBLE", "ARTICLE"}
  <2> DEFINE S == {n \in DOMAIN nodes : nodes[n].kind \in {"PREAMBLE", "ARTICLE"}}
             T == {m \in DOMAIN ParentOf : ParentOf[m] = 0}
  <2>1. ASSUME NEW n \in 1..Units
        PROVE  nodes[n].kind \in {"PREAMBLE", "ARTICLE"} <=> ParentOf[n] = 0
    <3>1. nodes[n].kind \in {"PREAMBLE", "ARTICLE"} => ParentOf[n] = 0
      BY ChildOf
    <3>2. nodes[n].kind \in {"CLAUSE", "POINT"} => ParentOf[n] # 0
      <4>1. SUFFICES ASSUME nodes[n].kind \in {"CLAUSE", "POINT"} PROVE ParentOf[n] # 0
        OBVIOUS
      <4>2. nodes[n].article # 0
        BY <4>1, ChildOf
      <4>3. ParentOf[n] = IF nodes[n].clause # 0 THEN nodes[n].clause ELSE nodes[n].article
        BY ChildOf
      <4>4. QED
        BY <4>2, <4>3
    <3>3. QED
      BY <1>1, <3>1, <3>2
  <2>2. DOMAIN ParentOf = 1..Units
    BY DEF ParentOf
  <2>3. S = T /\ \A m \in S : m \in 1..Units /\ nodes[m].kind \in {"PREAMBLE", "ARTICLE"}
    BY <1>1, <2>1, <2>2
  <2>4. Roots = Keep(UpTo(Units), S) /\ Kids(ParentOf, Units, 0) = Keep(UpTo(Units), T)
    BY DEF Roots, Kids, Units
  <2> HIDE DEF S, T
  <2>5. Roots \in Seq(1..Units \cap S)
    BY <1>1, <2>4, KeepUpTo
  <2>6. \A i \in DOMAIN Roots : Roots[i] \in S
    BY <2>5
  <2>7. QED
    BY <2>3, <2>4, <2>6
<1>4. QED
  BY <1>2, <1>3

\* A unit becomes one chunk if it was given a line, else none.
LEMMA PiecesAre ==
    ASSUME ParserInv
    PROVE  /\ Pieces(Pieced, Units, Records)
           /\ Pieced = [n \in 1..Units |-> IF n \in Told THEN <<Record(n)>> ELSE <<>>]
<1>1. ASSUME NEW n \in 1..Units
      PROVE  Pieced[n] = IF n \in Told THEN <<Record(n)>> ELSE <<>>
  <2>1. n \in Told <=> nodes[n].lines # <<>>
    BY DEF Told
  <2>2. Pieced[n] = ChunkOf(n, TypeOf(n))
    BY DEF Pieced
  <2>3. CASE nodes[n].lines = <<>>
    BY <2>1, <2>2, <2>3 DEF ChunkOf
  <2>4. CASE nodes[n].lines # <<>>
    <3>1. PICK r : ChunkOf(n, TypeOf(n)) = <<r>>
      BY <2>4 DEF ChunkOf
    <3>2. Record(n) = r
      BY <3>1 DEF Record
    <3>3. QED
      BY <2>1, <2>2, <2>4, <3>1, <3>2
  <2>5. QED
    BY <2>3, <2>4
<1>2. ASSUME NEW n \in 1..Units PROVE Pieced[n] \in Seq(Records)
  <2>1. Record(n) \in Records
    BY DEF Records
  <2> DEFINE r == Record(n)
  <2> HIDE DEF r
  <2>2. <<r>> \in Seq(Records) /\ <<>> \in Seq(Records)
    BY <2>1 DEF r
  <2>3. QED
    BY <1>1, <2>2 DEF r
<1>3. Pieced = [n \in 1..Units |-> Pieced[n]]
  BY DEF Pieced
<1>4. QED
  BY <1>1, <1>2, <1>3 DEF Pieces

\* The chunks of a clause or point are those of its twig.
LEMMA ClauseChunksAre ==
    ASSUME ParserInv, NEW n \in 1..Units, nodes[n].kind \in {"CLAUSE", "POINT"}
    PROVE  ClauseChunks(n) = Twig(ParentOf, Pieced, Units)[n]
<1> DEFINE ch == Children(n)
           over == FlattenSeq([i \in DOMAIN ch |-> Pieced[ch[i]]])
<1>1. Twig(ParentOf, Pieced, Units)[n] = Pieced[n] \o over
  <2>1. DOMAIN ParentOf = 1..Units /\ Kids(ParentOf, Units, n) = ch
    BY ChildrenAre DEF ParentOf
  <2>2. QED
    BY <2>1 DEF Twig, Over
<1>2. Pieced[n] = ChunkOf(n, TypeOf(n)) /\ Pieced[n] \in Seq(Records)
  BY PiecesAre DEF Pieced, Pieces
<1>3. ~IsAppendix(n)
  BY DEF IsAppendix
<1>4. CASE ch = <<>>
  <2>1. over = <<>>
    BY <1>4, FlattenEmpty
  <2>2. ClauseChunks(n) = Pieced[n]
    BY <1>2, <1>3, <1>4 DEF ClauseChunks, TypeOf
  <2> HIDE DEF over
  <2>3. \A x \in Seq(Records) : x \o <<>> = x
    OBVIOUS
  <2>4. QED
    BY <1>1, <1>2, <2>1, <2>2, <2>3
<1>5. CASE ch # <<>>
  <2>1. nodes[n].kind = "CLAUSE"
    <3>1. PICK m \in 1..Units : ParentOf[m] = n
      BY <1>5, ChildrenAre
    <3>2. QED
      BY <3>1, FamilyOf
  <2>2. ClauseChunks(n) = ChunkOf(n, "CLAUSE_INTRO") \o FlattenSeq([i \in DOMAIN ch |-> ChunkOf(ch[i], "POINT")])
    BY <1>5, <2>1 DEF ClauseChunks
  <2>3. TypeOf(n) = "CLAUSE_INTRO"
    BY <1>3, <1>5, <2>1 DEF TypeOf
  <2>4. \A i \in DOMAIN ch : Pieced[ch[i]] = ChunkOf(ch[i], "POINT")
    <3> SUFFICES ASSUME NEW i \in DOMAIN ch PROVE Pieced[ch[i]] = ChunkOf(ch[i], "POINT")
      OBVIOUS
    <3> DEFINE m == ch[i]
    <3>1. m \in 1..Units /\ ParentOf[m] = n
      BY ChildrenAre
    <3>2. nodes[m].kind = "POINT"
      BY <2>1, <3>1, FamilyOf
    <3> HIDE DEF m, ch
    <3>3. TypeOf(m) = "POINT"
      BY <3>2 DEF TypeOf, IsAppendix
    <3>4. Pieced[m] = ChunkOf(m, "POINT")
      BY <3>1, <3>3 DEF Pieced
    <3>5. QED
      BY <3>4 DEF m
  <2>5. [i \in DOMAIN ch |-> ChunkOf(ch[i], "POINT")] = [i \in DOMAIN ch |-> Pieced[ch[i]]]
    BY <2>4
  <2>6. QED
    BY <1>1, <1>2, <2>2, <2>3, <2>5
<1>6. QED
  BY <1>4, <1>5

\* The chunks of a root are those of its tree.
LEMMA RootChunksAre ==
    ASSUME ParserInv, NEW n \in 1..Units, nodes[n].kind \in {"PREAMBLE", "ARTICLE"}
    PROVE  RootChunks(n) = Tree(ParentOf, Pieced, Units)[n]
<1> DEFINE ch == Children(n)
           twig == Twig(ParentOf, Pieced, Units)
           over == FlattenSeq([i \in DOMAIN ch |-> twig[ch[i]]])
<1>1. Tree(ParentOf, Pieced, Units)[n] = Pieced[n] \o over
  <2>1. DOMAIN ParentOf = 1..Units /\ Kids(ParentOf, Units, n) = ch
    BY ChildrenAre DEF ParentOf
  <2>2. QED
    BY <2>1 DEF Tree, Over
<1>2. Pieced[n] = ChunkOf(n, TypeOf(n)) /\ Pieced[n] \in Seq(Records)
  BY PiecesAre DEF Pieced, Pieces
<1>3. ch # <<>> => nodes[n].kind = "ARTICLE" /\ ~IsAppendix(n)
  <2>1. SUFFICES ASSUME ch # <<>> PROVE nodes[n].kind = "ARTICLE" /\ ~IsAppendix(n)
    OBVIOUS
  <2>2. PICK m \in 1..Units : ParentOf[m] = n
    BY <2>1, ChildrenAre
  <2>3. QED
    BY <2>2, FamilyOf
<1>4. CASE ch = <<>>
  <2>1. over = <<>>
    BY <1>4, FlattenEmpty
  <2>2. RootChunks(n) = Pieced[n]
    <3>1. CASE nodes[n].kind = "PREAMBLE"
      BY <1>2, <3>1 DEF RootChunks, TypeOf, IsAppendix
    <3>2. CASE IsAppendix(n)
      BY <1>2, <3>2 DEF RootChunks, TypeOf, IsAppendix
    <3>3. CASE nodes[n].kind = "ARTICLE" /\ ~IsAppendix(n)
      BY <1>2, <1>4, <3>3 DEF RootChunks, TypeOf
    <3>4. QED
      BY <3>1, <3>2, <3>3
  <2> HIDE DEF over
  <2>3. \A x \in Seq(Records) : x \o <<>> = x
    OBVIOUS
  <2>4. QED
    BY <1>1, <1>2, <2>1, <2>2, <2>3
<1>5. CASE ch # <<>>
  <2>1. nodes[n].kind = "ARTICLE" /\ ~IsAppendix(n)
    BY <1>3, <1>5
  <2>2. RootChunks(n) = ChunkOf(n, "ARTICLE_INTRO") \o FlattenSeq([i \in DOMAIN ch |-> ClauseChunks(ch[i])])
    BY <1>5, <2>1 DEF RootChunks
  <2>3. TypeOf(n) = "ARTICLE_INTRO"
    BY <1>5, <2>1 DEF TypeOf
  <2>4. \A i \in DOMAIN ch : ClauseChunks(ch[i]) = twig[ch[i]]
    <3> SUFFICES ASSUME NEW i \in DOMAIN ch PROVE ClauseChunks(ch[i]) = twig[ch[i]]
      OBVIOUS
    <3> DEFINE m == ch[i]
    <3>1. m \in 1..Units /\ ParentOf[m] = n
      BY ChildrenAre
    <3>2. nodes[m].kind \in {"CLAUSE", "POINT"}
      BY <3>1, FamilyOf
    <3> HIDE DEF m, ch
    <3>3. ClauseChunks(m) = twig[m]
      BY <3>1, <3>2, ClauseChunksAre
    <3>4. QED
      BY <3>3 DEF m
  <2>5. [i \in DOMAIN ch |-> ClauseChunks(ch[i])] = [i \in DOMAIN ch |-> twig[ch[i]]]
    BY <2>4
  <2>6. QED
    BY <1>1, <1>2, <2>2, <2>3, <2>5
<1>6. QED
  BY <1>4, <1>5

\* The chunks are the records of the units that were given a line, in the
\* order of the units.
ToldUnits == Keep(UpTo(Units), Told)

LEMMA ChunksAre ==
    ASSUME ParserInv
    PROVE  /\ Chunks = [i \in DOMAIN ToldUnits |-> Record(ToldUnits[i])]
           /\ ToldUnits \in Seq(1..Units \cap Told)
           /\ \A i, j \in DOMAIN ToldUnits : i < j => ToldUnits[i] < ToldUnits[j]
<1>1. Units \in Nat
  BY TypeFacts DEF ParserInv
<1> DEFINE tree == Tree(ParentOf, Pieced, Units)
<1>2. Chunks = Over(Roots, tree)
  <2>1. \A i \in DOMAIN Roots : RootChunks(Roots[i]) = tree[Roots[i]]
    BY ChildrenAre, RootChunksAre
  <2> HIDE DEF tree
  <2>2. QED
    BY <2>1 DEF Chunks, Over
<1>3. Over(Roots, tree) = FlattenSeq([n \in 1..Units |-> Pieced[n]])
  <2>1. Roots = Kids(ParentOf, Units, 0)
    BY ChildrenAre
  <2>2. Over(Kids(ParentOf, Units, 0), tree) = FlattenSeq([n \in 1..Units |-> Pieced[n]])
    <3>1. Units \in 0..Units
      BY <1>1
    <3>2. Forest(ParentOf, Units) /\ Pieces(Pieced, Units, Records)
      BY UnitsAreForest, PiecesAre
    <3>3. QED
      BY <3>1, <3>2, TreesInOrder
  <2>3. QED
    BY <2>1, <2>2
<1>4. [n \in 1..Units |-> Pieced[n]] = [n \in 1..Units |-> IF n \in Told THEN <<Record(n)>> ELSE <<>>]
  BY PiecesAre DEF Pieced
<1> DEFINE r == [n \in 1..Units |-> Record(n)]
<1>5. r \in [1..Units -> Records] /\ \A n \in 1..Units : r[n] = Record(n)
  BY DEF Records
<1>6. [n \in 1..Units |-> IF n \in Told THEN <<Record(n)>> ELSE <<>>]
         = [n \in 1..Units |-> IF n \in Told THEN <<r[n]>> ELSE <<>>]
  BY <1>5
<1> HIDE DEF r, tree
<1>7. FlattenSeq(OneEach(Units, r, Told)) = Listed(ToldUnits, r)
  BY <1>1, <1>5, RecordsInOrder DEF ToldUnits
<1>8. ToldUnits \in Seq(1..Units \cap Told)
  BY <1>1, KeepUpTo DEF ToldUnits
<1>9. \A i \in DOMAIN ToldUnits : r[ToldUnits[i]] = Record(ToldUnits[i])
  <2>1. \A i \in DOMAIN ToldUnits : ToldUnits[i] \in 1..Units
    BY <1>8
  <2>2. QED
    BY <1>5, <2>1
<1>10. \A i, j \in DOMAIN ToldUnits : i < j => ToldUnits[i] < ToldUnits[j]
  BY <1>1, KeptInOrder DEF ToldUnits
<1>11. QED
  BY <1>2, <1>3, <1>4, <1>6, <1>7, <1>8, <1>9, <1>10 DEF OneEach, Listed

\* The first element of s is kept first.
BeginsIn(V, N, s, S) == N \in Nat /\ N # 0 /\ s \in [1..N -> V] /\ s[1] \in S

LEMMA HeadKept ==
    ASSUME NEW V, NEW N, NEW s, NEW S, BeginsIn(V, N, s, S)
    PROVE  Keep(s, S) # <<>> /\ Keep(s, S)[1] = s[1]
<1>0. N \in Nat /\ N # 0 /\ s \in [1..N -> V] /\ s[1] \in S
  BY DEF BeginsIn
<1> DEFINE Cut(m) == [i \in 1..m |-> s[i]]
           Good(t) == t \in Seq(V) /\ t # <<>> /\ t[1] = s[1]
           G == {m \in Nat : m + 1 <= N => Good(Keep(Cut(m + 1), S))}
<1>1. \A t \in Seq(V) : \A x \in Seq(V) : Good(t) => Good(t \o x)
  <2> SUFFICES ASSUME NEW t \in Seq(V), NEW x \in Seq(V), Good(t) PROVE Good(t \o x)
    OBVIOUS
  <2>1. t \o x \in Seq(V) /\ Len(t \o x) = Len(t) + Len(x) /\ Len(t) \in Nat /\ Len(x) \in Nat
    BY ConcatProperties, LenProperties
  <2>2. 1 \in 1..Len(t)
    BY LenProperties, EmptySeq
  <2>3. (t \o x)[1] = t[1]
    BY <2>1, <2>2, ConcatProperties
  <2>4. t \o x # <<>>
    BY <2>1, <2>2
  <2>5. QED
    BY <2>1, <2>3, <2>4
<1>2. 0 \in G
  <2> DEFINE x == s[1]
             e == <<>>
             p == Cut(1)
  <2>1. e \in Seq(V) /\ x \in V /\ x \in S
    BY <1>0, EmptySeq
  <2>2. p = Append(e, x)
    OBVIOUS
  <2>3. Keep(e, S) = e
    BY KeepNothing
  <2> HIDE DEF e, x, p
  <2>4. Keep(p, S) = Keep(e, S) \o <<x>>
    BY <2>1, <2>2, KeepAppend
  <2>5. Keep(p, S) = <<x>>
    <3>1. \A v \in V : <<>> \o <<v>> = <<v>>
      OBVIOUS
    <3>2. e = <<>>
      BY DEF e
    <3>3. QED
      BY <2>1, <2>3, <2>4, <3>1, <3>2
  <2>6. <<x>> \in Seq(V) /\ <<x>> # <<>> /\ <<x>>[1] = x
    <3> HIDE <1>1
    <3>1. \A v \in V : <<v>> \in Seq(V) /\ <<v>> # <<>> /\ <<v>>[1] = v
      OBVIOUS
    <3>2. QED
      BY <2>1, <3>1
  <2>7. Good(Keep(p, S))
    BY <2>5, <2>6 DEF x
  <2>8. QED
    BY <2>7 DEF p
<1>3. ASSUME NEW m \in G PROVE m + 1 \in G
  <2>1. SUFFICES ASSUME m + 2 <= N PROVE Good(Keep(Cut(m + 2), S))
    OBVIOUS
  <2> DEFINE k == m + 1
             p == Cut(k)
             q == Cut(k + 1)
             x == s[k + 1]
  <2>2. k \in Nat /\ Good(Keep(p, S))
    <3>1. m \in Nat /\ (m + 1 <= N => Good(Keep(p, S)))
      OBVIOUS
    <3> HIDE DEF Good, Cut
    <3>2. QED
      BY <1>0, <2>1, <3>1
  <2>3. q \in [1..(k + 1) -> V] /\ q[k + 1] = x /\ [i \in 1..k |-> q[i]] = p /\ Cut(m + 2) = q
    BY <1>0, <2>1
  <2> HIDE DEF k, p, q, x, Cut, Good
  <2>4. p \in Seq(V) /\ x \in V /\ q = Append(p, x)
    BY <2>2, <2>3, ListAppend
  <2>5. Keep(p, S) \in Seq(V \cap S) /\ Keep(q, S) = Keep(p, S) \o (IF x \in S THEN <<x>> ELSE <<>>)
    BY <2>4, KeepAppend
  <2> DEFINE y == IF x \in S THEN <<x>> ELSE <<>>
  <2>6. y \in Seq(V)
    BY <2>4
  <2>7. Keep(p, S) \in Seq(V)
    BY <2>2 DEF Good
  <2> HIDE DEF y
  <2>8. Good(Keep(p, S) \o y)
    BY <1>1, <2>2, <2>6, <2>7
  <2>9. QED
    BY <2>3, <2>5, <2>8 DEF y
<1> HIDE DEF G
<1>4. G = Nat
  <2>1. G \in SUBSET Nat
    BY DEF G
  <2>2. QED
    BY <1>2, <1>3, <2>1, Induction
<1>5. Good(Keep(Cut(N), S))
  <2>1. N - 1 \in G
    BY <1>0, <1>4
  <2>2. (N - 1) + 1 = N
    BY <1>0
  <2> HIDE DEF Good, Cut
  <2>3. QED
    BY <2>1, <2>2 DEF G
<1>6. Cut(N) = s
  BY <1>0
<1>7. QED
  BY <1>5, <1>6

\* The text of the chunks is the text of the units.
LEMMA TextKept ==
    ASSUME ParserInv
    PROVE  TextIsKept
<1>1. /\ ParserType /\ LinesInv /\ TextInv /\ Units \in Nat /\ Lines \in Nat
  BY TypeFacts DEF ParserInv
<1> DEFINE K == ToldUnits
           t == TextOf
<1>2. Chunks = [i \in DOMAIN K |-> Record(K[i])] /\ K \in Seq(1..Units \cap Told)
  BY ChunksAre
<1>3. \A i \in DOMAIN K : K[i] \in 1..Units /\ K[i] \in Told
  BY <1>2
<1>4. ASSUME NEW n \in 1..Units, n \in Told PROVE Record(n).lines = t[n]
  <2>1. nodes[n].lines # <<>>
    BY <1>4 DEF Told
  <2>2. Record(n).lines = Keep(nodes[n].lines, Written)
    BY <2>1 DEF Record, ChunkOf
  <2>3. QED
    BY <2>2 DEF TextOf
<1>5. [i \in DOMAIN Chunks |-> Chunks[i].lines] = [i \in DOMAIN K |-> t[K[i]]]
  <2>1. DOMAIN Chunks = DOMAIN K /\ \A i \in DOMAIN K : Chunks[i] = Record(K[i])
    BY <1>2
  <2>2. \A i \in DOMAIN K : Chunks[i].lines = t[K[i]]
    BY <1>3, <1>4, <2>1
  <2> HIDE DEF K, t
  <2>3. QED
    BY <2>1, <2>2
<1>6. \A n \in 1..Units : t[n] \in Seq(Nat) /\ (n \notin Told => t[n] = <<>>)
  <2> SUFFICES ASSUME NEW n \in 1..Units PROVE t[n] \in Seq(Nat) /\ (n \notin Told => t[n] = <<>>)
    OBVIOUS
  <2>1. t[n] \in Seq(Nat)
    BY <1>1, TextType
  <2>2. ASSUME n \notin Told PROVE t[n] = <<>>
    <3>1. nodes[n].lines = <<>>
      BY <2>2 DEF Told
    <3>2. t[n] = Keep(<<>>, Written)
      BY <3>1 DEF TextOf
    <3>3. QED
      BY <3>2, KeepNothing
  <2>3. QED
    BY <2>1, <2>2
<1>7. [n \in 1..Units |-> t[n]] = [n \in 1..Units |-> Keep(nodes[n].lines, Written)]
  BY DEF TextOf
<1> HIDE DEF t
<1>8. Over(Keep(UpTo(Units), Told), t) = FlattenSeq([n \in 1..Units |-> t[n]])
  <2> DEFINE E == Told
             N == Units
             W == Nat
  <2>1. N \in Nat /\ \A n \in 1..N : t[n] \in Seq(W) /\ (n \notin E => t[n] = <<>>)
    BY <1>1, <1>6
  <2>9. Only(N, W, t, E)
    BY <2>1 DEF Only
  <2> HIDE DEF E, N, W
  <2>2. Over(Keep(UpTo(N), E), t) = FlattenSeq([n \in 1..N |-> t[n]])
    BY <2>1, <2>9, OverKept
  <2>3. QED
    BY <2>2 DEF E, N
<1>9. Over(K, t) = FlattenSeq([n \in 1..Units |-> t[n]])
  BY <1>8 DEF ToldUnits
<1>10. FlattenSeq([i \in DOMAIN Chunks |-> Chunks[i].lines]) = Over(K, t)
  <2>1. Over(K, t) = FlattenSeq([i \in DOMAIN K |-> t[K[i]]])
    BY DEF Over
  <2>2. QED
    BY <1>5, <2>1, Zenon
<1>11. FlattenSeq([n \in 1..Units |-> t[n]]) = Keep(UpTo(Len(kinds)), BodyLines)
  <2>1. FlattenSeq([n \in 1..Units |-> Keep(nodes[n].lines, Written)]) = Keep(UpTo(Len(kinds)), BodyLines)
    BY <1>1, Zenon DEF TextInv, Lines
  <2>2. QED
    BY <1>7, <2>1, Zenon
<1>12. QED
  BY <1>9, <1>10, <1>11 DEF TextIsKept

\* The least and the greatest number of a set that has one.
LEMMA LeastIs ==
    ASSUME NEW S \in SUBSET Nat, NEW m \in S, \A n \in S : m <= n
    PROVE  Min(S) = m
<1>1. ASSUME NEW x \in S, \A n \in S : x <= n PROVE x = m
  <2>1. x \in Nat /\ m \in Nat /\ x <= m /\ m <= x
    BY <1>1
  <2>2. QED
    BY <2>1
<1> DEFINE C == CHOOSE x \in S : \A n \in S : x <= n
<1>2. C \in S /\ \A n \in S : C <= n
  OBVIOUS
<1>3. C = m
  BY <1>1, <1>2
<1>4. QED
  BY <1>3 DEF Min

LEMMA GreatestIs ==
    ASSUME NEW S \in SUBSET Nat, NEW m \in S, \A n \in S : n <= m
    PROVE  Max(S) = m
<1>1. ASSUME NEW x \in S, \A n \in S : x >= n PROVE x = m
  <2>1. x \in Nat /\ m \in Nat /\ x <= m /\ m <= x
    BY <1>1
  <2>2. QED
    BY <2>1
<1> DEFINE C == CHOOSE x \in S : \A n \in S : x >= n
<1>2. C \in S /\ \A n \in S : C >= n
  OBVIOUS
<1>3. C = m
  BY <1>1, <1>2
<1>4. QED
  BY <1>3 DEF Max

\* The first and the last line of a unit, and its pages.
LEMMA UnitPages ==
    ASSUME ParserInv, NEW n \in 1..Units, n \in Told
    PROVE  LET s == nodes[n].lines
               N == Len(s)
           IN  /\ N \in Nat \ {0}
               /\ s \in [1..N -> 1..Lines] /\ s[1] \in Written
               /\ nodes[n].at <= s[1] /\ (n < Units => s[N] < nodes[n + 1].at)
               /\ Record(n).from = pages[s[1]] /\ Record(n).to = pages[s[N]]
               /\ Record(n).lines # <<>> /\ Head(Record(n).lines) = s[1]
               /\ \A i \in DOMAIN Record(n).lines : \E j \in 1..N : Record(n).lines[i] = s[j] /\ s[j] \in Written
<1> DEFINE s == nodes[n].lines
           N == Len(s)
<1>1. ParserType /\ LinesInv /\ PagesInv
  BY DEF ParserInv
<1>2. /\ Lines \in Nat /\ Units \in Nat /\ DOMAIN kinds = 1..Lines
      /\ \A l \in 1..Lines : pages[l] \in 1..MaxPages
  BY <1>1, TypeFacts
<1>3. s # <<>>
  BY DEF Told
<1>4. /\ \A i \in DOMAIN s : /\ s[i] \in 1..Lines /\ nodes[n].at <= s[i]
                             /\ n < Units => s[i] < nodes[n + 1].at
      /\ \A i, j \in DOMAIN s : i < j => s[i] < s[j]
      /\ s # <<>> => kinds[s[1]] # "blank"
  BY <1>1 DEF LinesInv
<1>5. s \in Seq(1..MaxLines)
  <2>1. nodes[n] \in Unit
    BY <1>1, TypeFacts
  <2>2. QED
    BY <2>1 DEF Unit
<1>6. DOMAIN s = 1..N /\ N \in Nat /\ N # 0 /\ s \in [1..N -> 1..Lines]
  <2> HIDE DEF s
  <2>1. DOMAIN s = 1..N /\ N \in Nat /\ N # 0 /\ s \in [1..N -> 1..MaxLines]
    BY <1>3, <1>5, LenProperties, EmptySeq
  <2> HIDE DEF N
  <2>2. QED
    BY <1>4, <2>1
<1>7. 1 \in 1..N /\ N \in 1..N /\ s[1] \in 1..Lines /\ s[N] \in 1..Lines
  BY <1>4, <1>6
<1>8. s[1] \in Written
  BY <1>2, <1>3, <1>4, <1>7 DEF Written
<1>9. /\ Record(n).from = Min({pages[l] : l \in ToSet(s)})
      /\ Record(n).to = Max({pages[l] : l \in ToSet(s)})
      /\ Record(n).lines = Keep(s, Written)
  BY <1>3 DEF Record, ChunkOf
<1> DEFINE S == {pages[l] : l \in ToSet(s)}
<1>10. S = {pages[s[i]] : i \in 1..N}
  BY <1>6 DEF ToSet
<1> HIDE DEF s, N
<1>11. S \in SUBSET Nat
  <2>1. \A l \in 1..Lines : pages[l] \in Nat
    BY <1>2, BoundsAreNumbers
  <2>2. \A i \in 1..N : s[i] \in 1..Lines
    BY <1>6
  <2>3. QED
    BY <1>10, <2>1, <2>2
<1>12. /\ pages[s[1]] \in S /\ pages[s[N]] \in S
       /\ \A x \in S : pages[s[1]] <= x /\ x <= pages[s[N]]
  <2>1. pages[s[1]] \in S /\ pages[s[N]] \in S
    BY <1>7, <1>10
  <2>2. ASSUME NEW i \in 1..N PROVE pages[s[1]] <= pages[s[i]] /\ pages[s[i]] <= pages[s[N]]
    <3>1. s[1] <= s[i] /\ s[i] <= s[N] /\ s[i] \in 1..Lines
      BY <1>2, <1>4, <1>6, <1>7
    <3>2. QED
      BY <1>1, <1>7, <3>1 DEF PagesInv
  <2>3. QED
    BY <1>10, <2>1, <2>2
<1> HIDE DEF S
<1>13. Min(S) = pages[s[1]] /\ Max(S) = pages[s[N]]
  <2> DEFINE x == pages[s[1]]
             y == pages[s[N]]
  <2>1. x \in S /\ y \in S /\ (\A z \in S : x <= z) /\ (\A z \in S : z <= y)
    BY <1>12
  <2> HIDE DEF x, y
  <2>2. Min(S) = x
    BY <1>11, <2>1, LeastIs
  <2>3. Max(S) = y
    BY <1>11, <2>1, GreatestIs
  <2>4. QED
    BY <2>2, <2>3 DEF x, y
<1>14. Keep(s, Written) # <<>> /\ Keep(s, Written)[1] = s[1]
  <2>1. BeginsIn(1..Lines, N, s, Written)
    BY <1>6, <1>8 DEF BeginsIn
  <2>2. QED
    BY <2>1, HeadKept
<1>15. \A i \in DOMAIN Keep(s, Written) : \E j \in 1..N : Keep(s, Written)[i] = s[j] /\ s[j] \in Written
  <2> DEFINE V == {s[j] : j \in 1..N}
             x == Keep(s, Written)
  <2>9. N \in Nat /\ s \in [1..N -> V]
    BY <1>6
  <2> HIDE DEF V
  <2>1. s \in Seq(V)
    BY <2>9, SeqDef
  <2>2. x \in Seq(V \cap Written)
    BY <2>1, KeepType
  <2> HIDE DEF x
  <2>3. \A i \in DOMAIN x : x[i] \in V /\ x[i] \in Written
    BY <2>2
  <2>4. \A i \in DOMAIN x : \E j \in 1..N : x[i] = s[j] /\ s[j] \in Written
    BY <2>3 DEF V
  <2>5. QED
    BY <2>4 DEF x
<1>16. Head(Keep(s, Written)) = s[1]
  BY <1>14
<1>17. /\ N \in Nat \ {0} /\ s \in [1..N -> 1..Lines] /\ s[1] \in Written
       /\ nodes[n].at <= s[1] /\ (n < Units => s[N] < nodes[n + 1].at)
  BY <1>4, <1>6, <1>7, <1>8
<1>18. /\ Record(n).from = pages[s[1]] /\ Record(n).to = pages[s[N]]
       /\ Record(n).lines # <<>> /\ Head(Record(n).lines) = s[1]
  BY <1>9, <1>13, <1>14, <1>16 DEF S
<1>19. \A i \in DOMAIN Record(n).lines : \E j \in 1..N : Record(n).lines[i] = s[j] /\ s[j] \in Written
  BY <1>9, <1>15
<1>20. QED
  BY <1>17, <1>18, <1>19 DEF s, N

\* The pages of a chunk begin with its text and end no later than the next
\* chunk begins.
LEMMA PagesKept ==
    ASSUME ParserInv
    PROVE  PagesInOrder
<1>1. /\ Lines \in Nat /\ Units \in Nat /\ PagesInv
      /\ \A m, n \in 1..Units : m < n => nodes[m].at < nodes[n].at
      /\ \A n \in 1..Units : nodes[n].at \in Nat
  <2>1. ParserType /\ PagesInv /\ StartsInv
    BY DEF ParserInv
  <2>2. Lines \in Nat /\ Units \in Nat /\ \A n \in 1..Units : nodes[n] \in Unit
    BY <2>1, TypeFacts
  <2>3. QED
    BY <2>1, <2>2, BoundsAreNumbers DEF StartsInv, Unit
<1> DEFINE K == ToldUnits
<1>2. /\ Chunks = [i \in DOMAIN K |-> Record(K[i])] /\ K \in Seq(1..Units \cap Told)
      /\ \A i, j \in DOMAIN K : i < j => K[i] < K[j]
  BY ChunksAre
<1>3. \A i \in DOMAIN K : K[i] \in 1..Units /\ K[i] \in Told
  BY <1>2
<1>4. DOMAIN K = 1..Len(K) /\ Len(K) \in Nat
  BY <1>2
<1>5. DOMAIN Chunks = DOMAIN K /\ \A i \in DOMAIN K : Chunks[i] = Record(K[i])
  BY <1>2
<1> HIDE DEF K
<1>6. ASSUME NEW i \in DOMAIN K PROVE Chunks[i].from = pages[Head(Chunks[i].lines)]
  <2>1. K[i] \in 1..Units /\ K[i] \in Told
    BY <1>3
  <2>2. Record(K[i]).from = pages[nodes[K[i]].lines[1]] /\ Head(Record(K[i]).lines) = nodes[K[i]].lines[1]
    BY <2>1, UnitPages
  <2>3. QED
    BY <1>5, <2>2
<1>7. ASSUME NEW i \in DOMAIN K, i > 1 PROVE Chunks[i - 1].to <= Chunks[i].from
  <2> DEFINE m == K[i - 1]
             n == K[i]
             s == nodes[m].lines
             t == nodes[n].lines
             M == Len(s)
  <2>1. i - 1 \in DOMAIN K /\ i - 1 < i
    BY <1>4, <1>7
  <2>2. m \in 1..Units /\ n \in 1..Units /\ m \in Told /\ n \in Told /\ m < n
    BY <1>2, <1>3, <2>1
  <2> HIDE DEF m, n
  <2>3. /\ s \in [1..M -> 1..Lines] /\ M \in Nat \ {0}
        /\ (m < Units => s[M] < nodes[m + 1].at) /\ Record(m).to = pages[s[M]]
    BY <2>2, UnitPages
  <2>4. /\ t[1] \in 1..Lines /\ nodes[n].at <= t[1] /\ Record(n).from = pages[t[1]]
    <3>1. /\ t \in [1..Len(t) -> 1..Lines] /\ Len(t) \in Nat \ {0}
          /\ nodes[n].at <= t[1] /\ Record(n).from = pages[t[1]]
      BY <2>2, UnitPages
    <3>2. QED
      BY <3>1
  <2>5. s[M] \in 1..Lines
    BY <2>3
  <2>6. nodes[m + 1].at <= nodes[n].at /\ m + 1 \in 1..Units
    BY <1>1, <2>2
  <2>7. s[M] <= t[1]
    <3>1. s[M] < nodes[m + 1].at /\ nodes[m + 1].at \in Nat /\ nodes[n].at \in Nat
      BY <1>1, <2>2, <2>3, <2>6
    <3>2. QED
      BY <1>1, <2>4, <2>5, <2>6, <3>1
  <2>8. pages[s[M]] <= pages[t[1]]
    BY <1>1, <2>4, <2>5, <2>7 DEF PagesInv
  <2>9. Chunks[i - 1] = Record(m) /\ Chunks[i] = Record(n)
    BY <1>5, <2>1 DEF m, n
  <2>10. QED
    BY <2>3, <2>4, <2>8, <2>9
<1>8. QED
  BY <1>5, <1>6, <1>7 DEF PagesInOrder

-----------------------------------------------------------------------------
(***************************************************************************)
(* The headings.                                                           *)
(***************************************************************************)
\* The last of a kind above a line, once it is known which line that is.
LEMMA LastAboveIs ==
    ASSUME ParserType, NEW k, NEW i \in 0..Lines, NEW above \in Nat, NEW x \in Nat,
           LastIs(x, Marked(k), i, above)
    PROVE  LastAbove(k, i, above) = x
<1> DEFINE S == {j \in (above + 1)..i : kinds[j] = k /\ (Opens(j) \/ IsHeading(j))}
<1>1. Lines \in Nat /\ i \in Nat /\ i <= Lines
  BY TypeFacts
<1>2. S \in SUBSET Nat /\ \A j \in S : j \in Marked(k) /\ j <= i /\ above < j
  BY <1>1 DEF Marked
<1>3. CASE x = 0
  <2>1. \A j \in Marked(k) : j <= i => j <= above
    BY <1>3 DEF LastIs
  <2> HIDE DEF S
  <2>2. ASSUME NEW j \in S PROVE FALSE
    <3>1. j \in Nat /\ j <= above /\ above < j
      BY <1>2, <2>1
    <3>2. QED
      BY <3>1
  <2>3. S = {}
    BY <2>2
  <2>4. QED
    BY <1>3, <2>3 DEF LastAbove, S
<1>4. CASE x # 0
  <2>1. /\ x \in Marked(k) /\ above < x /\ x <= i
        /\ \A j \in Marked(k) : j <= i => j <= x
    BY <1>4 DEF LastIs
  <2>2. x \in S
    BY <1>1, <2>1 DEF Marked
  <2> HIDE DEF S
  <2>3. \A j \in S : j <= x
    BY <1>2, <2>1
  <2>4. Max(S) = x
    BY <1>2, <2>2, <2>3, GreatestIs
  <2>5. S # {}
    BY <2>2
  <2>6. QED
    BY <2>4, <2>5 DEF LastAbove, S
<1>5. QED
  BY <1>3, <1>4

\* Line l stands between the first line of unit n and that of the next.
InUnit(n, l) ==
    /\ l \in 1..Lines /\ nodes[n].at <= l
    /\ n < Units => l < nodes[n + 1].at

\* Nothing opens between the first line of a unit and its other lines.
LEMMA NothingOpens ==
    ASSUME ParserInv, NEW n \in 1..Units, NEW l, InUnit(n, l)
    PROVE  /\ nodes[n].at \in 0..l
           /\ \A j \in 1..Lines : Opens(j) /\ j <= l => j <= nodes[n].at
           /\ nodes[n].kind = "PREAMBLE" => nodes[n].at = 0
           /\ nodes[n].kind # "PREAMBLE" =>
                 nodes[n].at \in 1..Lines /\ Opens(nodes[n].at) /\ kinds[nodes[n].at] \in Opener(nodes[n].kind)
<1>1. /\ Lines \in Nat /\ Units \in Nat /\ StartsInv
      /\ \A m \in 1..Units : nodes[m].at \in Nat
  <2>1. ParserType /\ StartsInv
    BY DEF ParserInv
  <2>2. Lines \in Nat /\ Units \in Nat /\ \A m \in 1..Units : nodes[m] \in Unit
    BY <2>1, TypeFacts
  <2>3. QED
    BY <2>1, <2>2, BoundsAreNumbers DEF Unit
<1>2. /\ nodes[1].kind = "PREAMBLE" /\ nodes[1].at = 0
      /\ \A m \in 2..Units : /\ nodes[m].kind # "PREAMBLE"
                             /\ nodes[m].at \in 1..Lines
                             /\ Opens(nodes[m].at)
                             /\ kinds[nodes[m].at] \in Opener(nodes[m].kind)
      /\ \A i, m \in 1..Units : i < m => nodes[i].at < nodes[m].at
      /\ \A j \in 1..Lines : Opens(j) => \E m \in 2..Units : nodes[m].at = j
  BY <1>1 DEF StartsInv
<1>3. l \in 1..Lines /\ nodes[n].at <= l /\ (n < Units => l < nodes[n + 1].at)
  BY DEF InUnit
<1>4. ASSUME NEW j \in 1..Lines, Opens(j), j <= l PROVE j <= nodes[n].at
  <2>1. PICK m \in 2..Units : nodes[m].at = j
    BY <1>2, <1>4
  <2>2. CASE m <= n
    <3>1. m \in 1..Units /\ nodes[m].at <= nodes[n].at
      BY <1>1, <1>2, <2>1, <2>2
    <3>2. QED
      BY <2>1, <3>1
  <2>3. CASE m > n
    <3>1. n < Units /\ n + 1 \in 1..Units /\ n + 1 <= m /\ m \in 1..Units
      BY <1>1, <2>3
    <3>2. nodes[n + 1].at <= nodes[m].at
      <4>1. CASE m = n + 1
        BY <1>1, <3>1, <4>1
      <4>2. CASE m # n + 1
        <5>1. n + 1 < m
          BY <3>1, <4>2
        <5>2. nodes[n + 1].at < nodes[m].at
          BY <1>2, <3>1, <5>1
        <5>3. QED
          BY <1>1, <3>1, <5>2
      <4>3. QED
        BY <4>1, <4>2
    <3>3. l < j
      <4>1. l \in Nat /\ j \in Nat /\ nodes[n + 1].at \in Nat /\ l < nodes[n + 1].at
        BY <1>1, <1>3, <3>1
      <4>2. QED
        BY <2>1, <3>2, <4>1
    <3>4. QED
      BY <1>1, <1>3, <1>4, <3>3
  <2>4. QED
    BY <1>1, <2>2, <2>3
<1>5. nodes[n].kind = "PREAMBLE" <=> n = 1
  BY <1>1, <1>2
<1>6. nodes[n].kind # "PREAMBLE" => n \in 2..Units
  BY <1>1, <1>5
<1>7. nodes[n].at \in 0..l
  BY <1>1, <1>3
<1>8. nodes[n].kind = "PREAMBLE" => nodes[n].at = 0
  BY <1>2, <1>5
<1>9. nodes[n].kind # "PREAMBLE" =>
         nodes[n].at \in 1..Lines /\ Opens(nodes[n].at) /\ kinds[nodes[n].at] \in Opener(nodes[n].kind)
  BY <1>2, <1>6
<1>10. QED
  BY <1>4, <1>7, <1>8, <1>9

\* So what opens is the same above each of its lines.
LEMMA SameAbove ==
    ASSUME ParserInv, NEW n \in 1..Units, NEW l, InUnit(n, l),
           NEW k \in {"appendix", "article", "clause", "point"}, NEW above \in Nat
    PROVE  /\ \A x \in Nat : LastIs(x, Marked(k), nodes[n].at, above) => LastIs(x, Marked(k), l, above)
           /\ nodes[n].at <= above => LastIs(0, Marked(k), l, above)
           /\ /\ nodes[n].kind # "PREAMBLE" /\ kinds[nodes[n].at] = k /\ above < nodes[n].at
              => LastIs(nodes[n].at, Marked(k), l, above)
<1> DEFINE b == nodes[n].at
<1>1. /\ b \in 0..l /\ l \in 1..Lines /\ Lines \in Nat
      /\ \A j \in 1..Lines : Opens(j) /\ j <= l => j <= b
      /\ nodes[n].kind # "PREAMBLE" => b \in 1..Lines /\ Opens(b)
  BY NothingOpens, TypeFacts DEF InUnit, ParserInv
<1>2. \A j \in Marked(k) : j \in 1..Lines /\ Opens(j)
  BY DEF Marked, IsHeading
<1>3. \A j \in Marked(k) : j <= l => j <= b
  BY <1>1, <1>2
<1> HIDE DEF b
<1>4. ASSUME NEW x \in Nat, LastIs(x, Marked(k), b, above) PROVE LastIs(x, Marked(k), l, above)
  <2>1. CASE x = 0
    BY <1>3, <1>4, <2>1 DEF LastIs
  <2>2. CASE x # 0
    BY <1>1, <1>3, <1>4, <2>2 DEF LastIs
  <2>3. QED
    BY <2>1, <2>2
<1>5. ASSUME b <= above PROVE LastIs(0, Marked(k), l, above)
  BY <1>1, <1>2, <1>3, <1>5 DEF LastIs
<1>6. ASSUME nodes[n].kind # "PREAMBLE", kinds[b] = k, above < b
      PROVE  LastIs(b, Marked(k), l, above)
  <2>1. b \in Marked(k)
    BY <1>1, <1>6 DEF Marked
  <2>2. QED
    BY <1>1, <1>3, <1>6, <2>1 DEF LastIs
<1>7. QED
  BY <1>4, <1>5, <1>6 DEF b

\* The greater of two numbers, as the module has it and as the solver does.
LEMMA GreaterOf ==
    ASSUME NEW a \in Nat, NEW b \in Nat
    PROVE  Max({a, b}) = IF a > b THEN a ELSE b
<1> DEFINE S == {a, b}
           m == IF a > b THEN a ELSE b
<1>1. S \in SUBSET Nat /\ m \in S /\ \A n \in S : n <= m
  OBVIOUS
<1> HIDE DEF S, m
<1>2. Max(S) = m
  BY <1>1, GreatestIs
<1>3. QED
  BY <1>2 DEF S, m

\* Below the first line of an appendix everything is in the appendix.
LEMMA AppendixAbove ==
    ASSUME ParserInv, NEW n \in 1..Units, NEW l, InUnit(n, l)
    PROVE  LastAbove("appendix", l, 0) # 0 <=> IsAppendix(n)
<1> DEFINE b == nodes[n].at
<1>1. /\ b \in 0..l /\ l \in 1..Lines /\ Lines \in Nat /\ ParserType
      /\ \A j \in 1..Lines : Opens(j) /\ j <= l => j <= b
      /\ nodes[n].kind = "PREAMBLE" => b = 0
      /\ nodes[n].kind # "PREAMBLE" => b \in 1..Lines /\ Opens(b) /\ kinds[b] \in Opener(nodes[n].kind)
  <2>1. ParserType
    BY DEF ParserInv
  <2>2. Lines \in Nat /\ Units \in Nat
    BY <2>1, TypeFacts
  <2>3. l \in 1..Lines
    BY DEF InUnit
  <2>4. QED
    BY <2>1, <2>2, <2>3, NothingOpens
<1>2. nodes[n].kind \in {"PREAMBLE", "ARTICLE", "CLAUSE", "POINT"}
  BY <1>1, TypeFacts DEF Unit
<1>3. l \in 0..Lines /\ 0 \in Nat
  BY <1>1
<1>4. CASE IsAppendix(n)
  <2>1. nodes[n].kind # "PREAMBLE" /\ kinds[b] = "appendix" /\ 0 < b
    BY <1>1, <1>4 DEF IsAppendix
  <2>2. b \in Nat
    BY <1>1
  <2>3. LastIs(b, Marked("appendix"), l, 0)
    BY <2>1, <1>3, SameAbove
  <2> HIDE DEF b
  <2>4. LastAbove("appendix", l, 0) = b
    BY <1>1, <1>3, <2>2, <2>3, LastAboveIs
  <2>5. QED
    BY <1>4, <2>1, <2>4
<1>5. CASE ~IsAppendix(n)
  <2>1. ASSUME NEW j \in Marked("appendix"), j <= l PROVE FALSE
    <3>1. j \in 1..Lines /\ Opens(j) /\ kinds[j] = "appendix"
      BY DEF Marked, IsHeading
    <3>2. j <= b /\ b # 0
      BY <1>1, <2>1, <3>1
    <3>3. nodes[n].kind # "PREAMBLE" /\ b \in 1..Lines /\ Opens(b) /\ kinds[b] \in Opener(nodes[n].kind)
      BY <1>1, <3>2
    <3>4. kinds[b] = "appendix"
      <4>1. CASE j = b
        BY <3>1, <4>1
      <4>2. CASE j # b
        <5>1. j \in 1..(b - 1)
          BY <1>1, <3>1, <3>2, <4>2
        <5>2. InAppendix(b)
          BY <3>1, <5>1 DEF InAppendix
        <5>3. QED
          BY <3>3, <5>2 DEF Opens
      <4>3. QED
        BY <4>1, <4>2
    <3>5. nodes[n].kind = "ARTICLE"
      BY <1>2, <3>3, <3>4 DEF Opener
    <3>6. QED
      BY <1>5, <3>4, <3>5 DEF IsAppendix
  <2>2. LastIs(0, Marked("appendix"), l, 0)
    BY <2>1 DEF LastIs
  <2>3. LastAbove("appendix", l, 0) = 0
    BY <1>1, <1>3, <2>2, LastAboveIs
  <2>4. QED
    BY <1>5, <2>3
<1>6. QED
  BY <1>4, <1>5

\* The article, the clause and the point of a unit.
ArticleOf(n) ==
    IF IsAppendix(n) THEN 0 ELSE IF nodes[n].kind = "ARTICLE" THEN nodes[n].at ELSE LabelOf(nodes[n].article)
ClauseOf(n) == IF nodes[n].kind = "CLAUSE" THEN nodes[n].at ELSE LabelOf(nodes[n].clause)
PointOf(n) == IF nodes[n].kind = "POINT" THEN nodes[n].at ELSE 0

Greater(a, b) == IF a > b THEN a ELSE b

\* The article, clause and point of a unit are the last above each of its lines.
LEMMA KinAbove ==
    ASSUME ParserInv, NEW n \in 1..Units, NEW l, InUnit(n, l)
    PROVE  /\ ArticleOf(n) \in Nat /\ ClauseOf(n) \in Nat /\ PointOf(n) \in Nat
           /\ ~IsAppendix(n) => LastIs(ArticleOf(n), Marked("article"), l, 0)
           /\ ArticleOf(n) = 0 => ClauseOf(n) = 0 /\ PointOf(n) = 0
           /\ ArticleOf(n) # 0 =>
                 /\ LastIs(ClauseOf(n), Marked("clause"), l, ArticleOf(n))
                 /\ LastIs(PointOf(n), Marked("point"), l, Greater(ArticleOf(n), ClauseOf(n)))
<1> DEFINE u == nodes[n]
           b == nodes[n].at
<1>1. /\ b \in 0..l /\ l \in 1..Lines /\ Lines \in Nat /\ Units \in Nat
      /\ u.kind = "PREAMBLE" => b = 0
      /\ u.kind # "PREAMBLE" => b \in 1..Lines /\ Opens(b) /\ kinds[b] \in Opener(u.kind)
  <2>1. ParserType
    BY DEF ParserInv
  <2>2. Lines \in Nat /\ Units \in Nat
    BY <2>1, TypeFacts
  <2>3. l \in 1..Lines
    BY DEF InUnit
  <2>4. QED
    BY <2>1, <2>2, <2>3, NothingOpens
<1>2. /\ u.kind \in {"PREAMBLE", "ARTICLE", "CLAUSE", "POINT"}
      /\ \A m \in 1..Units : nodes[m].at \in Nat
  <2>1. ParserType
    BY DEF ParserInv
  <2>2. \A m \in 1..Units : nodes[m] \in Unit
    BY <2>1, TypeFacts
  <2>3. QED
    BY <2>2, BoundsAreNumbers DEF Unit
<1>3. b \in Nat /\ 0 \in Nat /\ b <= b
  BY <1>2
<1>4. CASE u.kind = "PREAMBLE"
  <2>1. u.article = 0 /\ u.clause = 0
    <3>1. FamilyInv
      BY DEF ParserInv
    <3>2. QED
      BY <1>4, <3>1 DEF FamilyInv
  <2>2. ~IsAppendix(n) /\ ArticleOf(n) = 0 /\ ClauseOf(n) = 0 /\ PointOf(n) = 0
    BY <1>4, <2>1 DEF IsAppendix, ArticleOf, ClauseOf, PointOf, LabelOf
  <2>3. b <= 0
    BY <1>1, <1>4
  <2>4. LastIs(0, Marked("article"), l, 0)
    BY <1>3, <2>3, SameAbove
  <2>5. QED
    BY <2>2, <2>4
<1>5. CASE u.kind = "ARTICLE"
  <2>1. u.clause = 0
    BY <1>5, ChildOf
  <2>2. ClauseOf(n) = 0 /\ PointOf(n) = 0
    BY <1>5, <2>1 DEF ClauseOf, PointOf, LabelOf
  <2>3. CASE IsAppendix(n)
    BY <2>2, <2>3 DEF ArticleOf
  <2>4. CASE ~IsAppendix(n)
    <3>1. ArticleOf(n) = b /\ kinds[b] = "article" /\ 0 < b
      BY <1>1, <1>5, <2>4 DEF ArticleOf, IsAppendix, Opener
    <3>2. LastIs(b, Marked("article"), l, 0)
      BY <1>3, <1>5, <3>1, SameAbove
    <3>3. LastIs(0, Marked("clause"), l, b) /\ LastIs(0, Marked("point"), l, b)
      BY <1>3, SameAbove
    <3>4. Greater(b, 0) = b
      BY <1>3, <3>1 DEF Greater
    <3> HIDE DEF b
    <3>5. QED
      BY <1>3, <2>2, <2>4, <3>1, <3>2, <3>3, <3>4
  <2>5. QED
    BY <2>3, <2>4
<1>6. CASE u.kind \in {"CLAUSE", "POINT"}
  <2> DEFINE a == LabelOf(u.article)
  <2>1. /\ u.article \in 2..(n - 1) /\ nodes[u.article].kind = "ARTICLE"
    BY <1>6, ChildOf
  <2>2. a \in Nat /\ a # 0
    <3>1. u.article \in 2..Units
      BY <1>1, <2>1
    <3>2. StartsInv
      BY DEF ParserInv
    <3>3. nodes[u.article].at \in 1..Lines
      BY <3>1, <3>2 DEF StartsInv
    <3>4. u.article # 0
      BY <2>1
    <3>5. QED
      BY <3>3, <3>4 DEF LabelOf
  <2>3. LastIs(a, Marked("article"), b, 0)
    BY <1>6 DEF ParserInv, AboveInv
  <2>4. LastIs(a, Marked("article"), l, 0)
    BY <1>3, <2>2, <2>3, SameAbove
  <2>5. ~IsAppendix(n) /\ ArticleOf(n) = a
    BY <1>6 DEF IsAppendix, ArticleOf
  <2>6. /\ b \in 1..Lines /\ u.kind # "PREAMBLE"
        /\ u.kind = "CLAUSE" => kinds[b] = "clause"
        /\ u.kind = "POINT" => kinds[b] = "point"
    BY <1>1, <1>6 DEF Opener
  <2>7. a < b
    <3>1. a \in Marked("article") /\ a <= b
      BY <2>2, <2>3 DEF LastIs
    <3>2. kinds[a] = "article"
      BY <3>1 DEF Marked
    <3>3. a # b
      BY <1>6, <2>6, <3>2
    <3> HIDE DEF a, b
    <3>4. QED
      BY <1>3, <2>2, <3>1, <3>3
  <2>8. CASE u.kind = "CLAUSE"
    <3>1. ClauseOf(n) = b /\ PointOf(n) = 0
      BY <2>8 DEF ClauseOf, PointOf
    <3>2. LastIs(b, Marked("clause"), l, a)
      BY <2>2, <2>6, <2>7, <2>8, SameAbove
    <3>3. LastIs(0, Marked("point"), l, b)
      BY <1>3, SameAbove
    <3> HIDE DEF a, b
    <3>4. Greater(a, b) = b
      BY <1>3, <2>2, <2>7 DEF Greater
    <3>5. QED
      BY <1>3, <2>2, <2>4, <2>5, <3>1, <3>2, <3>3, <3>4
  <2>9. CASE u.kind = "POINT"
    <3> DEFINE c == LabelOf(u.clause)
    <3>1. c \in Nat
      <4>1. u.clause # 0 => u.clause \in (u.article + 1)..(n - 1)
        BY ChildOf
      <4>2. u.clause # 0 => u.clause \in 1..Units
        BY <1>1, <2>1, <4>1
      <4>3. QED
        BY <1>2, <4>2 DEF LabelOf
    <3>2. LastIs(c, Marked("clause"), b, a)
      BY <2>9 DEF ParserInv, AboveInv
    <3>3. LastIs(c, Marked("clause"), l, a)
      BY <2>2, <3>1, <3>2, SameAbove
    <3>4. ClauseOf(n) = c /\ PointOf(n) = b
      BY <2>9 DEF ClauseOf, PointOf
    <3>5. c < b
      <4>1. CASE c = 0
        <5> HIDE DEF c, b, a
        <5>1. QED
          BY <1>3, <2>2, <2>7, <4>1
      <4>2. CASE c # 0
        <5>1. c \in Marked("clause") /\ c <= b
          BY <3>2, <4>2 DEF LastIs
        <5>2. kinds[c] = "clause"
          BY <5>1 DEF Marked
        <5>3. c # b
          BY <2>6, <2>9, <5>2
        <5> HIDE DEF c, b
        <5>4. QED
          BY <1>3, <3>1, <5>1, <5>3
      <4>3. QED
        BY <4>1, <4>2
    <3> HIDE DEF a, c
    <3>6. Greater(a, c) \in Nat /\ Greater(a, c) < b
      BY <2>2, <2>7, <3>1, <3>5 DEF Greater
    <3>7. LastIs(b, Marked("point"), l, Greater(a, c))
      BY <2>6, <2>9, <3>6, SameAbove
    <3> HIDE DEF b
    <3>8. QED
      BY <1>3, <2>2, <2>4, <2>5, <3>1, <3>3, <3>4, <3>7
  <2>10. QED
    BY <1>6, <2>8, <2>9
<1>7. QED
  BY <1>2, <1>4, <1>5, <1>6

\* What a chunk is cited by.
LEMMA RecordFields ==
    ASSUME ParserInv, NEW n \in 1..Units, n \in Told
    PROVE  /\ Record(n).type = "APPENDIX" <=> IsAppendix(n)
           /\ Record(n).article = ArticleOf(n) /\ Record(n).clause = ClauseOf(n)
           /\ Record(n).point = PointOf(n)
           /\ Record(n).part = nodes[n].part /\ Record(n).chapter = nodes[n].chapter
           /\ Record(n).section = nodes[n].section
<1>1. nodes[n].lines # <<>>
  BY DEF Told
<1>2. nodes[n].kind \in {"PREAMBLE", "ARTICLE", "CLAUSE", "POINT"}
  <2>1. ParserType
    BY DEF ParserInv
  <2>2. nodes[n] \in Unit
    BY <2>1, TypeFacts
  <2>3. QED
    BY <2>2 DEF Unit
<1>3. TypeOf(n) = "APPENDIX" <=> IsAppendix(n)
  <2>1. CASE IsAppendix(n)
    BY <2>1 DEF TypeOf, IsAppendix
  <2>2. CASE ~IsAppendix(n)
    <3>1. CASE nodes[n].kind = "PREAMBLE"
      BY <2>2, <3>1 DEF TypeOf
    <3>2. CASE nodes[n].kind = "ARTICLE"
      BY <2>2, <3>2 DEF TypeOf
    <3>3. CASE nodes[n].kind = "CLAUSE"
      BY <2>2, <3>3 DEF TypeOf
    <3>4. CASE nodes[n].kind = "POINT"
      BY <2>2, <3>4 DEF TypeOf
    <3>5. QED
      BY <1>2, <3>1, <3>2, <3>3, <3>4
  <2>3. QED
    BY <2>1, <2>2
<1>4. /\ Record(n).type = TypeOf(n)
      /\ Record(n).article = IF TypeOf(n) = "APPENDIX" THEN 0 ELSE
                             IF nodes[n].kind = "ARTICLE" THEN nodes[n].at ELSE LabelOf(nodes[n].article)
      /\ Record(n).clause = IF nodes[n].kind = "CLAUSE" THEN nodes[n].at ELSE LabelOf(nodes[n].clause)
      /\ Record(n).point = IF nodes[n].kind = "POINT" THEN nodes[n].at ELSE 0
      /\ Record(n).part = nodes[n].part /\ Record(n).chapter = nodes[n].chapter
      /\ Record(n).section = nodes[n].section
  BY <1>1 DEF Record, ChunkOf
<1>5. QED
  BY <1>3, <1>4 DEF ArticleOf, ClauseOf, PointOf

\* Where a line stands, by the lines above it, is what its unit is cited by.
LEMMA UnitCited ==
    ASSUME ParserInv, NEW n \in 1..Units, NEW l, InUnit(n, l)
    PROVE  LET start == Max({0} \cup {j \in 1..l : Opens(j)})
               inAppendix == LastAbove("appendix", l, 0) # 0
               a == IF inAppendix THEN 0 ELSE LastAbove("article", l, 0)
               k == IF a = 0 THEN 0 ELSE LastAbove("clause", l, a)
               p == IF a = 0 THEN 0 ELSE LastAbove("point", l, Max({a, k}))
               pt == LastAbove("part", start, 0)
               ch == LastAbove("chapter", start, pt)
           IN  /\ ArticleOf(n) = a /\ ClauseOf(n) = k /\ PointOf(n) = p
               /\ nodes[n].part = pt /\ nodes[n].chapter = ch
               /\ nodes[n].section = LastAbove("section", start, Max({pt, ch}))
               /\ IsAppendix(n) <=> inAppendix
<1> DEFINE b == nodes[n].at
           x == ArticleOf(n)
           y == ClauseOf(n)
           z == PointOf(n)
           start == Max({0} \cup {j \in 1..l : Opens(j)})
           inAppendix == LastAbove("appendix", l, 0) # 0
           a == IF inAppendix THEN 0 ELSE LastAbove("article", l, 0)
           k == IF a = 0 THEN 0 ELSE LastAbove("clause", l, a)
           p == IF a = 0 THEN 0 ELSE LastAbove("point", l, Max({a, k}))
           pt == LastAbove("part", start, 0)
           ch == LastAbove("chapter", start, pt)
<1>1. ParserType /\ Lines \in Nat /\ l \in 1..Lines /\ l \in 0..Lines
  <2>1. ParserType
    BY DEF ParserInv
  <2>2. Lines \in Nat
    BY <2>1, TypeFacts
  <2>3. l \in 1..Lines
    BY DEF InUnit
  <2>4. QED
    BY <2>1, <2>2, <2>3
<1>2. IsAppendix(n) <=> inAppendix
  BY AppendixAbove
<1>3. /\ x \in Nat /\ y \in Nat /\ z \in Nat
      /\ ~IsAppendix(n) => LastIs(x, Marked("article"), l, 0)
      /\ x = 0 => y = 0 /\ z = 0
      /\ x # 0 => /\ LastIs(y, Marked("clause"), l, x)
                  /\ LastIs(z, Marked("point"), l, Greater(x, y))
      /\ IsAppendix(n) => x = 0
  <2>1. IsAppendix(n) => x = 0
    BY DEF ArticleOf
  <2>2. QED
    BY <2>1, KinAbove
<1> HIDE DEF x, y, z
<1>4. x = a
  <2>1. CASE IsAppendix(n)
    BY <1>2, <1>3, <2>1
  <2>2. CASE ~IsAppendix(n)
    <3>1. LastIs(x, Marked("article"), l, 0) /\ 0 \in Nat
      BY <1>3, <2>2
    <3>2. LastAbove("article", l, 0) = x
      BY <1>1, <1>3, <3>1, LastAboveIs
    <3>3. QED
      BY <1>2, <2>2, <3>2
  <2>3. QED
    BY <2>1, <2>2
<1> HIDE DEF a
<1>5. y = k
  <2>1. CASE x = 0
    BY <1>3, <1>4, <2>1
  <2>2. CASE x # 0
    <3>1. LastIs(y, Marked("clause"), l, x)
      BY <1>3, <2>2
    <3>2. LastAbove("clause", l, x) = y
      BY <1>1, <1>3, <3>1, LastAboveIs
    <3>3. QED
      BY <1>4, <2>2, <3>2
  <2>3. QED
    BY <2>1, <2>2
<1> HIDE DEF k
<1>6. z = p
  <2>1. CASE x = 0
    BY <1>3, <1>4, <2>1
  <2>2. CASE x # 0
    <3> DEFINE g == Greater(x, y)
    <3>1. LastIs(z, Marked("point"), l, g)
      BY <1>3, <2>2
    <3>2. Max({x, y}) = g
      BY <1>3, GreaterOf DEF Greater
    <3>3. g \in Nat
      BY <1>3 DEF Greater
    <3> HIDE DEF g
    <3>4. LastAbove("point", l, g) = z
      BY <1>1, <1>3, <3>1, <3>3, LastAboveIs
    <3>5. QED
      BY <1>4, <1>5, <2>2, <3>2, <3>4
  <2>3. QED
    BY <2>1, <2>2
<1> HIDE DEF p, inAppendix
<1>7. start = b /\ b \in Nat /\ b \in 0..Lines
  <2> DEFINE S == {0} \cup {j \in 1..l : Opens(j)}
  <2>1. /\ b \in 0..l
        /\ \A j \in 1..Lines : Opens(j) /\ j <= l => j <= b
        /\ nodes[n].kind = "PREAMBLE" => b = 0
        /\ nodes[n].kind # "PREAMBLE" => b \in 1..Lines /\ Opens(b)
    BY NothingOpens
  <2> HIDE DEF b
  <2>2. S \in SUBSET Nat /\ b \in S /\ \A j \in S : j <= b
    BY <1>1, <2>1
  <2> HIDE DEF S
  <2>3. Max(S) = b
    BY <2>2, GreatestIs
  <2>4. QED
    BY <1>1, <2>1, <2>3 DEF S
<1> HIDE DEF start
<1>8. /\ nodes[n].part \in Nat /\ nodes[n].chapter \in Nat /\ nodes[n].section \in Nat
      /\ LastIs(nodes[n].part, Marked("part"), b, 0)
      /\ LastIs(nodes[n].chapter, Marked("chapter"), b, nodes[n].part)
      /\ LastIs(nodes[n].section, Marked("section"), b, Greater(nodes[n].part, nodes[n].chapter))
  <2>1. nodes[n] \in Unit
    BY <1>1, TypeFacts
  <2>2. nodes[n].part \in Nat /\ nodes[n].chapter \in Nat /\ nodes[n].section \in Nat
    BY <2>1, BoundsAreNumbers DEF Unit
  <2>3. Under(nodes[n].part, nodes[n].chapter, nodes[n].section, b)
    BY DEF ParserInv, HeadingsInv
  <2>4. QED
    BY <2>2, <2>3 DEF Under, Greater
<1> DEFINE q == nodes[n].part
           h == nodes[n].chapter
           s == nodes[n].section
           g == Greater(q, h)
<1>9. g \in Nat /\ Max({q, h}) = g /\ 0 \in Nat
  BY <1>8, GreaterOf DEF Greater
<1>10. /\ q \in Nat /\ h \in Nat /\ s \in Nat
       /\ LastIs(q, Marked("part"), b, 0) /\ LastIs(h, Marked("chapter"), b, q)
       /\ LastIs(s, Marked("section"), b, g)
  BY <1>8
<1> HIDE DEF b, q, h, s, g
<1>11. /\ LastAbove("part", b, 0) = q /\ LastAbove("chapter", b, q) = h /\ LastAbove("section", b, g) = s
  BY <1>1, <1>7, <1>9, <1>10, LastAboveIs
<1>12. q = pt /\ h = ch
  BY <1>7, <1>11
<1>13. s = LastAbove("section", start, Max({pt, ch}))
  BY <1>7, <1>9, <1>11, <1>12
<1> HIDE DEF pt, ch
<1>14. x = a /\ y = k /\ z = p /\ q = pt /\ h = ch /\ s = LastAbove("section", start, Max({pt, ch}))
       /\ (IsAppendix(n) <=> inAppendix)
  BY <1>2, <1>4, <1>5, <1>6, <1>12, <1>13
<1>15. QED
  BY <1>14 DEF x, y, z, q, h, s, a, k, p, pt, ch, start, inAppendix

\* The chunks are cited by what their lines stand under.
LEMMA HeadingsKept ==
    ASSUME ParserInv
    PROVE  UnitsUnderTheirHeadings
<1> SUFFICES ASSUME NEW c \in ToSet(Chunks), NEW l \in ToSet(c.lines)
             PROVE  LET start == Max({0} \cup {j \in 1..l : Opens(j)})
                        inAppendix == LastAbove("appendix", l, 0) # 0
                        a == IF inAppendix THEN 0 ELSE LastAbove("article", l, 0)
                        k == IF a = 0 THEN 0 ELSE LastAbove("clause", l, a)
                        p == IF a = 0 THEN 0 ELSE LastAbove("point", l, Max({a, k}))
                        pt == LastAbove("part", start, 0)
                        ch == LastAbove("chapter", start, pt)
                    IN  /\ c.article = a /\ c.clause = k /\ c.point = p
                        /\ c.part = pt /\ c.chapter = ch
                        /\ c.section = LastAbove("section", start, Max({pt, ch}))
                        /\ c.type = "APPENDIX" <=> inAppendix
  BY DEF UnitsUnderTheirHeadings
<1>1. PICK n \in 1..Units : n \in Told /\ c = Record(n)
  <2> DEFINE K == ToldUnits
  <2>1. Chunks = [i \in DOMAIN K |-> Record(K[i])] /\ K \in Seq(1..Units \cap Told)
    BY ChunksAre
  <2> HIDE DEF K
  <2>2. PICK i \in DOMAIN Chunks : c = Chunks[i]
    BY DEF ToSet
  <2>3. i \in DOMAIN K /\ c = Record(K[i])
    BY <2>1, <2>2
  <2>4. K[i] \in 1..Units /\ K[i] \in Told
    BY <2>1, <2>3
  <2>5. QED
    BY <2>3, <2>4
<1>2. InUnit(n, l)
  <2> DEFINE s == nodes[n].lines
  <2>1. PICK i \in DOMAIN c.lines : l = c.lines[i]
    BY DEF ToSet
  <2>2. /\ s \in [1..Len(s) -> 1..Lines]
        /\ \A d \in DOMAIN Record(n).lines : \E j \in 1..Len(s) : Record(n).lines[d] = s[j] /\ s[j] \in Written
    BY <1>1, UnitPages
  <2>3. PICK j \in 1..Len(s) : l = s[j]
    BY <1>1, <2>1, <2>2
  <2>4. LinesInv
    BY DEF ParserInv
  <2>5. s[j] \in 1..Lines /\ nodes[n].at <= s[j] /\ (n < Units => s[j] < nodes[n + 1].at)
    BY <2>2, <2>4 DEF LinesInv
  <2>6. QED
    BY <2>3, <2>5 DEF InUnit
<1>3. QED
  BY <1>1, <1>2, RecordFields, UnitCited

-----------------------------------------------------------------------------
\* The state of the parser stays within its fields: _Node and the locals of
\* parse_pages.
THEOREM ParserTypeIsKept == Parsing => []ParserTypeOK
BY ParserInvariant, PTL DEF ParserInv, ParserType

\* The chunks of _flatten, one after the other, are the text of the law: no
\* line of it is lost, none is in two chunks, and all are in their order.
THEOREM TheTextIsKept == Parsing => []TextIsKept
BY ParserInvariant, TextKept, PTL

\* Every chunk is cited by the article, clause and point and under the part,
\* chapter and section that its lines stand under in the law.
THEOREM ChunksStandUnderTheirHeadings == Parsing => []UnitsUnderTheirHeadings
BY ParserInvariant, HeadingsKept, PTL

\* The pages of the chunks _append_chunk cites are in the order of the law.
THEOREM ThePagesAreInOrder == Parsing => []PagesInOrder
BY ParserInvariant, PagesKept, PTL
=============================================================================
