----------------------- MODULE WorkflowRegistryProofs -----------------------
(***************************************************************************)
(* Proofs about WorkflowRegistry, for any versions, definitions and number *)
(* of requests.  That published templates are sound needs Alone: between   *)
(* publish's two reads of the latest version no other version is made, so  *)
(* the one validated is the one published.                                 *)
(***************************************************************************)
EXTENDS WorkflowRegistry, TLAPS

\* What a request that publishes knows of the version it has picked.
PublishInv(r) ==
    /\ r.op = "PUBLISH" /\ r.pc = "validate" => r.version = Latest
    /\ r.op = "PUBLISH" /\ r.pc = "store" => r.version = r.checked
    /\ r.pc = "publish" => Sound(template[r.version].definition)

RequestInv(r) ==
    /\ r.pc \in {"create", "insert"} => r.op = "CREATE"
    /\ r.op = "CREATE" => /\ r.pc \in {"seed", "create", "insert"}
                         /\ r.version \in Version /\ r.definition \in Definition

IInv ==
    /\ TypeOK
    /\ \A h \in workers : RequestInv(req[h])
    /\ PublishedOneByOneIsSound
    /\ Alone => \A h \in workers : PublishInv(req[h])

\* What no step does to a version.
Kept(v) ==
    template[v].status # "ABSENT" =>
        /\ template'[v].definition = template[v].definition
        /\ template[v].status = "PUBLISHED" => template'[v].status = "PUBLISHED"

-----------------------------------------------------------------------------
LEMMA LatestType == TypeOK => Latest \in Version \cup {None}
<1> SUFFICES ASSUME TypeOK, made # <<>> PROVE made[Len(made)] \in Version
  BY DEF Latest
<1>1. made \in Seq(Version)
  BY DEF TypeOK
<1>2. Len(made) \in 1..Len(made)
  BY <1>1
<1>3. QED
  BY <1>1, <1>2

LEMMA IdleInv == Idle \in Request /\ RequestInv(Idle) /\ PublishInv(Idle)
BY DEF Idle, Request, RequestInv, PublishInv

LEMMA InitIInv == Init => IInv
<1> SUFFICES ASSUME Init PROVE IInv
  OBVIOUS
<1>1. TypeOK
  BY IdleInv DEF Init, TypeOK, Row, Absent
<1>2. \A h \in workers : RequestInv(req[h]) /\ PublishInv(req[h])
  BY IdleInv DEF Init
<1>3. PublishedOneByOneIsSound
  BY DEF Init, Absent, PublishedOneByOneIsSound, PublishedIsSound
<1>4. QED
  BY <1>1, <1>2, <1>3 DEF IInv

(***************************************************************************)
(* Continue leads a request of the constructor's into its operation.       *)
(***************************************************************************)
LEMMA ContinueInv ==
    ASSUME NEW r \in Request, r.op = "CREATE" => r.version \in Version /\ r.definition \in Definition
    PROVE  Continue(r) \in Request /\ RequestInv(Continue(r)) /\ PublishInv(Continue(r))
<1>1. CASE r.op = "LIST"
  BY <1>1, IdleInv DEF Continue
<1>2. CASE r.op = "CREATE"
  BY <1>2 DEF Continue, Request, RequestInv, PublishInv
<1>3. CASE r.op = "VALIDATE"
  BY <1>3 DEF Continue, Request, RequestInv, PublishInv
<1>4. CASE r.op = "PUBLISH"
  BY <1>4 DEF Continue, Request, RequestInv, PublishInv
<1>5. QED
  BY <1>1, <1>2, <1>3, <1>4 DEF Request

(***************************************************************************)
(* A step that stores nothing.                                             *)
(***************************************************************************)
LEMMA RequestStep ==
    ASSUME IInv, NEW h \in workers, NEW r \in Request, RequestInv(r), Alone => PublishInv(r),
           Become(h, r), UNCHANGED <<workers, template, made>>
    PROVE  IInv' /\ \A v \in Version : Kept(v)
<1>1. TypeOK'
  BY DEF IInv, TypeOK, Become
<1>2. ASSUME NEW g \in workers
      PROVE  RequestInv(req'[g]) /\ (Alone => PublishInv(req'[g]))
  <2>1. CASE g = h
    BY <2>1 DEF IInv, TypeOK, Become
  <2>2. CASE g # h
    BY <2>2 DEF IInv, TypeOK, Become
  <2>3. QED
    BY <2>1, <2>2
<1>3. PublishedOneByOneIsSound'
  BY DEF IInv, PublishedOneByOneIsSound, PublishedIsSound, Alone
<1>4. (Alone => \A g \in workers : PublishInv(req[g]))'
  BY <1>2 DEF Alone, PublishInv, Latest
<1>5. QED
  BY <1>1, <1>2, <1>3, <1>4 DEF IInv, Kept

(***************************************************************************)
(* A step that writes one version.  With one worker the request that took  *)
(* it is the only one.                                                     *)
(***************************************************************************)
LEMMA RowStep ==
    ASSUME IInv, NEW h \in workers, NEW r \in Request, RequestInv(r), Become(h, r),
           r.op = "PUBLISH" => r.pc \notin {"validate", "store"},
           Alone /\ r.pc = "publish" => Sound(template'[r.version].definition),
           UNCHANGED workers, made' \in Seq(Version),
           NEW v \in Version, NEW s \in Row, template' = [template EXCEPT ![v] = s],
           template[v].status = "ABSENT" \/ s.definition = template[v].definition,
           s.status = "PUBLISHED" \/ template[v].status # "PUBLISHED",
           Alone /\ s.status = "PUBLISHED" => Sound(s.definition)
    PROVE  IInv' /\ \A u \in Version : Kept(u)
<1>1. TypeOK'
  BY DEF IInv, TypeOK, Become
<1>2. ASSUME NEW g \in workers PROVE RequestInv(req'[g])
  BY DEF IInv, TypeOK, Become
<1>3. PublishedOneByOneIsSound'
  BY DEF IInv, TypeOK, PublishedOneByOneIsSound, PublishedIsSound, Alone
<1>4. ASSUME Alone, NEW g \in workers PROVE PublishInv(req[g])'
  <2>1. g = h /\ req'[g] = r
    BY <1>4 DEF Alone, IInv, TypeOK, Become
  <2>2. QED
    BY <1>4, <2>1 DEF PublishInv
<1>5. \A u \in Version : Kept(u)
  BY DEF IInv, TypeOK, Kept
<1>6. QED
  BY <1>1, <1>2, <1>3, <1>4, <1>5 DEF IInv, Alone

-----------------------------------------------------------------------------
LEMMA StepIInv == IInv /\ [Next]_vars => IInv' /\ \A v \in Version : Kept(v)
<1> DEFINE Good == IInv' /\ \A v \in Version : Kept(v)
<1> SUFFICES ASSUME IInv, [Next]_vars PROVE Good
  OBVIOUS
<1>1. /\ workers \subseteq Handler /\ template \in [Version -> Row] /\ made \in Seq(Version)
      /\ req \in [Handler -> Request] /\ \A h \in workers : RequestInv(req[h])
      /\ Alone => \A h \in workers : PublishInv(req[h])
  BY DEF IInv, TypeOK
<1>2. ASSUME NEW h \in workers, NEW op \in {"LIST", "CREATE", "VALIDATE", "PUBLISH"},
             NEW v \in Version \cup {None}, NEW d \in Definition \cup {None},
             op = "CREATE" => v \in Version /\ d \in Definition, Begin(h, op, v, d)
      PROVE  Good
  <2> DEFINE r == [Idle EXCEPT !.op = op, !.version = v, !.definition = d]
  <2>1. r \in Request /\ (r.op = "CREATE" => r.version \in Version /\ r.definition \in Definition)
    BY <1>2 DEF Idle, Request
  <2>2. [r EXCEPT !.pc = "seed"] \in Request /\ RequestInv([r EXCEPT !.pc = "seed"])
        /\ PublishInv([r EXCEPT !.pc = "seed"])
    BY <2>1 DEF Request, RequestInv, PublishInv
  <2>3. QED
    BY <1>2, <2>1, <2>2, ContinueInv, RequestStep DEF Begin
<1>3. ASSUME NEW h \in workers, Seed(h) PROVE Good
  <2> DEFINE r == Continue(req[h])
             s == [status |-> IF Sound(ShippedDefinition) THEN "PUBLISHED" ELSE "DRAFT",
                   definition |-> ShippedDefinition, errors |-> ~Sound(ShippedDefinition)]
  <2>1. /\ r \in Request /\ RequestInv(r) /\ Become(h, r)
        /\ r.op = "PUBLISH" => r.pc \notin {"validate", "store"}
        /\ r.pc # "publish"
    <3>1. req[h] \in Request /\ RequestInv(req[h]) /\ req[h].pc = "seed" /\ Become(h, r)
      BY <1>1, <1>3 DEF Seed
    <3>2. r \in Request /\ RequestInv(r)
      BY <3>1, ContinueInv DEF RequestInv
    <3>3. (r.op = "PUBLISH" => r.pc \notin {"validate", "store"}) /\ r.pc # "publish"
      <4>1. CASE req[h].op = "PUBLISH"
        BY <3>1, <4>1 DEF Continue, Request
      <4>2. CASE req[h].op \in {"LIST", "CREATE", "VALIDATE"}
        BY <3>1, <4>2 DEF Continue, Request, Idle
      <4>3. QED
        BY <3>1, <4>1, <4>2 DEF Request
    <3>4. QED
      BY <3>1, <3>2, <3>3
  <2>2. s \in Row /\ (s.status = "PUBLISHED" => Sound(s.definition)) /\ Shipped \in Version
    BY ShippedIsAVersion, DefinitionsHaveNodes DEF Row
  <2>3. /\ template' = [template EXCEPT ![Shipped] = s] /\ template[Shipped].status = "ABSENT"
        /\ made' \in Seq(Version) /\ UNCHANGED workers
    BY <1>1, <1>3, ShippedIsAVersion DEF Seed, Put
  <2>4. QED
    BY <2>1, <2>2, <2>3, RowStep
<1>4. ASSUME NEW h \in workers, Insert(h) PROVE Good
  <2> DEFINE r == req[h]
             s == [status |-> "DRAFT", definition |-> r.definition, errors |-> ~Sound(r.definition)]
  <2>1. r.version \in Version /\ r.definition \in Definition
    BY <1>1, <1>4 DEF Insert, RequestInv
  <2>2. s \in Row /\ s.status # "PUBLISHED"
    BY <2>1 DEF Row
  <2>3. /\ template' = [template EXCEPT ![r.version] = s] /\ template[r.version].status = "ABSENT"
        /\ made' \in Seq(Version) /\ UNCHANGED workers /\ Become(h, Idle)
    BY <1>1, <1>4, <2>1 DEF Insert, Put
  <2>4. Idle.op = "LIST" /\ Idle.pc = "idle"
    BY DEF Idle
  <2>5. QED
    BY <2>1, <2>2, <2>3, <2>4, IdleInv, RowStep
<1>5. ASSUME NEW h \in workers, SeedCollides(h) \/ InsertCollides(h) \/ Abort(h) PROVE Good
  BY <1>5, IdleInv, RequestStep DEF SeedCollides, InsertCollides, Abort
<1>6. ASSUME NEW h \in workers, CheckVersion(h) PROVE Good
  <2> DEFINE r == [req[h] EXCEPT !.pc = "insert"]
  <2>1. r \in Request /\ RequestInv(r) /\ PublishInv(r)
    BY <1>1, <1>6 DEF CheckVersion, Request, RequestInv, PublishInv
  <2>2. Become(h, r) \/ Become(h, Idle)
    BY <1>6 DEF CheckVersion
  <2>3. QED
    BY <1>6, <2>1, <2>2, IdleInv, RequestStep DEF CheckVersion
<1>7. ASSUME NEW h \in workers, Pick(h) PROVE Good
  <2> DEFINE r == [req[h] EXCEPT !.pc = "validate", !.version = Latest]
  <2>1. r \in Request /\ RequestInv(r) /\ PublishInv(r)
    <3>1. /\ Latest \in Version \cup {None} /\ req[h] \in Request
          /\ RequestInv(req[h]) /\ req[h].pc = "pick" /\ req[h].op # "CREATE"
      BY <1>1, <1>7, LatestType DEF IInv, Pick, RequestInv
    <3>2. QED
      BY <3>1 DEF Request, RequestInv, PublishInv
  <2>2. QED
    BY <1>7, <2>1, RequestStep DEF Pick
<1>8. ASSUME NEW h \in workers, ReadLatest(h) PROVE Good
  <2> DEFINE r == [req[h] EXCEPT !.pc = "store", !.checked = Latest]
  <2>1. r \in Request /\ RequestInv(r) /\ (Alone => PublishInv(r))
    <3>1. Latest \in Version \cup {None} /\ req[h] \in Request /\ req[h].pc = "validate"
      BY <1>1, <1>8, LatestType DEF IInv, ReadLatest
    <3>2. QED
      BY <1>1, <3>1 DEF Request, RequestInv, PublishInv
  <2>2. QED
    BY <1>8, <2>1, RequestStep DEF ReadLatest
<1>9. ASSUME NEW h \in workers, Store(h) PROVE Good
  <2> DEFINE v == req[h].checked
             s == [template[v] EXCEPT !.errors = ~Sound(template[v].definition)]
             r == IF req[h].op = "PUBLISH" /\ Sound(template[v].definition)
                  THEN [req[h] EXCEPT !.pc = "publish"] ELSE Idle
  <2>1. req[h] \in Request /\ req[h].pc = "store" /\ (Alone => PublishInv(req[h]))
    BY <1>1, <1>9 DEF Store
  <2>2. /\ r \in Request /\ RequestInv(r) /\ r.pc \in {"idle", "publish"}
        /\ Alone /\ r.pc = "publish" => r.version = v /\ Sound(template[v].definition)
    <3>1. CASE req[h].op = "PUBLISH" /\ Sound(template[v].definition)
      BY <2>1, <3>1 DEF Request, RequestInv, PublishInv
    <3>2. CASE ~(req[h].op = "PUBLISH" /\ Sound(template[v].definition))
      BY <3>2, IdleInv DEF Idle
    <3>3. QED
      BY <3>1, <3>2
  <2>3. Become(h, r) /\ UNCHANGED <<workers, made>>
    BY <1>9 DEF Store
  <2>4. CASE v \in Version
    <3>1. template[v] \in Row /\ s \in Row /\ s.definition = template[v].definition
          /\ s.status = template[v].status
      BY <1>1, <2>4 DEF Row
    <3>2. template' = [template EXCEPT ![v] = s]
      BY <1>1, <1>9, <2>4 DEF Store
    <3>3. Alone /\ s.status = "PUBLISHED" => Sound(s.definition)
      BY <2>4, <3>1 DEF IInv, PublishedOneByOneIsSound, PublishedIsSound
    <3>4. template'[v] = s
      BY <1>1, <2>4, <3>2
    <3>5. Alone /\ r.pc = "publish" => Sound(template'[r.version].definition)
      BY <2>2, <3>1, <3>4
    <3>6. QED
      BY <1>1, <2>2, <2>3, <2>4, <3>1, <3>2, <3>3, <3>5, RowStep
  <2>5. CASE v \notin Version
    <3>1. template' = template
      BY <1>1, <1>9, <2>5 DEF Store
    <3>2. Alone => PublishInv(r)
      BY <2>2 DEF PublishInv
    <3>3. QED
      BY <2>2, <2>3, <3>1, <3>2, RequestStep
  <2>6. QED
    BY <2>4, <2>5
<1>10. ASSUME NEW h \in workers, Publish(h) PROVE Good
  <2> DEFINE v == req[h].version
             s == [template[v] EXCEPT !.status = "PUBLISHED"]
  <2>1. Become(h, Idle) /\ UNCHANGED <<workers, made>> /\ Idle.op = "LIST" /\ Idle.pc = "idle"
    BY <1>10 DEF Publish, Idle
  <2>2. CASE v \in Version
    <3>1. template[v] \in Row /\ s \in Row /\ s.definition = template[v].definition
          /\ s.status = "PUBLISHED"
      BY <1>1, <2>2 DEF Row
    <3>2. template' = [template EXCEPT ![v] = s]
      BY <1>1, <1>10, <2>2 DEF Publish
    <3>3. Alone => Sound(s.definition)
      BY <1>1, <1>10, <3>1 DEF Publish, PublishInv
    <3>4. QED
      BY <1>1, <2>1, <2>2, <3>1, <3>2, <3>3, IdleInv, RowStep
  <2>3. CASE v \notin Version
    <3>1. template' = template
      BY <1>1, <1>10, <2>3 DEF Publish
    <3>2. QED
      BY <2>1, <3>1, IdleInv, RequestStep
  <2>4. QED
    BY <2>2, <2>3
<1>11. CASE UNCHANGED vars
  BY <1>11 DEF vars, Kept, IInv, TypeOK, PublishedOneByOneIsSound, PublishedIsSound, Alone,
               PublishInv, Latest
<1>12. QED
  <2>1. ASSUME NEW h \in workers, NEW op \in {"LIST", "VALIDATE", "PUBLISH"},
               Begin(h, op, None, None)
        PROVE  Good
    BY <1>2, <2>1
  <2>2. ASSUME NEW h \in workers, NEW v \in Version, NEW d \in Definition,
               Begin(h, "CREATE", v, d)
        PROVE  Good
    BY <1>2, <2>2
  <2>3. QED
    BY <1>3, <1>4, <1>5, <1>6, <1>7, <1>8, <1>9, <1>10, <1>11, <2>1, <2>2 DEF Next

LEMMA Invariance == Spec => []IInv
<1>1. IInv /\ [Next]_vars => IInv'
  BY StepIInv
<1>2. QED
  BY <1>1, InitIInv, PTL DEF Spec

-----------------------------------------------------------------------------
(***************************************************************************)
(* The theorems.                                                           *)
(***************************************************************************)
\* Rows and requests have the columns and fields the code gives them.
THEOREM Typing == Spec => []TypeOK
<1>1. IInv => TypeOK
  BY DEF IInv
<1>2. QED
  BY <1>1, Invariance, PTL

\* A version that exists keeps its definition and stays published, however
\* many requests create, validate and publish at the same time.
THEOREM Immutability == Spec => VersionsAreImmutable
<1>1. IInv /\ [Next]_vars =>
        [\A v \in Version : template[v].status # "ABSENT" =>
            /\ template'[v].definition = template[v].definition
            /\ template[v].status = "PUBLISHED" => template'[v].status = "PUBLISHED"]_vars
  BY StepIInv DEF Kept
<1>2. QED
  BY <1>1, Invariance, PTL DEF Spec, VersionsAreImmutable

\* With one worker, publish publishes what it has validated.
THEOREM Soundness == Spec => []PublishedOneByOneIsSound
<1>1. IInv => PublishedOneByOneIsSound
  BY DEF IInv
<1>2. QED
  BY <1>1, Invariance, PTL
=============================================================================
