------------------------ MODULE AssessmentRunsProofs ------------------------
(***************************************************************************)
(* Proofs about AssessmentRuns, for any number of overlapping requests,    *)
(* rows, nodes, configurations and restarts.                               *)
(*                                                                         *)
(* The two ways a run is made never meet: a run that one request executes  *)
(* has one owner until it has ended or its request broke off, a stepwise   *)
(* run has none and is guarded by the primary keys of its artifacts.  The inductive invariant  *)
(* says so, and that every state a client can post is a beginning of the   *)
(* route.                                                                  *)
(***************************************************************************)
EXTENDS AssessmentRuns, SequenceTheorems, TLAPS

\* What a stored run says of itself.
RowInv(s) ==
    /\ s.artifacts = IF s.status = "COMPLETED" THEN Node ELSE {}
    /\ s.key[1] = "stepwise" => s.status # "FAILED"
    /\ s.key[1] = "auto" => s.hash = s.key[2]

\* The state in which node n is the next one.
Before(n) == 1..(n - 1)

MessageInv(m, rs) ==
    /\ m.run \in DOMAIN rs
    /\ rs[m.run].key[1] = "stepwise"
    /\ \E n \in Node : m.state = Before(n)

\* What a request has established about the run it works on.
JobInv(j, rs, i) ==
    /\ j.pc \in {"agent", "start", "node", "reply"} => j.run \in DOMAIN rs
    /\ j.pc = "agent" => /\ j.kind # "STEPWISE"
                         /\ rs[j.run].status = "RUNNING"
                         /\ rs[j.run].key[1] # "stepwise"
    /\ j.pc \in {"start", "node"} => rs[j.run].key[1] = "stepwise"
    /\ j.pc = "node" => /\ j.kind = "STEPWISE"
                        /\ j.node \in Node /\ j.state = Before(j.node)
    /\ j.pc \in {"lookup", "insert"} =>
          /\ j.kind = "STEPWISE" <=> j.key[1] = "stepwise"
          /\ j.kind = "GET" \/ j.key[1] = "auto" => j.key = <<"auto", i>>
    /\ j.pc \in {"agent", "reply"} /\ j.kind = "GET" => rs[j.run].hash = i

\* A run is executed by one request at most.
SoleOwner ==
    \A g, h \in Handler :
        job[g].pc = "agent" /\ job[h].pc = "agent" /\ job[g].run = job[h].run => g = h

\* A run of the whole route that is open is executed by a request, unless that
\* request broke off; none that broke off is.
HasOwner ==
    /\ \A r \in DOMAIN runs :
          runs[r].key[1] # "stepwise" /\ runs[r].status = "RUNNING" /\ r \notin lost
              => \E h \in Handler : job[h].pc = "agent" /\ job[h].run = r
    /\ lost \subseteq DOMAIN runs
    /\ \A h \in Handler : job[h].pc = "agent" => job[h].run \notin lost

\* Some completed run is the latest, if there is one.
HasLatest == \E r \in Completed \cup {0} : \A s \in Completed : s <= r

IInv ==
    /\ TypeOK
    /\ \A r \in DOMAIN runs : RowInv(runs[r])
    /\ \A m \in sent : MessageInv(m, runs)
    /\ \A h \in Handler : JobInv(job[h], runs, input)
    /\ SoleOwner
    /\ HasOwner
    /\ HasLatest

\* What no step does to the rows: remove one, or write one that has ended.
Kept ==
    \A r \in DOMAIN runs :
        /\ r \in DOMAIN runs'
        /\ runs'[r].key = runs[r].key /\ runs'[r].hash = runs[r].hash
        /\ runs[r].status # "RUNNING" => runs'[r] = runs[r]

-----------------------------------------------------------------------------
LEMMA IdleInv == Idle \in Job /\ \A rs, i : JobInv(Idle, rs, i)
BY BoundsAreNumbers DEF Idle, Job, JobInv, FreshKey

LEMMA InitIInv == Init => IInv
<1> SUFFICES ASSUME Init PROVE IInv
  OBVIOUS
<1>1. runs = <<>> /\ DOMAIN runs = {} /\ sent = {} /\ Completed = {}
  BY DEF Init, Completed
<1>2. TypeOK
  <2>1. runs \in Seq(Run) /\ Len(runs) = 0
    BY <1>1
  <2>2. 1 \in Input /\ 0 \in 0..MaxRestarts /\ 0 <= MaxRuns
    BY BoundsAreNumbers DEF Input
  <2>3. QED
    BY <2>1, <2>2, IdleInv DEF Init, TypeOK
<1>3. \A h \in Handler : job[h] = Idle
  BY DEF Init
<1>4. SoleOwner
  BY <1>3 DEF SoleOwner, Idle
<1>5. HasOwner /\ HasLatest
  BY <1>1, <1>3 DEF Init, HasOwner, HasLatest, Idle
<1>6. QED
  BY <1>1, <1>2, <1>3, <1>4, <1>5, IdleInv DEF IInv

\* The facts about types that every step needs.
LEMMA Types ==
    ASSUME TypeOK
    PROVE  /\ runs \in Seq(Run) /\ Len(runs) \in Nat /\ Len(runs) <= MaxRuns
           /\ DOMAIN runs = 1..Len(runs) /\ DOMAIN runs \subseteq 1..MaxRuns
           /\ \A r \in DOMAIN runs : runs[r] \in Run
           /\ job \in [Handler -> Job]
           /\ MaxRuns \in Nat /\ LastNode \in Nat /\ LastNode >= 1 /\ LastNode \in Node
BY BoundsAreNumbers DEF TypeOK, Node

(***************************************************************************)
(* A step that writes no row.  It may create the case and send states.     *)
(***************************************************************************)
LEMMA JobStep ==
    ASSUME IInv, NEW h \in Handler, NEW j \in Job, Become(h, j), JobInv(j, runs, input),
           j.pc # "agent", exists' \in BOOLEAN, UNCHANGED <<input, runs, restarts>>,
           sent' \subseteq Message, \A m \in sent' : MessageInv(m, runs),
           lost' = lost \cup ExecutedBy({h})
    PROVE  IInv' /\ Kept
<1>0. lost' \subseteq DOMAIN runs /\ DOMAIN runs \subseteq 1..MaxRuns
  BY Types DEF IInv, HasOwner, ExecutedBy, JobInv
<1>1. TypeOK'
  BY <1>0 DEF IInv, TypeOK, Become
<1>2. job' = [job EXCEPT ![h] = j] /\ job \in [Handler -> Job]
  BY DEF Become, IInv, TypeOK
<1>3. ASSUME NEW g \in Handler PROVE JobInv(job'[g], runs, input)
  BY <1>2 DEF IInv
<1>4. SoleOwner'
  BY <1>2 DEF IInv, SoleOwner
<1>5. HasOwner'
  <2>1. ASSUME NEW g \in Handler, job'[g].pc = "agent" PROVE g # h /\ job'[g].run \notin lost'
    <3>1. g # h /\ job'[g] = job[g]
      BY <1>2, <2>1
    <3>2. job[g].run \notin lost /\ job[g].run \notin ExecutedBy({h})
      BY <2>1, <3>1 DEF IInv, HasOwner, SoleOwner, ExecutedBy
    <3>3. QED
      BY <3>1, <3>2
  <2>2. ASSUME NEW r \in DOMAIN runs,
               runs[r].key[1] # "stepwise", runs[r].status = "RUNNING", r \notin lost'
        PROVE  \E g \in Handler : job'[g].pc = "agent" /\ job'[g].run = r
    <3>1. PICK g \in Handler : job[g].pc = "agent" /\ job[g].run = r
      BY <2>2 DEF IInv, HasOwner
    <3>2. g # h
      BY <2>2, <3>1 DEF ExecutedBy
    <3>3. QED
      BY <1>2, <3>1, <3>2
  <2>3. QED
    BY <1>0, <2>1, <2>2 DEF HasOwner
<1>6. HasLatest' /\ Kept
  BY DEF IInv, HasLatest, Completed, Kept
<1>7. QED
  BY <1>1, <1>3, <1>4, <1>5, <1>6 DEF IInv

(***************************************************************************)
(* Rows that keep their key and hash satisfy what was said of them.        *)
(***************************************************************************)
LEMMA JobKept ==
    ASSUME NEW rs, NEW new, NEW i, NEW j, JobInv(j, rs, i),
           \A r \in DOMAIN rs : /\ r \in DOMAIN new
                                /\ new[r].key = rs[r].key /\ new[r].hash = rs[r].hash,
           j.pc = "agent" => new[j.run].status = rs[j.run].status
    PROVE  JobInv(j, new, i)
BY DEF JobInv

LEMMA MessageKept ==
    ASSUME NEW rs, NEW new, NEW m, MessageInv(m, rs),
           \A r \in DOMAIN rs : r \in DOMAIN new /\ new[r].key = rs[r].key
    PROVE  MessageInv(m, new)
BY DEF MessageInv

(***************************************************************************)
(* A step that ends a run nobody else executes.                            *)
(***************************************************************************)
LEMMA EndStep ==
    ASSUME IInv, NEW h \in Handler, NEW j \in Job, NEW r \in DOMAIN runs, NEW s \in Run,
           runs' = [runs EXCEPT ![r] = s], runs[r].status = "RUNNING",
           s.key = runs[r].key, s.hash = runs[r].hash, RowInv(s),
           \A g \in Handler \ {h} : ~(job[g].pc = "agent" /\ job[g].run = r),
           ~(job[h].pc = "agent" /\ job[h].run # r),
           Become(h, j), JobInv(j, runs', input), j.pc # "agent",
           UNCHANGED <<exists, input, sent, restarts, lost>>, s.status # "RUNNING"
    PROVE  IInv' /\ Kept
<1>1. /\ job' = [job EXCEPT ![h] = j] /\ job \in [Handler -> Job]
      /\ runs \in Seq(Run) /\ DOMAIN runs = 1..Len(runs)
  BY Types DEF Become, IInv
<1>2. /\ runs' \in Seq(Run) /\ Len(runs') = Len(runs) /\ DOMAIN runs' = DOMAIN runs
      /\ \A q \in DOMAIN runs : runs'[q] = IF q = r THEN s ELSE runs[q]
  BY <1>1, ExceptSeq
<1>3. TypeOK'
  <2>1. job' \in [Handler -> Job]
    BY <1>1
  <2>2. QED
    BY <1>2, <2>1 DEF IInv, TypeOK
<1>4. Kept
  BY <1>2 DEF Kept
<1>5. ASSUME NEW q \in DOMAIN runs' PROVE RowInv(runs'[q])
  BY <1>2 DEF IInv
<1>6. ASSUME NEW m \in sent' PROVE MessageInv(m, runs')
  <2>1. MessageInv(m, runs)
    BY DEF IInv
  <2>2. \A q \in DOMAIN runs : q \in DOMAIN runs' /\ runs'[q].key = runs[q].key
    BY <1>4 DEF Kept
  <2>3. QED
    BY <2>1, <2>2, MessageKept
<1>7. ASSUME NEW g \in Handler PROVE JobInv(job'[g], runs', input)
  <2>1. CASE g = h
    BY <1>1, <2>1
  <2>2. CASE g # h
    <3>1. job'[g] = job[g] /\ JobInv(job[g], runs, input)
      BY <1>1, <2>2 DEF IInv
    <3>2. job[g].pc = "agent" => runs'[job[g].run].status = runs[job[g].run].status
      BY <1>2, <2>2, <3>1 DEF JobInv
    <3>3. \A q \in DOMAIN runs : /\ q \in DOMAIN runs'
                                 /\ runs'[q].key = runs[q].key /\ runs'[q].hash = runs[q].hash
      BY <1>4 DEF Kept
    <3>4. QED
      BY <3>1, <3>2, <3>3, JobKept
  <2>3. QED
    BY <2>1, <2>2
<1>8. SoleOwner' /\ HasOwner'
  <2>1. SoleOwner'
    BY <1>1 DEF IInv, SoleOwner
  <2>2. \A g \in Handler : job'[g].pc = "agent" => job'[g].run \notin lost'
    BY <1>1 DEF IInv, HasOwner
  <2>3. ASSUME NEW q \in DOMAIN runs', runs'[q].key[1] # "stepwise", runs'[q].status = "RUNNING",
               q \notin lost'
        PROVE  \E g \in Handler : job'[g].pc = "agent" /\ job'[g].run = q
    <3>1. q # r /\ q \in DOMAIN runs /\ runs'[q] = runs[q]
      BY <1>2, <2>3
    <3>2. PICK g \in Handler : job[g].pc = "agent" /\ job[g].run = q
      BY <2>3, <3>1 DEF IInv, HasOwner
    <3>3. QED
      BY <1>1, <3>1, <3>2
  <2>4. QED
    BY <1>2, <2>1, <2>2, <2>3 DEF HasOwner, IInv
<1>9. HasLatest'
  <2>1. Completed' \in {Completed, Completed \cup {r}} /\ Completed \subseteq Nat /\ r \in Nat
    BY <1>1, <1>2 DEF Completed
  <2>2. PICK q \in Completed \cup {0} : \A p \in Completed : p <= q
    BY DEF IInv, HasLatest
  <2>3. QED
    BY <2>1, <2>2 DEF HasLatest
<1>10. QED
  BY <1>3, <1>4, <1>5, <1>6, <1>7, <1>8, <1>9 DEF IInv

(***************************************************************************)
(* The insert of a run.                                                    *)
(***************************************************************************)
LEMMA InsertStep ==
    ASSUME IInv, NEW h \in Handler, Insert(h)
    PROVE  IInv' /\ Kept
<1> DEFINE j == job[h]
           r == Len(runs) + 1
           s == [key |-> KeyOf(j), hash |-> input, status |-> "RUNNING",
                 outcome |-> None, artifacts |-> {}]
           new == [j EXCEPT !.pc = IF j.kind = "STEPWISE" THEN "start" ELSE "agent", !.run = r]
<1>1. /\ runs \in Seq(Run) /\ Len(runs) \in Nat /\ DOMAIN runs = 1..Len(runs)
      /\ MaxRuns \in Nat /\ Len(runs) < MaxRuns /\ r \in 1..MaxRuns
      /\ job \in [Handler -> Job] /\ j \in Job /\ j.pc = "insert" /\ JobInv(j, runs, input)
      /\ input \in Input
  BY Types DEF IInv, TypeOK, Insert
<1>2. KeyOf(j) \in Key /\ KeyOf(j)[1] = j.key[1] /\ (j.key \notin FreshKey => KeyOf(j) = j.key)
  BY <1>1 DEF KeyOf, Key, FreshKey, Job
<1>3. s \in Run /\ s.key = KeyOf(j) /\ s.status = "RUNNING" /\ s.hash = input
  BY <1>1, <1>2 DEF Run
<1>4. j.kind = "GET" \/ j.key[1] = "auto" => s.key = <<"auto", input>>
  <2>1. SUFFICES ASSUME j.kind = "GET" \/ j.key[1] = "auto" PROVE s.key = <<"auto", input>>
    OBVIOUS
  <2>2. j.key = <<"auto", input>>
    BY <1>1, <2>1 DEF JobInv
  <2>3. j.key \notin FreshKey
    BY <2>2 DEF FreshKey
  <2>4. QED
    BY <1>2, <1>3, <2>2, <2>3
<1>5. /\ runs' = Append(runs, s) /\ job' = [job EXCEPT ![h] = new]
      /\ UNCHANGED <<exists, input, sent, restarts, lost>>
  BY DEF Insert, Become
<1>6. /\ runs' \in Seq(Run) /\ Len(runs') = r /\ DOMAIN runs' = DOMAIN runs \cup {r}
      /\ runs'[r] = s /\ \A q \in DOMAIN runs : runs'[q] = runs[q]
      /\ r \notin DOMAIN runs
  BY <1>1, <1>3, <1>5
<1>7. new \in Job /\ new.run = r /\ new.kind = j.kind /\ new.pc \in {"start", "agent"}
      /\ (new.pc = "start" <=> j.kind = "STEPWISE")
  <2>1. ASSUME NEW p \in {"start", "agent"}
        PROVE  LET n == [j EXCEPT !.pc = p, !.run = r]
               IN  n \in Job /\ n.run = r /\ n.kind = j.kind /\ n.pc = p
    <3>1. r \in 0..MaxRuns
      BY <1>1
    <3>2. ASSUME NEW i \in Job, NEW q \in 0..MaxRuns
          PROVE  LET n == [i EXCEPT !.pc = p, !.run = q]
                 IN  n \in Job /\ n.run = q /\ n.kind = i.kind /\ n.pc = p
      BY DEF Job
    <3>3. QED
      BY <1>1, <3>1, <3>2
  <2>2. QED
    BY <2>1
<1>8. JobInv(new, runs', input)
  BY <1>1, <1>2, <1>3, <1>6, <1>7 DEF JobInv
<1>9. RowInv(s)
  <2>1. s.key[1] = "auto" => s.key[2] = input
    BY <1>2, <1>3, <1>4
  <2>2. QED
    BY <1>3, <2>1 DEF RowInv
<1>10. TypeOK'
  BY <1>1, <1>5, <1>6, <1>7 DEF IInv, TypeOK
<1>11. Kept
  BY <1>6 DEF Kept
<1>12. ASSUME NEW q \in DOMAIN runs' PROVE RowInv(runs'[q])
  BY <1>6, <1>9 DEF IInv
<1>13. ASSUME NEW m \in sent' PROVE MessageInv(m, runs')
  BY <1>5, <1>11, MessageKept DEF IInv, Kept
<1>14. ASSUME NEW g \in Handler PROVE JobInv(job'[g], runs', input)
  <2>1. CASE g = h
    BY <1>1, <1>5, <1>8, <2>1
  <2>2. CASE g # h
    <3>1. job'[g] = job[g] /\ JobInv(job[g], runs, input)
      BY <1>1, <1>5, <2>2 DEF IInv
    <3>2. job[g].pc = "agent" => runs'[job[g].run].status = runs[job[g].run].status
      BY <1>6, <3>1 DEF JobInv
    <3>3. \A q \in DOMAIN runs : /\ q \in DOMAIN runs'
                                 /\ runs'[q].key = runs[q].key /\ runs'[q].hash = runs[q].hash
      BY <1>11 DEF Kept
    <3>4. QED
      BY <3>1, <3>2, <3>3, JobKept
  <2>3. QED
    BY <2>1, <2>2
<1>15. SoleOwner'
  <2>1. \A g \in Handler : job[g].pc = "agent" => job[g].run # r
    BY <1>6 DEF IInv, JobInv
  <2>2. QED
    BY <1>1, <1>5, <1>7, <2>1 DEF IInv, SoleOwner
<1>16. HasOwner' /\ HasLatest'
  <2>1. Completed' = Completed
    BY <1>3, <1>6 DEF Completed
  <2>2. \A g \in Handler : job'[g].pc = "agent" => job'[g].run \notin lost'
    BY <1>1, <1>5, <1>6, <1>7 DEF IInv, HasOwner
  <2>3. ASSUME NEW q \in DOMAIN runs', runs'[q].key[1] # "stepwise", runs'[q].status = "RUNNING",
               q \notin lost'
        PROVE  \E g \in Handler : job'[g].pc = "agent" /\ job'[g].run = q
    <3>1. CASE q = r
      <4>1. j.key[1] # "stepwise"
        BY <1>2, <1>3, <1>6, <2>3, <3>1
      <4>2. j.kind # "STEPWISE"
        BY <1>1, <4>1 DEF JobInv
      <4>3. job'[h] = new /\ new.pc = "agent" /\ new.run = r
        BY <1>1, <1>5, <1>7, <4>2
      <4>4. QED
        BY <3>1, <4>3
    <3>2. CASE q # r
      <4>1. q \in DOMAIN runs /\ runs'[q] = runs[q]
        BY <1>6, <2>3, <3>2
      <4>2. PICK g \in Handler : job[g].pc = "agent" /\ job[g].run = q
        BY <1>5, <2>3, <4>1 DEF IInv, HasOwner
      <4>3. QED
        BY <1>1, <1>5, <4>2
    <3>3. QED
      BY <3>1, <3>2
  <2>4. QED
    BY <1>5, <1>6, <2>1, <2>2, <2>3 DEF IInv, HasOwner, HasLatest
<1>17. QED
  BY <1>5, <1>10, <1>11, <1>12, <1>13, <1>14, <1>15, <1>16 DEF IInv

(***************************************************************************)
(* The state behind the first nodes of the route asks for the next one.    *)
(***************************************************************************)
LEMMA ExpectedNext ==
    ASSUME NEW n \in Node
    PROVE  Expected(Before(n)) = n /\ Before(n) \subseteq Node /\ Before(n) \cup {n} = 1..n
<1>1. n \in Node \ Before(n) /\ \A m \in Node \ Before(n) : n <= m
  BY BoundsAreNumbers DEF Node, Before
<1>2. \A p \in Node \ Before(n) : (\A m \in Node \ Before(n) : p <= m) => p = n
  BY <1>1, BoundsAreNumbers DEF Node, Before
<1>3. Expected(Before(n)) = n
  BY <1>1, <1>2 DEF Expected
<1>4. QED
  BY <1>3, BoundsAreNumbers DEF Node, Before

LEMMA LatestIsThere == HasLatest => Latest \in Completed \cup {0} /\ \A s \in Completed : s <= Latest
BY DEF HasLatest, Latest

\* A step of a request that executes no run takes none from its worker.
LEMMA NothingExecuted ==
    ASSUME NEW h \in Handler, job[h].pc # "agent", lost' = lost
    PROVE  lost' = lost \cup ExecutedBy({h})
BY DEF ExecutedBy

\* Giving up a request writes nothing.
LEMMA GiveUp ==
    ASSUME IInv, NEW h \in Handler, Become(h, Idle), exists' \in BOOLEAN,
           UNCHANGED <<input, runs, restarts>>, lost' = lost \cup ExecutedBy({h}),
           sent' \subseteq Message, \A m \in sent' : MessageInv(m, runs)
    PROVE  IInv' /\ Kept
<1>1. Idle \in Job /\ JobInv(Idle, runs, input) /\ Idle.pc # "agent"
  BY IdleInv DEF Idle
<1>2. QED
  BY <1>1, JobStep

LEMMA StepIInv == IInv /\ [Next]_vars => IInv' /\ Kept
<1> SUFFICES ASSUME IInv, [Next]_vars PROVE IInv' /\ Kept
  OBVIOUS
<1>t. /\ runs \in Seq(Run) /\ Len(runs) \in Nat /\ DOMAIN runs = 1..Len(runs)
      /\ DOMAIN runs \subseteq 1..MaxRuns /\ \A r \in DOMAIN runs : runs[r] \in Run
      /\ job \in [Handler -> Job] /\ MaxRuns \in Nat /\ LastNode \in Node
      /\ input \in Input /\ exists \in BOOLEAN /\ sent \subseteq Message
      /\ \A m \in sent : MessageInv(m, runs)
      /\ \A h \in Handler : job[h] \in Job /\ JobInv(job[h], runs, input)
  BY Types DEF IInv, TypeOK
<1>1. ASSUME NEW h \in Handler, NEW k \in ({"client"} \X ClientKey) \cup {<<"create", input>>},
             CreateCase(h, k)
      PROVE  IInv' /\ Kept
  <2> DEFINE new == [Idle EXCEPT !.pc = "lookup", !.kind = "CREATE", !.key = k]
  <2>1. k \in Key /\ k[1] \notin {"stepwise", "auto"}
    BY <1>t DEF Key
  <2>2. new \in Job /\ new.pc = "lookup" /\ JobInv(new, runs, input)
    BY <2>1, IdleInv DEF Job, Idle, JobInv
  <2>3. QED
    BY <1>1, <1>t, <2>2, JobStep, NothingExecuted DEF CreateCase
<1>2. ASSUME NEW h \in Handler, GetCase(h) PROVE IInv' /\ Kept
  <2> DEFINE new == [Idle EXCEPT !.pc = "latest"]
  <2>1. new \in Job /\ new.pc = "latest" /\ JobInv(new, runs, input)
    BY IdleInv DEF Job, Idle, JobInv
  <2>2. QED
    BY <1>2, <1>t, <2>1, JobStep, NothingExecuted DEF GetCase
<1>3. ASSUME NEW h \in Handler, NEW k \in ({"client"} \X ClientKey) \cup {<<"rerun", 0>>},
             PostRun(h, k)
      PROVE  IInv' /\ Kept
  <2> DEFINE new == [Idle EXCEPT !.pc = "lookup", !.kind = "RUN", !.key = k]
  <2>1. k \in Key \cup FreshKey /\ k[1] \notin {"stepwise", "auto"}
    BY DEF Key, FreshKey
  <2>2. new \in Job /\ new.pc = "lookup" /\ JobInv(new, runs, input)
    BY <2>1, IdleInv DEF Job, Idle, JobInv
  <2>3. QED
    BY <1>3, <1>t, <2>2, JobStep, NothingExecuted DEF PostRun
<1>4. ASSUME NEW h \in Handler, StartStepwise(h) PROVE IInv' /\ Kept
  <2> DEFINE new == [Idle EXCEPT !.pc = "insert", !.kind = "STEPWISE", !.key = <<"stepwise", 0>>]
  <2>1. <<"stepwise", 0>> \in FreshKey
    BY DEF FreshKey
  <2>2. new \in Job /\ new.pc = "insert" /\ JobInv(new, runs, input)
    BY <2>1, IdleInv DEF Job, Idle, JobInv
  <2>3. QED
    BY <1>4, <1>t, <2>2, JobStep, NothingExecuted DEF StartStepwise
<1>5. ASSUME NEW h \in Handler, ReadLatest(h) PROVE IInv' /\ Kept
  <2>1. CASE Latest # 0 /\ runs[Latest].hash = input
    <3> DEFINE new == [job[h] EXCEPT !.pc = "reply", !.run = Latest]
    <3>1. Latest \in DOMAIN runs /\ Latest \in 0..MaxRuns
      BY <1>t, <2>1, LatestIsThere DEF IInv, Completed
    <3>2. new \in Job /\ new.pc = "reply" /\ new.run = Latest
      BY <1>t, <3>1 DEF Job
    <3>3. JobInv(new, runs, input)
      BY <2>1, <3>1, <3>2 DEF JobInv
    <3>4. QED
      BY <1>5, <1>t, <2>1, <3>2, <3>3, JobStep, NothingExecuted DEF ReadLatest
  <2>2. CASE ~(Latest # 0 /\ runs[Latest].hash = input)
    <3> DEFINE new == [job[h] EXCEPT !.pc = "lookup", !.kind = "GET", !.key = <<"auto", input>>]
    <3>1. <<"auto", input>> \in Key
      BY <1>t DEF Key
    <3>2. /\ new \in Job /\ new.pc = "lookup" /\ new.kind = "GET"
          /\ new.key = <<"auto", input>>
      BY <1>t, <3>1 DEF Job
    <3>3. JobInv(new, runs, input)
      BY <3>2 DEF JobInv
    <3>4. QED
      BY <1>5, <1>t, <2>2, <3>2, <3>3, JobStep, NothingExecuted DEF ReadLatest
  <2>3. QED
    BY <2>1, <2>2
<1>6. ASSUME NEW h \in Handler, Lookup(h) PROVE IInv' /\ Kept
  <2>1. CASE HasKey(job[h].key) = {}
    <3> DEFINE new == [job[h] EXCEPT !.pc = "insert"]
    <3>1. /\ new \in Job /\ new.pc = "insert" /\ new.kind = job[h].kind
          /\ new.key = job[h].key
      BY <1>t DEF Job
    <3>2. JobInv(new, runs, input)
      BY <1>6, <1>t, <3>1 DEF Lookup, JobInv
    <3>3. QED
      BY <1>6, <1>t, <2>1, <3>1, <3>2, JobStep, NothingExecuted DEF Lookup
  <2>2. ASSUME NEW r \in HasKey(job[h].key), Become(h, AfterRun(job[h], r))
        PROVE  IInv' /\ Kept
    <3> DEFINE new == AfterRun(job[h], r)
    <3>1. r \in DOMAIN runs /\ r \in 0..MaxRuns /\ runs[r].key = job[h].key /\ RowInv(runs[r])
      BY <1>t DEF HasKey, IInv
    <3>2. /\ new \in Job /\ new.kind = job[h].kind /\ new.pc \in {"latest", "reply"}
          /\ (new.pc = "reply" => new.run = r)
      BY <1>t, <3>1 DEF AfterRun, Job
    <3>3. job[h].kind = "GET" => runs[r].hash = input
      <4>1. job[h].kind = "GET" => job[h].key = <<"auto", input>>
        BY <1>6, <1>t DEF Lookup, JobInv
      <4>2. QED
        BY <3>1, <4>1 DEF RowInv
    <3>4. JobInv(new, runs, input)
      BY <3>1, <3>2, <3>3 DEF JobInv
    <3>5. QED
      BY <1>6, <1>t, <2>2, <3>2, <3>4, JobStep, NothingExecuted DEF Lookup
  <2>3. QED
    BY <1>6, <2>1, <2>2 DEF Lookup
<1>7. ASSUME NEW h \in Handler, Insert(h) PROVE IInv' /\ Kept
  BY <1>7, InsertStep
<1>8. ASSUME NEW h \in Handler, InsertCollides(h) PROVE IInv' /\ Kept
  BY <1>8, <1>t, GiveUp, NothingExecuted DEF InsertCollides
<1>9. ASSUME NEW h \in Handler, NEW o \in Outcome, AgentCompletes(h, o) PROVE IInv' /\ Kept
  <2> DEFINE j == job[h]
             r == job[h].run
             s == [runs[r] EXCEPT !.status = "COMPLETED", !.outcome = o, !.artifacts = Node]
             new == AfterRun(j, r)
  <2>1. /\ j \in Job /\ j.pc = "agent" /\ j.kind # "STEPWISE" /\ r \in DOMAIN runs
        /\ runs[r].status = "RUNNING" /\ runs[r].key[1] # "stepwise"
        /\ runs[r] \in Run /\ RowInv(runs[r]) /\ (j.kind = "GET" => runs[r].hash = input)
    BY <1>9, <1>t DEF AgentCompletes, JobInv, IInv
  <2>2. /\ s \in Run /\ s.key = runs[r].key /\ s.hash = runs[r].hash /\ s.status = "COMPLETED"
        /\ s.artifacts = Node
    BY <2>1 DEF Run
  <2>3. RowInv(s)
    BY <2>1, <2>2 DEF RowInv
  <2>4. runs' = [runs EXCEPT ![r] = s]
    BY <1>9, <1>t, <2>1 DEF AgentCompletes, Complete
  <2>5. \A g \in Handler \ {h} : ~(job[g].pc = "agent" /\ job[g].run = r)
    BY <2>1 DEF IInv, SoleOwner
  <2>6. /\ new \in Job /\ new.kind = j.kind /\ new.pc \in {"latest", "reply"}
        /\ new.run = r
    BY <2>1 DEF AfterRun, Job
  <2>7. r \in DOMAIN runs' /\ runs'[r].hash = runs[r].hash
    BY <2>1, <2>2, <2>4, <1>t
  <2>8. JobInv(new, runs', input)
    BY <2>1, <2>6, <2>7 DEF JobInv
  <2>9. QED
    BY <1>9, <2>1, <2>2, <2>3, <2>4, <2>5, <2>6, <2>8, EndStep DEF AgentCompletes
<1>10. ASSUME NEW h \in Handler, AgentFails(h) PROVE IInv' /\ Kept
  <2> DEFINE r == job[h].run
             s == [runs[r] EXCEPT !.status = "FAILED"]
  <2>1. /\ job[h].pc = "agent" /\ r \in DOMAIN runs
        /\ runs[r].status = "RUNNING" /\ runs[r].key[1] # "stepwise"
        /\ runs[r] \in Run /\ RowInv(runs[r])
    BY <1>10, <1>t DEF AgentFails, JobInv, IInv
  <2>2. /\ s \in Run /\ s.key = runs[r].key /\ s.hash = runs[r].hash /\ s.status = "FAILED"
        /\ s.artifacts = runs[r].artifacts
    BY <2>1 DEF Run
  <2>3. RowInv(s)
    BY <2>1, <2>2 DEF RowInv
  <2>4. runs' = [runs EXCEPT ![r] = s]
    BY <1>10, <1>t, <2>1 DEF AgentFails
  <2>5. \A g \in Handler \ {h} : ~(job[g].pc = "agent" /\ job[g].run = r)
    BY <2>1 DEF IInv, SoleOwner
  <2>6. Idle \in Job /\ Idle.pc # "agent" /\ JobInv(Idle, runs', input)
    BY IdleInv DEF Idle
  <2>7. QED
    BY <1>10, <2>1, <2>2, <2>3, <2>4, <2>5, <2>6, EndStep DEF AgentFails
<1>11. ASSUME NEW h \in Handler, StartReturns(h) PROVE IInv' /\ Kept
  <2> DEFINE m == [run |-> job[h].run, state |-> {}]
  <2>1. job[h].run \in DOMAIN runs /\ runs[job[h].run].key[1] = "stepwise"
    BY <1>11, <1>t DEF StartReturns, JobInv
  <2>2. 1 \in Node /\ Before(1) = {}
    BY BoundsAreNumbers DEF Node, Before
  <2>3. m \in Message /\ MessageInv(m, runs)
    BY <1>t, <2>1, <2>2 DEF Message, MessageInv
  <2>4. QED
    BY <1>11, <1>t, <2>3, GiveUp, NothingExecuted DEF StartReturns
<1>12. ASSUME NEW h \in Handler, NEW r \in {m.run : m \in sent}, NEW m \in sent, NEW n \in Node,
              PostStep(h, r, m, n)
       PROVE  IInv' /\ Kept
  <2> DEFINE new == [Idle EXCEPT !.pc = "node", !.kind = "STEPWISE", !.run = r,
                                 !.state = m.state, !.node = n]
  <2>1. m \in Message /\ MessageInv(m, runs) /\ r \in DOMAIN runs /\ runs[r].key[1] = "stepwise"
    BY <1>t DEF MessageInv
  <2>2. m.state = Before(n)
    BY <1>12, <2>1, ExpectedNext DEF PostStep, MessageInv
  <2>3. n \in 0..LastNode /\ r \in 0..MaxRuns /\ m.state \in SUBSET Node
    BY <1>t, <2>1 DEF Node, Message
  <2>4. /\ new \in Job /\ new.pc = "node" /\ new.run = r /\ new.state = m.state
        /\ new.node = n /\ new.kind = "STEPWISE"
    BY <2>3, IdleInv DEF Job, Idle
  <2>5. JobInv(new, runs, input)
    BY <2>1, <2>2, <2>4 DEF JobInv, MessageInv
  <2>6. QED
    BY <1>12, <1>t, <2>4, <2>5, JobStep, NothingExecuted DEF PostStep
<1>13. ASSUME NEW h \in Handler, StepReturns(h) PROVE IInv' /\ Kept
  <2> DEFINE j == job[h]
             m == [run |-> j.run, state |-> j.state \cup {j.node}]
  <2>1. /\ j.pc = "node" /\ j.node # LastNode /\ j.node \in Node /\ j.state = Before(j.node)
        /\ j.run \in DOMAIN runs /\ runs[j.run].key[1] = "stepwise"
    BY <1>13, <1>t DEF StepReturns, JobInv
  <2>2. /\ j.node + 1 \in Node /\ m.state = Before(j.node + 1) /\ m.state \subseteq Node
    BY <1>t, <2>1, ExpectedNext, BoundsAreNumbers DEF Node, Before
  <2>3. m \in Message /\ MessageInv(m, runs)
    BY <1>t, <2>1, <2>2 DEF Message, MessageInv
  <2>4. QED
    BY <1>13, <1>t, <2>3, GiveUp, NothingExecuted DEF StepReturns
<1>14. ASSUME NEW h \in Handler, NEW o \in Outcome, StepCompletes(h, o) PROVE IInv' /\ Kept
  <2> DEFINE j == job[h]
             r == job[h].run
             state == j.state \cup {j.node}
             s == [runs[r] EXCEPT !.status = "COMPLETED", !.outcome = o, !.artifacts = state]
             new == [j EXCEPT !.pc = "reply"]
  <2>1. /\ j \in Job /\ j.pc = "node" /\ j.node = LastNode /\ j.state = Before(LastNode)
        /\ r \in DOMAIN runs /\ runs[r].key[1] = "stepwise"
        /\ runs[r] \in Run /\ RowInv(runs[r]) /\ runs[r].artifacts = {}
    BY <1>14, <1>t DEF StepCompletes, JobInv, IInv, ArtifactsCollide
  <2>2. state = Node
    BY <1>t, <2>1, ExpectedNext DEF Node
  <2>3. runs[r].status = "RUNNING"
    BY <1>t, <2>1 DEF RowInv, Run
  <2>4. /\ s \in Run /\ s.key = runs[r].key /\ s.hash = runs[r].hash /\ s.status = "COMPLETED"
        /\ s.artifacts = Node
    BY <2>1, <2>2 DEF Run
  <2>5. RowInv(s)
    BY <2>1, <2>4 DEF RowInv
  <2>6. runs' = [runs EXCEPT ![r] = s]
    BY <1>14, <1>t, <2>1 DEF StepCompletes, Complete
  <2>7. \A g \in Handler \ {h} : ~(job[g].pc = "agent" /\ job[g].run = r)
    BY <1>t, <2>1 DEF JobInv
  <2>8. new \in Job /\ new.kind = j.kind /\ new.pc = "reply" /\ new.run = r
    BY <2>1 DEF Job
  <2>9. r \in DOMAIN runs'
    BY <2>1, <2>6, <1>t
  <2>10. j.kind # "GET"
    BY <1>t, <2>1 DEF JobInv
  <2>11. JobInv(new, runs', input)
    BY <2>8, <2>9, <2>10 DEF JobInv
  <2>12. QED
    BY <1>14, <2>1, <2>3, <2>4, <2>5, <2>6, <2>7, <2>8, <2>11, EndStep DEF StepCompletes
<1>15. ASSUME NEW h \in Handler, StepCollides(h) PROVE IInv' /\ Kept
  BY <1>15, <1>t, GiveUp, NothingExecuted DEF StepCollides
<1>16. ASSUME NEW h \in Handler, StepFails(h) PROVE IInv' /\ Kept
  BY <1>16, <1>t, GiveUp, NothingExecuted DEF StepFails
<1>17. ASSUME NEW h \in Handler, Reply(h) PROVE IInv' /\ Kept
  BY <1>17, <1>t, GiveUp, NothingExecuted DEF Reply
<1>18. ASSUME NEW i \in Input, Restart(i) PROVE IInv' /\ Kept
  <2>1. \A h \in Handler : job'[h] = Idle
    BY <1>18 DEF Restart
  <2>2. lost' \subseteq DOMAIN runs /\ DOMAIN runs \subseteq 1..MaxRuns
    BY <1>18, <1>t DEF Restart, IInv, HasOwner, ExecutedBy, JobInv
  <2>3. TypeOK'
    BY <1>18, <2>2, IdleInv, BoundsAreNumbers DEF Restart, IInv, TypeOK
  <2>4. SoleOwner' /\ HasLatest'
    BY <1>18, <2>1 DEF Restart, IInv, SoleOwner, HasLatest, Completed, Idle
  <2>5. HasOwner'
    BY <1>18, <2>1, <2>2 DEF Restart, IInv, HasOwner, ExecutedBy, Idle
  <2>6. QED
    BY <1>18, <2>1, <2>3, <2>4, <2>5, IdleInv DEF Restart, IInv, Kept
<1>19. CASE UNCHANGED vars
  BY <1>19 DEF vars, IInv, TypeOK, SoleOwner, HasOwner, HasLatest, Completed, Kept
<1>20. ASSUME NEW h \in Handler, BreakOff(h) PROVE IInv' /\ Kept
  BY <1>20, <1>t, GiveUp DEF BreakOff
<1>21. QED
  BY <1>1, <1>2, <1>3, <1>4, <1>5, <1>6, <1>7, <1>8, <1>9, <1>10, <1>11, <1>12, <1>13, <1>14,
     <1>15, <1>16, <1>17, <1>18, <1>19, <1>20 DEF Next, Step

-----------------------------------------------------------------------------
\* Whatever requests do, together or interrupted, the invariant holds.
THEOREM Invariance == Spec => []IInv
BY InitIInv, StepIInv, PTL DEF Spec

\* Rows, messages and requests have the shapes the code gives them.
THEOREM Typing == Spec => []TypeOK
<1>1. IInv => TypeOK
  BY DEF IInv
<1>2. QED
  BY <1>1, Invariance, PTL

\* A completed run holds the artifacts of its whole route and no other run
\* holds any, however clients repeat and interleave their steps.
THEOREM CompletedRunsAreWhole == Spec => []CompletedRunIsWhole
<1>1. IInv => CompletedRunIsWhole
  BY DEF IInv, RowInv, CompletedRunIsWhole
<1>2. QED
  BY <1>1, Invariance, PTL

\* latest_or_run answers with a run of the case as it is now.
THEOREM AnswersAreCurrent == Spec => []AnswerIsCurrent
<1>1. IInv => AnswerIsCurrent
  BY DEF IInv, JobInv, AnswerIsCurrent
<1>2. QED
  BY <1>1, Invariance, PTL

\* A run of the whole route is open only while exactly one request executes
\* it, or after that request broke off; a repeated request never executes it
\* a second time.
THEOREM OpenRunsHaveOneWorker == Spec => []OpenRunHasOneWorker
<1>1. ASSUME IInv PROVE OpenRunHasOneWorker
  <2> SUFFICES ASSUME NEW r \in DOMAIN runs, runs[r].key[1] # "stepwise"
               PROVE  LET workers == {h \in Handler : r \in ExecutedBy({h})} IN
                      /\ runs[r].status # "RUNNING" \/ r \in lost => workers = {}
                      /\ runs[r].status = "RUNNING" /\ r \notin lost
                             => \E h \in Handler : workers = {h}
    BY DEF OpenRunHasOneWorker
  <2> DEFINE workers == {h \in Handler : r \in ExecutedBy({h})}
  <2>1. \A h \in Handler : h \in workers <=> job[h].pc = "agent" /\ job[h].run = r
    BY DEF ExecutedBy
  <2>2. ASSUME runs[r].status # "RUNNING" \/ r \in lost PROVE workers = {}
    BY <1>1, <2>1, <2>2 DEF IInv, JobInv, HasOwner
  <2>3. ASSUME runs[r].status = "RUNNING", r \notin lost
        PROVE  \E h \in Handler : workers = {h}
    <3>1. PICK h \in Handler : job[h].pc = "agent" /\ job[h].run = r
      BY <1>1, <2>3 DEF IInv, HasOwner
    <3>2. \A g \in workers : g = h
      BY <1>1, <2>1, <3>1 DEF IInv, SoleOwner
    <3>3. QED
      BY <2>1, <3>1, <3>2
  <2>4. QED
    BY <2>2, <2>3
<1>2. IInv => OpenRunHasOneWorker
  BY <1>1
<1>3. QED
  BY <1>2, Invariance, PTL

\* No step of any request writes a run that has ended, be it the last step of
\* a stepwise run posted twice.
THEOREM EndedRunsAreImmutable == Spec => EndedRunIsImmutable
<1>1. IInv /\ [Next]_vars => [\A r \in DOMAIN runs : runs[r].status # "RUNNING" => runs'[r] = runs[r]]_vars
  BY StepIInv DEF Kept
<1>2. QED
  BY <1>1, Invariance, PTL DEF Spec, EndedRunIsImmutable

\* A run that completes late displaces no newer one as the assessment of the
\* case.
THEOREM TheLatestNeverGoesBack == Spec => LatestNeverGoesBack
<1>1. ASSUME IInv, [Next]_vars PROVE Latest' >= Latest
  <2>1. IInv' /\ Kept
    BY <1>1, StepIInv
  <2>2. Completed \subseteq Completed' /\ Completed \subseteq Nat /\ Completed' \subseteq Nat
    BY <1>1, <2>1, Types DEF IInv, Kept, Completed, TypeOK
  <2>3. Latest \in Completed \cup {0}
    BY <1>1, LatestIsThere DEF IInv
  <2>4. Latest' \in Completed' \cup {0} /\ \A s \in Completed' : s <= Latest'
    BY <2>1 DEF IInv, HasLatest, Latest
  <2>5. QED
    BY <2>2, <2>3, <2>4
<1>2. IInv /\ [Next]_vars => [Latest' >= Latest]_vars
  BY <1>1
<1>3. QED
  BY <1>2, Invariance, PTL DEF Spec, LatestNeverGoesBack
=============================================================================
