-------------------------- MODULE PgBossQueueProofs --------------------------
(***************************************************************************)
(* Proofs about PgBossQueue, for every set of requests, executions, queues *)
(* and payloads and every bound: type correctness, that dead letter        *)
(* entries leave only after their replay, that only its expiry makes a job *)
(* run beside itself, that the driver implements WorkQueue, and that the   *)
(* calls of a handler and its successes stay within a budget.              *)
(***************************************************************************)
EXTENDS PgBossQueue, Counting, FiniteSetTheorems, TLAPS

-----------------------------------------------------------------------------
(* Vocabulary of the proof. *)

TableOK ==
  /\ nextId \in Nat \ {0}
  /\ DOMAIN jobs \subseteq 1 .. (nextId - 1)
  /\ jobs \in [DOMAIN jobs -> Job]
  /\ DeadLettersRest

\* What every step does to the table: jobs of primary queues stay, no job
\* changes its name or its work, and new jobs get the next id.
TableStep ==
  /\ TableOK'
  /\ nextId <= nextId'
  /\ \A id \in DOMAIN jobs : ~jobs[id].name.dead => id \in DOMAIN jobs'
  /\ \A id \in DOMAIN jobs : id \in DOMAIN jobs' =>
       jobs'[id].name = jobs[id].name /\ jobs'[id].payload = jobs[id].payload
  /\ \A id \in DOMAIN jobs' \ DOMAIN jobs : id = nextId

\* What every step does to the history.
HistoryStep ==
  /\ accepted \subseteq accepted' /\ accepted' \subseteq Payload
  /\ success' \in [Payload -> Nat] /\ invoked' \in [Payload -> Nat]
  /\ asked' \in [Payload -> Nat] /\ expired' \in [Payload -> Nat]
  /\ \A x \in Payload : success[x] <= success'[x] /\ expired[x] <= expired'[x]

ExecutionsOK ==
  /\ handling \in [Execution -> Nat]
  /\ returned \in [Execution -> BOOLEAN]
  /\ overruns \in [DOMAIN overruns -> Nat]

HistoryOK ==
  /\ accepted \subseteq Payload
  /\ success \in [Payload -> Nat] /\ invoked \in [Payload -> Nat]
  /\ asked \in [Payload -> Nat] /\ expired \in [Payload -> Nat]

CallsOK == call \in [Caller -> Call \cup {Idle}]

\* The invariant, in the vocabulary of this proof.
LEMMA InvariantParts ==
  TypeOK /\ DeadLettersRest <=> TableOK /\ ExecutionsOK /\ CallsOK /\ HistoryOK
BY DEF TypeOK, TableOK, ExecutionsOK, CallsOK, HistoryOK

LEMMA TableFacts ==
  ASSUME TableOK
  PROVE  /\ nextId \in Nat \ {0} /\ nextId \notin DOMAIN jobs /\ 0 \notin DOMAIN jobs
         /\ \A id \in DOMAIN jobs :
              /\ id \in Nat /\ id < nextId
              /\ jobs[id] \in Job /\ jobs[id].payload \in Payload
              /\ jobs[id].name \in JobName /\ jobs[id].name.queue \in Queue
              /\ jobs[id].name.dead \in BOOLEAN
              /\ jobs[id].count \in Nat /\ jobs[id].limit \in Nat
<1>1. \A id \in DOMAIN jobs : jobs[id] \in Job /\ id \in Nat /\ id < nextId
  BY DEF TableOK
<1>. QED  BY <1>1 DEF TableOK, Job, JobName

\* The records of jobs that are sent.
LEMMA JobTypes ==
  /\ \A q \in Queue, x \in Payload :
       /\ Sent(q, x) \in Job
       /\ Sent(q, x).state = "created"
       /\ Sent(q, x).payload = x
       /\ Sent(q, x).name.dead = FALSE
  /\ \A job \in Job :
       /\ DeadLetter(job) \in Job
       /\ DeadLetter(job).state = "created"
       /\ DeadLetter(job).payload = job.payload
       /\ DeadLetter(job).name.dead = TRUE
<1>1. ASSUME NEW q \in Queue, NEW x \in Payload
      PROVE  /\ Sent(q, x) \in Job
             /\ Sent(q, x).state = "created"
             /\ Sent(q, x).payload = x
             /\ Sent(q, x).name.dead = FALSE
  BY ConstantsAssumption DEF Sent, Job, JobName, JobState
<1>2. ASSUME NEW job \in Job
      PROVE  /\ DeadLetter(job) \in Job
             /\ DeadLetter(job).state = "created"
             /\ DeadLetter(job).payload = job.payload
             /\ DeadLetter(job).name.dead = TRUE
  BY DEF DeadLetter, Job, JobName, JobState
<1>. QED  BY <1>1, <1>2

-----------------------------------------------------------------------------
(* The table. *)

\* A job gets the next id.
LEMMA PutFresh ==
  ASSUME TableOK, NEW job \in Job, job.name.dead => job.state = "created",
         jobs' = Put(jobs, nextId, job), nextId' = nextId + 1
  PROVE  /\ TableStep
         /\ DOMAIN jobs' = DOMAIN jobs \cup {nextId}
         /\ jobs'[nextId] = job
         /\ \A id \in DOMAIN jobs : jobs'[id] = jobs[id]
<1>1. nextId \in Nat \ {0} /\ nextId \notin DOMAIN jobs
  BY TableFacts
<1>2. /\ DOMAIN jobs' = DOMAIN jobs \cup {nextId}
      /\ jobs'[nextId] = job
      /\ \A id \in DOMAIN jobs : jobs'[id] = jobs[id]
  BY <1>1 DEF Put
<1>3. \A id \in DOMAIN jobs' : jobs'[id] \in Job
  BY <1>2, TableFacts
<1>4. jobs' \in [DOMAIN jobs' -> Job]
  BY <1>3 DEF Put
<1>5. DOMAIN jobs' \subseteq 1 .. (nextId' - 1)
  BY <1>1, <1>2 DEF TableOK
<1>6. DeadLettersRest'
  BY <1>2 DEF TableOK, DeadLettersRest
<1>7. TableOK'
  BY <1>1, <1>4, <1>5, <1>6 DEF TableOK
<1>. QED  BY <1>1, <1>2, <1>7 DEF TableStep

\* Jobs of primary queues change their state, count and limit.
LEMMA Changed ==
  ASSUME TableOK, nextId' = nextId,
         jobs' = [id \in DOMAIN jobs |-> jobs'[id]],
         \A id \in DOMAIN jobs :
           /\ jobs'[id] \in Job
           /\ jobs'[id].name = jobs[id].name
           /\ jobs'[id].payload = jobs[id].payload
           /\ jobs[id].name.dead => jobs'[id] = jobs[id]
  PROVE  TableStep /\ DOMAIN jobs' = DOMAIN jobs
<1>1. DOMAIN jobs' = DOMAIN jobs
  OBVIOUS
<1>2. jobs' \in [DOMAIN jobs' -> Job]
  BY <1>1
<1>3. DeadLettersRest'
  BY <1>1 DEF TableOK, DeadLettersRest
<1>4. TableOK'
  BY <1>1, <1>2, <1>3 DEF TableOK
<1>. QED  BY <1>1, <1>4, TableFacts DEF TableStep

\* One job of a primary queue changes.
LEMMA ChangedOne ==
  ASSUME TableOK, nextId' = nextId, NEW r \in DOMAIN jobs, NEW job \in Job,
         jobs' = [jobs EXCEPT ![r] = job],
         job.name = jobs[r].name, job.payload = jobs[r].payload, ~jobs[r].name.dead
  PROVE  /\ TableStep /\ DOMAIN jobs' = DOMAIN jobs
         /\ jobs'[r] = job
         /\ \A id \in DOMAIN jobs : id # r => jobs'[id] = jobs[id]
<1>1. /\ jobs'[r] = job
      /\ \A id \in DOMAIN jobs : id # r => jobs'[id] = jobs[id]
  OBVIOUS
<1>2. jobs' = [id \in DOMAIN jobs |-> jobs'[id]]
  OBVIOUS
<1>3. \A id \in DOMAIN jobs :
        /\ jobs'[id] \in Job
        /\ jobs'[id].name = jobs[id].name
        /\ jobs'[id].payload = jobs[id].payload
        /\ jobs[id].name.dead => jobs'[id] = jobs[id]
  BY <1>1, TableFacts
<1>4. TableStep /\ DOMAIN jobs' = DOMAIN jobs
  BY <1>2, <1>3, Changed
<1>. QED  BY <1>1, <1>4

\* Nothing happens to the table.
LEMMA Unchanged ==
  ASSUME TableOK, UNCHANGED <<jobs, nextId>>
  PROVE  TableStep
BY TableFacts DEF TableStep, TableOK, DeadLettersRest

\* The attempt of a job of a primary queue fails: the job waits, has failed,
\* or is not concerned, and its work stays in the table.
LEMMA FailAttemptFits ==
  ASSUME TableOK, NEW r \in DOMAIN jobs, ~jobs[r].name.dead, FailAttempt(r)
  PROVE  /\ TableStep
         /\ DOMAIN jobs \subseteq DOMAIN jobs'
         /\ \A id \in DOMAIN jobs : id # r => jobs'[id] = jobs[id]
         /\ IF jobs[r].state = "active" THEN jobs'[r].state \in {"retry", "failed"}
                                        ELSE jobs' = jobs
         /\ \A id \in DOMAIN jobs' \ DOMAIN jobs :
              /\ jobs'[id].name.dead
              /\ jobs'[id].payload = jobs[r].payload
              /\ jobs'[id].state = "created"
<1>1. /\ jobs[r] \in Job /\ r # nextId
      /\ nextId \in Nat \ {0} /\ nextId \notin DOMAIN jobs
  BY TableFacts
<1>2. CASE jobs[r].state # "active"
  <2>1. UNCHANGED <<jobs, nextId>>
    BY <1>2 DEF FailAttempt
  <2>. QED  BY <1>2, <2>1, Unchanged
<1>3. CASE jobs[r].state = "active" /\ jobs[r].count < jobs[r].limit
  <2>. DEFINE job == [jobs[r] EXCEPT !.state = "retry"]
  <2>1. /\ job \in Job /\ job.state = "retry"
        /\ job.name = jobs[r].name /\ job.payload = jobs[r].payload
    BY <1>1 DEF Job, JobState
  <2>2. jobs' = [jobs EXCEPT ![r] = job] /\ nextId' = nextId
    BY <1>1, <1>3 DEF FailAttempt, Job
  <2>. HIDE DEF job
  <2>3. /\ TableStep /\ DOMAIN jobs' = DOMAIN jobs
        /\ jobs'[r] = job
        /\ \A id \in DOMAIN jobs : id # r => jobs'[id] = jobs[id]
    BY <2>1, <2>2, ChangedOne
  <2>. QED  BY <1>3, <2>1, <2>3
<1>4. CASE jobs[r].state = "active" /\ jobs[r].count >= jobs[r].limit
  <2>. DEFINE job == [jobs[r] EXCEPT !.state = "failed"]
              letter == DeadLetter(jobs[r])
  <2>1. /\ job \in Job /\ job.state = "failed"
        /\ job.name = jobs[r].name /\ job.payload = jobs[r].payload
    BY <1>1 DEF Job, JobState
  <2>2. /\ letter \in Job /\ letter.state = "created"
        /\ letter.payload = jobs[r].payload /\ letter.name.dead = TRUE
    BY <1>1, JobTypes
  <2>3. /\ jobs' = Put([jobs EXCEPT ![r] = job], nextId, letter)
        /\ nextId' = nextId + 1
    BY <1>1, <1>4 DEF FailAttempt, Job
  <2>. HIDE DEF job, letter
  <2>4. /\ DOMAIN jobs' = DOMAIN jobs \cup {nextId}
        /\ jobs'[r] = job
        /\ jobs'[nextId] = letter
        /\ \A id \in DOMAIN jobs : id # r => jobs'[id] = jobs[id]
    BY <1>1, <2>3 DEF Put
  <2>5. \A id \in DOMAIN jobs' : jobs'[id] \in Job
    BY <2>1, <2>2, <2>4, TableFacts
  <2>6. jobs' \in [DOMAIN jobs' -> Job]
    BY <2>3, <2>5 DEF Put
  <2>7. DOMAIN jobs' \subseteq 1 .. (nextId' - 1)
    BY <1>1, <2>3, <2>4 DEF TableOK
  <2>8. DeadLettersRest'
    BY <2>1, <2>2, <2>4 DEF TableOK, DeadLettersRest
  <2>9. nextId' \in Nat \ {0} /\ nextId <= nextId'
    BY <1>1, <2>3
  <2>10. TableOK'
    BY <2>6, <2>7, <2>8, <2>9 DEF TableOK
  <2>11. \A id \in DOMAIN jobs :
           jobs'[id].name = jobs[id].name /\ jobs'[id].payload = jobs[id].payload
    BY <2>1, <2>4
  <2>12. TableStep
    BY <2>4, <2>9, <2>10, <2>11 DEF TableStep
  <2>. QED  BY <1>1, <1>4, <2>1, <2>2, <2>4, <2>12
<1>. QED  BY <1>1, <1>2, <1>3, <1>4 DEF FailAttempt

\* The attempt of a job of a primary queue is completed, if it is active.
LEMMA CompleteAttemptFits ==
  ASSUME TableOK, NEW r \in DOMAIN jobs, ~jobs[r].name.dead, CompleteAttempt(r)
  PROVE  /\ TableStep /\ DOMAIN jobs' = DOMAIN jobs
         /\ \A id \in DOMAIN jobs : id # r => jobs'[id] = jobs[id]
<1>1. jobs[r] \in Job
  BY TableFacts
<1>2. CASE jobs[r].state # "active"
  <2>1. UNCHANGED <<jobs, nextId>>
    BY <1>2 DEF CompleteAttempt
  <2>. QED  BY <2>1, Unchanged
<1>3. CASE jobs[r].state = "active"
  <2>. DEFINE job == [jobs[r] EXCEPT !.state = "completed"]
  <2>1. job \in Job /\ job.name = jobs[r].name /\ job.payload = jobs[r].payload
    BY <1>1 DEF Job, JobState
  <2>2. jobs' = [jobs EXCEPT ![r] = job] /\ nextId' = nextId
    BY <1>1, <1>3 DEF CompleteAttempt, Job
  <2>. HIDE DEF job
  <2>. QED  BY <2>1, <2>2, ChangedOne
<1>. QED  BY <1>2, <1>3

\* A dead letter entry is deleted, if it is there.
LEMMA WithoutFits ==
  ASSUME TableOK, NEW r, r \in DOMAIN jobs => jobs[r].name.dead,
         jobs' = Without(jobs, r), nextId' = nextId
  PROVE  /\ TableStep
         /\ DOMAIN jobs' = DOMAIN jobs \ {r}
         /\ \A id \in DOMAIN jobs' : jobs'[id] = jobs[id]
<1>1. /\ DOMAIN jobs' = DOMAIN jobs \ {r}
      /\ \A id \in DOMAIN jobs' : jobs'[id] = jobs[id]
  BY DEF Without
<1>2. jobs' \in [DOMAIN jobs' -> Job]
  BY <1>1, TableFacts DEF Without
<1>3. TableOK'
  BY <1>1, <1>2 DEF TableOK, DeadLettersRest
<1>. QED  BY <1>1, <1>3, TableFacts DEF TableStep

-----------------------------------------------------------------------------
(* What a step leaves of each part of the invariant. *)

\* Executions go on, or end.
LEMMA ExecutionsGoOn ==
  ASSUME IInv, TableStep, HistoryStep,
         \A e \in Execution :
           \/ handling'[e] = handling[e] /\ returned'[e] = returned[e]
           \/ handling'[e] = 0 /\ ~returned'[e]
  PROVE  ExecutionsKnowTheirJobs'
<1>1. TableOK /\ HistoryOK
  BY InvariantParts DEF IInv
<1>2. ASSUME NEW e \in Execution, handling'[e] # 0
      PROVE  /\ handling'[e] = handling[e] /\ returned'[e] = returned[e]
             /\ handling'[e] \in DOMAIN jobs' /\ ~jobs'[handling'[e]].name.dead
             /\ jobs'[handling'[e]].payload = jobs[handling[e]].payload
             /\ jobs[handling[e]].payload \in Payload
  <2>1. handling'[e] = handling[e] /\ returned'[e] = returned[e]
    BY <1>2
  <2>2. handling[e] \in DOMAIN jobs /\ ~jobs[handling[e]].name.dead
    BY <1>2, <2>1 DEF IInv, ExecutionsKnowTheirJobs
  <2>. QED  BY <1>1, <2>1, <2>2, TableFacts DEF TableStep
<1>3. ASSUME NEW e \in Execution, returned'[e]
      PROVE  handling'[e] # 0 /\ success'[jobs'[handling'[e]].payload] > 0
  <2>1. returned[e] /\ handling'[e] = handling[e]
    BY <1>3
  <2>2. handling[e] # 0 /\ success[jobs[handling[e]].payload] > 0
    BY <2>1 DEF IInv, ExecutionsKnowTheirJobs
  <2>3. PICK x \in Payload : x = jobs[handling[e]].payload /\ x = jobs'[handling'[e]].payload
    BY <1>2, <2>1, <2>2
  <2>4. success[x] \in Nat /\ success'[x] \in Nat /\ success[x] <= success'[x]
    BY <1>1 DEF HistoryOK, HistoryStep
  <2>. QED  BY <2>1, <2>2, <2>3, <2>4
<1>. QED  BY <1>2, <1>3 DEF ExecutionsKnowTheirJobs

\* Requests stay where they are, end, or come to another entry.
LEMMA RequestsGoOn ==
  ASSUME IInv, TableStep, HistoryStep,
         \A c \in Caller :
           call'[c] = call[c] \/ call'[c].stage \in {"idle", "get"}
  PROVE  RequestsKnowTheirEntries'
<1>1. SUFFICES ASSUME NEW c \in Caller, call'[c].stage \in {"send", "delete"}
               PROVE  /\ call'[c].payload \in accepted'
                      /\ call'[c].entry < nextId'
                      /\ call'[c].entry \in DOMAIN jobs' =>
                           /\ jobs'[call'[c].entry].name.dead
                           /\ jobs'[call'[c].entry].payload = call'[c].payload
                      /\ call'[c].stage = "delete" =>
                           \E new \in DOMAIN jobs' :
                             /\ new > call'[c].entry
                             /\ ~jobs'[new].name.dead
                             /\ jobs'[new].payload = call'[c].payload
  BY DEF RequestsKnowTheirEntries
<1>2. TableOK /\ CallsOK
  BY InvariantParts DEF IInv
<1>3. call'[c] = call[c] /\ call[c].stage \in {"send", "delete"}
  BY <1>1
<1>4. PICK k : k = call[c]
  OBVIOUS
<1>5. k.entry \in Nat
  BY <1>2, <1>3, <1>4 DEF CallsOK, Call, Idle
<1>6. /\ k.payload \in accepted
      /\ k.entry < nextId
      /\ k.entry \in DOMAIN jobs =>
           jobs[k.entry].name.dead /\ jobs[k.entry].payload = k.payload
      /\ k.stage = "delete" =>
           \E new \in DOMAIN jobs : /\ new > k.entry
                                    /\ ~jobs[new].name.dead
                                    /\ jobs[new].payload = k.payload
  BY <1>3, <1>4 DEF IInv, RequestsKnowTheirEntries
<1>7. k.payload \in accepted'
  BY <1>6 DEF HistoryStep
<1>8. nextId \in Nat /\ nextId' \in Nat /\ nextId <= nextId'
  BY <1>2 DEF TableStep, TableOK
<1>9. k.entry < nextId'
  BY <1>5, <1>6, <1>8
<1>10. k.entry \in DOMAIN jobs' => jobs'[k.entry].name.dead /\ jobs'[k.entry].payload = k.payload
  BY <1>5, <1>6, <1>8 DEF TableStep
<1>11. k.stage = "delete" =>
         \E new \in DOMAIN jobs' : /\ new > k.entry
                                   /\ ~jobs'[new].name.dead
                                   /\ jobs'[new].payload = k.payload
  <2>1. SUFFICES ASSUME k.stage = "delete"
                 PROVE  \E new \in DOMAIN jobs' : /\ new > k.entry
                                                  /\ ~jobs'[new].name.dead
                                                  /\ jobs'[new].payload = k.payload
    OBVIOUS
  <2>2. PICK new \in DOMAIN jobs : /\ new > k.entry
                                   /\ ~jobs[new].name.dead
                                   /\ jobs[new].payload = k.payload
    BY <1>6, <2>1
  <2>. QED  BY <2>2 DEF TableStep
<1>. QED  BY <1>3, <1>4, <1>7, <1>9, <1>10, <1>11

\* Work stays in the table.
LEMMA WorkStays ==
  ASSUME IInv, TableStep, HistoryStep,
         \A id \in DOMAIN jobs' \ DOMAIN jobs : jobs'[id].payload \in accepted',
         \A x \in Payload : success'[x] > 0 => success[x] > 0 \/ x \in accepted,
         \A x \in accepted' \ accepted :
           \E id \in DOMAIN jobs' : ~jobs'[id].name.dead /\ jobs'[id].payload = x
  PROVE  WorkIsAccepted'
<1>1. \A id \in DOMAIN jobs' : jobs'[id].payload \in accepted'
  BY DEF IInv, WorkIsAccepted, TableStep, HistoryStep
<1>2. \A x \in Payload : success'[x] > 0 => x \in accepted'
  BY DEF IInv, WorkIsAccepted, HistoryStep
<1>3. ASSUME NEW x \in accepted
      PROVE  \E id \in DOMAIN jobs' : ~jobs'[id].name.dead /\ jobs'[id].payload = x
  <2>1. PICK id \in DOMAIN jobs : ~jobs[id].name.dead /\ jobs[id].payload = x
    BY DEF IInv, WorkIsAccepted
  <2>. QED  BY <2>1 DEF TableStep
<1>. QED  BY <1>1, <1>2, <1>3 DEF WorkIsAccepted

\* No job is completed without its work.
LEMMA DoneStays ==
  ASSUME IInv, TableStep, HistoryStep,
         \A id \in DOMAIN jobs' : jobs'[id].state = "completed" =>
           /\ id \in DOMAIN jobs
           /\ jobs[id].state = "completed" \/ success[jobs[id].payload] > 0
  PROVE  CompletedWorkIsDone'
<1>1. SUFFICES ASSUME NEW id \in DOMAIN jobs', jobs'[id].state = "completed"
               PROVE  success'[jobs'[id].payload] > 0
  BY DEF CompletedWorkIsDone
<1>2. id \in DOMAIN jobs /\ success[jobs[id].payload] > 0
  BY <1>1 DEF IInv, CompletedWorkIsDone
<1>3. TableOK /\ HistoryOK
  BY InvariantParts DEF IInv
<1>4. PICK x \in Payload : x = jobs[id].payload /\ x = jobs'[id].payload
  BY <1>1, <1>2, <1>3, TableFacts DEF TableStep
<1>5. success[x] \in Nat /\ success'[x] \in Nat /\ success[x] <= success'[x]
  BY <1>3 DEF HistoryOK, HistoryStep
<1>. QED  BY <1>2, <1>4, <1>5

\* The handlers of a job and its expiries can be counted.
LEMMA HandlersFit ==
  ASSUME ExecutionsOK, NEW id
  PROVE  /\ IsFiniteSet(Handlers(id))
         /\ Cardinality(Handlers(id)) \in Nat
         /\ Overruns(id) \in Nat
<1>1. IsFiniteSet(Handlers(id))
  BY ConstantsAssumption, FS_Subset DEF Handlers
<1>. QED  BY <1>1, FS_CardinalityType DEF ExecutionsOK, Overruns

\* No handler is called, and a job that is no longer active has lost one.
LEMMA OverlapsStay ==
  ASSUME IInv, TableStep, ExecutionsOK', UNCHANGED overruns,
         \A e \in Execution : handling'[e] \in {handling[e], 0},
         \A id \in DOMAIN jobs : jobs[id].state = "active" /\ id \in DOMAIN jobs' =>
           \/ jobs'[id].state = "active"
           \/ \E e \in Execution : handling[e] = id /\ handling'[e] = 0
  PROVE  OverlapsNeedExpiry'
<1>1. TableOK /\ ExecutionsOK
  BY InvariantParts DEF IInv
<1>2. SUFFICES ASSUME NEW id \in DOMAIN jobs'
               PROVE  Cardinality(Handlers(id)') <= Overruns(id)' + (IF jobs'[id].state = "active" THEN 1 ELSE 0)
  BY DEF OverlapsNeedExpiry
<1>3. id # 0
  BY <1>1, TableFacts DEF TableStep
<1>4. PICK G : G = Handlers(id)'
  OBVIOUS
<1>5. PICK F : F = Handlers(id)
  OBVIOUS
<1>6. G \subseteq F
  BY <1>3, <1>4, <1>5 DEF Handlers
<1>7. IsFiniteSet(F) /\ Cardinality(F) \in Nat /\ Overruns(id) \in Nat
  BY <1>1, <1>5, HandlersFit
<1>8. Cardinality(G) \in Nat /\ Cardinality(G) <= Cardinality(F)
  BY <1>6, <1>7, FS_Subset, FS_CardinalityType
<1>9. Overruns(id)' = Overruns(id)
  BY DEF Overruns
<1>10. CASE id \notin DOMAIN jobs
  <2>1. F = {}
    BY <1>3, <1>5, <1>10 DEF Handlers, IInv, ExecutionsKnowTheirJobs
  <2>. QED  BY <1>4, <1>7, <1>8, <1>9, <2>1, FS_EmptySet
<1>11. CASE id \in DOMAIN jobs
  <2>1. Cardinality(F) <= Overruns(id) + (IF jobs[id].state = "active" THEN 1 ELSE 0)
    BY <1>5, <1>11 DEF IInv, OverlapsNeedExpiry
  <2>2. CASE jobs[id].state = "active" => jobs'[id].state = "active"
    BY <1>4, <1>7, <1>8, <1>9, <2>1, <2>2
  <2>3. CASE \E e \in Execution : handling[e] = id /\ handling'[e] = 0
    <3>1. PICK e \in Execution : handling[e] = id /\ handling'[e] = 0
      BY <2>3
    <3>2. e \in F /\ e \notin G
      BY <1>3, <1>4, <1>5, <3>1 DEF Handlers
    <3>3. Cardinality(F \ {e}) = Cardinality(F) - 1 /\ IsFiniteSet(F \ {e})
      BY <1>7, <3>2, FS_RemoveElement
    <3>4. Cardinality(G) <= Cardinality(F \ {e})
      BY <1>6, <3>2, <3>3, FS_Subset
    <3>. QED  BY <1>4, <1>7, <1>8, <1>9, <2>1, <3>3, <3>4
  <2>. QED  BY <1>2, <1>11, <2>2, <2>3
<1>. QED  BY <1>10, <1>11

\* One more handler is called for a job that was not active and is now.
LEMMA OverlapsAtFetch ==
  ASSUME IInv, ExecutionsOK', UNCHANGED overruns, DOMAIN jobs' = DOMAIN jobs,
         NEW e \in Execution, NEW r \in DOMAIN jobs,
         \A f \in Execution \ {e} : handling'[f] = handling[f],
         handling'[e] = r, jobs[r].state # "active", jobs'[r].state = "active",
         \A id \in DOMAIN jobs : id # r => jobs'[id] = jobs[id]
  PROVE  OverlapsNeedExpiry'
<1>1. TableOK /\ ExecutionsOK
  BY InvariantParts DEF IInv
<1>2. SUFFICES ASSUME NEW id \in DOMAIN jobs
               PROVE  Cardinality(Handlers(id)') <= Overruns(id)' + (IF jobs'[id].state = "active" THEN 1 ELSE 0)
  BY DEF OverlapsNeedExpiry
<1>3. PICK G : G = Handlers(id)'
  OBVIOUS
<1>4. PICK F : F = Handlers(id)
  OBVIOUS
<1>5. IsFiniteSet(F) /\ Cardinality(F) \in Nat /\ Overruns(id) \in Nat
  BY <1>1, <1>4, HandlersFit
<1>6. Cardinality(F) <= Overruns(id) + (IF jobs[id].state = "active" THEN 1 ELSE 0)
  BY <1>4 DEF IInv, OverlapsNeedExpiry
<1>7. Overruns(id)' = Overruns(id)
  BY DEF Overruns
<1>8. CASE id = r
  <2>1. G \subseteq F \cup {e}
    BY <1>3, <1>4 DEF Handlers
  <2>2. IsFiniteSet(F \cup {e}) /\ Cardinality(F \cup {e}) <= Cardinality(F) + 1
    <3>1. PICK n \in Nat : n = Cardinality(F)
      BY <1>5
    <3>2. /\ IsFiniteSet(F \cup {e})
          /\ Cardinality(F \cup {e}) = IF e \in F THEN Cardinality(F) ELSE Cardinality(F) + 1
      BY <1>5, FS_AddElement, Zenon
    <3>. QED  BY <3>1, <3>2
  <2>3. Cardinality(G) \in Nat /\ Cardinality(G) <= Cardinality(F \cup {e})
    BY <2>1, <2>2, FS_Subset, FS_CardinalityType
  <2>4. Cardinality(F \cup {e}) \in Nat
    BY <2>2, FS_CardinalityType
  <2>. QED  BY <1>3, <1>5, <1>6, <1>7, <1>8, <2>2, <2>3, <2>4
<1>9. CASE id # r
  <2>1. G \subseteq F
    BY <1>3, <1>4, <1>9 DEF Handlers
  <2>2. Cardinality(G) \in Nat /\ Cardinality(G) <= Cardinality(F)
    BY <1>5, <2>1, FS_Subset, FS_CardinalityType
  <2>. QED  BY <1>3, <1>5, <1>6, <1>7, <1>9, <2>2
<1>. QED  BY <1>8, <1>9

\* A job that expires may have one handler more when it is fetched again.
LEMMA OverlapsAtExpiry ==
  ASSUME IInv, TableStep, UNCHANGED handling, NEW r \in DOMAIN jobs,
         overruns' = Put(overruns, r, Overruns(r) + 1),
         \A id \in DOMAIN jobs : id # r => jobs'[id] = jobs[id]
  PROVE  OverlapsNeedExpiry'
<1>1. TableOK /\ ExecutionsOK
  BY InvariantParts DEF IInv
<1>2. SUFFICES ASSUME NEW id \in DOMAIN jobs'
               PROVE  Cardinality(Handlers(id)) <= Overruns(id)' + (IF jobs'[id].state = "active" THEN 1 ELSE 0)
  BY DEF OverlapsNeedExpiry, Handlers
<1>3. PICK F : F = Handlers(id)
  OBVIOUS
<1>4. IsFiniteSet(F) /\ Cardinality(F) \in Nat /\ Overruns(id) \in Nat /\ Overruns(r) \in Nat
  BY <1>1, <1>3, HandlersFit
<1>5. Overruns(id)' = IF id = r THEN Overruns(r) + 1 ELSE Overruns(id)
  BY DEF Overruns, Put
<1>6. CASE id \notin DOMAIN jobs
  <2>1. id # 0
    BY <1>1, <1>6, TableFacts DEF TableStep
  <2>2. F = {}
    BY <1>3, <1>6, <2>1 DEF Handlers, IInv, ExecutionsKnowTheirJobs
  <2>. QED  BY <1>3, <1>4, <1>5, <1>6, <2>2, FS_EmptySet
<1>7. CASE id \in DOMAIN jobs
  <2>1. Cardinality(F) <= Overruns(id) + (IF jobs[id].state = "active" THEN 1 ELSE 0)
    BY <1>3, <1>7 DEF IInv, OverlapsNeedExpiry
  <2>. QED  BY <1>3, <1>4, <1>5, <1>7, <2>1
<1>. QED  BY <1>6, <1>7

-----------------------------------------------------------------------------
(* The steps. *)

\* The parts of the invariant.
LEMMA Assemble ==
  ASSUME TableStep, HistoryStep, ExecutionsOK', CallsOK',
         ExecutionsKnowTheirJobs', RequestsKnowTheirEntries', WorkIsAccepted',
         CompletedWorkIsDone', OverlapsNeedExpiry'
  PROVE  IInv'
<1>1. TableOK' /\ HistoryOK'
  BY DEF TableStep, HistoryStep, HistoryOK
<1>2. TypeOK' /\ DeadLettersRest'
  BY <1>1, InvariantParts DEF TypeOK, TableOK, ExecutionsOK, CallsOK, HistoryOK
<1>. QED  BY <1>2 DEF IInv

\* A step that leaves the history alone.
LEMMA HistoryStays ==
  ASSUME HistoryOK, UNCHANGED history
  PROVE  HistoryStep
BY DEF HistoryOK, HistoryStep, history

\* An execution ends.
LEMMA LeaveFits ==
  ASSUME ExecutionsOK, NEW e \in Execution, Leave(e)
  PROVE  /\ ExecutionsOK' /\ UNCHANGED overruns
         /\ handling'[e] = 0 /\ ~returned'[e]
         /\ \A f \in Execution \ {e} : handling'[f] = handling[f] /\ returned'[f] = returned[f]
<1>1. /\ handling'[e] = 0 /\ ~returned'[e]
      /\ \A f \in Execution \ {e} : handling'[f] = handling[f] /\ returned'[f] = returned[f]
  BY DEF Leave, ExecutionsOK
<1>2. ExecutionsOK' /\ UNCHANGED overruns
  BY DEF Leave, ExecutionsOK
<1>. QED  BY <1>1, <1>2

\* The driver starts in the invariant.
LEMMA InitIInv == Init => IInv
<1>. SUFFICES ASSUME Init PROVE IInv
  OBVIOUS
<1>1. DOMAIN jobs = {} /\ jobs \in [{} -> Job]
  BY DEF Init
<1>2. TypeOK
  BY <1>1 DEF Init, TypeOK, None
<1>3. \A c \in Caller : call[c].stage = "idle"
  BY DEF Init, Idle
<1>4. \A e \in Execution : handling[e] = 0 /\ ~returned[e]
  BY DEF Init, None
<1>5. accepted = {} /\ \A x \in Payload : success[x] = 0
  BY DEF Init, None
<1>6. DeadLettersRest /\ CompletedWorkIsDone
  BY <1>1 DEF DeadLettersRest, CompletedWorkIsDone
<1>7. ExecutionsKnowTheirJobs /\ OverlapsNeedExpiry
  BY <1>1, <1>4 DEF ExecutionsKnowTheirJobs, OverlapsNeedExpiry
<1>8. RequestsKnowTheirEntries
  BY <1>3 DEF RequestsKnowTheirEntries
<1>9. WorkIsAccepted
  BY <1>1, <1>5 DEF WorkIsAccepted
<1>. QED  BY <1>2, <1>6, <1>7, <1>8, <1>9 DEF IInv

\* publish() keeps the invariant.
LEMMA PublishStep ==
  ASSUME IInv, NEW q \in Queue, NEW x \in Payload, Publish(q, x)
  PROVE  IInv' /\ TableStep /\ HistoryStep
<1>1. TableOK /\ ExecutionsOK /\ CallsOK /\ HistoryOK
  BY InvariantParts DEF IInv
<1>2. /\ Sent(q, x) \in Job /\ Sent(q, x).state = "created"
      /\ Sent(q, x).payload = x /\ Sent(q, x).name.dead = FALSE
  BY JobTypes
<1>3. PICK job : job = Sent(q, x)
  OBVIOUS
<1>4. jobs' = Put(jobs, nextId, job) /\ nextId' = nextId + 1
  BY <1>3 DEF Publish
<1>5. /\ TableStep
      /\ DOMAIN jobs' = DOMAIN jobs \cup {nextId}
      /\ jobs'[nextId] = job
      /\ \A id \in DOMAIN jobs : jobs'[id] = jobs[id]
  BY <1>1, <1>2, <1>3, <1>4, PutFresh
<1>6. HistoryStep
  BY <1>1 DEF Publish, HistoryStep, HistoryOK
<1>7. UNCHANGED <<handling, returned, overruns, call, success, expired>> /\ accepted' = accepted \cup {x}
  BY DEF Publish, executions
<1>8. ExecutionsOK' /\ CallsOK'
  BY <1>1, <1>7 DEF ExecutionsOK, CallsOK
<1>9. ExecutionsKnowTheirJobs'
  BY <1>5, <1>6, <1>7, ExecutionsGoOn
<1>10. RequestsKnowTheirEntries'
  BY <1>5, <1>6, <1>7, RequestsGoOn
<1>11. WorkIsAccepted'
  BY <1>2, <1>3, <1>5, <1>6, <1>7, WorkStays
<1>12. CompletedWorkIsDone'
  BY <1>2, <1>3, <1>5, <1>6, DoneStays
<1>13. \A e \in Execution : handling[e] # 0 => handling[e] \in DOMAIN jobs
  BY DEF IInv, ExecutionsKnowTheirJobs
<1>14. OverlapsNeedExpiry'
  BY <1>5, <1>7, <1>8, <1>13, OverlapsStay
<1>. QED  BY <1>5, <1>6, <1>8, <1>9, <1>10, <1>11, <1>12, <1>14, Assemble

\* The work of an execution.
LEMMA ExecutionFacts ==
  ASSUME IInv, NEW e \in Execution, handling[e] # 0
  PROVE  /\ handling[e] \in DOMAIN jobs /\ ~jobs[handling[e]].name.dead
         /\ jobs[handling[e]].payload \in Payload
         /\ jobs[handling[e]].payload \in accepted
<1>1. handling[e] \in DOMAIN jobs /\ ~jobs[handling[e]].name.dead
  BY DEF IInv, ExecutionsKnowTheirJobs
<1>2. TableOK
  BY InvariantParts DEF IInv
<1>. QED  BY <1>1, <1>2, TableFacts DEF IInv, WorkIsAccepted

\* A worker that fetches a job keeps the invariant.
LEMMA FetchStep ==
  ASSUME IInv, NEW e \in Execution, NEW r \in DOMAIN jobs, Fetch(e, r)
  PROVE  IInv' /\ TableStep /\ HistoryStep
<1>. DEFINE count == IF jobs[r].state = "retry" THEN jobs[r].count + 1 ELSE jobs[r].count
            job == [jobs[r] EXCEPT !.state = "active", !.count = count]
<1>1. TableOK /\ ExecutionsOK /\ CallsOK /\ HistoryOK
  BY InvariantParts DEF IInv
<1>2. /\ jobs[r] \in Job /\ ~jobs[r].name.dead /\ jobs[r].state \in {"created", "retry"}
      /\ jobs[r].payload \in Payload /\ r \in Nat /\ r # 0 /\ jobs[r].count \in Nat
  BY <1>1, TableFacts DEF Fetch, Waiting
<1>3. /\ job \in Job /\ job.state = "active"
      /\ job.name = jobs[r].name /\ job.payload = jobs[r].payload
  <2>1. count \in Nat
    BY <1>2
  <2>. HIDE DEF count
  <2>. QED  BY <1>2, <2>1 DEF Job, JobState
<1>4. jobs' = [jobs EXCEPT ![r] = job] /\ nextId' = nextId
  BY <1>2 DEF Fetch, Job
<1>. HIDE DEF job
<1>5. /\ TableStep /\ DOMAIN jobs' = DOMAIN jobs
      /\ jobs'[r] = job
      /\ \A id \in DOMAIN jobs : id # r => jobs'[id] = jobs[id]
  BY <1>1, <1>2, <1>3, <1>4, ChangedOne
<1>6. UNCHANGED <<returned, overruns, call, accepted, success, asked, expired>>
  BY DEF Fetch
<1>7. invoked' \in [Payload -> Nat]
  BY <1>1, <1>2 DEF Fetch, HistoryOK
<1>8. HistoryStep
  BY <1>1, <1>6, <1>7 DEF HistoryStep, HistoryOK
<1>9. /\ handling[e] = 0 /\ handling'[e] = r
      /\ \A f \in Execution \ {e} : handling'[f] = handling[f]
      /\ handling' \in [Execution -> Nat]
  BY <1>1, <1>2 DEF Fetch, ExecutionsOK
<1>10. ExecutionsOK' /\ CallsOK'
  BY <1>1, <1>6, <1>9 DEF ExecutionsOK, CallsOK
<1>11. ~returned[e]
  BY <1>1, <1>9 DEF IInv, ExecutionsKnowTheirJobs, ExecutionsOK
<1>12. ExecutionsKnowTheirJobs'
  <2>1. ASSUME NEW f \in Execution, f # e
        PROVE  /\ handling'[f] # 0 =>
                    handling'[f] \in DOMAIN jobs' /\ ~jobs'[handling'[f]].name.dead
               /\ returned'[f] =>
                    handling'[f] # 0 /\ success'[jobs'[handling'[f]].payload] > 0
    <3>1. /\ handling[f] # 0 =>
               handling[f] \in DOMAIN jobs /\ ~jobs[handling[f]].name.dead
          /\ returned[f] =>
               handling[f] # 0 /\ success[jobs[handling[f]].payload] > 0
      BY DEF IInv, ExecutionsKnowTheirJobs
    <3>2. handling[f] # 0 =>
            /\ jobs'[handling[f]].name = jobs[handling[f]].name
            /\ jobs'[handling[f]].payload = jobs[handling[f]].payload
      BY <1>3, <1>5, <3>1
    <3>. QED  BY <1>5, <1>6, <1>9, <2>1, <3>1, <3>2
  <2>2. handling'[e] \in DOMAIN jobs' /\ ~jobs'[handling'[e]].name.dead /\ ~returned'[e]
    BY <1>2, <1>3, <1>5, <1>6, <1>9, <1>11
  <2>. QED  BY <2>1, <2>2 DEF ExecutionsKnowTheirJobs
<1>13. RequestsKnowTheirEntries'
  BY <1>5, <1>6, <1>8, RequestsGoOn
<1>14. WorkIsAccepted'
  BY <1>5, <1>6, <1>8, WorkStays
<1>15. CompletedWorkIsDone'
  BY <1>3, <1>5, <1>8, DoneStays
<1>16. OverlapsNeedExpiry'
  BY <1>2, <1>3, <1>5, <1>6, <1>9, <1>10, OverlapsAtFetch
<1>. QED  BY <1>5, <1>8, <1>10, <1>12, <1>13, <1>14, <1>15, <1>16, Assemble

\* A handler that succeeds keeps the invariant.
LEMMA SuccessStep ==
  ASSUME IInv, NEW e \in Execution, HandlerSucceeds(e)
  PROVE  IInv' /\ TableStep /\ HistoryStep
<1>1. TableOK /\ ExecutionsOK /\ CallsOK /\ HistoryOK
  BY InvariantParts DEF IInv
<1>2. /\ UNCHANGED <<jobs, nextId, handling, overruns, call, accepted, invoked, asked, expired>>
      /\ handling[e] # 0
  BY DEF HandlerSucceeds, InHandler
<1>3. PICK w \in Payload : w = jobs[handling[e]].payload /\ w \in accepted
  BY <1>2, ExecutionFacts
<1>4. success' = [success EXCEPT ![w] = @ + 1]
  BY <1>3 DEF HandlerSucceeds
<1>5. TableStep
  BY <1>1, <1>2, Unchanged
<1>6. /\ success' \in [Payload -> Nat] /\ success'[w] > 0
      /\ \A x \in Payload : success[x] <= success'[x]
      /\ \A x \in Payload \ {w} : success'[x] = success[x]
  BY <1>1, <1>4 DEF HistoryOK
<1>7. HistoryStep
  BY <1>1, <1>2, <1>6 DEF HistoryStep, HistoryOK
<1>8. /\ returned'[e]
      /\ \A f \in Execution \ {e} : returned'[f] = returned[f]
      /\ ExecutionsOK' /\ CallsOK'
  BY <1>1, <1>2 DEF HandlerSucceeds, ExecutionsOK, CallsOK
<1>9. ExecutionsKnowTheirJobs'
  <2>1. ASSUME NEW f \in Execution
        PROVE  /\ handling'[f] # 0 =>
                    handling'[f] \in DOMAIN jobs' /\ ~jobs'[handling'[f]].name.dead
               /\ returned'[f] =>
                    handling'[f] # 0 /\ success'[jobs'[handling'[f]].payload] > 0
    <3>1. handling[f] # 0 =>
            /\ handling[f] \in DOMAIN jobs /\ ~jobs[handling[f]].name.dead
            /\ jobs[handling[f]].payload \in Payload
      BY ExecutionFacts
    <3>2. returned[f] => handling[f] # 0 /\ success[jobs[handling[f]].payload] > 0
      BY DEF IInv, ExecutionsKnowTheirJobs
    <3>3. CASE f = e
      BY <1>2, <1>3, <1>6, <3>1, <3>3
    <3>4. CASE f # e
      <4>1. SUFFICES ASSUME returned[f]
                     PROVE  success'[jobs[handling[f]].payload] > 0
        BY <1>2, <1>8, <3>1, <3>2, <3>4
      <4>2. PICK x \in Payload : x = jobs[handling[f]].payload
        BY <3>1, <3>2, <4>1
      <4>3. success[x] \in Nat /\ success'[x] \in Nat /\ success[x] <= success'[x]
        BY <1>1, <1>6 DEF HistoryOK
      <4>. QED  BY <3>2, <4>1, <4>2, <4>3
    <3>. QED  BY <3>3, <3>4
  <2>. QED  BY <2>1 DEF ExecutionsKnowTheirJobs
<1>10. RequestsKnowTheirEntries'
  BY <1>2, <1>5, <1>7, RequestsGoOn
<1>11. WorkIsAccepted'
  BY <1>2, <1>3, <1>5, <1>6, <1>7, WorkStays
<1>12. CompletedWorkIsDone'
  BY <1>2, <1>5, <1>7, DoneStays
<1>13. OverlapsNeedExpiry'
  BY <1>2, <1>5, <1>8, OverlapsStay
<1>. QED  BY <1>5, <1>7, <1>8, <1>9, <1>10, <1>11, <1>12, <1>13, Assemble

\* A job that is completed after its handler returned keeps the invariant.
LEMMA CompleteStep ==
  ASSUME IInv, NEW e \in Execution, Complete(e)
  PROVE  IInv' /\ TableStep /\ HistoryStep
<1>1. TableOK /\ ExecutionsOK /\ CallsOK /\ HistoryOK
  BY InvariantParts DEF IInv
<1>2. returned[e] /\ Leave(e) /\ UNCHANGED <<call, history>>
  BY DEF Complete
<1>3. /\ handling[e] # 0 /\ success[jobs[handling[e]].payload] > 0
      /\ handling[e] \in DOMAIN jobs /\ ~jobs[handling[e]].name.dead
  BY <1>2 DEF IInv, ExecutionsKnowTheirJobs
<1>4. PICK r \in DOMAIN jobs : r = handling[e]
  BY <1>3
<1>5. CompleteAttempt(r)
  BY <1>4 DEF Complete
<1>6. /\ TableStep /\ DOMAIN jobs' = DOMAIN jobs
      /\ \A id \in DOMAIN jobs : id # r => jobs'[id] = jobs[id]
  BY <1>1, <1>3, <1>4, <1>5, CompleteAttemptFits
<1>7. HistoryStep
  BY <1>1, <1>2, HistoryStays
<1>8. /\ ExecutionsOK' /\ UNCHANGED overruns
      /\ handling'[e] = 0 /\ ~returned'[e]
      /\ \A f \in Execution \ {e} : handling'[f] = handling[f] /\ returned'[f] = returned[f]
  BY <1>1, <1>2, LeaveFits
<1>9. CallsOK' /\ UNCHANGED <<call, accepted, success, expired>>
  BY <1>1, <1>2 DEF CallsOK, history
<1>10. ExecutionsKnowTheirJobs'
  BY <1>6, <1>7, <1>8, ExecutionsGoOn
<1>11. RequestsKnowTheirEntries'
  BY <1>6, <1>7, <1>9, RequestsGoOn
<1>12. WorkIsAccepted'
  BY <1>6, <1>7, <1>9, WorkStays
<1>13. CompletedWorkIsDone'
  BY <1>3, <1>4, <1>6, <1>7, DoneStays
<1>14. OverlapsNeedExpiry'
  <2>1. \A f \in Execution : handling'[f] \in {handling[f], 0}
    BY <1>8
  <2>2. \A id \in DOMAIN jobs : jobs[id].state = "active" /\ id \in DOMAIN jobs' =>
          \/ jobs'[id].state = "active"
          \/ \E f \in Execution : handling[f] = id /\ handling'[f] = 0
    BY <1>4, <1>6, <1>8
  <2>. QED  BY <1>6, <1>8, <2>1, <2>2, OverlapsStay
<1>. QED  BY <1>6, <1>7, <1>8, <1>9, <1>10, <1>11, <1>12, <1>13, <1>14, Assemble

\* A handler that throws keeps the invariant.
LEMMA ThrowStep ==
  ASSUME IInv, NEW e \in Execution, HandlerThrows(e)
  PROVE  IInv' /\ TableStep /\ HistoryStep
<1>1. TableOK /\ ExecutionsOK /\ CallsOK /\ HistoryOK
  BY InvariantParts DEF IInv
<1>2. handling[e] # 0 /\ Leave(e) /\ UNCHANGED <<call, history>>
  BY DEF HandlerThrows, InHandler
<1>3. PICK r \in DOMAIN jobs : /\ r = handling[e] /\ ~jobs[r].name.dead
                               /\ jobs[r].payload \in accepted
  BY <1>2, ExecutionFacts
<1>4. FailAttempt(r)
  BY <1>3 DEF HandlerThrows
<1>5. /\ TableStep
      /\ DOMAIN jobs \subseteq DOMAIN jobs'
      /\ \A id \in DOMAIN jobs : id # r => jobs'[id] = jobs[id]
      /\ IF jobs[r].state = "active" THEN jobs'[r].state \in {"retry", "failed"}
                                     ELSE jobs' = jobs
      /\ \A id \in DOMAIN jobs' \ DOMAIN jobs :
           /\ jobs'[id].name.dead
           /\ jobs'[id].payload = jobs[r].payload
           /\ jobs'[id].state = "created"
  BY <1>1, <1>3, <1>4, FailAttemptFits
<1>6. HistoryStep
  BY <1>1, <1>2, HistoryStays
<1>7. /\ ExecutionsOK' /\ UNCHANGED overruns
      /\ handling'[e] = 0 /\ ~returned'[e]
      /\ \A f \in Execution \ {e} : handling'[f] = handling[f] /\ returned'[f] = returned[f]
  BY <1>1, <1>2, LeaveFits
<1>8. CallsOK' /\ UNCHANGED <<call, accepted, success, expired>>
  BY <1>1, <1>2 DEF CallsOK, history
<1>9. ExecutionsKnowTheirJobs'
  BY <1>5, <1>6, <1>7, ExecutionsGoOn
<1>10. RequestsKnowTheirEntries'
  BY <1>5, <1>6, <1>8, RequestsGoOn
<1>11. WorkIsAccepted'
  BY <1>3, <1>5, <1>6, <1>8, WorkStays
<1>12. CompletedWorkIsDone'
  BY <1>5, <1>6, DoneStays
<1>13. OverlapsNeedExpiry'
  <2>1. \A f \in Execution : handling'[f] \in {handling[f], 0}
    BY <1>7
  <2>2. \A id \in DOMAIN jobs : jobs[id].state = "active" /\ id \in DOMAIN jobs' =>
          \/ jobs'[id].state = "active"
          \/ \E f \in Execution : handling[f] = id /\ handling'[f] = 0
    BY <1>3, <1>5, <1>7
  <2>. QED  BY <1>5, <1>7, <2>1, <2>2, OverlapsStay
<1>. QED  BY <1>5, <1>6, <1>7, <1>8, <1>9, <1>10, <1>11, <1>12, <1>13, Assemble

\* A job that expires keeps the invariant.
LEMMA ExpireStep ==
  ASSUME IInv, NEW r \in DOMAIN jobs, Expire(r)
  PROVE  IInv' /\ TableStep /\ HistoryStep
<1>1. TableOK /\ ExecutionsOK /\ CallsOK /\ HistoryOK
  BY InvariantParts DEF IInv
<1>2. jobs[r].state = "active" /\ FailAttempt(r)
  BY DEF Expire
<1>3. ~jobs[r].name.dead
  BY <1>2 DEF IInv, DeadLettersRest
<1>4. PICK w \in Payload : w = jobs[r].payload /\ w \in accepted
  BY <1>1, TableFacts DEF IInv, WorkIsAccepted
<1>5. /\ TableStep
      /\ DOMAIN jobs \subseteq DOMAIN jobs'
      /\ \A id \in DOMAIN jobs : id # r => jobs'[id] = jobs[id]
      /\ IF jobs[r].state = "active" THEN jobs'[r].state \in {"retry", "failed"}
                                     ELSE jobs' = jobs
      /\ \A id \in DOMAIN jobs' \ DOMAIN jobs :
           /\ jobs'[id].name.dead
           /\ jobs'[id].payload = jobs[r].payload
           /\ jobs'[id].state = "created"
  BY <1>1, <1>2, <1>3, FailAttemptFits
<1>6. /\ UNCHANGED <<handling, returned, call, accepted, success, invoked, asked>>
      /\ expired' = [expired EXCEPT ![w] = @ + 1]
      /\ overruns' = Put(overruns, r, Overruns(r) + 1)
  BY <1>4 DEF Expire
<1>7. /\ expired' \in [Payload -> Nat] /\ expired'[w] > 0
      /\ \A x \in Payload : expired[x] <= expired'[x]
  BY <1>1, <1>6 DEF HistoryOK
<1>8. HistoryStep
  BY <1>1, <1>6, <1>7 DEF HistoryStep, HistoryOK
<1>9. ExecutionsOK' /\ CallsOK'
  <2>1. Overruns(r) + 1 \in Nat
    BY <1>1, HandlersFit
  <2>. QED  BY <1>1, <1>6, <2>1 DEF ExecutionsOK, CallsOK, Put
<1>10. ExecutionsKnowTheirJobs'
  BY <1>5, <1>6, <1>8, ExecutionsGoOn
<1>11. RequestsKnowTheirEntries'
  BY <1>5, <1>6, <1>8, RequestsGoOn
<1>12. WorkIsAccepted'
  BY <1>4, <1>5, <1>6, <1>8, WorkStays
<1>13. CompletedWorkIsDone'
  BY <1>5, <1>8, DoneStays
<1>14. OverlapsNeedExpiry'
  BY <1>5, <1>6, OverlapsAtExpiry
<1>. QED  BY <1>5, <1>8, <1>9, <1>10, <1>11, <1>12, <1>13, <1>14, Assemble

\* An execution that ends without effect keeps the invariant.
LEMMA AbandonStep ==
  ASSUME IInv, NEW e \in Execution, Abandon(e)
  PROVE  IInv' /\ TableStep /\ HistoryStep
<1>1. TableOK /\ ExecutionsOK /\ CallsOK /\ HistoryOK
  BY InvariantParts DEF IInv
<1>2. Leave(e) /\ UNCHANGED <<jobs, nextId, call, history>>
  BY DEF Abandon
<1>3. TableStep /\ HistoryStep
  BY <1>1, <1>2, Unchanged, HistoryStays
<1>4. /\ ExecutionsOK' /\ UNCHANGED overruns
      /\ handling'[e] = 0 /\ ~returned'[e]
      /\ \A f \in Execution \ {e} : handling'[f] = handling[f] /\ returned'[f] = returned[f]
  BY <1>1, <1>2, LeaveFits
<1>5. CallsOK' /\ UNCHANGED <<call, accepted, success, expired>>
  BY <1>1, <1>2 DEF CallsOK, history
<1>6. ExecutionsKnowTheirJobs'
  BY <1>3, <1>4, ExecutionsGoOn
<1>7. RequestsKnowTheirEntries'
  BY <1>3, <1>5, RequestsGoOn
<1>8. WorkIsAccepted'
  BY <1>2, <1>3, <1>5, WorkStays
<1>9. CompletedWorkIsDone'
  BY <1>2, <1>3, DoneStays
<1>10. OverlapsNeedExpiry'
  <2>1. \A f \in Execution : handling'[f] \in {handling[f], 0}
    BY <1>4
  <2>2. \A id \in DOMAIN jobs : jobs[id].state = "active" /\ id \in DOMAIN jobs' =>
          \/ jobs'[id].state = "active"
          \/ \E f \in Execution : handling[f] = id /\ handling'[f] = 0
    BY <1>2
  <2>. QED  BY <1>3, <1>4, <2>1, <2>2, OverlapsStay
<1>. QED  BY <1>3, <1>4, <1>5, <1>6, <1>7, <1>8, <1>9, <1>10, Assemble

\* The ids of a request are a sequence, and it asks for finitely many replays.
LEMMA BatchFits ==
  ASSUME IInv, NEW ids \in Batch
  PROVE  /\ ids \in Seq(Nat) /\ ids # <<>>
         /\ \A i \in DOMAIN ids : ids[i] \in DOMAIN jobs
         /\ Ask(ids) => asked' \in [Payload -> Nat]
<1>1. PICK k \in 1 .. MaxBatch : ids \in [1 .. k -> DOMAIN jobs]
  BY DEF Batch
<1>2. k \in Nat \ {0} /\ DOMAIN ids = 1 .. k
  BY <1>1, ConstantsAssumption
<1>3. DOMAIN jobs \subseteq Nat
  BY DEF IInv, TypeOK
<1>4. ids \in Seq(Nat)
  BY <1>1, <1>2, <1>3
<1>5. ids # <<>>
  BY <1>2
<1>6. IsFiniteSet(1 .. k)
  BY <1>2, FS_Interval
<1>7. ASSUME NEW x \in Payload
      PROVE  Named(ids, x) \in Nat
  <2>1. {i \in DOMAIN ids : ids[i] \in DOMAIN jobs /\ jobs[ids[i]].payload = x} \subseteq 1 .. k
    BY <1>2
  <2>. QED  BY <1>6, <2>1, FS_Subset, FS_CardinalityType DEF Named
<1>8. Ask(ids) => asked' \in [Payload -> Nat]
  <2>1. \A x \in Payload : asked[x] + Named(ids, x) \in Nat
    BY <1>7 DEF IInv, TypeOK
  <2>. QED  BY <2>1 DEF Ask
<1>. QED  BY <1>1, <1>2, <1>4, <1>5, <1>8

\* Only asked changes.
LEMMA AskedStep ==
  ASSUME HistoryOK, asked' \in [Payload -> Nat],
         UNCHANGED <<accepted, success, invoked, expired>>
  PROVE  HistoryStep
BY DEF HistoryOK, HistoryStep

\* retry() of failed jobs keeps the invariant.
LEMMA RetryStep ==
  ASSUME IInv, NEW q \in Queue, NEW ids \in Batch, RetryFailed(q, ids)
  PROVE  IInv' /\ TableStep /\ HistoryStep
<1>. DEFINE chosen == {id \in DOMAIN jobs :
                         /\ \E i \in DOMAIN ids : ids[i] = id
                         /\ jobs[id].name = [queue |-> q, dead |-> FALSE]
                         /\ jobs[id].state = "failed"}
<1>1. TableOK /\ ExecutionsOK /\ CallsOK /\ HistoryOK
  BY InvariantParts DEF IInv
<1>2. /\ jobs' = [id \in DOMAIN jobs |->
                   IF id \in chosen
                     THEN [jobs[id] EXCEPT !.state = "retry", !.limit = @ + 1]
                     ELSE jobs[id]]
      /\ UNCHANGED <<nextId, handling, returned, overruns, call, accepted, success,
                     invoked, expired>>
      /\ Ask(ids)
  BY DEF RetryFailed, executions
<1>3. /\ DOMAIN jobs' = DOMAIN jobs
      /\ \A id \in DOMAIN jobs \ chosen : jobs'[id] = jobs[id]
      /\ \A id \in chosen : jobs'[id] = [jobs[id] EXCEPT !.state = "retry", !.limit = @ + 1]
  BY <1>2
<1>4. \A id \in chosen : jobs[id].state = "failed" /\ ~jobs[id].name.dead /\ id \in DOMAIN jobs
  OBVIOUS
<1>5. jobs' = [id \in DOMAIN jobs |-> jobs'[id]]
  BY <1>2
<1>. HIDE DEF chosen
<1>6. ASSUME NEW id \in chosen
      PROVE  /\ jobs'[id] \in Job /\ jobs'[id].state = "retry"
             /\ jobs'[id].name = jobs[id].name
             /\ jobs'[id].payload = jobs[id].payload
  <2>1. jobs[id] \in Job /\ jobs[id].limit \in Nat
    BY <1>1, <1>4, TableFacts
  <2>2. PICK k : k = jobs[id].limit + 1
    OBVIOUS
  <2>3. k \in Nat
    BY <2>1, <2>2
  <2>4. jobs'[id] = [jobs[id] EXCEPT !.state = "retry", !.limit = k]
    BY <1>3, <2>1, <2>2 DEF Job
  <2>. QED  BY <2>1, <2>3, <2>4 DEF Job, JobState
<1>7. \A id \in DOMAIN jobs :
        /\ jobs'[id] \in Job
        /\ jobs'[id].name = jobs[id].name
        /\ jobs'[id].payload = jobs[id].payload
        /\ jobs[id].name.dead => jobs'[id] = jobs[id]
  BY <1>1, <1>3, <1>4, <1>6, TableFacts
<1>8. TableStep
  BY <1>1, <1>2, <1>5, <1>7, Changed
<1>9. HistoryStep
  BY <1>1, <1>2, BatchFits, AskedStep
<1>10. ExecutionsOK' /\ CallsOK'
  BY <1>1, <1>2 DEF ExecutionsOK, CallsOK
<1>11. ExecutionsKnowTheirJobs'
  BY <1>2, <1>8, <1>9, ExecutionsGoOn
<1>12. RequestsKnowTheirEntries'
  BY <1>2, <1>8, <1>9, RequestsGoOn
<1>13. WorkIsAccepted'
  BY <1>2, <1>3, <1>8, <1>9, WorkStays
<1>14. CompletedWorkIsDone'
  BY <1>3, <1>6, <1>8, <1>9, DoneStays
<1>15. OverlapsNeedExpiry'
  BY <1>2, <1>3, <1>4, <1>8, <1>10, OverlapsStay
<1>. QED  BY <1>8, <1>9, <1>10, <1>11, <1>12, <1>13, <1>14, <1>15, Assemble

\* A step of a request that changes no job: requests end, come to an entry, or
\* have read the one they came to.
LEMMA RequestMoves ==
  ASSUME IInv, HistoryStep, UNCHANGED <<jobs, nextId, executions, accepted, success, expired>>,
         CallsOK', RequestsKnowTheirEntries'
  PROVE  IInv' /\ TableStep
<1>1. TableOK /\ ExecutionsOK /\ CallsOK /\ HistoryOK
  BY InvariantParts DEF IInv
<1>2. TableStep
  BY <1>1, Unchanged
<1>3. UNCHANGED <<jobs, nextId, handling, returned, overruns, accepted, success, expired>>
  BY DEF executions
<1>4. ExecutionsOK'
  BY <1>1, <1>3 DEF ExecutionsOK
<1>5. ExecutionsKnowTheirJobs'
  BY <1>2, <1>3, ExecutionsGoOn
<1>6. WorkIsAccepted'
  BY <1>2, <1>3, WorkStays
<1>7. CompletedWorkIsDone'
  BY <1>2, <1>3, DoneStays
<1>8. OverlapsNeedExpiry'
  BY <1>2, <1>3, <1>4, OverlapsStay
<1>. QED  BY <1>2, <1>4, <1>5, <1>6, <1>7, <1>8, Assemble

\* A request for dead letters that begins keeps the invariant.
LEMMA RequestStep ==
  ASSUME IInv, NEW c \in Caller, NEW q \in Queue, NEW ids \in Batch,
         RequestReplay(c, q, ids)
  PROVE  IInv' /\ TableStep /\ HistoryStep
<1>1. TableOK /\ ExecutionsOK /\ CallsOK /\ HistoryOK
  BY InvariantParts DEF IInv
<1>2. /\ UNCHANGED <<jobs, nextId, executions, accepted, success, invoked, expired>>
      /\ Ask(ids)
      /\ call' = [call EXCEPT ![c] = ToGet(q, ids)]
  BY DEF RequestReplay
<1>3. HistoryStep
  BY <1>1, <1>2, BatchFits, AskedStep
<1>4. ids \in Seq(Nat) /\ ids # <<>>
  BY BatchFits
<1>5. Head(ids) \in Nat /\ Tail(ids) \in Seq(Nat)
  BY <1>4
<1>6. ToGet(q, ids) \in Call /\ ToGet(q, ids).stage = "get"
  BY <1>5 DEF ToGet, Call
<1>7. /\ CallsOK'
      /\ \A d \in Caller : call'[d] = call[d] \/ call'[d].stage = "get"
  BY <1>1, <1>2, <1>6 DEF CallsOK
<1>8. TableStep
  BY <1>1, <1>2, Unchanged
<1>9. RequestsKnowTheirEntries'
  BY <1>3, <1>7, <1>8, RequestsGoOn
<1>. QED  BY <1>2, <1>3, <1>7, <1>9, RequestMoves

\* The loop of a request goes on, or ends.
LEMMA TurnFits ==
  ASSUME CallsOK, NEW c \in Caller, call[c].stage \in {"get", "send", "delete"}, Turn(c)
  PROVE  /\ CallsOK'
         /\ \A d \in Caller : call'[d] = call[d] \/ call'[d].stage \in {"idle", "get"}
<1>1. call[c].todo \in Seq(Nat) /\ call[c].queue \in Queue
  BY DEF CallsOK, Call, Idle
<1>2. PICK next : next = IF call[c].todo = <<>> THEN Idle ELSE ToGet(call[c].queue, call[c].todo)
  OBVIOUS
<1>3. next \in Call \cup {Idle} /\ next.stage \in {"idle", "get"}
  <2>1. CASE call[c].todo = <<>>
    BY <1>2, <2>1 DEF Idle
  <2>2. CASE call[c].todo # <<>>
    <3>1. Head(call[c].todo) \in Nat /\ Tail(call[c].todo) \in Seq(Nat)
      BY <1>1, <2>2
    <3>. QED  BY <1>1, <1>2, <2>2, <3>1 DEF ToGet, Call
  <2>. QED  BY <2>1, <2>2
<1>4. call' = [call EXCEPT ![c] = next]
  BY <1>2 DEF Turn
<1>. QED  BY <1>3, <1>4 DEF CallsOK

\* A request that does not find its entry keeps the invariant.
LEMMA GetNothingStep ==
  ASSUME IInv, NEW c \in Caller, GetNothing(c)
  PROVE  IInv' /\ TableStep /\ HistoryStep
<1>1. TableOK /\ ExecutionsOK /\ CallsOK /\ HistoryOK
  BY InvariantParts DEF IInv
<1>2. UNCHANGED <<jobs, nextId, executions, history>>
  BY DEF GetNothing
<1>3. HistoryStep
  BY <1>1, <1>2, HistoryStays
<1>4. /\ CallsOK'
      /\ \A d \in Caller : call'[d] = call[d] \/ call'[d].stage \in {"idle", "get"}
  BY <1>1, TurnFits DEF GetNothing
<1>5. TableStep
  BY <1>1, <1>2, Unchanged
<1>6. RequestsKnowTheirEntries'
  BY <1>3, <1>4, <1>5, RequestsGoOn
<1>. QED  BY <1>2, <1>3, <1>4, <1>6, RequestMoves DEF history

\* A request that breaks off keeps the invariant.
LEMMA RequestFailsStep ==
  ASSUME IInv, NEW c \in Caller, RequestFails(c)
  PROVE  IInv' /\ TableStep /\ HistoryStep
<1>1. TableOK /\ ExecutionsOK /\ CallsOK /\ HistoryOK
  BY InvariantParts DEF IInv
<1>2. UNCHANGED <<jobs, nextId, executions, history>>
  BY DEF RequestFails
<1>3. HistoryStep
  BY <1>1, <1>2, HistoryStays
<1>4. /\ CallsOK'
      /\ \A d \in Caller : call'[d] = call[d] \/ call'[d].stage = "idle"
  BY <1>1 DEF RequestFails, CallsOK, Idle
<1>5. TableStep
  BY <1>1, <1>2, Unchanged
<1>6. RequestsKnowTheirEntries'
  BY <1>3, <1>4, <1>5, RequestsGoOn
<1>. QED  BY <1>2, <1>3, <1>4, <1>6, RequestMoves DEF history

\* The request c moves on to a call that fits the table; the others stay.
LEMMA OneRequestMoves ==
  ASSUME IInv, TableStep, HistoryStep, NEW c \in Caller, NEW k,
         call' = [call EXCEPT ![c] = k], k.entry \in Nat,
         k.payload \in accepted', k.entry < nextId',
         k.entry \in DOMAIN jobs' =>
           jobs'[k.entry].name.dead /\ jobs'[k.entry].payload = k.payload,
         k.stage = "delete" =>
           \E new \in DOMAIN jobs' : /\ new > k.entry
                                     /\ ~jobs'[new].name.dead
                                     /\ jobs'[new].payload = k.payload
  PROVE  RequestsKnowTheirEntries'
<1>1. CallsOK /\ TableOK
  BY InvariantParts DEF IInv
<1>2. call'[c] = k /\ \A d \in Caller \ {c} : call'[d] = call[d]
  BY <1>1 DEF CallsOK
<1>3. nextId \in Nat /\ nextId' \in Nat /\ nextId <= nextId'
  BY <1>1 DEF TableStep, TableOK
<1>4. ASSUME NEW d \in Caller, call'[d].stage \in {"send", "delete"}
      PROVE  /\ call'[d].payload \in accepted'
             /\ call'[d].entry < nextId'
             /\ call'[d].entry \in DOMAIN jobs' =>
                  /\ jobs'[call'[d].entry].name.dead
                  /\ jobs'[call'[d].entry].payload = call'[d].payload
             /\ call'[d].stage = "delete" =>
                  \E new \in DOMAIN jobs' : /\ new > call'[d].entry
                                            /\ ~jobs'[new].name.dead
                                            /\ jobs'[new].payload = call'[d].payload
  <2>1. CASE d = c
    BY <1>2, <1>4, <2>1
  <2>2. CASE d # c
    <3>1. PICK m : m = call[d] /\ m = call'[d]
      BY <1>2, <2>2
    <3>2. m.entry \in Nat
      BY <1>1, <1>4, <3>1 DEF CallsOK, Call, Idle
    <3>3. /\ m.payload \in accepted
          /\ m.entry < nextId
          /\ m.entry \in DOMAIN jobs =>
               jobs[m.entry].name.dead /\ jobs[m.entry].payload = m.payload
          /\ m.stage = "delete" =>
               \E new \in DOMAIN jobs : /\ new > m.entry
                                        /\ ~jobs[new].name.dead
                                        /\ jobs[new].payload = m.payload
      BY <1>4, <3>1 DEF IInv, RequestsKnowTheirEntries
    <3>4. m.payload \in accepted' /\ m.entry < nextId'
      BY <1>3, <3>2, <3>3 DEF HistoryStep
    <3>5. m.entry \in DOMAIN jobs' =>
            jobs'[m.entry].name.dead /\ jobs'[m.entry].payload = m.payload
      BY <1>3, <3>2, <3>3 DEF TableStep
    <3>6. m.stage = "delete" =>
            \E new \in DOMAIN jobs' : /\ new > m.entry
                                      /\ ~jobs'[new].name.dead
                                      /\ jobs'[new].payload = m.payload
      <4>1. SUFFICES ASSUME m.stage = "delete"
                     PROVE  \E new \in DOMAIN jobs' : /\ new > m.entry
                                                      /\ ~jobs'[new].name.dead
                                                      /\ jobs'[new].payload = m.payload
        OBVIOUS
      <4>2. PICK new \in DOMAIN jobs : /\ new > m.entry
                                       /\ ~jobs[new].name.dead
                                       /\ jobs[new].payload = m.payload
        BY <3>3, <4>1
      <4>. QED  BY <4>2 DEF TableStep
    <3>. QED  BY <3>1, <3>4, <3>5, <3>6
  <2>. QED  BY <2>1, <2>2
<1>. QED  BY <1>4 DEF RequestsKnowTheirEntries

\* Reading an entry keeps the invariant.
LEMMA GetStep ==
  ASSUME IInv, NEW c \in Caller, Get(c)
  PROVE  IInv' /\ TableStep /\ HistoryStep
<1>1. TableOK /\ ExecutionsOK /\ CallsOK /\ HistoryOK
  BY InvariantParts DEF IInv
<1>2. UNCHANGED <<jobs, nextId, executions, history>>
  BY DEF Get
<1>3. HistoryStep
  BY <1>1, <1>2, HistoryStays
<1>4. PICK k : k = [stage |-> "send", queue |-> call[c].queue, entry |-> call[c].entry,
                    todo |-> call[c].todo, payload |-> jobs[call[c].entry].payload]
  OBVIOUS
<1>5. call' = [call EXCEPT ![c] = k]
  BY <1>4 DEF Get
<1>6. PICK r \in DOMAIN jobs : r = call[c].entry /\ jobs[r].name.dead
  BY DEF Get
<1>7. /\ r \in Nat /\ r < nextId
      /\ jobs[r].payload \in Payload /\ jobs[r].payload \in accepted
  BY <1>1, <1>6, TableFacts DEF IInv, WorkIsAccepted
<1>8. call[c].todo \in Seq(Nat) /\ call[c].queue \in Queue
  BY <1>1 DEF Get, CallsOK, Call, Idle
<1>9. k \in Call /\ k.stage = "send" /\ k.entry = r /\ k.payload = jobs[r].payload
  BY <1>4, <1>6, <1>7, <1>8 DEF Call
<1>10. CallsOK'
  BY <1>1, <1>5, <1>9 DEF CallsOK
<1>11. TableStep
  BY <1>1, <1>2, Unchanged
<1>12. RequestsKnowTheirEntries'
  BY <1>2, <1>3, <1>5, <1>6, <1>7, <1>9, <1>11, OneRequestMoves DEF history
<1>. QED  BY <1>2, <1>3, <1>10, <1>12, RequestMoves DEF history

\* Sending the work of an entry anew keeps the invariant.
LEMMA SendStep ==
  ASSUME IInv, NEW c \in Caller, Send(c)
  PROVE  IInv' /\ TableStep /\ HistoryStep
<1>1. TableOK /\ ExecutionsOK /\ CallsOK /\ HistoryOK
  BY InvariantParts DEF IInv
<1>2. UNCHANGED <<executions, history>> /\ call[c].stage = "send"
  BY DEF Send
<1>3. HistoryStep
  BY <1>1, <1>2, HistoryStays
<1>4. PICK k : k = call[c]
  OBVIOUS
<1>5. /\ k \in Call /\ k.stage = "send" /\ k.entry \in Nat /\ k.todo \in Seq(Nat)
      /\ k.queue \in Queue /\ k.payload \in Payload
  BY <1>1, <1>2, <1>4 DEF CallsOK, Call, Idle
<1>6. /\ k.payload \in accepted /\ k.entry < nextId
      /\ k.entry \in DOMAIN jobs =>
           jobs[k.entry].name.dead /\ jobs[k.entry].payload = k.payload
  BY <1>4, <1>5 DEF IInv, RequestsKnowTheirEntries
<1>7. PICK job : job = Sent(k.queue, k.payload)
  OBVIOUS
<1>8. /\ job \in Job /\ job.state = "created"
      /\ job.payload = k.payload /\ job.name.dead = FALSE
  BY <1>5, <1>7, JobTypes
<1>9. jobs' = Put(jobs, nextId, job) /\ nextId' = nextId + 1
  BY <1>4, <1>7 DEF Send
<1>10. /\ TableStep
       /\ DOMAIN jobs' = DOMAIN jobs \cup {nextId}
       /\ jobs'[nextId] = job
       /\ \A id \in DOMAIN jobs : jobs'[id] = jobs[id]
  BY <1>1, <1>8, <1>9, PutFresh
<1>11. PICK m : m = [k EXCEPT !.stage = "delete"]
  OBVIOUS
<1>12. call' = [call EXCEPT ![c] = m]
  BY <1>1, <1>4, <1>11 DEF Send, CallsOK
<1>13. m \in Call /\ m.stage = "delete" /\ m.entry = k.entry /\ m.payload = k.payload
  BY <1>5, <1>11 DEF Call
<1>14. nextId \in Nat /\ nextId \notin DOMAIN jobs /\ nextId' \in Nat
  BY <1>1, <1>9, TableFacts
<1>15. UNCHANGED <<handling, returned, overruns, accepted, success, expired>>
  BY <1>2 DEF executions, history
<1>16. ExecutionsOK' /\ CallsOK'
  BY <1>1, <1>12, <1>13, <1>15 DEF ExecutionsOK, CallsOK
<1>17. ExecutionsKnowTheirJobs'
  BY <1>3, <1>10, <1>15, ExecutionsGoOn
<1>18. RequestsKnowTheirEntries'
  <2>1. m.entry < nextId' /\ m.entry # nextId /\ m.entry \in Nat
    BY <1>5, <1>6, <1>9, <1>13, <1>14
  <2>2. m.entry \in DOMAIN jobs' =>
          jobs'[m.entry].name.dead /\ jobs'[m.entry].payload = m.payload
    BY <1>6, <1>10, <1>13, <2>1
  <2>3. \E new \in DOMAIN jobs' : /\ new > m.entry
                                  /\ ~jobs'[new].name.dead
                                  /\ jobs'[new].payload = m.payload
    BY <1>5, <1>6, <1>8, <1>10, <1>13, <1>14
  <2>. QED  BY <1>3, <1>6, <1>10, <1>12, <1>13, <1>15, <2>1, <2>2, <2>3, OneRequestMoves
<1>19. WorkIsAccepted'
  BY <1>3, <1>6, <1>8, <1>10, <1>15, WorkStays
<1>20. CompletedWorkIsDone'
  BY <1>3, <1>8, <1>10, DoneStays
<1>21. OverlapsNeedExpiry'
  BY <1>10, <1>15, <1>16, OverlapsStay
<1>. QED  BY <1>3, <1>10, <1>16, <1>17, <1>18, <1>19, <1>20, <1>21, Assemble

\* Deleting the entry keeps the invariant.
LEMMA DeleteStep ==
  ASSUME IInv, NEW c \in Caller, DeleteEntry(c)
  PROVE  IInv' /\ TableStep /\ HistoryStep
<1>1. TableOK /\ ExecutionsOK /\ CallsOK /\ HistoryOK
  BY InvariantParts DEF IInv
<1>2. /\ UNCHANGED <<nextId, executions, history>>
      /\ call[c].stage = "delete" /\ Turn(c)
  BY DEF DeleteEntry
<1>3. HistoryStep
  BY <1>1, <1>2, HistoryStays
<1>4. PICK r : r = call[c].entry
  OBVIOUS
<1>5. r \in DOMAIN jobs => jobs[r].name.dead
  BY <1>2, <1>4 DEF IInv, RequestsKnowTheirEntries
<1>6. jobs' = Without(jobs, r) /\ nextId' = nextId
  BY <1>4 DEF DeleteEntry
<1>7. /\ TableStep
      /\ DOMAIN jobs' = DOMAIN jobs \ {r}
      /\ \A id \in DOMAIN jobs' : jobs'[id] = jobs[id]
  BY <1>1, <1>5, <1>6, WithoutFits
<1>8. /\ CallsOK'
      /\ \A d \in Caller : call'[d] = call[d] \/ call'[d].stage \in {"idle", "get"}
  BY <1>1, <1>2, TurnFits
<1>9. UNCHANGED <<handling, returned, overruns, accepted, success, expired>>
  BY <1>2 DEF executions, history
<1>10. ExecutionsOK'
  BY <1>1, <1>9 DEF ExecutionsOK
<1>11. ExecutionsKnowTheirJobs'
  BY <1>3, <1>7, <1>9, ExecutionsGoOn
<1>12. RequestsKnowTheirEntries'
  BY <1>3, <1>7, <1>8, RequestsGoOn
<1>13. WorkIsAccepted'
  BY <1>3, <1>7, <1>9, WorkStays
<1>14. CompletedWorkIsDone'
  BY <1>3, <1>7, DoneStays
<1>15. OverlapsNeedExpiry'
  BY <1>5, <1>7, <1>9, <1>10, OverlapsStay
<1>. QED  BY <1>3, <1>7, <1>8, <1>10, <1>11, <1>12, <1>13, <1>14, <1>15, Assemble

\* Every step of the driver keeps the invariant.
LEMMA StepIInv == IInv /\ [Next]_vars => IInv' /\ TableStep /\ HistoryStep
<1>. SUFFICES ASSUME IInv, [Next]_vars PROVE IInv' /\ TableStep /\ HistoryStep
  OBVIOUS
<1>1. CASE Next
  <2>1. ASSUME NEW e \in Execution,
               \/ \E id \in DOMAIN jobs : Fetch(e, id)
               \/ HandlerSucceeds(e)
               \/ Complete(e)
               \/ HandlerThrows(e)
               \/ Abandon(e)
        PROVE  IInv' /\ TableStep /\ HistoryStep
    BY <2>1, FetchStep, SuccessStep, CompleteStep, ThrowStep, AbandonStep
  <2>2. ASSUME NEW c \in Caller,
               \/ \E q \in Queue, ids \in Batch : RequestReplay(c, q, ids)
               \/ GetNothing(c)
               \/ Get(c)
               \/ Send(c)
               \/ DeleteEntry(c)
               \/ RequestFails(c)
        PROVE  IInv' /\ TableStep /\ HistoryStep
    BY <2>2, RequestStep, GetNothingStep, GetStep, SendStep, DeleteStep, RequestFailsStep
  <2>. QED  BY <1>1, <2>1, <2>2, PublishStep, ExpireStep, RetryStep DEF Next
<1>2. CASE UNCHANGED vars
  <2>1. TableOK /\ ExecutionsOK /\ CallsOK /\ HistoryOK
    BY InvariantParts DEF IInv
  <2>2. UNCHANGED <<jobs, nextId, executions, call, accepted, success, expired>> /\ UNCHANGED history
    BY <1>2 DEF vars, executions, history
  <2>3. TableStep /\ HistoryStep
    BY <2>1, <2>2, Unchanged, HistoryStays
  <2>4. CallsOK' /\ RequestsKnowTheirEntries'
    BY <2>1, <2>2, <2>3, RequestsGoOn DEF CallsOK
  <2>. QED  BY <2>2, <2>3, <2>4, RequestMoves
<1>. QED  BY <1>1, <1>2

\* The invariant holds in every state the driver reaches.
LEMMA Invariance == Spec => []IInv
<1>. QED  BY InitIInv, StepIInv, PTL DEF Spec

-----------------------------------------------------------------------------
(* The promise of WorkQueue. *)

\* Accepted work that is not done waits, is being executed, or is listed.
LEMMA NothingIsLost == IInv => NoSilentLoss
<1>. SUFFICES ASSUME IInv, NEW x \in accepted, success[x] = 0
              PROVE  \E id \in DOMAIN jobs :
                       /\ jobs[id].payload = x
                       /\ Waiting(jobs[id]) \/ jobs[id].state = "active" \/ Listed(jobs[id])
  BY DEF NoSilentLoss
<1>1. PICK id \in DOMAIN jobs : ~jobs[id].name.dead /\ jobs[id].payload = x
  BY DEF IInv, WorkIsAccepted
<1>2. jobs[id] \in Job
  BY DEF IInv, TypeOK
<1>3. jobs[id].state \in {"created", "retry", "active", "failed"}
  <2>1. jobs[id].state # "completed"
    BY <1>1 DEF IInv, CompletedWorkIsDone
  <2>. QED  BY <1>2, <2>1 DEF Job, JobState
<1>. QED  BY <1>1, <1>3 DEF Waiting, Listed

\* What the status of a piece of work says.
StatusOK ==
  \A x \in Payload :
    /\ x \notin accepted => StatusOf(x) = "new"
    /\ x \in accepted => StatusOf(x) \in {"pending", "listed", "done"}
    /\ success[x] > 0 <=> StatusOf(x) = "done"

\* No work is lost, and none is done before it is accepted.
LEMMA StatusFacts == IInv => StatusOK
<1>. SUFFICES ASSUME IInv PROVE StatusOK
  OBVIOUS
<1>1. ASSUME NEW x \in Payload
      PROVE  /\ x \notin accepted => StatusOf(x) = "new"
             /\ x \in accepted => StatusOf(x) \in {"pending", "listed", "done"}
             /\ success[x] > 0 <=> StatusOf(x) = "done"
  <2>1. success[x] \in Nat
    BY DEF IInv, TypeOK
  <2>2. success[x] > 0 => x \in accepted
    BY DEF IInv, WorkIsAccepted
  <2>3. x \in accepted /\ success[x] = 0 =>
          \E id \in DOMAIN jobs :
            /\ jobs[id].payload = x
            /\ Waiting(jobs[id]) \/ jobs[id].state = "active" \/ Listed(jobs[id])
    BY NothingIsLost DEF NoSilentLoss
  <2>. QED  BY <2>1, <2>2, <2>3 DEF StatusOf
<1>. QED  BY <1>1 DEF StatusOK

\* Work is accepted when it is published, and is pending then.
LEMMA NewWork ==
  ASSUME IInv, [Next]_vars
  PROVE  \A x \in accepted' \ accepted : StatusOf(x)' = "pending"
<1>1. CASE accepted' = accepted
  BY <1>1
<1>2. ASSUME NEW q \in Queue, NEW x \in Payload, Publish(q, x)
      PROVE  \A y \in accepted' \ accepted : StatusOf(y)' = "pending"
  <2>1. /\ accepted' = accepted \cup {x} /\ x \notin accepted
        /\ success' = success
        /\ jobs' = Put(jobs, nextId, Sent(q, x))
    BY <1>2 DEF Publish
  <2>2. ~(success[x] > 0)
    BY <2>1 DEF IInv, WorkIsAccepted
  <2>3. /\ nextId \in DOMAIN jobs' /\ jobs'[nextId] = Sent(q, x)
    BY <2>1 DEF Put
  <2>4. /\ jobs'[nextId].state = "created" /\ jobs'[nextId].payload = x
        /\ ~jobs'[nextId].name.dead
    BY <2>3, JobTypes
  <2>5. StatusOf(x)' = "pending"
    BY <2>1, <2>2, <2>3, <2>4 DEF StatusOf, Waiting
  <2>. QED  BY <2>1, <2>5
<1>3. \/ accepted' = accepted
      \/ \E q \in Queue, x \in Payload : Publish(q, x)
  BY DEF Next, vars, history, executions, Fetch, HandlerSucceeds, Complete, HandlerThrows,
         Abandon, Expire, RetryFailed, RequestReplay, GetNothing, Get, Send, DeleteEntry,
         RequestFails
<1>. QED  BY <1>1, <1>2, <1>3

\* Every step of the driver is one of WorkQueue, or none.
LEMMA StepOfWork ==
  ASSUME IInv, [Next]_vars
  PROVE  [Work!Next]_([x \in Payload |-> StatusOf(x)])
<1>1. IInv' /\ HistoryStep
  BY StepIInv
<1>2. \A x \in Payload :
        /\ x \notin accepted => StatusOf(x) = "new"
        /\ x \in accepted => StatusOf(x) \in {"pending", "listed", "done"}
        /\ success[x] > 0 <=> StatusOf(x) = "done"
  BY StatusFacts DEF StatusOK
<1>3. \A x \in Payload :
        /\ x \notin accepted' => StatusOf(x)' = "new"
        /\ x \in accepted' => StatusOf(x)' \in {"pending", "listed", "done"}
        /\ success'[x] > 0 <=> StatusOf(x)' = "done"
  <2>1. IInv' => StatusOK'
    BY StatusFacts, PTL
  <2>. QED  BY <1>1, <2>1 DEF StatusOK
<1>4. \A x \in accepted' \ accepted : StatusOf(x)' = "pending"
  BY NewWork
<1>5. \A x \in Payload : success[x] \in Nat /\ success'[x] \in Nat /\ success[x] <= success'[x]
  BY <1>1 DEF IInv, TypeOK, HistoryStep
<1>. DEFINE old == [x \in Payload |-> StatusOf(x)]
            new == [x \in Payload |-> StatusOf(x)']
<1>6. ASSUME NEW x \in Payload
      PROVE  new[x] \in Work!Status /\ (new[x] # old[x] => <<old[x], new[x]>> \in Work!Move)
  <2>1. old[x] = StatusOf(x) /\ new[x] = StatusOf(x)'
    OBVIOUS
  <2>2. accepted \subseteq accepted'
    BY <1>1 DEF HistoryStep
  <2>3. StatusOf(x) = "done" => StatusOf(x)' = "done"
    BY <1>2, <1>3, <1>5
  <2>. HIDE DEF old, new
  <2>4. CASE x \in accepted
    <3>1. old[x] \in {"pending", "listed", "done"} /\ new[x] \in {"pending", "listed", "done"}
      BY <1>2, <1>3, <2>1, <2>2, <2>4
    <3>2. old[x] = "done" => new[x] = "done"
      BY <2>1, <2>3
    <3>. QED  BY <3>1, <3>2 DEF Work!Status, Work!Move
  <2>5. CASE x \notin accepted /\ x \in accepted'
    <3>1. old[x] = "new" /\ new[x] = "pending"
      BY <1>2, <1>4, <2>1, <2>5
    <3>. QED  BY <3>1 DEF Work!Status, Work!Move
  <2>6. CASE x \notin accepted'
    <3>1. old[x] = "new" /\ new[x] = "new"
      BY <1>2, <1>3, <2>1, <2>2, <2>6
    <3>. QED  BY <3>1 DEF Work!Status
  <2>. QED  BY <2>4, <2>5, <2>6
<1>7. new \in [Payload -> Work!Status]
  BY <1>6
<1>8. \E S \in SUBSET Payload :
        /\ new \in [Payload -> Work!Status]
        /\ \A x \in S : <<old[x], new[x]>> \in Work!Move
        /\ \A x \in Payload \ S : new[x] = old[x]
  <2>1. {x \in Payload : new[x] # old[x]} \in SUBSET Payload
    OBVIOUS
  <2>. HIDE DEF old, new
  <2>. QED  BY <1>6, <1>7, <2>1
<1>9. Work!Next
  BY <1>8 DEF Work!Next
<1>. QED  BY <1>9

\* The driver starts as WorkQueue does.
LEMMA InitOfWork == Init => Work!Init
<1>. SUFFICES ASSUME Init PROVE Work!Init
  OBVIOUS
<1>1. accepted = {} /\ \A x \in Payload : success[x] = 0
  BY DEF Init, None
<1>. QED  BY <1>1 DEF Work!Init, StatusOf

-----------------------------------------------------------------------------
(* What a piece of work may still cost.  A token stands for each further    *)
(* attempt of a job, and one for each handler in progress or still to be    *)
(* called; a plan stands for each position of a request that is still to be *)
(* looked at and names a job of the work.  Positions count from the end of  *)
(* the request: they stay the same while the loop of retry() goes on.       *)

\* The attempts a job still has, by their counts.
AttemptsLeft(job) ==
  IF job.name.dead THEN {}
  ELSE IF job.state = "created" THEN job.count .. job.limit
  ELSE IF job.state \in {"retry", "active"} THEN (job.count + 1) .. job.limit
  ELSE {}

JobsOf(js, x) == {id \in DOMAIN js : js[id].payload = x}

Attempts(js, x) == UNION {{id} \X AttemptsLeft(js[id]) : id \in JobsOf(js, x)}

\* The handlers of x in progress, and the jobs that wait for one.
Runs(js, run, ret, x) ==
  {<<"execution", e>> : e \in {e \in Execution : run[e] # 0 /\ ~ret[e] /\ js[run[e]].payload = x}}
    \cup {<<"job", id>> : id \in {id \in JobsOf(js, x) : Waiting(js[id])}}

Names(js, id, x) == id \in DOMAIN js /\ js[id].payload = x

\* The call of pg-boss that comes next is on the way to send x anew.
Fronts(js, k, x) ==
  \/ k.stage = "get" /\ Names(js, k.entry, x)
  \/ k.stage = "send" /\ k.payload = x

\* The positions of the ids that name a job of x.
Wanted(js, ids, x) == {i \in 1 .. Len(ids) : Names(js, ids[Len(ids) + 1 - i], x)}

\* The positions of a request that are still to be replayed for x.
Owed(js, k, x) ==
  IF k.stage = "idle" THEN {}
  ELSE Wanted(js, k.todo, x) \cup (IF Fronts(js, k, x) THEN {Len(k.todo) + 1} ELSE {})

Planned(js, calls, x) == UNION {{c} \X Owed(js, calls[c], x) : c \in Caller}

\* Handler calls with attempts left to come, and successes with handlers to
\* come, stay within what was asked for of work of the queue q; each plan is
\* worth all the attempts of one job, and each expiry another success.
Paid(inv, suc, ask, exp, attempts, runs, plans, q) ==
  /\ Covered(inv, attempts, plans, RetryLimit[q] + 1, (1 + ask) * (RetryLimit[q] + 1))
  /\ Covered(suc, runs, plans, 1, 1 + ask + exp)

\* The jobs of x, and those still to be sent, are of the queue q.
OneQueue(js, calls, x, q) ==
  /\ \A id \in DOMAIN js : js[id].payload = x => js[id].name.queue = q
  /\ \A c \in Caller : calls[c].stage = "send" /\ calls[c].payload = x => calls[c].queue = q

\* The work x of the queue q is within its budget.
Budgeted(x, q) ==
  /\ OneQueue(jobs, call, x, q)
  /\ Paid(invoked[x], success[x], asked[x], expired[x],
          Attempts(jobs, x), Runs(jobs, handling, returned, x), Planned(jobs, call, x), q)

\* The count of a job of a primary queue fits its state.
JobFits(job) ==
  ~job.name.dead =>
    /\ job.state = "created" => job.count = 0
    /\ job.state = "retry" => job.count < job.limit
    /\ job.state = "active" => job.count <= job.limit
    /\ job.state = "failed" => job.count = job.limit

JobsFit == \A id \in DOMAIN jobs : JobFits(jobs[id])

\* Requests name ids that were given out.
Known(k, id) == k.stage # "idle" => k.entry < id /\ \A i \in DOMAIN k.todo : k.todo[i] < id

KnownIds == \A c \in Caller : Known(call[c], nextId)

BudgetInv ==
  /\ KnownIds
  /\ JobsFit
  /\ \A x \in Payload \ accepted : invoked[x] = 0
  /\ \A x \in accepted : \E q \in Queue : Budgeted(x, q)

-----------------------------------------------------------------------------
(* The two accounts of a piece of work. *)

\* The numbers of a budget.
LEMMA BudgetTypes ==
  ASSUME NEW q \in Queue, NEW ask \in Nat, NEW exp \in Nat
  PROVE  /\ RetryLimit[q] \in Nat
         /\ RetryLimit[q] + 1 \in Nat
         /\ 1 + ask + exp \in Nat
         /\ (1 + ask) * (RetryLimit[q] + 1) \in Nat
<1>1. RetryLimit[q] \in Nat
  BY ConstantsAssumption
<1>. QED  BY <1>1

\* Dropping what is to come.
LEMMA PaidDrop ==
  ASSUME NEW q \in Queue, NEW inv \in Nat, NEW suc \in Nat, NEW ask \in Nat, NEW exp \in Nat,
         NEW A, NEW R, NEW P, Paid(inv, suc, ask, exp, A, R, P, q),
         NEW B, B \subseteq A, NEW S, S \subseteq R, NEW O, O \subseteq P
  PROVE  Paid(inv, suc, ask, exp, B, S, O, q)
<1>1. PICK m \in Nat, a \in Nat, b \in Nat :
        m = RetryLimit[q] + 1 /\ b = 1 + ask + exp /\ a = (1 + ask) * (RetryLimit[q] + 1)
  BY BudgetTypes
<1>2. Covered(inv, A, P, m, a) /\ Covered(suc, R, P, 1, b)
  BY <1>1 DEF Paid
<1>3. Covered(inv, B, O, m, a)
  BY <1>2, CoveredDrop
<1>4. Covered(suc, S, O, 1, b)
  BY <1>2, CoveredDrop
<1>. QED  BY <1>1, <1>3, <1>4 DEF Paid

\* In S the token v has taken the place of the token u of R.
Exchanged(S, R, u, v) == u \in R /\ S \subseteq (R \ {u}) \cup {v}

\* A handler is called: an attempt is made, and the job that waited is run.
LEMMA PaidCall ==
  ASSUME NEW q \in Queue, NEW inv \in Nat, NEW suc \in Nat, NEW ask \in Nat, NEW exp \in Nat,
         NEW A, NEW R, NEW P, Paid(inv, suc, ask, exp, A, R, P, q),
         NEW t \in A, NEW B, B \subseteq A \ {t},
         NEW u, NEW v, NEW S, Exchanged(S, R, u, v),
         NEW O, O \subseteq P
  PROVE  Paid(inv + 1, suc, ask, exp, B, S, O, q)
<1>1. PICK m \in Nat, a \in Nat, b \in Nat :
        m = RetryLimit[q] + 1 /\ b = 1 + ask + exp /\ a = (1 + ask) * (RetryLimit[q] + 1)
  BY BudgetTypes
<1>2. Covered(inv, A, P, m, a) /\ Covered(suc, R, P, 1, b)
  BY <1>1 DEF Paid
<1>3. Covered(inv + 1, B, O, m, a)
  BY <1>2, CoveredSpend
<1>4. Covered(suc, S, O, 1, b)
  BY <1>2, CoveredSwap DEF Exchanged
<1>. QED  BY <1>1, <1>3, <1>4 DEF Paid

\* A handler succeeds.
LEMMA PaidSuccess ==
  ASSUME NEW q \in Queue, NEW inv \in Nat, NEW suc \in Nat, NEW ask \in Nat, NEW exp \in Nat,
         NEW A, NEW R, NEW P, Paid(inv, suc, ask, exp, A, R, P, q),
         NEW B, B \subseteq A, NEW u \in R, NEW S, S \subseteq R \ {u},
         NEW O, O \subseteq P
  PROVE  Paid(inv, suc + 1, ask, exp, B, S, O, q)
<1>1. PICK m \in Nat, a \in Nat, b \in Nat :
        m = RetryLimit[q] + 1 /\ b = 1 + ask + exp /\ a = (1 + ask) * (RetryLimit[q] + 1)
  BY BudgetTypes
<1>2. Covered(inv, A, P, m, a) /\ Covered(suc, R, P, 1, b)
  BY <1>1 DEF Paid
<1>3. Covered(inv, B, O, m, a)
  BY <1>2, CoveredDrop
<1>4. Covered(suc + 1, S, O, 1, b)
  BY <1>2, CoveredSpend
<1>. QED  BY <1>1, <1>3, <1>4 DEF Paid

\* A handler throws, and its job waits for the next one.
LEMMA PaidThrow ==
  ASSUME NEW q \in Queue, NEW inv \in Nat, NEW suc \in Nat, NEW ask \in Nat, NEW exp \in Nat,
         NEW A, NEW R, NEW P, Paid(inv, suc, ask, exp, A, R, P, q),
         NEW B, B \subseteq A, NEW u, NEW v, NEW S, Exchanged(S, R, u, v),
         NEW O, O \subseteq P
  PROVE  Paid(inv, suc, ask, exp, B, S, O, q)
<1>1. PICK m \in Nat, a \in Nat, b \in Nat :
        m = RetryLimit[q] + 1 /\ b = 1 + ask + exp /\ a = (1 + ask) * (RetryLimit[q] + 1)
  BY BudgetTypes
<1>2. Covered(inv, A, P, m, a) /\ Covered(suc, R, P, 1, b)
  BY <1>1 DEF Paid
<1>3. Covered(inv, B, O, m, a)
  BY <1>2, CoveredDrop
<1>4. Covered(suc, S, O, 1, b)
  BY <1>2, CoveredSwap DEF Exchanged
<1>. QED  BY <1>1, <1>3, <1>4 DEF Paid

\* The time of an attempt is up: the job waits although its handler runs.
LEMMA PaidExpiry ==
  ASSUME NEW q \in Queue, NEW inv \in Nat, NEW suc \in Nat, NEW ask \in Nat, NEW exp \in Nat,
         NEW A, NEW R, NEW P, Paid(inv, suc, ask, exp, A, R, P, q),
         NEW B, B \subseteq A, NEW v, NEW S, S \subseteq R \cup {v},
         NEW O, O \subseteq P
  PROVE  Paid(inv, suc, ask, exp + 1, B, S, O, q)
<1>1. PICK m \in Nat, a \in Nat, b \in Nat :
        m = RetryLimit[q] + 1 /\ b = 1 + ask + exp /\ a = (1 + ask) * (RetryLimit[q] + 1)
  BY BudgetTypes
<1>2. Covered(inv, A, P, m, a) /\ Covered(suc, R, P, 1, b)
  BY <1>1 DEF Paid
<1>3. Covered(inv, B, O, m, a)
  BY <1>2, CoveredDrop
<1>4. PICK b2 \in Nat : b2 = b + 1 /\ b2 = 1 + ask + (exp + 1)
  BY <1>1
<1>5. PICK C : C = {v} /\ IsFiniteSet(C) /\ Cardinality(C) = 1
  BY FS_Singleton
<1>6. S \subseteq R \cup C /\ b + Cardinality(C) <= b2
  BY <1>4, <1>5
<1>7. Covered(suc, S, O, 1, b2)
  BY <1>2, <1>5, <1>6, CoveredGrow
<1>. QED  BY <1>1, <1>3, <1>4, <1>7 DEF Paid

\* What n replays add to the allowances.
LEMMA MoreAsked ==
  ASSUME NEW m \in Nat, NEW ask \in Nat, NEW exp \in Nat, NEW n \in Nat,
         NEW k \in Nat, k <= n
  PROVE  /\ (1 + ask) * m + m * k <= (1 + (ask + n)) * m
         /\ 1 + ask + exp + 1 * k <= 1 + (ask + n) + exp
         /\ m >= 1 => (1 + ask) * m + k <= (1 + (ask + n)) * m
         /\ (1 + ask) * m \in Nat /\ (1 + (ask + n)) * m \in Nat
<1>1. (1 + (ask + n)) * m = (1 + ask) * m + m * n
  OBVIOUS
<1>2. m * k \in Nat /\ m * n \in Nat /\ m * k <= m * n
  BY WorthOfFewer
<1>3. m >= 1 => k <= m * k
  <2>1. ASSUME m >= 1 PROVE k <= m * k
    <3>1. k * 1 <= k * m
      BY <2>1, WorthOfFewer
    <3>2. k * m = m * k
      OBVIOUS
    <3>. QED  BY <3>1, <3>2
  <2>. QED  BY <2>1
<1>4. (1 + ask) * m \in Nat /\ (1 + (ask + n)) * m \in Nat
  OBVIOUS
<1>5. PICK u \in Nat, v \in Nat, w \in Nat, z \in Nat :
        u = m * k /\ v = m * n /\ w = (1 + ask) * m /\ z = (1 + (ask + n)) * m
  BY <1>2, <1>4
<1>6. w + u <= z /\ (m >= 1 => w + k <= z)
  BY <1>1, <1>2, <1>3, <1>5
<1>7. 1 + ask + exp + 1 * k <= 1 + (ask + n) + exp
  OBVIOUS
<1>. QED  BY <1>4, <1>5, <1>6, <1>7

\* Failed jobs are retried: each of the chosen ones gets an attempt.
LEMMA PaidRetry ==
  ASSUME NEW q \in Queue, NEW inv \in Nat, NEW suc \in Nat, NEW ask \in Nat, NEW exp \in Nat,
         NEW A, NEW R, NEW P, Paid(inv, suc, ask, exp, A, R, P, q),
         NEW n \in Nat, NEW C, IsFiniteSet(C), Cardinality(C) <= n,
         NEW D, IsFiniteSet(D), Cardinality(D) <= n,
         NEW B, B \subseteq A \cup C, NEW S, S \subseteq R \cup D, NEW O, O \subseteq P
  PROVE  Paid(inv, suc, ask + n, exp, B, S, O, q)
<1>1. PICK m \in Nat : m = RetryLimit[q] + 1 /\ m >= 1
  BY ConstantsAssumption
<1>2. Cardinality(C) \in Nat /\ Cardinality(D) \in Nat
  BY FS_CardinalityType
<1>3. PICK a \in Nat, b \in Nat, a2 \in Nat, b2 \in Nat :
        /\ a = (1 + ask) * m /\ b = 1 + ask + exp
        /\ a2 = (1 + (ask + n)) * m /\ b2 = 1 + (ask + n) + exp
        /\ a + n <= a2 /\ b + 1 * n <= b2
  <2>1. n <= n
    OBVIOUS
  <2>2. /\ 1 + ask + exp + 1 * n <= 1 + (ask + n) + exp
        /\ (1 + ask) * m + n <= (1 + (ask + n)) * m
        /\ (1 + ask) * m \in Nat /\ (1 + (ask + n)) * m \in Nat
    BY <1>1, <2>1, MoreAsked
  <2>. QED  BY <2>2
<1>4. Covered(inv, A, P, m, a) /\ Covered(suc, R, P, 1, b)
  BY <1>1, <1>3 DEF Paid
<1>5. a + Cardinality(C) <= a2 /\ b + Cardinality(D) <= b2
  BY <1>2, <1>3
<1>6. Covered(inv, B, O, m, a2)
  BY <1>3, <1>4, <1>5, CoveredGrow
<1>7. Covered(suc, S, O, 1, b2)
  BY <1>3, <1>4, <1>5, CoveredGrow
<1>. QED  BY <1>1, <1>3, <1>6, <1>7 DEF Paid

\* Dead letters are to be replayed: the request plans it.
LEMMA PaidPlan ==
  ASSUME NEW q \in Queue, NEW inv \in Nat, NEW suc \in Nat, NEW ask \in Nat, NEW exp \in Nat,
         NEW A, NEW R, NEW P, Paid(inv, suc, ask, exp, A, R, P, q),
         NEW n \in Nat, NEW C, IsFiniteSet(C), Cardinality(C) <= n,
         NEW O, O \subseteq P \cup C
  PROVE  Paid(inv, suc, ask + n, exp, A, R, O, q)
<1>1. PICK m \in Nat : m = RetryLimit[q] + 1
  BY BudgetTypes
<1>2. PICK k \in Nat : k = Cardinality(C) /\ k <= n
  BY FS_CardinalityType
<1>3. PICK a \in Nat, b \in Nat, a2 \in Nat, b2 \in Nat :
        /\ a = (1 + ask) * m /\ b = 1 + ask + exp
        /\ a2 = (1 + (ask + n)) * m /\ b2 = 1 + (ask + n) + exp
        /\ a + m * k <= a2 /\ b + 1 * k <= b2
  <2>1. /\ 1 + ask + exp + 1 * k <= 1 + (ask + n) + exp
        /\ (1 + ask) * m + m * k <= (1 + (ask + n)) * m
        /\ (1 + ask) * m \in Nat /\ (1 + (ask + n)) * m \in Nat
    BY <1>2, MoreAsked
  <2>. QED  BY <2>1
<1>4. Covered(inv, A, P, m, a) /\ Covered(suc, R, P, 1, b)
  BY <1>1, <1>3 DEF Paid
<1>5. a + m * Cardinality(C) <= a2 /\ b + 1 * Cardinality(C) <= b2
  BY <1>2, <1>3
<1>6. Covered(inv, A, O, m, a2)
  BY <1>3, <1>4, <1>5, CoveredPlan
<1>7. Covered(suc, R, O, 1, b2)
  BY <1>3, <1>4, <1>5, CoveredPlan
<1>. QED  BY <1>1, <1>3, <1>6, <1>7 DEF Paid

\* All attempts of a new job of the queue q.
AllAttempts(id, q) == {id} \X (0 .. RetryLimit[q])

LEMMA CountAllAttempts ==
  ASSUME NEW q \in Queue, NEW id
  PROVE  /\ IsFiniteSet(AllAttempts(id, q))
         /\ Cardinality(AllAttempts(id, q)) = RetryLimit[q] + 1
<1>1. PICK m \in Nat : m = RetryLimit[q]
  BY ConstantsAssumption
<1>2. PICK S : S = 0 .. m
  OBVIOUS
<1>3. IsFiniteSet(S) /\ Cardinality(S) = m + 1
  BY <1>1, <1>2, FS_Interval
<1>4. IsFiniteSet({id} \X S) /\ Cardinality({id} \X S) = m + 1
  BY <1>3, CardColumn
<1>. QED  BY <1>1, <1>2, <1>4 DEF AllAttempts

\* The tokens that the job id of the queue q adds when it is sent.
SentWithin(A, R, B, S, id, v, q) ==
  B \subseteq A \cup AllAttempts(id, q) /\ S \subseteq R \cup {v}

\* A plan is carried out: a new job is sent.
LEMMA PaidSend ==
  ASSUME NEW q \in Queue, NEW inv \in Nat, NEW suc \in Nat, NEW ask \in Nat, NEW exp \in Nat,
         NEW A, NEW R, NEW P, Paid(inv, suc, ask, exp, A, R, P, q),
         NEW id, NEW v, NEW B, NEW S, SentWithin(A, R, B, S, id, v, q),
         NEW p \in P, NEW O, O \subseteq P \ {p}
  PROVE  Paid(inv, suc, ask, exp, B, S, O, q)
<1>1. PICK m \in Nat, a \in Nat, b \in Nat :
        m = RetryLimit[q] + 1 /\ b = 1 + ask + exp /\ a = (1 + ask) * (RetryLimit[q] + 1)
  BY BudgetTypes
<1>2. PICK C : C = AllAttempts(id, q) /\ IsFiniteSet(C) /\ Cardinality(C) = m
  BY <1>1, CountAllAttempts
<1>3. /\ Covered(inv, A, P, m, a) /\ Covered(suc, R, P, 1, b)
      /\ B \subseteq A \cup C /\ S \subseteq R \cup {v}
  BY <1>1, <1>2 DEF Paid, SentWithin
<1>4. Covered(inv, B, O, m, a)
  BY <1>2, <1>3, CoveredCarryOut
<1>5. Covered(suc, S, O, 1, b)
  BY <1>3, CoveredTurn
<1>. QED  BY <1>1, <1>4, <1>5 DEF Paid

\* The first job of the work is sent.
LEMMA PaidStart ==
  ASSUME NEW q \in Queue, NEW ask \in Nat, NEW exp \in Nat, NEW id, NEW v,
         NEW B, B \subseteq AllAttempts(id, q), NEW S, S \subseteq {v}
  PROVE  Paid(0, 0, ask, exp, B, S, {}, q)
<1>1. PICK m \in Nat, a \in Nat, b \in Nat :
        m = RetryLimit[q] + 1 /\ b = 1 + ask + exp /\ a = (1 + ask) * (RetryLimit[q] + 1)
  BY BudgetTypes
<1>2. PICK C : C = AllAttempts(id, q) /\ IsFiniteSet(C) /\ Cardinality(C) = m
  BY <1>1, CountAllAttempts
<1>3. m <= a
  <2>1. (1 + ask) * m = m + ask * m
    OBVIOUS
  <2>2. ask * m \in Nat
    OBVIOUS
  <2>. QED  BY <1>1, <2>1, <2>2
<1>4. Covered(0, B, {}, m, a)
  BY <1>2, <1>3, CoveredStart
<1>5. PICK D : D = {v} /\ IsFiniteSet(D) /\ Cardinality(D) = 1
  BY FS_Singleton
<1>6. S \subseteq D /\ 0 + Cardinality(D) <= b
  BY <1>1, <1>5
<1>7. Covered(0, S, {}, 1, b)
  BY <1>5, <1>6, CoveredStart
<1>. QED  BY <1>1, <1>4, <1>7 DEF Paid

-----------------------------------------------------------------------------
(* What a step does to tokens and plans. *)

LEMMA AttemptsMember ==
  ASSUME NEW js, NEW x
  PROVE  /\ \A p \in Attempts(js, x) :
              \E id \in JobsOf(js, x) : \E k \in AttemptsLeft(js[id]) : p = <<id, k>>
         /\ \A id \in JobsOf(js, x) : \A k \in AttemptsLeft(js[id]) :
              <<id, k>> \in Attempts(js, x)
<1>. DEFINE L(id) == AttemptsLeft(js[id])
            J == JobsOf(js, x)
            U == UNION {{id} \X L(id) : id \in J}
<1>1. Attempts(js, x) = U
  BY DEF Attempts
<1>. HIDE DEF L, J
<1>2. \A p \in U : \E id \in J : \E k \in L(id) : p = <<id, k>>
  OBVIOUS
<1>3. \A id \in J : \A k \in L(id) : <<id, k>> \in U
  OBVIOUS
<1>. QED  BY <1>1, <1>2, <1>3 DEF L, J

LEMMA PlannedMember ==
  ASSUME NEW js, NEW calls, NEW x
  PROVE  /\ \A p \in Planned(js, calls, x) :
              \E c \in Caller : \E k \in Owed(js, calls[c], x) : p = <<c, k>>
         /\ \A c \in Caller : \A k \in Owed(js, calls[c], x) :
              <<c, k>> \in Planned(js, calls, x)
<1>. DEFINE W(c) == Owed(js, calls[c], x)
            U == UNION {{c} \X W(c) : c \in Caller}
<1>1. Planned(js, calls, x) = U
  BY DEF Planned
<1>. HIDE DEF W
<1>2. \A p \in U : \E c \in Caller : \E k \in W(c) : p = <<c, k>>
  OBVIOUS
<1>3. \A c \in Caller : \A k \in W(c) : <<c, k>> \in U
  OBVIOUS
<1>. QED  BY <1>1, <1>2, <1>3 DEF W

LEMMA RunsMember ==
  ASSUME NEW js, NEW run, NEW ret, NEW x
  PROVE  /\ \A p \in Runs(js, run, ret, x) :
              \/ \E e \in Execution : /\ p = <<"execution", e>>
                                      /\ run[e] # 0 /\ ~ret[e] /\ js[run[e]].payload = x
              \/ \E id \in DOMAIN js : /\ p = <<"job", id>>
                                       /\ js[id].payload = x /\ Waiting(js[id])
         /\ \A e \in Execution : run[e] # 0 /\ ~ret[e] /\ js[run[e]].payload = x =>
              <<"execution", e>> \in Runs(js, run, ret, x)
         /\ \A id \in DOMAIN js : js[id].payload = x /\ Waiting(js[id]) =>
              <<"job", id>> \in Runs(js, run, ret, x)
BY DEF Runs, JobsOf

\* All jobs but those of R are the same in ks as in js, or dead letter entries.
ChangesOnly(js, ks, R) ==
  \A id \in DOMAIN ks : id \notin R =>
    (id \in DOMAIN js /\ ks[id] = js[id]) \/ ks[id].name.dead

\* The attempts that are left after a step are old ones, or those of a job of R.
LEMMA AttemptsFrom ==
  ASSUME NEW js, NEW ks, NEW R, ChangesOnly(js, ks, R), NEW x, NEW p \in Attempts(ks, x)
  PROVE  \/ p \in Attempts(js, x) /\ \A r \in R : \A k : p # <<r, k>>
         \/ \E r \in R \cap DOMAIN ks :
              ks[r].payload = x /\ \E k \in AttemptsLeft(ks[r]) : p = <<r, k>>
<1>1. PICK id \in JobsOf(ks, x) : \E k \in AttemptsLeft(ks[id]) : p = <<id, k>>
  BY AttemptsMember
<1>2. PICK k \in AttemptsLeft(ks[id]) : p = <<id, k>>
  BY <1>1
<1>3. id \in DOMAIN ks /\ ks[id].payload = x
  BY DEF JobsOf
<1>4. CASE id \in R
  BY <1>2, <1>3, <1>4
<1>5. CASE id \notin R
  <2>1. ~ks[id].name.dead
    BY <1>2 DEF AttemptsLeft
  <2>2. id \in DOMAIN js /\ ks[id] = js[id]
    BY <1>3, <1>5, <2>1 DEF ChangesOnly
  <2>3. id \in JobsOf(js, x)
    BY <1>3, <2>2 DEF JobsOf
  <2>4. p \in Attempts(js, x)
    BY <1>2, <2>2, <2>3, AttemptsMember
  <2>5. \A r \in R : \A j : <<id, k>> # <<r, j>>
    BY <1>5
  <2>. QED  BY <1>2, <2>4, <2>5
<1>. QED  BY <1>4, <1>5

\* The executions of E change.
ExecutionsOf(E) ==
  \A e \in Execution : e \notin E => handling'[e] = handling[e] /\ returned'[e] = returned[e]

\* The handlers that run or are waited for after a step did or were before, or
\* concern a job of R or an execution of E.
LEMMA RunsFrom ==
  ASSUME IInv, TableStep, NEW R, ChangesOnly(jobs, jobs', R), NEW E, ExecutionsOf(E),
         NEW x, NEW p \in Runs(jobs', handling', returned', x)
  PROVE  \/ /\ p \in Runs(jobs, handling, returned, x)
            /\ \A r \in R : p # <<"job", r>>
            /\ \A e \in E : p # <<"execution", e>>
         \/ \E r \in R \cap DOMAIN jobs' :
              p = <<"job", r>> /\ jobs'[r].payload = x /\ Waiting(jobs'[r])
         \/ \E e \in E \cap Execution :
              /\ p = <<"execution", e>>
              /\ handling'[e] # 0 /\ ~returned'[e] /\ jobs'[handling'[e]].payload = x
<1>. DEFINE old == Runs(jobs, handling, returned, x)
<1>1. CASE \E e \in Execution :
             /\ p = <<"execution", e>>
             /\ handling'[e] # 0 /\ ~returned'[e] /\ jobs'[handling'[e]].payload = x
  <2>1. PICK e \in Execution :
             /\ p = <<"execution", e>>
             /\ handling'[e] # 0 /\ ~returned'[e] /\ jobs'[handling'[e]].payload = x
    BY <1>1
  <2>2. CASE e \in E
    BY <2>1, <2>2
  <2>3. CASE e \notin E
    <3>1. handling'[e] = handling[e] /\ returned'[e] = returned[e]
      BY <2>3 DEF ExecutionsOf
    <3>2. handling[e] \in DOMAIN jobs /\ ~jobs[handling[e]].name.dead
      BY <2>1, <3>1, ExecutionFacts
    <3>3. jobs[handling[e]].payload = x
      BY <2>1, <3>1, <3>2 DEF TableStep
    <3>4. p \in old
      BY <2>1, <3>1, <3>3, RunsMember
    <3>5. /\ \A r \in R : <<"execution", e>> # <<"job", r>>
          /\ \A f \in E : <<"execution", e>> # <<"execution", f>>
      BY <2>3
    <3>. QED  BY <2>1, <3>4, <3>5
  <2>. QED  BY <2>2, <2>3
<1>2. CASE \E id \in DOMAIN jobs' :
             p = <<"job", id>> /\ jobs'[id].payload = x /\ Waiting(jobs'[id])
  <2>1. PICK id \in DOMAIN jobs' :
             p = <<"job", id>> /\ jobs'[id].payload = x /\ Waiting(jobs'[id])
    BY <1>2
  <2>2. CASE id \in R
    BY <2>1, <2>2
  <2>3. CASE id \notin R
    <3>1. id \in DOMAIN jobs /\ jobs'[id] = jobs[id]
      BY <2>1, <2>3 DEF ChangesOnly, Waiting
    <3>2. p \in old
      BY <2>1, <3>1, RunsMember
    <3>3. /\ \A r \in R : <<"job", id>> # <<"job", r>>
          /\ \A f \in E : <<"job", id>> # <<"execution", f>>
      BY <2>3
    <3>. QED  BY <2>1, <3>2, <3>3
  <2>. QED  BY <2>2, <2>3
<1>. QED  BY <1>1, <1>2, RunsMember

\* The shape of a request.
LEMMA CallFacts ==
  ASSUME IInv, NEW c \in Caller
  PROVE  /\ call[c].stage \in {"idle", "get", "send", "delete"}
         /\ call[c].stage = "idle" <=> call[c] = Idle
         /\ call[c].stage # "idle" => /\ call[c].entry \in Nat
                                      /\ call[c].todo \in Seq(Nat)
                                      /\ call[c].queue \in Queue
<1>1. call[c] \in Call \cup {Idle}
  BY DEF IInv, TypeOK
<1>2. CASE call[c] = Idle
  BY <1>2 DEF Idle
<1>3. CASE call[c] \in Call
  BY <1>3 DEF Call, Idle
<1>. QED  BY <1>1, <1>2, <1>3

\* An id that was given out names no other work after a step.
LEMMA NamesStay ==
  ASSUME IInv, TableStep, NEW x, NEW id \in Nat, id < nextId, Names(jobs', id, x)
  PROVE  Names(jobs, id, x)
<1>1. nextId \in Nat
  BY DEF IInv, TypeOK
<1>2. id \in DOMAIN jobs
  BY <1>1 DEF TableStep, Names
<1>. QED  BY <1>2 DEF TableStep, Names

\* The numbers of positions.
LEMMA Positions ==
  ASSUME NEW n \in Nat, NEW i \in 1 .. n
  PROVE  n + 1 - i \in 1 .. n /\ i # n + 1
OBVIOUS

LEMMA WantedStays ==
  ASSUME IInv, TableStep, NEW x, NEW ids \in Seq(Nat),
         \A i \in DOMAIN ids : ids[i] < nextId
  PROVE  Wanted(jobs', ids, x) \subseteq Wanted(jobs, ids, x)
<1>1. PICK n \in Nat : n = Len(ids) /\ DOMAIN ids = 1 .. n
  OBVIOUS
<1>2. SUFFICES ASSUME NEW i \in 1 .. n, Names(jobs', ids[n + 1 - i], x)
               PROVE  Names(jobs, ids[n + 1 - i], x)
  BY <1>1 DEF Wanted
<1>3. PICK j \in 1 .. n : j = n + 1 - i
  BY Positions
<1>4. ids[j] \in Nat /\ ids[j] < nextId
  BY <1>1
<1>. QED  BY <1>2, <1>3, <1>4, NamesStay

\* A request that stays where it is owes nothing new.
LEMMA OwedStays ==
  ASSUME IInv, KnownIds, TableStep, NEW c \in Caller, NEW x
  PROVE  /\ Owed(jobs', call[c], x) \subseteq Owed(jobs, call[c], x)
         /\ Known(call[c], nextId')
<1>1. CASE call[c].stage = "idle"
  BY <1>1 DEF Owed, Known
<1>2. CASE call[c].stage # "idle"
  <2>1. PICK k : k = call[c]
    OBVIOUS
  <2>2. /\ k.entry \in Nat /\ k.todo \in Seq(Nat)
        /\ k.entry < nextId /\ \A i \in DOMAIN k.todo : k.todo[i] < nextId
        /\ k.stage # "idle"
    BY <1>2, <2>1, CallFacts DEF KnownIds, Known
  <2>3. PICK ids \in Seq(Nat) : ids = k.todo
    BY <2>2
  <2>4. Wanted(jobs', ids, x) \subseteq Wanted(jobs, ids, x)
    BY <2>2, <2>3, WantedStays
  <2>5. Fronts(jobs', k, x) => Fronts(jobs, k, x)
    BY <2>2, NamesStay DEF Fronts
  <2>6. Owed(jobs', k, x) \subseteq Owed(jobs, k, x)
    BY <2>2, <2>3, <2>4, <2>5 DEF Owed
  <2>7. nextId \in Nat /\ nextId' \in Nat /\ nextId <= nextId'
    BY DEF IInv, TypeOK, TableStep, TableOK
  <2>8. \A i \in DOMAIN ids : ids[i] \in Nat /\ ids[i] < nextId
    BY <2>2, <2>3
  <2>9. \A i \in DOMAIN ids : ids[i] < nextId'
    BY <2>7, <2>8
  <2>10. Known(k, nextId')
    BY <2>2, <2>3, <2>7, <2>9 DEF Known
  <2>. QED  BY <2>1, <2>6, <2>10
<1>. QED  BY <1>1, <1>2

\* The ids behind the first one.
LEMMA LaterIds ==
  ASSUME NEW ids \in Seq(Nat), ids # <<>>
  PROVE  /\ Len(ids) \in Nat \ {0} /\ DOMAIN ids = 1 .. Len(ids)
         /\ Head(ids) = ids[1] /\ Head(ids) \in Nat
         /\ Tail(ids) \in Seq(Nat) /\ Len(Tail(ids)) = Len(ids) - 1
         /\ DOMAIN Tail(ids) = 1 .. (Len(ids) - 1)
         /\ \A i \in 1 .. (Len(ids) - 1) : Tail(ids)[i] = ids[i + 1]
OBVIOUS

\* Numbers of positions in a sequence and in what follows its first position.
LEMMA LaterPositions ==
  ASSUME NEW n \in Nat, NEW i \in 1 .. n - 1
  PROVE  /\ i \in 1 .. n
         /\ (n - 1) + 1 - i \in 1 .. n - 1
         /\ ((n - 1) + 1 - i) + 1 = n + 1 - i
OBVIOUS

\* A request for the ids owes one replay for each of them that names the work.
LEMMA ToGetOwes ==
  ASSUME NEW js, NEW x, NEW q, NEW ids \in Seq(Nat), ids # <<>>
  PROVE  Owed(js, ToGet(q, ids), x) \subseteq Wanted(js, ids, x)
<1>1. PICK k : k = ToGet(q, ids)
  OBVIOUS
<1>2. k.stage = "get" /\ k.entry = Head(ids) /\ k.todo = Tail(ids)
  BY <1>1 DEF ToGet
<1>3. PICK n \in Nat \ {0} : n = Len(ids)
  BY LaterIds
<1>4. PICK rest : rest = Tail(ids)
  OBVIOUS
<1>5. /\ Len(rest) = n - 1 /\ Head(ids) = ids[1]
      /\ \A i \in 1 .. n - 1 : rest[i] = ids[i + 1]
  BY <1>3, <1>4, LaterIds
<1>6. ASSUME NEW i \in Wanted(js, rest, x) PROVE i \in Wanted(js, ids, x)
  <2>1. i \in 1 .. n - 1
    BY <1>5, <1>6 DEF Wanted
  <2>2. PICK j \in 1 .. n - 1 : j = (n - 1) + 1 - i
    BY <2>1, LaterPositions
  <2>3. PICK l : l = n + 1 - i
    OBVIOUS
  <2>4. i \in 1 .. n /\ j + 1 = l
    BY <2>1, <2>2, <2>3, LaterPositions
  <2>5. Names(js, rest[j], x)
    BY <1>5, <1>6, <2>2 DEF Wanted
  <2>6. Names(js, ids[l], x)
    BY <1>5, <2>2, <2>4, <2>5
  <2>. QED  BY <1>3, <2>3, <2>4, <2>6 DEF Wanted
<1>7. ASSUME Fronts(js, k, x) PROVE n \in Wanted(js, ids, x)
  <2>1. Names(js, ids[1], x)
    BY <1>2, <1>5, <1>7 DEF Fronts
  <2>2. n + 1 - n = 1 /\ n \in 1 .. n
    OBVIOUS
  <2>. QED  BY <1>3, <2>1, <2>2 DEF Wanted
<1>8. Len(rest) + 1 = n
  BY <1>5
<1>9. Owed(js, k, x) \subseteq Wanted(js, ids, x)
  BY <1>2, <1>4, <1>6, <1>7, <1>8 DEF Owed
<1>. QED  BY <1>1, <1>9

\* When the loop turns, the request owes what is left, and nothing for the
\* position it was at.
Turned(k) == IF k.todo = <<>> THEN Idle ELSE ToGet(k.queue, k.todo)

LEMMA TurnedOwes ==
  ASSUME NEW js, NEW x, NEW k, k.stage # "idle", k.todo \in Seq(Nat)
  PROVE  Owed(js, Turned(k), x) \subseteq Owed(js, k, x)
<1>1. CASE k.todo = <<>>
  BY <1>1 DEF Turned, Owed, Idle
<1>2. CASE k.todo # <<>>
  <2>1. Owed(js, Turned(k), x) \subseteq Wanted(js, k.todo, x)
    BY <1>2, ToGetOwes DEF Turned
  <2>. QED  BY <2>1 DEF Owed
<1>. QED  BY <1>1, <1>2

LEMMA TurnedKnown ==
  ASSUME NEW k, k.stage # "idle", k.todo \in Seq(Nat), NEW id, Known(k, id)
  PROVE  Known(Turned(k), id)
<1>1. CASE k.todo = <<>>
  BY <1>1 DEF Turned, Known, Idle
<1>2. CASE k.todo # <<>>
  <2>1. PICK ids \in Seq(Nat) : ids = k.todo /\ ids # <<>>
    BY <1>2
  <2>2. PICK n \in Nat \ {0} : n = Len(ids)
    BY <2>1, LaterIds
  <2>3. PICK rest : rest = Tail(ids)
    OBVIOUS
  <2>4. PICK first : first = Head(ids)
    OBVIOUS
  <2>5. /\ DOMAIN ids = 1 .. n
        /\ first = ids[1]
        /\ DOMAIN rest = 1 .. n - 1 /\ \A i \in 1 .. n - 1 : rest[i] = ids[i + 1]
    BY <2>1, <2>2, <2>3, <2>4, LaterIds
  <2>6. \A i \in 1 .. n : ids[i] < id
    BY <2>1, <2>5 DEF Known
  <2>7. first < id /\ \A i \in DOMAIN rest : rest[i] < id
    BY <2>5, <2>6
  <2>. QED  BY <2>1, <2>3, <2>4, <2>7 DEF Turned, ToGet, Known
<1>. QED  BY <1>1, <1>2

-----------------------------------------------------------------------------
(* What the steps of workers and requests do to the budgets. *)

BudgetStep ==
  /\ KnownIds' /\ JobsFit'
  /\ \A x \in Payload, q \in Queue : Budgeted(x, q) => Budgeted(x, q)'

\* The numbers of a piece of work.
LEMMA Numbers ==
  ASSUME IInv, NEW x \in Payload
  PROVE  /\ invoked[x] \in Nat /\ success[x] \in Nat
         /\ asked[x] \in Nat /\ expired[x] \in Nat
BY DEF IInv, TypeOK

\* Requests that stay where they are plan nothing new.
LEMMA CallsRest ==
  ASSUME IInv, KnownIds, TableStep, call' = call
  PROVE  /\ KnownIds'
         /\ \A x : Planned(jobs', call', x) \subseteq Planned(jobs, call, x)
<1>1. KnownIds'
  BY OwedStays DEF KnownIds
<1>2. ASSUME NEW x, NEW p \in Planned(jobs', call', x)
      PROVE  p \in Planned(jobs, call, x)
  <2>1. PICK c \in Caller : \E k \in Owed(jobs', call'[c], x) : p = <<c, k>>
    BY <1>2, PlannedMember
  <2>2. Owed(jobs', call'[c], x) \subseteq Owed(jobs, call[c], x)
    BY OwedStays
  <2>. QED  BY <2>1, <2>2, PlannedMember
<1>. QED  BY <1>1, <1>2

\* One request moves on.
LEMMA OneCallMoves ==
  ASSUME IInv, KnownIds, TableStep, NEW c \in Caller, NEW k,
         call' = [call EXCEPT ![c] = k], Known(k, nextId')
  PROVE  /\ KnownIds'
         /\ call'[c] = k /\ \A d \in Caller : d # c => call'[d] = call[d]
<1>1. call \in [Caller -> Call \cup {Idle}]
  BY DEF IInv, TypeOK
<1>2. call'[c] = k /\ \A d \in Caller : d # c => call'[d] = call[d]
  BY <1>1
<1>3. ASSUME NEW d \in Caller PROVE Known(call'[d], nextId')
  <2>1. CASE d = c
    BY <1>2, <2>1
  <2>2. CASE d # c
    BY <1>2, <2>2, OwedStays
  <2>. QED  BY <2>1, <2>2
<1>4. KnownIds'
  BY <1>3 DEF KnownIds
<1>. QED  BY <1>2, <1>4

\* What it plans is planned already, or one of the positions of C.
LEMMA OneCallPlans ==
  ASSUME IInv, KnownIds, TableStep, NEW c \in Caller, NEW calls,
         \A d \in Caller : d # c => calls[d] = call[d],
         NEW x, NEW C, Owed(jobs', calls[c], x) \subseteq Owed(jobs, call[c], x) \cup C
  PROVE  Planned(jobs', calls, x) \subseteq Planned(jobs, call, x) \cup ({c} \X C)
<1>1. PICK ks : ks = jobs'
  OBVIOUS
<1>2. SUFFICES ASSUME NEW p \in Planned(ks, calls, x)
               PROVE  p \in Planned(jobs, call, x) \/ p \in {c} \X C
  BY <1>1
<1>3. PICK d \in Caller : \E i \in Owed(ks, calls[d], x) : p = <<d, i>>
  BY PlannedMember
<1>4. PICK i \in Owed(ks, calls[d], x) : p = <<d, i>>
  BY <1>3
<1>5. CASE d = c
  <2>1. i \in Owed(jobs, call[c], x) \/ i \in C
    BY <1>1, <1>4, <1>5
  <2>. QED  BY <1>4, <1>5, <2>1, PlannedMember
<1>6. CASE d # c
  <2>1. i \in Owed(jobs, call[d], x)
    BY <1>1, <1>4, <1>6, OwedStays
  <2>. QED  BY <1>4, <2>1, PlannedMember
<1>. QED  BY <1>5, <1>6

\* A request that moves on to one that owes less.
LEMMA CallsShrink ==
  ASSUME IInv, KnownIds, TableStep, NEW c \in Caller, NEW k,
         call' = [call EXCEPT ![c] = k], Known(k, nextId'),
         \A x : Owed(jobs', k, x) \subseteq Owed(jobs, call[c], x)
  PROVE  /\ KnownIds'
         /\ \A x : Planned(jobs', call', x) \subseteq Planned(jobs, call, x)
<1>1. KnownIds'
  BY OneCallMoves
<1>2. ASSUME NEW x PROVE Planned(jobs', call', x) \subseteq Planned(jobs, call, x)
  <2>1. PICK calls : calls = call'
    OBVIOUS
  <2>2. calls[c] = k /\ \A d \in Caller : d # c => calls[d] = call[d]
    BY <2>1, OneCallMoves
  <2>3. PICK C : C = {}
    OBVIOUS
  <2>4. Owed(jobs', calls[c], x) \subseteq Owed(jobs, call[c], x) \cup C
    BY <2>2
  <2>5. Planned(jobs', calls, x) \subseteq Planned(jobs, call, x) \cup ({c} \X C)
    BY <2>2, <2>4, OneCallPlans
  <2>6. {c} \X C = {}
    BY <2>3
  <2>. QED  BY <2>1, <2>5, <2>6
<1>. QED  BY <1>1, <1>2

\* The loop of a request turns.
LEMMA TurnShrinks ==
  ASSUME IInv, KnownIds, TableStep, NEW c \in Caller, call[c].stage # "idle", Turn(c)
  PROVE  /\ KnownIds'
         /\ \A x : Planned(jobs', call', x) \subseteq Planned(jobs, call, x)
         /\ \A d \in Caller : call'[d] = call[d] \/ call'[d].stage \in {"idle", "get"}
<1>1. PICK k : k = call[c]
  OBVIOUS
<1>2. k.todo \in Seq(Nat) /\ k.stage # "idle" /\ Known(k, nextId')
  BY <1>1, CallFacts, OwedStays
<1>3. call' = [call EXCEPT ![c] = Turned(k)]
  BY <1>1 DEF Turn, Turned
<1>4. ASSUME NEW x PROVE Owed(jobs', Turned(k), x) \subseteq Owed(jobs, k, x)
  <2>1. Owed(jobs', Turned(k), x) \subseteq Owed(jobs', k, x)
    BY <1>2, TurnedOwes
  <2>2. Owed(jobs', k, x) \subseteq Owed(jobs, k, x)
    BY <1>1, OwedStays
  <2>. QED  BY <2>1, <2>2
<1>5. Known(Turned(k), nextId')
  BY <1>2, TurnedKnown
<1>6. Turned(k).stage \in {"idle", "get"}
  BY DEF Turned, Idle, ToGet
<1>7. PICK next : next = Turned(k)
  OBVIOUS
<1>. QED  BY <1>1, <1>3, <1>4, <1>5, <1>6, <1>7, CallsShrink, OneCallMoves

\* The queue of a piece of work stays.
LEMMA QueueStays ==
  ASSUME TableStep, NEW x, NEW q, OneQueue(jobs, call, x, q),
         \A id \in DOMAIN jobs' \ DOMAIN jobs :
           jobs'[id].payload = x => jobs'[id].name.queue = q,
         \A c \in Caller : call'[c].stage = "send" /\ call'[c].payload = x =>
           call'[c] = call[c] \/ call'[c].queue = q
  PROVE  OneQueue(jobs', call', x, q)
<1>1. \A id \in DOMAIN jobs' : jobs'[id].payload = x => jobs'[id].name.queue = q
  BY DEF OneQueue, TableStep
<1>2. \A c \in Caller : call'[c].stage = "send" /\ call'[c].payload = x => call'[c].queue = q
  BY DEF OneQueue
<1>. QED  BY <1>1, <1>2 DEF OneQueue

\* The counts of the history of x stay.
SameNumbers(x) ==
  /\ invoked'[x] = invoked[x] /\ success'[x] = success[x]
  /\ asked'[x] = asked[x] /\ expired'[x] = expired[x]

\* Nothing new is to come for x, and nothing was done.
LEMMA LessToCome ==
  ASSUME IInv, NEW x \in Payload, NEW q \in Queue, Budgeted(x, q),
         SameNumbers(x), OneQueue(jobs', call', x, q),
         Attempts(jobs', x) \subseteq Attempts(jobs, x),
         Runs(jobs', handling', returned', x) \subseteq Runs(jobs, handling, returned, x),
         Planned(jobs', call', x) \subseteq Planned(jobs, call, x)
  PROVE  Budgeted(x, q)'
<1>. DEFINE A == Attempts(jobs, x)
            R == Runs(jobs, handling, returned, x)
            P == Planned(jobs, call, x)
            B == Attempts(jobs', x)
            S == Runs(jobs', handling', returned', x)
            O == Planned(jobs', call', x)
<1>1. PICK inv \in Nat, suc \in Nat, ask \in Nat, exp \in Nat :
        inv = invoked[x] /\ suc = success[x] /\ ask = asked[x] /\ exp = expired[x]
  BY Numbers
<1>2. Paid(inv, suc, ask, exp, A, R, P, q)
  BY <1>1 DEF Budgeted
<1>3. B \subseteq A /\ S \subseteq R /\ O \subseteq P
  OBVIOUS
<1>. HIDE DEF A, R, P, B, S, O
<1>4. Paid(inv, suc, ask, exp, B, S, O, q)
  BY <1>2, <1>3, PaidDrop
<1>. QED  BY <1>1, <1>4 DEF Budgeted, SameNumbers, B, S, O

\* A request moves on, and the table loses at most dead letter entries.
LEMMA CallBudget ==
  ASSUME IInv, JobsFit, TableStep, ChangesOnly(jobs, jobs', {}),
         DOMAIN jobs' \subseteq DOMAIN jobs, UNCHANGED <<executions, history>>, KnownIds',
         \A x : Planned(jobs', call', x) \subseteq Planned(jobs, call, x),
         \A id \in DOMAIN jobs' : jobs'[id] = jobs[id],
         \A x \in Payload, q \in Queue : Budgeted(x, q) => OneQueue(jobs', call', x, q)
  PROVE  BudgetStep
<1>1. JobsFit'
  BY DEF JobsFit
<1>2. UNCHANGED <<handling, returned, accepted, success, invoked, asked, expired>>
  BY DEF executions, history
<1>3. ExecutionsOf({})
  BY <1>2 DEF ExecutionsOf
<1>4. ASSUME NEW x \in Payload, NEW q \in Queue, Budgeted(x, q)
      PROVE  Budgeted(x, q)'
  <2>1. Attempts(jobs', x) \subseteq Attempts(jobs, x)
    BY AttemptsFrom
  <2>2. Runs(jobs', handling', returned', x) \subseteq Runs(jobs, handling, returned, x)
    BY <1>3, RunsFrom
  <2>3. SameNumbers(x)
    BY <1>2 DEF SameNumbers
  <2>. QED  BY <1>4, <2>1, <2>2, <2>3, LessToCome
<1>. QED  BY <1>1, <1>4 DEF BudgetStep

\* The requests that stay or give up are of the queues they were of.
LEMMA GetNothingBudget ==
  ASSUME IInv, KnownIds, JobsFit, NEW c \in Caller, GetNothing(c)
  PROVE  BudgetStep
<1>1. TableStep
  BY GetNothingStep
<1>2. UNCHANGED <<jobs, nextId, executions, history>> /\ Turn(c) /\ call[c].stage # "idle"
  BY DEF GetNothing
<1>3. ChangesOnly(jobs, jobs', {})
  BY <1>2 DEF ChangesOnly
<1>4. /\ KnownIds'
      /\ \A x : Planned(jobs', call', x) \subseteq Planned(jobs, call, x)
      /\ \A d \in Caller : call'[d] = call[d] \/ call'[d].stage \in {"idle", "get"}
  BY <1>1, <1>2, TurnShrinks
<1>5. ASSUME NEW x \in Payload, NEW q \in Queue, Budgeted(x, q)
      PROVE  OneQueue(jobs', call', x, q)
  BY <1>1, <1>2, <1>4, <1>5, QueueStays DEF Budgeted
<1>. QED  BY <1>1, <1>2, <1>3, <1>4, <1>5, CallBudget

LEMMA RequestFailsBudget ==
  ASSUME IInv, KnownIds, JobsFit, NEW c \in Caller, RequestFails(c)
  PROVE  BudgetStep
<1>1. TableStep
  BY RequestFailsStep
<1>2. /\ UNCHANGED <<jobs, nextId, executions, history>>
      /\ call' = [call EXCEPT ![c] = Idle]
  BY DEF RequestFails
<1>3. ChangesOnly(jobs, jobs', {})
  BY <1>2 DEF ChangesOnly
<1>4. Known(Idle, nextId') /\ \A x : Owed(jobs', Idle, x) = {}
  BY DEF Known, Owed, Idle
<1>5. /\ KnownIds'
      /\ \A x : Planned(jobs', call', x) \subseteq Planned(jobs, call, x)
  BY <1>1, <1>2, <1>4, CallsShrink
<1>6. \A d \in Caller : call'[d] = call[d] \/ call'[d].stage = "idle"
  BY <1>1, <1>2, <1>4, OneCallMoves DEF Idle
<1>7. ASSUME NEW x \in Payload, NEW q \in Queue, Budgeted(x, q)
      PROVE  OneQueue(jobs', call', x, q)
  BY <1>1, <1>2, <1>6, <1>7, QueueStays DEF Budgeted
<1>. QED  BY <1>1, <1>2, <1>3, <1>5, <1>7, CallBudget

\* The payload that was read from an entry is planned as the entry was.
LEMMA GetBudget ==
  ASSUME IInv, KnownIds, JobsFit, NEW c \in Caller, Get(c)
  PROVE  BudgetStep
<1>1. TableStep
  BY GetStep
<1>2. PICK k : k = call[c]
  OBVIOUS
<1>3. PICK y : y = jobs[k.entry].payload
  OBVIOUS
<1>4. PICK next : next = [stage |-> "send", queue |-> k.queue, entry |-> k.entry,
                          todo |-> k.todo, payload |-> y]
  OBVIOUS
<1>5. /\ k.stage = "get" /\ k.entry \in DOMAIN jobs
      /\ jobs[k.entry].name = [queue |-> k.queue, dead |-> TRUE]
      /\ call' = [call EXCEPT ![c] = next]
      /\ UNCHANGED <<jobs, nextId, executions, history>>
  BY <1>2, <1>3, <1>4 DEF Get
<1>6. /\ next.stage = "send" /\ next.queue = k.queue /\ next.entry = k.entry
      /\ next.todo = k.todo /\ next.payload = y
  BY <1>4
<1>7. Known(next, nextId')
  <2>1. Known(k, nextId')
    BY <1>1, <1>2, OwedStays
  <2>. QED  BY <1>5, <1>6, <2>1 DEF Known
<1>8. ASSUME NEW x PROVE Owed(jobs', next, x) \subseteq Owed(jobs, call[c], x)
  BY <1>2, <1>3, <1>5, <1>6 DEF Owed, Fronts, Names
<1>9. /\ KnownIds'
      /\ \A x : Planned(jobs', call', x) \subseteq Planned(jobs, call, x)
  BY <1>1, <1>5, <1>7, <1>8, CallsShrink
<1>10. call'[c] = next /\ \A d \in Caller : d # c => call'[d] = call[d]
  BY <1>1, <1>5, <1>7, OneCallMoves
<1>11. ASSUME NEW x \in Payload, NEW q \in Queue, Budgeted(x, q)
       PROVE  OneQueue(jobs', call', x, q)
  <2>1. OneQueue(jobs, call, x, q)
    BY <1>11 DEF Budgeted
  <2>2. y = x => k.queue = q
    <3>1. jobs[k.entry].name.queue = k.queue
      BY <1>5
    <3>. QED  BY <1>3, <1>5, <2>1, <3>1 DEF OneQueue
  <2>3. \A d \in Caller : call'[d].stage = "send" /\ call'[d].payload = x =>
          call'[d] = call[d] \/ call'[d].queue = q
    BY <1>6, <1>10, <2>2
  <2>. QED  BY <1>1, <1>5, <2>1, <2>3, QueueStays
<1>12. ChangesOnly(jobs, jobs', {})
  BY <1>5 DEF ChangesOnly
<1>. QED  BY <1>1, <1>5, <1>9, <1>11, <1>12, CallBudget

\* A dead letter entry has no attempts.
LEMMA DeleteBudget ==
  ASSUME IInv, KnownIds, JobsFit, NEW c \in Caller, DeleteEntry(c)
  PROVE  BudgetStep
<1>1. TableStep
  BY DeleteStep
<1>2. /\ jobs' = Without(jobs, call[c].entry) /\ Turn(c) /\ call[c].stage # "idle"
      /\ UNCHANGED <<nextId, executions, history>>
  BY DEF DeleteEntry
<1>3. /\ DOMAIN jobs' \subseteq DOMAIN jobs
      /\ \A id \in DOMAIN jobs' : jobs'[id] = jobs[id]
  BY <1>2 DEF Without
<1>4. ChangesOnly(jobs, jobs', {})
  BY <1>3 DEF ChangesOnly
<1>5. /\ KnownIds'
      /\ \A x : Planned(jobs', call', x) \subseteq Planned(jobs, call, x)
      /\ \A d \in Caller : call'[d] = call[d] \/ call'[d].stage \in {"idle", "get"}
  BY <1>1, <1>2, TurnShrinks
<1>6. ASSUME NEW x \in Payload, NEW q \in Queue, Budgeted(x, q)
      PROVE  OneQueue(jobs', call', x, q)
  BY <1>1, <1>3, <1>5, <1>6, QueueStays DEF Budgeted
<1>. QED  BY <1>1, <1>2, <1>3, <1>4, <1>5, <1>6, CallBudget

\* The call variable and the queues are those of before.
LEMMA WorkersKeepQueues ==
  ASSUME TableStep, call' = call, NEW x, NEW q, OneQueue(jobs, call, x, q),
         \A id \in DOMAIN jobs' \ DOMAIN jobs :
           jobs'[id].payload = x => jobs'[id].name.queue = q
  PROVE  OneQueue(jobs', call', x, q)
BY QueueStays

\* An execution that is abandoned leaves its job as it is.
LEMMA AbandonBudget ==
  ASSUME IInv, KnownIds, JobsFit, NEW e \in Execution, Abandon(e)
  PROVE  BudgetStep
<1>1. TableStep /\ ExecutionsOK
  BY AbandonStep, InvariantParts DEF IInv
<1>2. UNCHANGED <<jobs, nextId, call, history>> /\ Leave(e)
  BY DEF Abandon
<1>3. UNCHANGED <<accepted, success, invoked, asked, expired>>
  BY <1>2 DEF history
<1>4. /\ handling'[e] = 0
      /\ \A f \in Execution \ {e} : handling'[f] = handling[f] /\ returned'[f] = returned[f]
  BY <1>1, <1>2, LeaveFits
<1>5. ExecutionsOf({e})
  BY <1>4 DEF ExecutionsOf
<1>6. ChangesOnly(jobs, jobs', {})
  BY <1>2 DEF ChangesOnly
<1>7. /\ KnownIds'
      /\ \A x : Planned(jobs', call', x) \subseteq Planned(jobs, call, x)
  BY <1>1, <1>2, CallsRest
<1>8. ASSUME NEW x \in Payload, NEW q \in Queue, Budgeted(x, q)
      PROVE  Budgeted(x, q)'
  <2>1. OneQueue(jobs', call', x, q)
    BY <1>1, <1>2, <1>8, WorkersKeepQueues DEF Budgeted
  <2>2. Attempts(jobs', x) \subseteq Attempts(jobs, x)
    BY <1>6, AttemptsFrom
  <2>3. Runs(jobs', handling', returned', x) \subseteq Runs(jobs, handling, returned, x)
    BY <1>1, <1>4, <1>5, <1>6, RunsFrom
  <2>4. SameNumbers(x)
    BY <1>3 DEF SameNumbers
  <2>. QED  BY <1>7, <1>8, <2>1, <2>2, <2>3, <2>4, LessToCome
<1>9. JobsFit'
  BY <1>2 DEF JobsFit
<1>. QED  BY <1>7, <1>8, <1>9 DEF BudgetStep

\* A job that is completed has nothing left to do.
LEMMA CompleteTokens ==
  ASSUME IInv, JobsFit, NEW r \in DOMAIN jobs, ~jobs[r].name.dead, CompleteAttempt(r)
  PROVE  /\ JobsFit'
         /\ DOMAIN jobs' = DOMAIN jobs
         /\ \E R : /\ ChangesOnly(jobs, jobs', R)
                   /\ \A s \in R \cap DOMAIN jobs' :
                        AttemptsLeft(jobs'[s]) = {} /\ ~Waiting(jobs'[s])
<1>1. jobs[r] \in Job /\ TableOK
  BY InvariantParts, TableFacts DEF IInv
<1>2. CASE jobs[r].state # "active"
  <2>1. jobs' = jobs
    BY <1>2 DEF CompleteAttempt
  <2>2. ChangesOnly(jobs, jobs', {})
    BY <2>1 DEF ChangesOnly
  <2>. QED  BY <2>1, <2>2 DEF JobsFit
<1>3. CASE jobs[r].state = "active"
  <2>. DEFINE job == [jobs[r] EXCEPT !.state = "completed"]
  <2>1. job \in Job /\ job.name = jobs[r].name /\ job.state = "completed"
    BY <1>1 DEF Job, JobState
  <2>2. jobs' = [jobs EXCEPT ![r] = job]
    BY <1>1, <1>3 DEF CompleteAttempt, Job
  <2>. HIDE DEF job
  <2>3. /\ DOMAIN jobs' = DOMAIN jobs /\ jobs'[r] = job
        /\ \A id \in DOMAIN jobs : id # r => jobs'[id] = jobs[id]
    BY <2>2
  <2>4. ChangesOnly(jobs, jobs', {r})
    BY <2>3 DEF ChangesOnly
  <2>5. AttemptsLeft(jobs'[r]) = {} /\ ~Waiting(jobs'[r])
    BY <2>1, <2>3 DEF AttemptsLeft, Waiting
  <2>6. JobFits(jobs'[r])
    BY <2>1, <2>3 DEF JobFits
  <2>7. JobsFit'
    BY <2>3, <2>6 DEF JobsFit
  <2>. QED  BY <2>3, <2>4, <2>5, <2>7
<1>. QED  BY <1>2, <1>3

LEMMA CompleteBudget ==
  ASSUME IInv, KnownIds, JobsFit, NEW e \in Execution, Complete(e)
  PROVE  BudgetStep
<1>1. TableStep /\ ExecutionsOK
  BY CompleteStep, InvariantParts DEF IInv
<1>2. returned[e] /\ CompleteAttempt(handling[e]) /\ UNCHANGED <<call, history>> /\ Leave(e)
  BY DEF Complete
<1>3. UNCHANGED <<accepted, success, invoked, asked, expired>>
  BY <1>2 DEF history
<1>4. handling[e] \in DOMAIN jobs /\ ~jobs[handling[e]].name.dead
  BY <1>2 DEF IInv, ExecutionsKnowTheirJobs
<1>5. /\ handling'[e] = 0
      /\ \A f \in Execution \ {e} : handling'[f] = handling[f] /\ returned'[f] = returned[f]
  BY <1>1, <1>2, LeaveFits
<1>6. ExecutionsOf({e})
  BY <1>5 DEF ExecutionsOf
<1>7. JobsFit' /\ DOMAIN jobs' = DOMAIN jobs
  BY <1>2, <1>4, CompleteTokens
<1>8. PICK R : /\ ChangesOnly(jobs, jobs', R)
               /\ \A s \in R \cap DOMAIN jobs' :
                    AttemptsLeft(jobs'[s]) = {} /\ ~Waiting(jobs'[s])
  BY <1>2, <1>4, CompleteTokens
<1>9. /\ KnownIds'
      /\ \A x : Planned(jobs', call', x) \subseteq Planned(jobs, call, x)
  BY <1>1, <1>2, CallsRest
<1>10. ASSUME NEW x \in Payload, NEW q \in Queue, Budgeted(x, q)
       PROVE  Budgeted(x, q)'
  <2>1. OneQueue(jobs', call', x, q)
    BY <1>1, <1>2, <1>7, <1>10, WorkersKeepQueues DEF Budgeted
  <2>2. Attempts(jobs', x) \subseteq Attempts(jobs, x)
    BY <1>8, AttemptsFrom
  <2>3. Runs(jobs', handling', returned', x) \subseteq Runs(jobs, handling, returned, x)
    BY <1>1, <1>5, <1>6, <1>8, RunsFrom
  <2>4. SameNumbers(x)
    BY <1>3 DEF SameNumbers
  <2>. QED  BY <1>9, <1>10, <2>1, <2>2, <2>3, <2>4, LessToCome
<1>. QED  BY <1>7, <1>9, <1>10 DEF BudgetStep

\* A success takes the place of the handler in progress.
LEMMA SuccessBudget ==
  ASSUME IInv, KnownIds, JobsFit, NEW e \in Execution, HandlerSucceeds(e)
  PROVE  BudgetStep
<1>1. TableStep /\ ExecutionsOK /\ HistoryOK
  BY SuccessStep, InvariantParts DEF IInv
<1>2. /\ handling[e] # 0 /\ ~returned[e]
      /\ returned' = [returned EXCEPT ![e] = TRUE]
      /\ success' = [success EXCEPT ![jobs[handling[e]].payload] = @ + 1]
      /\ UNCHANGED <<jobs, nextId, handling, call, invoked, asked, expired>>
  BY DEF HandlerSucceeds, InHandler
<1>3. PICK y \in Payload : y = jobs[handling[e]].payload
  BY <1>2, ExecutionFacts
<1>4. returned'[e] /\ ExecutionsOf({e})
  BY <1>1, <1>2 DEF ExecutionsOK, ExecutionsOf
<1>5. ChangesOnly(jobs, jobs', {})
  BY <1>2 DEF ChangesOnly
<1>6. /\ KnownIds'
      /\ \A x : Planned(jobs', call', x) \subseteq Planned(jobs, call, x)
  BY <1>1, <1>2, CallsRest
<1>7. success'[y] = success[y] + 1 /\ \A x \in Payload : x # y => success'[x] = success[x]
  BY <1>1, <1>2, <1>3 DEF HistoryOK
<1>8. ASSUME NEW x \in Payload, NEW q \in Queue, Budgeted(x, q)
      PROVE  Budgeted(x, q)'
  <2>. DEFINE A == Attempts(jobs, x)
              R == Runs(jobs, handling, returned, x)
              P == Planned(jobs, call, x)
              B == Attempts(jobs', x)
              S == Runs(jobs', handling', returned', x)
              O == Planned(jobs', call', x)
              u == <<"execution", e>>
  <2>1. OneQueue(jobs', call', x, q)
    BY <1>1, <1>2, <1>8, WorkersKeepQueues DEF Budgeted
  <2>2. B \subseteq A
    BY <1>5, AttemptsFrom
  <2>3. S \subseteq R \ {u}
    BY <1>1, <1>4, <1>5, RunsFrom
  <2>4. O \subseteq P
    BY <1>6
  <2>5. CASE x # y
    <3>1. SameNumbers(x)
      BY <1>2, <1>7, <2>5 DEF SameNumbers
    <3>. QED  BY <1>8, <2>1, <2>2, <2>3, <2>4, <3>1, LessToCome
  <2>6. CASE x = y
    <3>1. u \in R
      BY <1>2, <1>3, <2>6, RunsMember
    <3>2. PICK inv \in Nat, suc \in Nat, ask \in Nat, exp \in Nat :
            inv = invoked[x] /\ suc = success[x] /\ ask = asked[x] /\ exp = expired[x]
      BY Numbers
    <3>3. Paid(inv, suc, ask, exp, A, R, P, q)
      BY <1>8, <3>2 DEF Budgeted
    <3>. HIDE DEF A, R, P, B, S, O, u
    <3>4. Paid(inv, suc + 1, ask, exp, B, S, O, q)
      BY <2>2, <2>3, <2>4, <3>1, <3>3, PaidSuccess
    <3>5. invoked'[x] = inv /\ success'[x] = suc + 1 /\ asked'[x] = ask /\ expired'[x] = exp
      BY <1>2, <1>7, <2>6, <3>2
    <3>. QED  BY <2>1, <3>4, <3>5 DEF Budgeted, B, S, O
  <2>. QED  BY <2>5, <2>6
<1>9. JobsFit'
  BY <1>2 DEF JobsFit
<1>. QED  BY <1>6, <1>8, <1>9 DEF BudgetStep

\* A job whose attempt fails has no more attempts than before, and its dead
\* letter entry has none.
LEMMA FailTokens ==
  ASSUME IInv, JobsFit, NEW r \in DOMAIN jobs, ~jobs[r].name.dead, FailAttempt(r)
  PROVE  /\ JobsFit'
         /\ r \in DOMAIN jobs'
         /\ ChangesOnly(jobs, jobs', {r})
         /\ AttemptsLeft(jobs'[r]) \subseteq AttemptsLeft(jobs[r])
         /\ jobs'[r].payload = jobs[r].payload
         /\ \A id \in DOMAIN jobs' \ DOMAIN jobs :
              /\ jobs'[id].payload = jobs[r].payload
              /\ jobs'[id].name.queue = jobs[r].name.queue
<1>1. /\ TableOK /\ jobs[r] \in Job /\ r # nextId /\ nextId \notin DOMAIN jobs
      /\ jobs[r].count \in Nat /\ jobs[r].limit \in Nat
  BY InvariantParts, TableFacts DEF IInv
<1>2. CASE jobs[r].state # "active"
  <2>1. jobs' = jobs
    BY <1>2 DEF FailAttempt
  <2>2. ChangesOnly(jobs, jobs', {r})
    BY <2>1 DEF ChangesOnly
  <2>. QED  BY <2>1, <2>2 DEF JobsFit
<1>3. CASE jobs[r].state = "active" /\ jobs[r].count < jobs[r].limit
  <2>. DEFINE job == [jobs[r] EXCEPT !.state = "retry"]
  <2>1. /\ job.state = "retry" /\ job.name = jobs[r].name /\ job.payload = jobs[r].payload
        /\ job.count = jobs[r].count /\ job.limit = jobs[r].limit
    BY <1>1 DEF Job
  <2>2. jobs' = [jobs EXCEPT ![r] = job]
    BY <1>1, <1>3 DEF FailAttempt, Job
  <2>. HIDE DEF job
  <2>3. /\ DOMAIN jobs' = DOMAIN jobs /\ jobs'[r] = job
        /\ \A id \in DOMAIN jobs : id # r => jobs'[id] = jobs[id]
    BY <2>2
  <2>4. ChangesOnly(jobs, jobs', {r})
    BY <2>3 DEF ChangesOnly
  <2>5. AttemptsLeft(job) = AttemptsLeft(jobs[r])
    BY <1>3, <2>1 DEF AttemptsLeft
  <2>6. JobFits(job)
    BY <1>3, <2>1 DEF JobFits
  <2>7. JobsFit'
    BY <2>3, <2>6 DEF JobsFit
  <2>. QED  BY <2>1, <2>3, <2>4, <2>5, <2>7
<1>4. CASE jobs[r].state = "active" /\ jobs[r].count >= jobs[r].limit
  <2>. DEFINE job == [jobs[r] EXCEPT !.state = "failed"]
              letter == DeadLetter(jobs[r])
  <2>1. /\ job.state = "failed" /\ job.name = jobs[r].name /\ job.payload = jobs[r].payload
        /\ job.count = jobs[r].count /\ job.limit = jobs[r].limit
    BY <1>1 DEF Job
  <2>2. /\ letter.name.dead = TRUE /\ letter.name.queue = jobs[r].name.queue
        /\ letter.payload = jobs[r].payload
    BY <1>1 DEF DeadLetter, Job, JobName
  <2>3. jobs' = Put([jobs EXCEPT ![r] = job], nextId, letter)
    BY <1>1, <1>4 DEF FailAttempt, Job
  <2>. HIDE DEF job, letter
  <2>4. /\ DOMAIN jobs' = DOMAIN jobs \cup {nextId}
        /\ jobs'[r] = job
        /\ jobs'[nextId] = letter
        /\ \A id \in DOMAIN jobs : id # r => jobs'[id] = jobs[id]
    BY <1>1, <2>3 DEF Put
  <2>5. ChangesOnly(jobs, jobs', {r})
    BY <2>2, <2>4 DEF ChangesOnly
  <2>6. AttemptsLeft(job) = {}
    BY <2>1 DEF AttemptsLeft
  <2>7. JobFits(job)
    <3>1. jobs[r].count <= jobs[r].limit
      BY <1>4 DEF JobsFit, JobFits
    <3>. QED  BY <1>1, <1>4, <2>1, <3>1 DEF JobFits
  <2>8. JobFits(letter)
    BY <2>2 DEF JobFits
  <2>9. JobsFit'
    BY <2>4, <2>7, <2>8 DEF JobsFit
  <2>. QED  BY <1>1, <2>1, <2>2, <2>4, <2>5, <2>6, <2>9
<1>. QED  BY <1>1, <1>2, <1>3, <1>4 DEF FailAttempt

\* The attempts and queues after a job of the work y failed an attempt.
LEMMA FailLeavesLess ==
  ASSUME IInv, JobsFit, TableStep, call' = call,
         NEW r \in DOMAIN jobs, ~jobs[r].name.dead, FailAttempt(r), NEW x
  PROVE  /\ Attempts(jobs', x) \subseteq Attempts(jobs, x)
         /\ \A q : OneQueue(jobs, call, x, q) => OneQueue(jobs', call', x, q)
<1>1. /\ ChangesOnly(jobs, jobs', {r})
      /\ AttemptsLeft(jobs'[r]) \subseteq AttemptsLeft(jobs[r])
      /\ jobs'[r].payload = jobs[r].payload
      /\ \A id \in DOMAIN jobs' \ DOMAIN jobs :
           /\ jobs'[id].payload = jobs[r].payload
           /\ jobs'[id].name.queue = jobs[r].name.queue
  BY FailTokens
<1>2. ASSUME NEW p \in Attempts(jobs', x) PROVE p \in Attempts(jobs, x)
  <2>1. CASE jobs'[r].payload = x /\ \E k \in AttemptsLeft(jobs'[r]) : p = <<r, k>>
    <3>1. PICK k \in AttemptsLeft(jobs[r]) : p = <<r, k>>
      BY <1>1, <2>1
    <3>2. r \in JobsOf(jobs, x)
      BY <1>1, <2>1 DEF JobsOf
    <3>. QED  BY <3>1, <3>2, AttemptsMember
  <2>. QED  BY <1>1, <1>2, <2>1, AttemptsFrom
<1>3. ASSUME NEW q, OneQueue(jobs, call, x, q)
      PROVE  OneQueue(jobs', call', x, q)
  <2>1. \A id \in DOMAIN jobs' \ DOMAIN jobs :
           jobs'[id].payload = x => jobs'[id].name.queue = q
    BY <1>1, <1>3 DEF OneQueue
  <2>. QED  BY <1>3, <2>1, WorkersKeepQueues
<1>. QED  BY <1>2, <1>3

\* The job that waits after its handler threw takes the place of the handler.
LEMMA ThrowBudget ==
  ASSUME IInv, KnownIds, JobsFit, NEW e \in Execution, HandlerThrows(e)
  PROVE  BudgetStep
<1>1. TableStep /\ ExecutionsOK
  BY ThrowStep, InvariantParts DEF IInv
<1>2. PICK r : r = handling[e]
  OBVIOUS
<1>3. /\ r # 0 /\ ~returned[e] /\ FailAttempt(r) /\ Leave(e) /\ UNCHANGED <<call, history>>
  BY <1>2 DEF HandlerThrows, InHandler
<1>4. UNCHANGED <<accepted, success, invoked, asked, expired>>
  BY <1>3 DEF history
<1>5. r \in DOMAIN jobs /\ ~jobs[r].name.dead
  BY <1>2, <1>3, ExecutionFacts
<1>6. PICK y : y = jobs[r].payload
  OBVIOUS
<1>7. /\ handling'[e] = 0
      /\ \A f \in Execution \ {e} : handling'[f] = handling[f] /\ returned'[f] = returned[f]
  BY <1>1, <1>3, LeaveFits
<1>8. ExecutionsOf({e})
  BY <1>7 DEF ExecutionsOf
<1>9. JobsFit' /\ ChangesOnly(jobs, jobs', {r}) /\ jobs'[r].payload = y
  BY <1>3, <1>5, <1>6, FailTokens
<1>10. /\ KnownIds'
       /\ \A x : Planned(jobs', call', x) \subseteq Planned(jobs, call, x)
  BY <1>1, <1>3, CallsRest
<1>11. ASSUME NEW x \in Payload, NEW q \in Queue, Budgeted(x, q)
       PROVE  Budgeted(x, q)'
  <2>. DEFINE A == Attempts(jobs, x)
              R == Runs(jobs, handling, returned, x)
              P == Planned(jobs, call, x)
              B == Attempts(jobs', x)
              S == Runs(jobs', handling', returned', x)
              O == Planned(jobs', call', x)
              u == <<"execution", e>>
              v == <<"job", r>>
  <2>1. B \subseteq A /\ OneQueue(jobs', call', x, q)
    BY <1>1, <1>3, <1>5, <1>11, FailLeavesLess DEF Budgeted
  <2>2. \A p \in S : (p \in R /\ p # u) \/ (p = v /\ x = y)
    BY <1>1, <1>7, <1>8, <1>9, RunsFrom
  <2>3. O \subseteq P
    BY <1>10
  <2>4. SameNumbers(x)
    BY <1>4 DEF SameNumbers
  <2>5. CASE x # y
    <3>1. S \subseteq R
      BY <2>2, <2>5
    <3>. QED  BY <1>11, <2>1, <2>3, <2>4, <3>1, LessToCome
  <2>6. CASE x = y
    <3>1. u \in R
      BY <1>2, <1>3, <1>6, <2>6, RunsMember
    <3>2. PICK inv \in Nat, suc \in Nat, ask \in Nat, exp \in Nat :
            inv = invoked[x] /\ suc = success[x] /\ ask = asked[x] /\ exp = expired[x]
      BY Numbers
    <3>3. Paid(inv, suc, ask, exp, A, R, P, q)
      BY <1>11, <3>2 DEF Budgeted
    <3>. HIDE DEF A, R, P, B, S, O, u, v
    <3>4. Exchanged(S, R, u, v)
      BY <2>2, <3>1 DEF Exchanged
    <3>5. Paid(inv, suc, ask, exp, B, S, O, q)
      BY <2>1, <2>3, <3>3, <3>4, PaidThrow
    <3>. QED  BY <2>1, <2>4, <3>2, <3>5 DEF Budgeted, SameNumbers, B, S, O
  <2>. QED  BY <2>5, <2>6
<1>. QED  BY <1>9, <1>10, <1>11 DEF BudgetStep

\* An expiry pays for the job that waits while its handler is still running.
LEMMA ExpireBudget ==
  ASSUME IInv, KnownIds, JobsFit, NEW r \in DOMAIN jobs, Expire(r)
  PROVE  BudgetStep
<1>1. TableStep /\ TableOK /\ HistoryOK
  BY ExpireStep, InvariantParts DEF IInv
<1>2. /\ jobs[r].state = "active" /\ FailAttempt(r)
      /\ expired' = [expired EXCEPT ![jobs[r].payload] = @ + 1]
      /\ UNCHANGED <<handling, returned, call, success, invoked, asked>>
  BY DEF Expire
<1>3. ~jobs[r].name.dead
  BY <1>2 DEF IInv, DeadLettersRest
<1>4. PICK y \in Payload : y = jobs[r].payload
  BY <1>1, TableFacts
<1>5. ExecutionsOf({})
  BY <1>2 DEF ExecutionsOf
<1>6. JobsFit' /\ ChangesOnly(jobs, jobs', {r}) /\ jobs'[r].payload = y
  BY <1>2, <1>3, <1>4, FailTokens
<1>7. /\ KnownIds'
      /\ \A x : Planned(jobs', call', x) \subseteq Planned(jobs, call, x)
  BY <1>1, <1>2, CallsRest
<1>8. expired'[y] = expired[y] + 1 /\ \A x \in Payload : x # y => expired'[x] = expired[x]
  BY <1>1, <1>2, <1>4 DEF HistoryOK
<1>9. ASSUME NEW x \in Payload, NEW q \in Queue, Budgeted(x, q)
      PROVE  Budgeted(x, q)'
  <2>. DEFINE A == Attempts(jobs, x)
              R == Runs(jobs, handling, returned, x)
              P == Planned(jobs, call, x)
              B == Attempts(jobs', x)
              S == Runs(jobs', handling', returned', x)
              O == Planned(jobs', call', x)
              v == <<"job", r>>
  <2>1. B \subseteq A /\ OneQueue(jobs', call', x, q)
    BY <1>1, <1>2, <1>3, <1>9, FailLeavesLess DEF Budgeted
  <2>2. \A p \in S : p \in R \/ (p = v /\ x = y)
    BY <1>1, <1>5, <1>6, RunsFrom
  <2>3. O \subseteq P
    BY <1>7
  <2>4. CASE x # y
    <3>1. S \subseteq R
      BY <2>2, <2>4
    <3>2. SameNumbers(x)
      BY <1>2, <1>8, <2>4 DEF SameNumbers
    <3>. QED  BY <1>9, <2>1, <2>3, <3>1, <3>2, LessToCome
  <2>5. CASE x = y
    <3>1. PICK inv \in Nat, suc \in Nat, ask \in Nat, exp \in Nat :
            inv = invoked[x] /\ suc = success[x] /\ ask = asked[x] /\ exp = expired[x]
      BY Numbers
    <3>2. Paid(inv, suc, ask, exp, A, R, P, q)
      BY <1>9, <3>1 DEF Budgeted
    <3>. HIDE DEF A, R, P, B, S, O, v
    <3>3. S \subseteq R \cup {v}
      BY <2>2
    <3>4. Paid(inv, suc, ask, exp + 1, B, S, O, q)
      BY <2>1, <2>3, <3>2, <3>3, PaidExpiry
    <3>5. invoked'[x] = inv /\ success'[x] = suc /\ asked'[x] = ask /\ expired'[x] = exp + 1
      BY <1>2, <1>8, <2>5, <3>1
    <3>. QED  BY <2>1, <3>4, <3>5 DEF Budgeted, B, S, O
  <2>. QED  BY <2>4, <2>5
<1>. QED  BY <1>6, <1>7, <1>9 DEF BudgetStep

\* The attempt that a fetched job spends.
LEMMA FetchTokens ==
  ASSUME IInv, JobsFit, NEW e \in Execution, NEW r \in DOMAIN jobs, Fetch(e, r)
  PROVE  /\ JobsFit'
         /\ r \in DOMAIN jobs' /\ DOMAIN jobs' = DOMAIN jobs
         /\ ChangesOnly(jobs, jobs', {r})
         /\ jobs'[r].payload = jobs[r].payload
         /\ jobs'[r].state = "active"
         /\ jobs'[r].count \in AttemptsLeft(jobs[r])
         /\ AttemptsLeft(jobs'[r]) \subseteq AttemptsLeft(jobs[r]) \ {jobs'[r].count}
<1>. DEFINE count == IF jobs[r].state = "retry" THEN jobs[r].count + 1 ELSE jobs[r].count
            job == [jobs[r] EXCEPT !.state = "active", !.count = count]
<1>1. /\ jobs[r] \in Job /\ ~jobs[r].name.dead /\ jobs[r].state \in {"created", "retry"}
      /\ jobs[r].count \in Nat /\ jobs[r].limit \in Nat
  BY InvariantParts, TableFacts DEF IInv, Fetch, Waiting
<1>2. PICK n \in Nat : n = count
  BY <1>1
<1>3. /\ job.state = "active" /\ job.count = n /\ job.limit = jobs[r].limit
      /\ job.name = jobs[r].name /\ job.payload = jobs[r].payload
  BY <1>1, <1>2 DEF Job
<1>4. jobs' = [jobs EXCEPT ![r] = job]
  BY <1>1 DEF Fetch, Job
<1>. HIDE DEF job
<1>5. /\ DOMAIN jobs' = DOMAIN jobs /\ jobs'[r] = job
      /\ \A id \in DOMAIN jobs : id # r => jobs'[id] = jobs[id]
  BY <1>4
<1>6. ChangesOnly(jobs, jobs', {r})
  BY <1>5 DEF ChangesOnly
<1>7. JobFits(jobs[r])
  BY DEF JobsFit
<1>8. /\ n <= jobs[r].limit
      /\ n \in AttemptsLeft(jobs[r])
      /\ AttemptsLeft(job) \subseteq AttemptsLeft(jobs[r]) \ {n}
  <2>1. CASE jobs[r].state = "created"
    <3>1. n = 0
      BY <1>1, <1>2, <1>7, <2>1 DEF JobFits
    <3>2. AttemptsLeft(jobs[r]) = 0 .. jobs[r].limit
      BY <1>1, <1>7, <2>1 DEF JobFits, AttemptsLeft
    <3>3. AttemptsLeft(job) = 1 .. jobs[r].limit
      BY <1>1, <1>3, <3>1 DEF AttemptsLeft
    <3>. QED  BY <1>1, <3>1, <3>2, <3>3
  <2>2. CASE jobs[r].state = "retry"
    <3>1. n = jobs[r].count + 1 /\ jobs[r].count < jobs[r].limit
      BY <1>1, <1>2, <1>7, <2>2 DEF JobFits
    <3>2. AttemptsLeft(jobs[r]) = n .. jobs[r].limit
      BY <1>1, <2>2, <3>1 DEF AttemptsLeft
    <3>3. AttemptsLeft(job) = (n + 1) .. jobs[r].limit
      BY <1>1, <1>3 DEF AttemptsLeft
    <3>. QED  BY <1>1, <3>1, <3>2, <3>3
  <2>. QED  BY <1>1, <2>1, <2>2
<1>9. JobFits(job)
  BY <1>3, <1>8 DEF JobFits
<1>10. JobsFit'
  BY <1>5, <1>9 DEF JobsFit
<1>. QED  BY <1>3, <1>5, <1>6, <1>8, <1>10

LEMMA FetchBudget ==
  ASSUME IInv, KnownIds, JobsFit, NEW e \in Execution, NEW r \in DOMAIN jobs, Fetch(e, r)
  PROVE  BudgetStep
<1>1. TableStep /\ TableOK /\ HistoryOK /\ ExecutionsOK
  BY FetchStep, InvariantParts DEF IInv
<1>2. /\ Waiting(jobs[r])
      /\ handling' = [handling EXCEPT ![e] = r]
      /\ invoked' = [invoked EXCEPT ![jobs[r].payload] = @ + 1]
      /\ UNCHANGED <<returned, call, success, asked, expired>>
  BY DEF Fetch
<1>3. PICK y \in Payload : y = jobs[r].payload
  BY <1>1, TableFacts
<1>4. handling'[e] = r /\ ExecutionsOf({e})
  BY <1>1, <1>2 DEF ExecutionsOK, ExecutionsOf
<1>5. PICK n : n = jobs'[r].count
  OBVIOUS
<1>6. /\ JobsFit' /\ DOMAIN jobs' = DOMAIN jobs
      /\ ChangesOnly(jobs, jobs', {r})
      /\ jobs'[r].payload = y /\ jobs'[r].state = "active"
      /\ n \in AttemptsLeft(jobs[r])
      /\ AttemptsLeft(jobs'[r]) \subseteq AttemptsLeft(jobs[r]) \ {n}
  BY <1>3, <1>5, FetchTokens
<1>7. /\ KnownIds'
      /\ \A x : Planned(jobs', call', x) \subseteq Planned(jobs, call, x)
  BY <1>1, <1>2, CallsRest
<1>8. invoked'[y] = invoked[y] + 1 /\ \A x \in Payload : x # y => invoked'[x] = invoked[x]
  BY <1>1, <1>2, <1>3 DEF HistoryOK
<1>9. ASSUME NEW x \in Payload, NEW q \in Queue, Budgeted(x, q)
      PROVE  Budgeted(x, q)'
  <2>. DEFINE A == Attempts(jobs, x)
              R == Runs(jobs, handling, returned, x)
              P == Planned(jobs, call, x)
              B == Attempts(jobs', x)
              S == Runs(jobs', handling', returned', x)
              O == Planned(jobs', call', x)
              t == <<r, n>>
              u == <<"job", r>>
              v == <<"execution", e>>
  <2>1. OneQueue(jobs', call', x, q)
    BY <1>1, <1>2, <1>6, <1>9, WorkersKeepQueues DEF Budgeted
  <2>2. B \subseteq A \ {t}
    <3>1. SUFFICES ASSUME NEW p \in B PROVE p \in A /\ p # t
      OBVIOUS
    <3>2. CASE jobs'[r].payload = x /\ \E k \in AttemptsLeft(jobs'[r]) : p = <<r, k>>
      <4>1. PICK k \in AttemptsLeft(jobs[r]) : p = <<r, k>> /\ k # n
        BY <1>6, <3>2
      <4>2. r \in JobsOf(jobs, x)
        BY <1>3, <1>6, <3>2 DEF JobsOf
      <4>. QED  BY <4>1, <4>2, AttemptsMember
    <3>. QED  BY <1>6, <3>1, <3>2, AttemptsFrom
  <2>3. \A p \in S : (p \in R /\ p # u) \/ (p = v /\ x = y)
    <3>1. ~Waiting(jobs'[r])
      BY <1>6 DEF Waiting
    <3>. QED  BY <1>1, <1>4, <1>6, <3>1, RunsFrom
  <2>4. O \subseteq P
    BY <1>7
  <2>5. CASE x # y
    <3>1. S \subseteq R
      BY <2>3, <2>5
    <3>2. SameNumbers(x)
      BY <1>2, <1>8, <2>5 DEF SameNumbers
    <3>. QED  BY <1>9, <2>1, <2>2, <2>4, <3>1, <3>2, LessToCome
  <2>6. CASE x = y
    <3>1. u \in R
      BY <1>2, <1>3, <2>6, RunsMember
    <3>2. t \in A
      <4>1. r \in JobsOf(jobs, x)
        BY <1>3, <2>6 DEF JobsOf
      <4>. QED  BY <1>6, <4>1, AttemptsMember
    <3>3. PICK inv \in Nat, suc \in Nat, ask \in Nat, exp \in Nat :
            inv = invoked[x] /\ suc = success[x] /\ ask = asked[x] /\ exp = expired[x]
      BY Numbers
    <3>4. Paid(inv, suc, ask, exp, A, R, P, q)
      BY <1>9, <3>3 DEF Budgeted
    <3>. HIDE DEF A, R, P, B, S, O, t, u, v
    <3>5. Exchanged(S, R, u, v)
      BY <2>3, <3>1 DEF Exchanged
    <3>6. Paid(inv + 1, suc, ask, exp, B, S, O, q)
      BY <2>2, <2>4, <3>2, <3>4, <3>5, PaidCall
    <3>7. invoked'[x] = inv + 1 /\ success'[x] = suc /\ asked'[x] = ask /\ expired'[x] = exp
      BY <1>2, <1>8, <2>6, <3>3
    <3>. QED  BY <2>1, <3>6, <3>7 DEF Budgeted, B, S, O
  <2>. QED  BY <2>5, <2>6
<1>. QED  BY <1>6, <1>7, <1>9 DEF BudgetStep

\* How often the ids name a job of x.
LEMMA NamedFacts ==
  ASSUME IInv, NEW ids \in Batch, NEW x
  PROVE  \E S : /\ S = {i \in DOMAIN ids : ids[i] \in DOMAIN jobs /\ jobs[ids[i]].payload = x}
                /\ IsFiniteSet(S) /\ Cardinality(S) = Named(ids, x) /\ Named(ids, x) \in Nat
                /\ DOMAIN ids = 1 .. Len(ids) /\ S \subseteq 1 .. Len(ids)
<1>1. ids \in Seq(Nat)
  BY BatchFits
<1>2. PICK n \in Nat : n = Len(ids) /\ DOMAIN ids = 1 .. n
  BY <1>1
<1>3. PICK S : S = {i \in DOMAIN ids : ids[i] \in DOMAIN jobs /\ jobs[ids[i]].payload = x}
  OBVIOUS
<1>4. S \subseteq 1 .. n
  BY <1>2, <1>3
<1>5. IsFiniteSet(1 .. n)
  BY FS_Interval
<1>6. IsFiniteSet(S) /\ Cardinality(S) \in Nat
  BY <1>4, <1>5, CardPart
<1>. QED  BY <1>2, <1>3, <1>4, <1>6 DEF Named

\* Each of the failed jobs that are retried gets one attempt.
LEMMA RetryTokens ==
  ASSUME IInv, JobsFit, NEW q \in Queue, NEW ids \in Batch, RetryFailed(q, ids)
  PROVE  \E K : /\ ChangesOnly(jobs, jobs', K)
                /\ JobsFit' /\ DOMAIN jobs' = DOMAIN jobs
                /\ \A r \in K : /\ \E i \in DOMAIN ids : ids[i] = r
                                /\ r \in DOMAIN jobs
                                /\ jobs'[r].payload = jobs[r].payload
                                /\ AttemptsLeft(jobs'[r]) \subseteq {jobs[r].limit + 1}
<1>. DEFINE Chosen == {id \in DOMAIN jobs : /\ \E i \in DOMAIN ids : ids[i] = id
                                            /\ jobs[id].name = [queue |-> q, dead |-> FALSE]
                                            /\ jobs[id].state = "failed"}
<1>1. PICK K : K = Chosen
  OBVIOUS
<1>2. jobs' = [id \in DOMAIN jobs |->
                 IF id \in K THEN [jobs[id] EXCEPT !.state = "retry", !.limit = @ + 1]
                             ELSE jobs[id]]
  BY <1>1 DEF RetryFailed
<1>3. \A r \in K : /\ r \in DOMAIN jobs /\ \E i \in DOMAIN ids : ids[i] = r
                   /\ ~jobs[r].name.dead /\ jobs[r].state = "failed"
  BY <1>1
<1>. HIDE DEF Chosen
<1>4. /\ DOMAIN jobs' = DOMAIN jobs
      /\ \A id \in DOMAIN jobs : id \notin K => jobs'[id] = jobs[id]
  BY <1>2
<1>5. ASSUME NEW r \in K
      PROVE  /\ jobs'[r].payload = jobs[r].payload
             /\ AttemptsLeft(jobs'[r]) \subseteq {jobs[r].limit + 1}
             /\ JobFits(jobs'[r])
  <2>1. /\ jobs[r] \in Job /\ jobs[r].limit \in Nat /\ jobs[r].count \in Nat
    BY <1>3, InvariantParts, TableFacts DEF IInv
  <2>2. jobs[r].count = jobs[r].limit
    BY <1>3 DEF JobsFit, JobFits
  <2>3. PICK n \in Nat : n = jobs[r].limit /\ n = jobs[r].count
    BY <2>1, <2>2
  <2>4. jobs'[r] = [jobs[r] EXCEPT !.state = "retry", !.limit = n + 1]
    BY <1>2, <1>3, <2>1, <2>3 DEF Job
  <2>5. PICK job : job = jobs'[r]
    OBVIOUS
  <2>6. /\ job.name = jobs[r].name /\ job.payload = jobs[r].payload
        /\ job.state = "retry" /\ job.count = n /\ job.limit = n + 1
    BY <2>1, <2>3, <2>4, <2>5 DEF Job
  <2>7. AttemptsLeft(job) = (n + 1) .. (n + 1)
    BY <1>3, <2>6 DEF AttemptsLeft
  <2>8. JobFits(job)
    BY <2>6 DEF JobFits
  <2>. QED  BY <2>3, <2>5, <2>6, <2>7, <2>8
<1>6. ChangesOnly(jobs, jobs', K)
  BY <1>4 DEF ChangesOnly
<1>7. JobsFit'
  BY <1>4, <1>5 DEF JobsFit
<1>. QED  BY <1>3, <1>4, <1>5, <1>6, <1>7

LEMMA RetryBudget ==
  ASSUME IInv, KnownIds, JobsFit, NEW p \in Queue, NEW ids \in Batch, RetryFailed(p, ids)
  PROVE  BudgetStep
<1>1. TableStep
  BY RetryStep
<1>2. /\ Ask(ids) /\ UNCHANGED <<nextId, executions, call, accepted, success, invoked, expired>>
  BY DEF RetryFailed
<1>3. UNCHANGED <<handling, returned>>
  BY <1>2 DEF executions
<1>4. PICK K : /\ ChangesOnly(jobs, jobs', K)
               /\ JobsFit' /\ DOMAIN jobs' = DOMAIN jobs
               /\ \A r \in K : /\ \E i \in DOMAIN ids : ids[i] = r
                               /\ r \in DOMAIN jobs
                               /\ jobs'[r].payload = jobs[r].payload
                               /\ AttemptsLeft(jobs'[r]) \subseteq {jobs[r].limit + 1}
  BY RetryTokens
<1>5. ExecutionsOf({})
  BY <1>3 DEF ExecutionsOf
<1>6. /\ KnownIds'
      /\ \A x : Planned(jobs', call', x) \subseteq Planned(jobs, call, x)
  BY <1>1, <1>2, CallsRest
<1>7. ASSUME NEW x \in Payload, NEW q \in Queue, Budgeted(x, q)
      PROVE  Budgeted(x, q)'
  <2>. DEFINE A == Attempts(jobs, x)
              R == Runs(jobs, handling, returned, x)
              P == Planned(jobs, call, x)
              B == Attempts(jobs', x)
              S == Runs(jobs', handling', returned', x)
              O == Planned(jobs', call', x)
  <2>1. OneQueue(jobs', call', x, q)
    BY <1>1, <1>2, <1>4, <1>7, WorkersKeepQueues DEF Budgeted
  <2>2. PICK I : /\ I = {i \in DOMAIN ids : ids[i] \in DOMAIN jobs /\ jobs[ids[i]].payload = x}
                 /\ IsFiniteSet(I) /\ Cardinality(I) = Named(ids, x) /\ Named(ids, x) \in Nat
    BY NamedFacts
  <2>3. PICK n \in Nat : n = Named(ids, x) /\ Cardinality(I) = n
    BY <2>2
  <2>4. PICK f : f = [i \in I |-> <<ids[i], jobs[ids[i]].limit + 1>>]
    OBVIOUS
  <2>5. PICK g : g = [i \in I |-> <<"job", ids[i]>>]
    OBVIOUS
  <2>6. PICK C : C = {f[i] : i \in I}
    OBVIOUS
  <2>7. PICK D : D = {g[i] : i \in I}
    OBVIOUS
  <2>8. IsFiniteSet(C) /\ Cardinality(C) <= n
    <3>1. DOMAIN f = I
      BY <2>4
    <3>. QED  BY <2>2, <2>3, <2>6, <3>1, CardImage
  <2>9. IsFiniteSet(D) /\ Cardinality(D) <= n
    <3>1. DOMAIN g = I
      BY <2>5
    <3>. QED  BY <2>2, <2>3, <2>7, <3>1, CardImage
  <2>10. ASSUME NEW r \in K, jobs[r].payload = x
         PROVE  /\ \A k \in AttemptsLeft(jobs'[r]) : <<r, k>> \in C
                /\ <<"job", r>> \in D
    <3>1. PICK i \in I : ids[i] = r
      BY <1>4, <2>2, <2>10
    <3>2. f[i] = <<r, jobs[r].limit + 1>> /\ g[i] = <<"job", r>>
      BY <2>4, <2>5, <3>1
    <3>3. f[i] \in C /\ g[i] \in D
      BY <2>6, <2>7, <3>1
    <3>. QED  BY <1>4, <3>2, <3>3
  <2>11. B \subseteq A \cup C
    <3>1. SUFFICES ASSUME NEW t \in B PROVE t \in A \/ t \in C
      OBVIOUS
    <3>2. CASE \E r \in K \cap DOMAIN jobs' :
                 jobs'[r].payload = x /\ \E k \in AttemptsLeft(jobs'[r]) : t = <<r, k>>
      BY <1>4, <2>10, <3>2
    <3>. QED  BY <1>4, <3>1, <3>2, AttemptsFrom
  <2>12. S \subseteq R \cup D
    <3>1. SUFFICES ASSUME NEW t \in S PROVE t \in R \/ t \in D
      OBVIOUS
    <3>2. CASE \E r \in K \cap DOMAIN jobs' : t = <<"job", r>> /\ jobs'[r].payload = x
      BY <1>4, <2>10, <3>2
    <3>. QED  BY <1>1, <1>4, <1>5, <3>1, <3>2, RunsFrom
  <2>13. O \subseteq P
    BY <1>6
  <2>14. PICK inv \in Nat, suc \in Nat, ask \in Nat, exp \in Nat :
           inv = invoked[x] /\ suc = success[x] /\ ask = asked[x] /\ exp = expired[x]
    BY Numbers
  <2>15. Paid(inv, suc, ask, exp, A, R, P, q)
    BY <1>7, <2>14 DEF Budgeted
  <2>. HIDE DEF A, R, P, B, S, O
  <2>16. Paid(inv, suc, ask + n, exp, B, S, O, q)
    BY <2>8, <2>9, <2>11, <2>12, <2>13, <2>15, PaidRetry
  <2>17. invoked'[x] = inv /\ success'[x] = suc /\ asked'[x] = ask + n /\ expired'[x] = exp
    BY <1>2, <2>3, <2>14 DEF Ask
  <2>. QED  BY <2>1, <2>16, <2>17 DEF Budgeted, B, S, O
<1>. QED  BY <1>4, <1>6, <1>7 DEF BudgetStep

\* A request owes no more replays of x than its ids name jobs of x.
LEMMA WantedCount ==
  ASSUME IInv, NEW ids \in Batch, NEW x
  PROVE  /\ IsFiniteSet(Wanted(jobs, ids, x)) /\ Named(ids, x) \in Nat
         /\ Cardinality(Wanted(jobs, ids, x)) \in Nat
         /\ Cardinality(Wanted(jobs, ids, x)) <= Named(ids, x)
<1>1. PICK n \in Nat : n = Len(ids)
  BY BatchFits
<1>2. PICK S : /\ S = {i \in DOMAIN ids : ids[i] \in DOMAIN jobs /\ jobs[ids[i]].payload = x}
               /\ Cardinality(S) = Named(ids, x) /\ DOMAIN ids = 1 .. n /\ S \subseteq 1 .. n
  BY <1>1, NamedFacts
<1>3. PICK T : T = Wanted(jobs, ids, x)
  OBVIOUS
<1>4. T \subseteq 1 .. n
  BY <1>1, <1>3 DEF Wanted
<1>5. ASSUME NEW k \in T PROVE n + 1 - k \in S
  <2>1. PICK j : j = n + 1 - k
    OBVIOUS
  <2>2. k \in 1 .. n /\ Names(jobs, ids[j], x)
    BY <1>1, <1>3, <2>1 DEF Wanted
  <2>3. j \in 1 .. n
    BY <2>1, <2>2
  <2>. QED  BY <1>2, <2>1, <2>2, <2>3 DEF Names
<1>6. /\ IsFiniteSet(S) /\ IsFiniteSet(T)
      /\ Cardinality(T) \in Nat /\ Cardinality(S) \in Nat
      /\ Cardinality(T) <= Cardinality(S)
  BY <1>2, <1>4, <1>5, CardBackwards
<1>. QED  BY <1>2, <1>3, <1>6

\* A request for dead letters plans a replay for each id of a job of the work.
LEMMA RequestBudget ==
  ASSUME IInv, KnownIds, JobsFit, NEW c \in Caller, NEW p \in Queue, NEW ids \in Batch,
         RequestReplay(c, p, ids)
  PROVE  BudgetStep
<1>1. TableStep /\ TableOK
  BY RequestStep, InvariantParts DEF IInv
<1>2. /\ call[c] = Idle /\ Ask(ids)
      /\ call' = [call EXCEPT ![c] = ToGet(p, ids)]
      /\ UNCHANGED <<jobs, nextId, executions, accepted, success, invoked, expired>>
  BY DEF RequestReplay
<1>3. UNCHANGED <<handling, returned>>
  BY <1>2 DEF executions
<1>4. /\ ids \in Seq(Nat) /\ ids # <<>>
      /\ \A i \in DOMAIN ids : ids[i] \in DOMAIN jobs
  BY BatchFits
<1>5. \A i \in DOMAIN ids : ids[i] < nextId
  BY <1>1, <1>4, TableFacts
<1>6. Known(ToGet(p, ids), nextId')
  <2>1. PICK k : k = [stage |-> "get", queue |-> p, entry |-> 0, todo |-> ids]
    OBVIOUS
  <2>2. k.stage # "idle" /\ k.todo = ids /\ k.queue = p /\ k.entry = 0
    BY <2>1
  <2>3. Known(k, nextId')
    BY <1>1, <1>2, <1>5, <2>2 DEF Known, TableOK
  <2>4. Known(Turned(k), nextId')
    BY <1>4, <2>2, <2>3, TurnedKnown
  <2>. QED  BY <1>4, <2>2, <2>4 DEF Turned
<1>7. PICK calls : calls = call'
  OBVIOUS
<1>8. /\ KnownIds' /\ calls[c] = ToGet(p, ids)
      /\ \A d \in Caller : d # c => calls[d] = call[d]
  BY <1>1, <1>2, <1>6, <1>7, OneCallMoves
<1>9. ChangesOnly(jobs, jobs', {}) /\ ExecutionsOf({})
  BY <1>2, <1>3 DEF ChangesOnly, ExecutionsOf
<1>10. ASSUME NEW x \in Payload, NEW q \in Queue, Budgeted(x, q)
       PROVE  Budgeted(x, q)'
  <2>. DEFINE A == Attempts(jobs, x)
              R == Runs(jobs, handling, returned, x)
              P == Planned(jobs, call, x)
              O == Planned(jobs, calls, x)
  <2>1. OneQueue(jobs', call', x, q)
    <3>1. \A d \in Caller : call'[d].stage = "send" /\ call'[d].payload = x => call'[d] = call[d]
      BY <1>7, <1>8 DEF ToGet
    <3>. QED  BY <1>1, <1>2, <1>10, <3>1, QueueStays DEF Budgeted
  <2>2. PICK W : W = Wanted(jobs, ids, x)
    OBVIOUS
  <2>3. PICK n \in Nat : n = Named(ids, x) /\ IsFiniteSet(W) /\ Cardinality(W) <= n
    BY <2>2, WantedCount
  <2>4. PICK C : C = {c} \X W /\ IsFiniteSet(C) /\ Cardinality(C) <= n
    BY <2>3, CardColumn
  <2>5. O \subseteq P \cup C
    <3>1. Owed(jobs', calls[c], x) \subseteq Owed(jobs, call[c], x) \cup W
      BY <1>2, <1>4, <1>8, <2>2, ToGetOwes
    <3>2. Planned(jobs', calls, x) \subseteq P \cup ({c} \X W)
      BY <1>1, <1>8, <3>1, OneCallPlans
    <3>. QED  BY <1>2, <2>4, <3>2
  <2>6. PICK inv \in Nat, suc \in Nat, ask \in Nat, exp \in Nat :
          inv = invoked[x] /\ suc = success[x] /\ ask = asked[x] /\ exp = expired[x]
    BY Numbers
  <2>7. Paid(inv, suc, ask, exp, A, R, P, q)
    BY <1>10, <2>6 DEF Budgeted
  <2>. HIDE DEF A, R, P, O
  <2>8. Paid(inv, suc, ask + n, exp, A, R, O, q)
    BY <2>4, <2>5, <2>7, PaidPlan
  <2>9. invoked'[x] = inv /\ success'[x] = suc /\ asked'[x] = ask + n /\ expired'[x] = exp
    BY <1>2, <2>3, <2>6 DEF Ask
  <2>. QED  BY <1>2, <1>3, <1>7, <2>1, <2>8, <2>9 DEF Budgeted, A, R, O
<1>11. JobsFit'
  BY <1>2 DEF JobsFit
<1>. QED  BY <1>8, <1>10, <1>11 DEF BudgetStep

\* A job that is sent has all its attempts before it.
LEMMA SentTokens ==
  ASSUME IInv, JobsFit, NEW q \in Queue, NEW y \in Payload,
         jobs' = Put(jobs, nextId, Sent(q, y)), nextId' = nextId + 1
  PROVE  /\ TableStep /\ JobsFit' /\ ChangesOnly(jobs, jobs', {nextId})
         /\ DOMAIN jobs' = DOMAIN jobs \cup {nextId} /\ nextId \notin DOMAIN jobs
         /\ jobs'[nextId].payload = y /\ jobs'[nextId].name.queue = q
         /\ \A k \in AttemptsLeft(jobs'[nextId]) : <<nextId, k>> \in AllAttempts(nextId, q)
<1>1. TableOK /\ nextId \notin DOMAIN jobs
  BY InvariantParts, TableFacts DEF IInv
<1>2. PICK job : job = Sent(q, y)
  OBVIOUS
<1>3. /\ job \in Job /\ job.state = "created"
      /\ job.payload = y /\ job.name.dead = FALSE
  BY <1>2, JobTypes
<1>4. job.name.queue = q /\ job.count = 0 /\ job.limit = RetryLimit[q]
  BY <1>2 DEF Sent
<1>5. /\ TableStep
      /\ DOMAIN jobs' = DOMAIN jobs \cup {nextId}
      /\ jobs'[nextId] = job
      /\ \A id \in DOMAIN jobs : jobs'[id] = jobs[id]
  BY <1>1, <1>2, <1>3, PutFresh
<1>6. ChangesOnly(jobs, jobs', {nextId})
  BY <1>5 DEF ChangesOnly
<1>7. JobFits(job)
  BY <1>3, <1>4 DEF JobFits
<1>8. JobsFit'
  BY <1>5, <1>7 DEF JobsFit
<1>9. AttemptsLeft(job) = 0 .. RetryLimit[q]
  BY <1>3, <1>4 DEF AttemptsLeft
<1>10. \A k \in AttemptsLeft(job) : <<nextId, k>> \in AllAttempts(nextId, q)
  BY <1>9 DEF AllAttempts
<1>. QED  BY <1>1, <1>3, <1>4, <1>5, <1>6, <1>8, <1>10

\* What a job that was sent for y adds to come.
LEMMA SentAdds ==
  ASSUME IInv, JobsFit, NEW q \in Queue, NEW y \in Payload,
         jobs' = Put(jobs, nextId, Sent(q, y)), nextId' = nextId + 1,
         UNCHANGED executions, NEW x
  PROVE  /\ \A p \in Attempts(jobs', x) :
              p \in Attempts(jobs, x) \/ (x = y /\ p \in AllAttempts(nextId, q))
         /\ \A p \in Runs(jobs', handling', returned', x) :
              \/ p \in Runs(jobs, handling, returned, x)
              \/ x = y /\ p = <<"job", nextId>>
<1>1. /\ TableStep /\ ChangesOnly(jobs, jobs', {nextId})
      /\ jobs'[nextId].payload = y
      /\ \A k \in AttemptsLeft(jobs'[nextId]) : <<nextId, k>> \in AllAttempts(nextId, q)
  BY SentTokens
<1>2. ExecutionsOf({})
  BY DEF ExecutionsOf, executions
<1>3. ASSUME NEW p \in Attempts(jobs', x)
      PROVE  p \in Attempts(jobs, x) \/ (x = y /\ p \in AllAttempts(nextId, q))
  BY <1>1, <1>3, AttemptsFrom
<1>4. ASSUME NEW p \in Runs(jobs', handling', returned', x)
      PROVE  p \in Runs(jobs, handling, returned, x) \/ (x = y /\ p = <<"job", nextId>>)
  BY <1>1, <1>2, <1>4, RunsFrom
<1>. QED  BY <1>3, <1>4

\* publish() of the work y leaves the budget of other work as it is, and
\* starts the one of y.
LEMMA PublishBudget ==
  ASSUME IInv, KnownIds, JobsFit, NEW p \in Queue, NEW y \in Payload, Publish(p, y)
  PROVE  /\ KnownIds' /\ JobsFit'
         /\ \A x \in Payload, q \in Queue : x # y /\ Budgeted(x, q) => Budgeted(x, q)'
         /\ invoked[y] = 0 => Budgeted(y, p)'
<1>1. /\ y \notin accepted /\ jobs' = Put(jobs, nextId, Sent(p, y)) /\ nextId' = nextId + 1
      /\ UNCHANGED <<executions, call, success, invoked, asked, expired>>
  BY DEF Publish
<1>2. /\ TableStep /\ JobsFit'
      /\ DOMAIN jobs' = DOMAIN jobs \cup {nextId}
      /\ jobs'[nextId].payload = y /\ jobs'[nextId].name.queue = p
  BY <1>1, SentTokens
<1>3. /\ KnownIds'
      /\ \A x : Planned(jobs', call', x) \subseteq Planned(jobs, call, x)
  BY <1>1, <1>2, CallsRest
<1>4. \A x : /\ \A t \in Attempts(jobs', x) :
                  t \in Attempts(jobs, x) \/ (x = y /\ t \in AllAttempts(nextId, p))
             /\ \A t \in Runs(jobs', handling', returned', x) :
                  \/ t \in Runs(jobs, handling, returned, x)
                  \/ x = y /\ t = <<"job", nextId>>
  BY <1>1, SentAdds
<1>5. ASSUME NEW x \in Payload, NEW q \in Queue, x # y, Budgeted(x, q)
      PROVE  Budgeted(x, q)'
  <2>1. OneQueue(jobs', call', x, q)
    BY <1>1, <1>2, <1>5, WorkersKeepQueues DEF Budgeted
  <2>2. SameNumbers(x)
    BY <1>1 DEF SameNumbers
  <2>. QED  BY <1>3, <1>4, <1>5, <2>1, <2>2, LessToCome
<1>6. ASSUME invoked[y] = 0
      PROVE  Budgeted(y, p)'
  <2>1. \A id \in DOMAIN jobs : jobs[id].payload # y
    BY <1>1 DEF IInv, WorkIsAccepted
  <2>2. success[y] = 0
    BY <1>1, Numbers DEF IInv, WorkIsAccepted
  <2>3. Attempts(jobs, y) = {}
    BY <2>1 DEF Attempts, JobsOf
  <2>4. Runs(jobs, handling, returned, y) = {}
    <3>1. \A e \in Execution : handling[e] # 0 => handling[e] \in DOMAIN jobs
      BY DEF IInv, ExecutionsKnowTheirJobs
    <3>. QED  BY <2>1, <3>1, RunsMember
  <2>5. \A c \in Caller : call[c].stage = "send" => call[c].payload # y
    BY <1>1 DEF IInv, RequestsKnowTheirEntries
  <2>6. Planned(jobs, call, y) = {}
    <3>1. ASSUME NEW c \in Caller PROVE Owed(jobs, call[c], y) = {}
      <4>1. \A id : ~Names(jobs, id, y)
        BY <2>1 DEF Names
      <4>. QED  BY <2>5, <4>1 DEF Owed, Wanted, Fronts
    <3>. QED  BY <3>1, PlannedMember
  <2>7. OneQueue(jobs', call', y, p)
    <3>1. OneQueue(jobs, call, y, p)
      BY <2>1, <2>5 DEF OneQueue
    <3>. QED  BY <1>1, <1>2, <3>1, WorkersKeepQueues
  <2>8. PICK ask \in Nat, exp \in Nat : ask = asked[y] /\ exp = expired[y]
    BY Numbers
  <2>9. PICK B : B = Attempts(jobs', y)
    OBVIOUS
  <2>10. PICK S : S = Runs(jobs', handling', returned', y)
    OBVIOUS
  <2>11. PICK id : id = nextId
    OBVIOUS
  <2>12. PICK v : v = <<"job", id>>
    OBVIOUS
  <2>13. B \subseteq AllAttempts(id, p) /\ S \subseteq {v}
    BY <1>4, <2>3, <2>4, <2>9, <2>10, <2>11, <2>12
  <2>14. Paid(0, 0, ask, exp, B, S, {}, p)
    BY <2>13, PaidStart
  <2>15. Planned(jobs', call', y) = {}
    BY <1>3, <2>6
  <2>. QED  BY <1>1, <1>6, <2>2, <2>7, <2>8, <2>9, <2>10, <2>14, <2>15 DEF Budgeted
<1>. QED  BY <1>2, <1>3, <1>5, <1>6

\* The job that is sent carries out the plan of the position the request is at.
LEMMA SendBudget ==
  ASSUME IInv, KnownIds, JobsFit, NEW c \in Caller, Send(c)
  PROVE  BudgetStep
<1>1. PICK k : k = call[c]
  OBVIOUS
<1>2. PICK y : y = k.payload
  OBVIOUS
<1>3. PICK s : s = k.queue
  OBVIOUS
<1>4. PICK next : next = [k EXCEPT !.stage = "delete"]
  OBVIOUS
<1>5. k.stage = "send" /\ k \in Call /\ s \in Queue /\ k.todo \in Seq(Nat)
  <2>1. k \in Call \cup {Idle} /\ k.stage = "send"
    BY <1>1 DEF IInv, TypeOK, Send
  <2>. QED  BY <1>1, <1>3, <2>1, CallFacts DEF Idle
<1>6. y \in Payload /\ y \in accepted
  BY <1>1, <1>2, <1>5 DEF IInv, RequestsKnowTheirEntries, TypeOK
<1>7. /\ jobs' = Put(jobs, nextId, Sent(s, y)) /\ nextId' = nextId + 1
      /\ call' = [call EXCEPT ![c] = next]
      /\ UNCHANGED <<executions, history>>
  BY <1>1, <1>2, <1>3, <1>4 DEF Send
<1>8. /\ next.stage = "delete" /\ next.entry = k.entry /\ next.todo = k.todo
  BY <1>4, <1>5 DEF Call
<1>9. /\ TableStep /\ JobsFit'
      /\ DOMAIN jobs' = DOMAIN jobs \cup {nextId}
      /\ jobs'[nextId].payload = y /\ jobs'[nextId].name.queue = s
  BY <1>5, <1>6, <1>7, SentTokens
<1>10. Known(next, nextId')
  <2>1. Known(k, nextId')
    BY <1>1, <1>9, OwedStays
  <2>. QED  BY <1>5, <1>8, <2>1 DEF Known
<1>11. PICK calls : calls = call'
  OBVIOUS
<1>12. KnownIds' /\ calls[c] = next /\ \A d \in Caller : d # c => calls[d] = call[d]
  BY <1>7, <1>9, <1>10, <1>11, OneCallMoves
<1>13. UNCHANGED <<accepted, success, invoked, asked, expired>>
  BY <1>7 DEF history
<1>14. PICK o : o = Len(k.todo) + 1
  OBVIOUS
<1>15. ASSUME NEW x PROVE Owed(jobs', next, x) \subseteq Owed(jobs, k, x) \ {o}
  <2>1. PICK ids \in Seq(Nat) : ids = k.todo
    BY <1>5
  <2>2. ~Fronts(jobs', next, x)
    BY <1>8 DEF Fronts
  <2>3. Owed(jobs', next, x) = Wanted(jobs', ids, x)
    BY <1>8, <2>1, <2>2 DEF Owed
  <2>4. \A i \in DOMAIN ids : ids[i] < nextId
    BY <1>1, <1>5, <2>1 DEF KnownIds, Known
  <2>5. Wanted(jobs', ids, x) \subseteq Wanted(jobs, ids, x)
    BY <1>9, <2>4, WantedStays
  <2>6. Wanted(jobs, ids, x) \subseteq Owed(jobs, k, x)
    BY <1>5, <2>1 DEF Owed
  <2>7. o \notin Wanted(jobs, ids, x)
    <3>1. PICK n \in Nat : n = Len(ids)
      OBVIOUS
    <3>2. o = n + 1 /\ o \notin 1 .. n
      BY <1>14, <2>1, <3>1
    <3>. QED  BY <3>1, <3>2 DEF Wanted
  <2>. QED  BY <2>3, <2>5, <2>6, <2>7
<1>16. ASSUME NEW x, NEW t \in Planned(jobs', calls, x)
       PROVE  t \in Planned(jobs, call, x) /\ t # <<c, o>>
  <2>1. PICK ks : ks = jobs'
    OBVIOUS
  <2>2. PICK d \in Caller : \E i \in Owed(ks, calls[d], x) : t = <<d, i>>
    BY <1>16, <2>1, PlannedMember
  <2>3. PICK i \in Owed(ks, calls[d], x) : t = <<d, i>>
    BY <2>2
  <2>4. CASE d = c
    <3>1. i \in Owed(jobs, call[c], x) /\ i # o
      BY <1>1, <1>12, <1>15, <2>1, <2>3, <2>4
    <3>. QED  BY <2>3, <2>4, <3>1, PlannedMember
  <2>5. CASE d # c
    <3>1. i \in Owed(jobs, call[d], x)
      BY <1>9, <1>12, <2>1, <2>3, <2>5, OwedStays
    <3>. QED  BY <2>3, <2>5, <3>1, PlannedMember
  <2>. QED  BY <2>4, <2>5
<1>17. ASSUME NEW x \in Payload, NEW q \in Queue, Budgeted(x, q)
       PROVE  Budgeted(x, q)'
  <2>. DEFINE A == Attempts(jobs, x)
              R == Runs(jobs, handling, returned, x)
              P == Planned(jobs, call, x)
              B == Attempts(jobs', x)
              S == Runs(jobs', handling', returned', x)
              O == Planned(jobs', calls, x)
              p == <<c, o>>
  <2>1. OneQueue(jobs, call, x, q)
    BY <1>17 DEF Budgeted
  <2>2. x = y => s = q
    BY <1>1, <1>2, <1>3, <1>5, <2>1 DEF OneQueue
  <2>3. OneQueue(jobs', call', x, q)
    <3>1. \A id \in DOMAIN jobs' \ DOMAIN jobs :
            jobs'[id].payload = x => jobs'[id].name.queue = q
      BY <1>9, <2>2
    <3>2. \A d \in Caller : call'[d].stage = "send" /\ call'[d].payload = x => call'[d] = call[d]
      BY <1>8, <1>11, <1>12
    <3>. QED  BY <1>9, <2>1, <3>1, <3>2, QueueStays
  <2>4. PICK id : id = nextId
    OBVIOUS
  <2>5. PICK v : v = <<"job", id>>
    OBVIOUS
  <2>6. /\ \A t \in B : t \in A \/ (x = y /\ t \in AllAttempts(id, s))
        /\ \A t \in S : t \in R \/ (x = y /\ t = v)
    BY <1>5, <1>6, <1>7, <2>4, <2>5, SentAdds
  <2>7. O \subseteq P \ {p}
    BY <1>16
  <2>8. SameNumbers(x)
    BY <1>13 DEF SameNumbers
  <2>9. CASE x # y
    <3>1. B \subseteq A /\ S \subseteq R /\ O \subseteq P
      BY <2>6, <2>7, <2>9
    <3>. QED  BY <1>11, <1>17, <2>3, <2>8, <3>1, LessToCome
  <2>10. CASE x = y
    <3>1. p \in P
      <4>1. Fronts(jobs, k, x)
        BY <1>2, <1>5, <2>10 DEF Fronts
      <4>2. o \in Owed(jobs, call[c], x)
        BY <1>1, <1>5, <1>14, <4>1 DEF Owed
      <4>. QED  BY <4>2, PlannedMember
    <3>2. PICK inv \in Nat, suc \in Nat, ask \in Nat, exp \in Nat :
            inv = invoked[x] /\ suc = success[x] /\ ask = asked[x] /\ exp = expired[x]
      BY Numbers
    <3>3. Paid(inv, suc, ask, exp, A, R, P, q)
      BY <1>17, <3>2 DEF Budgeted
    <3>. HIDE DEF A, R, P, B, S, O, p
    <3>4. SentWithin(A, R, B, S, id, v, q)
      BY <2>2, <2>6, <2>10 DEF SentWithin
    <3>5. Paid(inv, suc, ask, exp, B, S, O, q)
      BY <2>7, <3>1, <3>3, <3>4, PaidSend
    <3>. QED  BY <1>11, <2>3, <2>8, <3>2, <3>5 DEF Budgeted, SameNumbers, B, S, O
  <2>. QED  BY <2>9, <2>10
<1>. QED  BY <1>9, <1>12, <1>17 DEF BudgetStep

\* The driver starts in the budget.
LEMMA InitBudget == Init => BudgetInv
<1>. SUFFICES ASSUME Init PROVE BudgetInv
  OBVIOUS
<1>1. DOMAIN jobs = {} /\ accepted = {} /\ \A x \in Payload : invoked[x] = 0
  BY DEF Init, None
<1>2. \A c \in Caller : call[c].stage = "idle"
  BY DEF Init, Idle
<1>3. KnownIds
  BY <1>2 DEF KnownIds, Known
<1>. QED  BY <1>1, <1>3 DEF BudgetInv, JobsFit

\* The handler is never called for work that nobody published.
LEMMA CallsOnlyAccepted ==
  ASSUME IInv, HistoryStep, [Next]_vars,
         \A x \in Payload \ accepted : invoked[x] = 0
  PROVE  \A x \in Payload \ accepted' : invoked'[x] = 0
<1>1. SUFFICES ASSUME NEW x \in Payload, x \notin accepted PROVE invoked'[x] = 0
  BY DEF HistoryStep
<1>2. invoked[x] = 0 /\ invoked \in [Payload -> Nat]
  BY <1>1 DEF IInv, TypeOK
<1>3. ASSUME NEW e \in Execution, NEW id \in DOMAIN jobs, Fetch(e, id)
      PROVE  invoked'[x] = 0
  <2>1. jobs[id].payload # x
    BY <1>1 DEF IInv, WorkIsAccepted
  <2>2. invoked' = [invoked EXCEPT ![jobs[id].payload] = @ + 1]
    BY <1>3 DEF Fetch
  <2>. QED  BY <1>2, <2>1, <2>2
<1>4. CASE invoked' = invoked
  BY <1>2, <1>4
<1>5. CASE Next
  BY <1>3, <1>4, <1>5 DEF Next, Publish, HandlerSucceeds, Complete, HandlerThrows, Abandon,
       Expire, RetryFailed, RequestReplay, GetNothing, Get, Send, DeleteEntry, RequestFails, history
<1>6. CASE UNCHANGED vars
  BY <1>4, <1>6 DEF vars
<1>. QED  BY <1>5, <1>6

\* Every step keeps the budget.
LEMMA StepBudget ==
  ASSUME IInv, BudgetInv, [Next]_vars
  PROVE  BudgetInv'
<1>1. KnownIds /\ JobsFit /\ accepted \subseteq Payload
  BY DEF BudgetInv, IInv, TypeOK
<1>2. TableStep /\ HistoryStep
  BY StepIInv
<1>3. \A x \in Payload \ accepted' : invoked'[x] = 0
  BY <1>2, CallsOnlyAccepted DEF BudgetInv
<1>4. ASSUME NEW p \in Queue, NEW y \in Payload, Publish(p, y)
      PROVE  BudgetInv'
  <2>1. accepted' = accepted \cup {y} /\ y \notin accepted
    BY <1>4 DEF Publish
  <2>2. /\ KnownIds' /\ JobsFit'
        /\ \A x \in Payload, q \in Queue : x # y /\ Budgeted(x, q) => Budgeted(x, q)'
        /\ invoked[y] = 0 => Budgeted(y, p)'
    BY <1>1, <1>4, PublishBudget
  <2>3. invoked[y] = 0
    BY <2>1 DEF BudgetInv
  <2>. QED  BY <1>1, <1>3, <2>1, <2>2, <2>3 DEF BudgetInv
<1>5. ASSUME accepted' = accepted, BudgetStep
      PROVE  BudgetInv'
  BY <1>1, <1>3, <1>5 DEF BudgetInv, BudgetStep
<1>6. ASSUME NEW e \in Execution,
             \/ \E id \in DOMAIN jobs : Fetch(e, id)
             \/ HandlerSucceeds(e)
             \/ Complete(e)
             \/ HandlerThrows(e)
             \/ Abandon(e)
      PROVE  BudgetInv'
  <2>1. accepted' = accepted
    BY <1>6 DEF Fetch, HandlerSucceeds, Complete, HandlerThrows, Abandon, history
  <2>2. BudgetStep
    BY <1>1, <1>6, FetchBudget, SuccessBudget, CompleteBudget, ThrowBudget, AbandonBudget
  <2>. QED  BY <1>5, <2>1, <2>2
<1>7. ASSUME NEW id \in DOMAIN jobs, Expire(id)
      PROVE  BudgetInv'
  BY <1>1, <1>5, <1>7, ExpireBudget DEF Expire
<1>8. ASSUME NEW q \in Queue, NEW ids \in Batch, RetryFailed(q, ids)
      PROVE  BudgetInv'
  <2>1. accepted' = accepted
    BY <1>8 DEF RetryFailed
  <2>2. BudgetStep
    BY <1>1, <1>8, RetryBudget
  <2>. QED  BY <1>5, <2>1, <2>2
<1>9. ASSUME NEW c \in Caller,
             \/ \E q \in Queue, ids \in Batch : RequestReplay(c, q, ids)
             \/ GetNothing(c)
             \/ Get(c)
             \/ Send(c)
             \/ DeleteEntry(c)
             \/ RequestFails(c)
      PROVE  BudgetInv'
  <2>1. accepted' = accepted
    BY <1>9 DEF RequestReplay, GetNothing, Get, Send, DeleteEntry, RequestFails, history
  <2>2. BudgetStep
    BY <1>1, <1>9, RequestBudget, GetNothingBudget, GetBudget, SendBudget, DeleteBudget,
       RequestFailsBudget
  <2>. QED  BY <1>5, <2>1, <2>2
<1>10. CASE UNCHANGED vars
  BY <1>10 DEF vars, BudgetInv, KnownIds, JobsFit, Budgeted
<1>. QED  BY <1>4, <1>6, <1>7, <1>8, <1>9, <1>10 DEF Next

\* The budget bounds what was done.
LEMMA BudgetBounds ==
  ASSUME IInv, BudgetInv
  PROVE  AttemptBudget /\ RepeatsHaveACause
<1>1. accepted \subseteq Payload
  BY DEF IInv, TypeOK
<1>2. ASSUME NEW x \in accepted
      PROVE  /\ \A id \in DOMAIN jobs : jobs[id].payload = x =>
                  invoked[x] <= (1 + asked[x]) * (RetryLimit[jobs[id].name.queue] + 1)
             /\ success[x] <= 1 + asked[x] + expired[x]
  <2>1. PICK q \in Queue : Budgeted(x, q)
    BY DEF BudgetInv
  <2>2. PICK inv \in Nat, suc \in Nat, ask \in Nat, exp \in Nat :
          inv = invoked[x] /\ suc = success[x] /\ ask = asked[x] /\ exp = expired[x]
    BY <1>1, Numbers
  <2>3. PICK m \in Nat, a \in Nat, b \in Nat :
          m = RetryLimit[q] + 1 /\ b = 1 + ask + exp /\ a = (1 + ask) * (RetryLimit[q] + 1)
    BY BudgetTypes
  <2>4. PICK A, R, P : /\ A = Attempts(jobs, x)
                       /\ R = Runs(jobs, handling, returned, x)
                       /\ P = Planned(jobs, call, x)
    OBVIOUS
  <2>5. Covered(inv, A, P, m, a) /\ Covered(suc, R, P, 1, b)
    BY <2>1, <2>2, <2>3, <2>4 DEF Budgeted, Paid
  <2>6. inv <= a /\ suc <= b
    BY <2>5, CoveredBound
  <2>7. \A id \in DOMAIN jobs : jobs[id].payload = x => jobs[id].name.queue = q
    BY <2>1 DEF Budgeted, OneQueue
  <2>. QED  BY <2>2, <2>3, <2>6, <2>7
<1>3. AttemptBudget
  BY <1>2 DEF AttemptBudget, IInv, WorkIsAccepted
<1>4. RepeatsHaveACause
  <2>1. ASSUME NEW x \in Payload, x \notin accepted
        PROVE  success[x] <= 1 + asked[x] + expired[x]
    <3>1. success[x] = 0
      BY <2>1, Numbers DEF IInv, WorkIsAccepted
    <3>. QED  BY <3>1, Numbers
  <2>. QED  BY <1>2, <2>1 DEF RepeatsHaveACause
<1>. QED  BY <1>3, <1>4

\* The budget is kept in every state the driver reaches.
LEMMA BudgetInvariance == Spec => []BudgetInv
<1>1. IInv /\ BudgetInv /\ [Next]_vars => BudgetInv'
  BY StepBudget
<1>. QED  BY <1>1, InitBudget, Invariance, PTL DEF Spec

-----------------------------------------------------------------------------
\* Every reachable state of PgBossQueueDriver, its workers and its table has
\* the shape TypeOK describes.
THEOREM TypeCorrect == Spec => []TypeOK
<1>1. IInv => TypeOK
  BY DEF IInv
<1>. QED  BY <1>1, Invariance, PTL

\* Whatever retry() is asked for, wherever workers die and however late a handler
\* throws: next to the attempt that is active, a job is executed by at most one
\* handler for each time that it expired itself.
THEOREM Exclusion == Spec => []OverlapsNeedExpiry
<1>1. IInv => OverlapsNeedExpiry
  BY DEF IInv
<1>. QED  BY <1>1, Invariance, PTL

\* retry() deletes a dead letter entry only after its work was sent anew, also
\* when requests for the same entry overlap.
THEOREM ReplaysComeFirst == Spec => EntriesLeaveAfterTheirReplay
<1>. DEFINE Deletes ==
       \A id \in DOMAIN jobs \ DOMAIN jobs' :
         \E new \in DOMAIN jobs : /\ new > id
                                  /\ ~jobs[new].name.dead
                                  /\ jobs[new].payload = jobs[id].payload
<1>1. ASSUME IInv, Next, NEW r \in DOMAIN jobs \ DOMAIN jobs'
      PROVE  \E new \in DOMAIN jobs : /\ new > r
                                      /\ ~jobs[new].name.dead
                                      /\ jobs[new].payload = jobs[r].payload
  <2>1. ASSUME NEW c \in Caller, DeleteEntry(c)
        PROVE  \E new \in DOMAIN jobs : /\ new > r
                                        /\ ~jobs[new].name.dead
                                        /\ jobs[new].payload = jobs[r].payload
    <3>1. call[c].stage = "delete" /\ jobs' = Without(jobs, call[c].entry)
      BY <2>1 DEF DeleteEntry
    <3>2. r = call[c].entry
      BY <1>1, <3>1 DEF Without
    <3>. QED  BY <1>1, <3>1, <3>2 DEF IInv, RequestsKnowTheirEntries
  <2>2. CASE DOMAIN jobs \subseteq DOMAIN jobs'
    BY <1>1, <2>2
  <2>3. (\E c \in Caller : DeleteEntry(c)) \/ DOMAIN jobs \subseteq DOMAIN jobs'
    <3>1. ASSUME NEW id \in DOMAIN jobs, FailAttempt(id)
          PROVE  DOMAIN jobs \subseteq DOMAIN jobs'
      BY <3>1 DEF FailAttempt, Put
    <3>2. ASSUME NEW id \in DOMAIN jobs, CompleteAttempt(id)
          PROVE  DOMAIN jobs \subseteq DOMAIN jobs'
      BY <3>2 DEF CompleteAttempt
    <3>3. \A e \in Execution : handling[e] # 0 \/ returned[e] => handling[e] \in DOMAIN jobs
      BY <1>1 DEF IInv, ExecutionsKnowTheirJobs
    <3>4. ASSUME NEW e \in Execution,
                 \/ \E id \in DOMAIN jobs : Fetch(e, id)
                 \/ HandlerSucceeds(e)
                 \/ Complete(e)
                 \/ HandlerThrows(e)
                 \/ Abandon(e)
          PROVE  DOMAIN jobs \subseteq DOMAIN jobs'
      BY <3>1, <3>2, <3>3, <3>4
      DEF Fetch, HandlerSucceeds, Complete, HandlerThrows, InHandler, Abandon
    <3>5. ASSUME NEW c \in Caller,
                 \/ \E q \in Queue, ids \in Batch : RequestReplay(c, q, ids)
                 \/ GetNothing(c)
                 \/ Get(c)
                 \/ Send(c)
                 \/ RequestFails(c)
          PROVE  DOMAIN jobs \subseteq DOMAIN jobs'
      BY <3>5 DEF RequestReplay, GetNothing, Get, Send, RequestFails, Put
    <3>6. ASSUME NEW q \in Queue, NEW x \in Payload, Publish(q, x)
          PROVE  DOMAIN jobs \subseteq DOMAIN jobs'
      BY <3>6 DEF Publish, Put
    <3>7. ASSUME NEW q \in Queue, NEW ids \in Batch, RetryFailed(q, ids)
          PROVE  DOMAIN jobs \subseteq DOMAIN jobs'
      BY <3>7 DEF RetryFailed
    <3>8. ASSUME NEW id \in DOMAIN jobs, Expire(id)
          PROVE  DOMAIN jobs \subseteq DOMAIN jobs'
      BY <3>1, <3>8 DEF Expire
    <3>. QED  BY <1>1, <3>4, <3>5, <3>6, <3>7, <3>8 DEF Next
  <2>. QED  BY <2>1, <2>2, <2>3
<1>2. IInv /\ [Next]_vars => [Deletes]_vars
  BY <1>1
<1>. QED  BY <1>2, Invariance, PTL DEF Spec, EntriesLeaveAfterTheirReplay

\* Work that keeps failing is bounded: however handlers throw, workers die, time
\* runs out and replays of dead letters overlap, the driver calls the handler on
\* a piece of work at most retryLimit + 1 times for its publication and for each
\* id of a retry request that named a job of it.
THEOREM BoundedAttempts == Spec => []AttemptBudget
<1>1. IInv /\ BudgetInv => AttemptBudget
  BY BudgetBounds
<1>. QED  BY <1>1, Invariance, BudgetInvariance, PTL

\* The handler succeeds again on a piece of work only for a replay an operator
\* asked for, or because the time of an attempt ran out while its handler ran.
THEOREM RepeatsAreCaused == Spec => []RepeatsHaveACause
<1>1. IInv /\ BudgetInv => RepeatsHaveACause
  BY BudgetBounds
<1>. QED  BY <1>1, Invariance, BudgetInvariance, PTL

\* The pg-boss driver keeps the promise of QueueDriver: accepted work is
\* pending or listed until it is done, and stays done.
THEOREM Refinement == Spec => ImplementsWorkQueue
<1>. QED  BY InitOfWork, StepOfWork, Invariance, PTL DEF Spec, ImplementsWorkQueue, Work!Spec

=============================================================================
