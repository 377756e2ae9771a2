-------------------------- MODULE InlineQueueProofs --------------------------
(***************************************************************************)
(* Proofs about InlineQueue, for every set of callers, queues and payloads *)
(* and every bound: type correctness, mutual exclusion of the executions   *)
(* of a job, that the driver implements WorkQueue: published work is never *)
(* silently lost, and that the calls of a handler stay within a budget.    *)
(***************************************************************************)
EXTENDS InlineQueue, Counting, FiniteSetTheorems, TLAPS

-----------------------------------------------------------------------------
(* Vocabulary of the proof. *)

\* A jobs map between two turns of the event loop, with its next fresh id.
JobsOK(js, id) ==
  /\ id \in Nat \ {0}
  /\ DOMAIN js \subseteq 1 .. (id - 1)
  /\ js \in [DOMAIN js -> Job]
  /\ \A i \in DOMAIN js : js[i].name.dead => js[i].state = "created"

CallsOK ==
  /\ running \in [Caller -> Nat]
  /\ replaying \in [Caller -> Nat]
  /\ name \in [Caller -> JobName]
  /\ todo \in [Caller -> Seq(Nat)]
  /\ invoked \in [Payload -> Nat]

\* The calls other than c fit the map js, and nothing in js runs for c.
OthersFit(c, js, id) ==
  /\ \A d \in Caller \ {c} :
       /\ running[d] # 0 => running[d] \in DOMAIN js
       /\ replaying[d] # 0 =>
            /\ running[d] # 0
            /\ replaying[d] < id
            /\ replaying[d] \in DOMAIN js =>
                 /\ js[replaying[d]].name.dead
                 /\ js[replaying[d]].payload = js[running[d]].payload
       /\ \A e \in Caller \ {c} :
            running[d] # 0 /\ running[d] = running[e] => d = e
  /\ \A i \in DOMAIN js :
       js[i].state = "active" <=> \E d \in Caller \ {c} : running[d] = i

\* The entry of js with id i keeps the work x from being lost.
Keeps(js, i, x) ==
  /\ i \in DOMAIN js
  /\ js[i].payload = x
  /\ js[i].state = "active" \/ Listed(js[i])

-----------------------------------------------------------------------------
(* The map. *)

\* The name of a job queue's own jobs and the job records of the driver.
LEMMA JobTypes ==
  /\ \A q \in Queue, x \in Payload :
       /\ Published(q, x) \in Job
       /\ Published(q, x).state = "active"
       /\ Published(q, x).payload = x
       /\ Published(q, x).name.dead = FALSE
  /\ \A job \in Job :
       /\ job.name.queue \in Queue /\ job.payload \in Payload
       /\ DeadLetter(job) \in Job
       /\ DeadLetter(job).state = "created"
       /\ DeadLetter(job).payload = job.payload
       /\ DeadLetter(job).name.dead = TRUE
       /\ Restarted(job) \in Job
       /\ Restarted(job).state = "active"
       /\ Restarted(job).payload = job.payload
       /\ Restarted(job).name = job.name
BY DEF Job, JobName, JobState, Published, DeadLetter, Restarted

\* The placeholder for the name of an idle call is a job name.
LEMMA AnyNameType == AnyName \in JobName
<1>1. PICK q \in Queue : TRUE
  BY ConstantsAssumption
<1>2. [queue |-> q, dead |-> TRUE] \in JobName
  BY DEF JobName
<1>. QED  BY <1>2 DEF AnyName

\* A new job gets the next fresh id.
LEMMA PutFresh ==
  ASSUME NEW js, NEW id, JobsOK(js, id), NEW job \in Job,
         job.name.dead => job.state = "created"
  PROVE  JobsOK(Put(js, id, job), id + 1)
<1>. DEFINE ks == Put(js, id, job)
<1>1. /\ DOMAIN ks = DOMAIN js \cup {id}
      /\ ks[id] = job
      /\ \A k \in DOMAIN js : k # id => ks[k] = js[k]
  BY DEF Put
<1>. HIDE DEF ks
<1>2. id + 1 \in Nat \ {0} /\ DOMAIN js \cup {id} \subseteq 1 .. (id + 1 - 1)
  BY DEF JobsOK
<1>3. \A k \in DOMAIN ks : ks[k].name.dead => ks[k].state = "created"
  BY <1>1 DEF JobsOK
<1>4. \A k \in DOMAIN ks : ks[k] \in Job
  BY <1>1 DEF JobsOK
<1>5. ks \in [DOMAIN ks -> Job]
  BY <1>4 DEF ks, Put
<1>6. JobsOK(ks, id + 1)
  BY <1>1, <1>2, <1>3, <1>5 DEF JobsOK
<1>. QED  BY <1>6 DEF ks

\* A restarted job keeps its id.
LEMMA PutOver ==
  ASSUME NEW js, NEW id, JobsOK(js, id), NEW i \in DOMAIN js, NEW job \in Job,
         job.name.dead => job.state = "created"
  PROVE  JobsOK(Put(js, i, job), id)
<1>. DEFINE ks == Put(js, i, job)
<1>1. /\ DOMAIN ks = DOMAIN js \cup {i}
      /\ ks[i] = job
      /\ \A k \in DOMAIN js : k # i => ks[k] = js[k]
  BY DEF Put
<1>. HIDE DEF ks
<1>2. \A k \in DOMAIN ks : ks[k].name.dead => ks[k].state = "created"
  BY <1>1 DEF JobsOK
<1>3. DOMAIN ks = DOMAIN js
  BY <1>1
<1>4. \A k \in DOMAIN ks : ks[k] \in Job
  BY <1>1 DEF JobsOK
<1>5. ks \in [DOMAIN ks -> Job]
  BY <1>4 DEF ks, Put
<1>6. JobsOK(ks, id)
  BY <1>2, <1>3, <1>5 DEF JobsOK
<1>. QED  BY <1>6 DEF ks

\* Deleting an entry leaves a jobs map with the other entries unchanged.
LEMMA DeleteFits ==
  ASSUME NEW js, NEW id, JobsOK(js, id), NEW i
  PROVE  /\ JobsOK(Delete(js, i), id)
         /\ DOMAIN Delete(js, i) = DOMAIN js \ {i}
         /\ \A k \in DOMAIN js : k # i => Delete(js, i)[k] = js[k]
<1>1. /\ DOMAIN Delete(js, i) = DOMAIN js \ {i}
      /\ \A k \in DOMAIN js : k # i => Delete(js, i)[k] = js[k]
  BY DEF Delete
<1>2. \A k \in DOMAIN js : js[k] \in Job
  BY DEF JobsOK
<1>3. Delete(js, i) \in [DOMAIN Delete(js, i) -> Job]
  BY <1>1, <1>2 DEF Delete
<1>. QED  BY <1>1, <1>3 DEF JobsOK

-----------------------------------------------------------------------------
(* The loop of retry(). *)

\* The ids that are left of a request are a sequence of ids.
LEMMA SubSeqType ==
  ASSUME NEW ids \in Seq(Nat), NEW i \in DOMAIN ids
  PROVE  SubSeq(ids, i + 1, Len(ids)) \in Seq(Nat)
OBVIOUS

\* The call c starts the job r, put into the map js: a fresh job, or one of
\* js that had failed.
LEMMA RerunFits ==
  ASSUME CallsOK, NEW c \in Caller,
         NEW js, NEW id, JobsOK(js, id), OthersFit(c, js, id),
         NEW ks, NEW next, JobsOK(ks, next), id <= next,
         NEW r \in DOMAIN ks, ks[r].state = "active",
         DOMAIN ks = DOMAIN js \cup {r},
         \A k \in DOMAIN js : k # r => ks[k] = js[k],
         IF r \in DOMAIN js THEN js[r].state = "failed" ELSE r = id,
         NEW n \in JobName, NEW ids \in Seq(Nat), NEW i \in DOMAIN ids,
         n.dead => /\ ids[i] \in DOMAIN ks
                   /\ ks[ids[i]].name.dead
                   /\ ks[ids[i]].payload = ks[r].payload,
         Rerun(c, ks, next, r, n, ids, i)
  PROVE  /\ CallsOK'
         /\ jobs' = ks /\ nextId' = next
         /\ CallsKnowTheirJobs'
         /\ ExclusiveExecution'
<1>1. /\ id \in Nat \ {0} /\ next \in Nat \ {0}
      /\ ks[r] \in Job /\ r \in Nat /\ r # 0 /\ r < next
  BY DEF JobsOK
<1>2. CallsOK'
  <2>1. ids[i] \in Nat
    OBVIOUS
  <2>2. ks[r].payload \in Payload
    BY <1>1 DEF Job
  <2>3. SubSeq(ids, i + 1, Len(ids)) \in Seq(Nat)
    BY SubSeqType
  <2>4. running' \in [Caller -> Nat] /\ replaying' \in [Caller -> Nat]
    BY <1>1, <2>1 DEF CallsOK, Rerun
  <2>5. name' \in [Caller -> JobName] /\ todo' \in [Caller -> Seq(Nat)]
    BY <2>3 DEF CallsOK, Rerun
  <2>6. invoked' \in [Payload -> Nat]
    BY <2>2 DEF CallsOK, Rerun
  <2>. QED  BY <2>4, <2>5, <2>6 DEF CallsOK
<1>3. jobs' = ks /\ nextId' = next
  BY DEF Rerun
<1>4. /\ running'[c] = r
      /\ replaying'[c] = IF n.dead THEN ids[i] ELSE 0
      /\ \A d \in Caller \ {c} : running'[d] = running[d] /\ replaying'[d] = replaying[d]
  BY DEF Rerun, CallsOK
<1>5. \A d \in Caller \ {c} : running[d] # r
  <2>1. r \in DOMAIN js => \A d \in Caller \ {c} : running[d] # r
    BY DEF OthersFit
  <2>. QED  BY <1>1, <2>1 DEF OthersFit
<1>6. \A d \in Caller \ {c} : replaying[d] # 0 => replaying[d] # r
  <2>1. r \in DOMAIN js => ~js[r].name.dead
    BY DEF JobsOK
  <2>. QED  BY <1>1, <2>1 DEF OthersFit, CallsOK
<1>7. CallsKnowTheirJobs'
  <2>1. /\ running'[c] \in DOMAIN ks
        /\ replaying'[c] # 0 =>
             /\ running'[c] # 0
             /\ replaying'[c] < next
             /\ ks[replaying'[c]].name.dead
             /\ ks[replaying'[c]].payload = ks[running'[c]].payload
    BY <1>1, <1>4 DEF JobsOK
  <2>2. ASSUME NEW d \in Caller \ {c}
        PROVE  /\ running'[d] # 0 => running'[d] \in DOMAIN ks
               /\ replaying'[d] # 0 =>
                    /\ running'[d] # 0
                    /\ replaying'[d] < next
                    /\ replaying'[d] \in DOMAIN ks =>
                         /\ ks[replaying'[d]].name.dead
                         /\ ks[replaying'[d]].payload = ks[running'[d]].payload
    <3>1. running[d] # 0 => running[d] \in DOMAIN js /\ ks[running[d]] = js[running[d]]
      BY <1>5 DEF OthersFit
    <3>2. replaying[d] # 0 /\ replaying[d] \in DOMAIN ks =>
            replaying[d] \in DOMAIN js /\ ks[replaying[d]] = js[replaying[d]]
      BY <1>6
    <3>3. replaying[d] \in Nat
      BY DEF CallsOK
    <3>. QED  BY <1>1, <1>4, <3>1, <3>2, <3>3 DEF OthersFit
  <2>. QED  BY <1>3, <2>1, <2>2 DEF CallsKnowTheirJobs
<1>8. ExclusiveExecution'
  <2>1. \A d, e \in Caller : running'[d] # 0 /\ running'[d] = running'[e] => d = e
    BY <1>4, <1>5 DEF OthersFit
  <2>2. \A k \in DOMAIN ks : ks[k].state = "active" <=> \E d \in Caller : running'[d] = k
    <3>1. \A k \in DOMAIN ks : k # r =>
            (ks[k].state = "active" <=> \E d \in Caller \ {c} : running[d] = k)
      BY DEF OthersFit
    <3>. QED  BY <1>4, <3>1
  <2>. QED  BY <1>3, <2>1, <2>2 DEF ExclusiveExecution
<1>. QED  BY <1>2, <1>3, <1>7, <1>8

\* The call c returns.
LEMMA FinishFits ==
  ASSUME CallsOK, NEW c \in Caller,
         NEW js, NEW id, JobsOK(js, id), OthersFit(c, js, id),
         Finish(c, js, id)
  PROVE  /\ CallsOK'
         /\ jobs' = js /\ nextId' = id
         /\ CallsKnowTheirJobs'
         /\ ExclusiveExecution'
<1>1. CallsOK'
  BY AnyNameType DEF CallsOK, Finish
<1>2. /\ jobs' = js /\ nextId' = id
      /\ running'[c] = 0 /\ replaying'[c] = 0
      /\ \A d \in Caller \ {c} : running'[d] = running[d] /\ replaying'[d] = replaying[d]
  BY DEF Finish, CallsOK
<1>3. 0 \notin DOMAIN js
  BY DEF JobsOK
<1>4. CallsKnowTheirJobs'
  BY <1>2 DEF CallsKnowTheirJobs, OthersFit
<1>5. ExclusiveExecution'
  BY <1>2, <1>3 DEF ExclusiveExecution, OthersFit
<1>. QED  BY <1>1, <1>2, <1>4, <1>5

\* However the loop goes on, the invariants hold again, and every entry that
\* kept work from being lost still does.
LEMMA ProceedFits ==
  ASSUME CallsOK, NEW c \in Caller,
         NEW js, NEW id, JobsOK(js, id), OthersFit(c, js, id),
         NEW n \in JobName, NEW ids \in Seq(Nat),
         Proceed(c, js, id, n, ids)
  PROVE  /\ CallsOK'
         /\ JobsOK(jobs', nextId')
         /\ CallsKnowTheirJobs'
         /\ ExclusiveExecution'
         /\ \A x \in Payload, k \in DOMAIN js : Keeps(js, k, x) => Keeps(jobs', k, x)
<1>1. CASE Finish(c, js, id)
  BY <1>1, FinishFits
<1>2. ASSUME NEW i \in DOMAIN ids, Replayable(js, n, ids[i]), n.dead,
             Rerun(c, Put(js, id, Published(n.queue, js[ids[i]].payload)),
                   id + 1, id, n, ids, i)
      PROVE  /\ CallsOK'
             /\ JobsOK(jobs', nextId')
             /\ CallsKnowTheirJobs'
             /\ ExclusiveExecution'
             /\ \A x \in Payload, k \in DOMAIN js : Keeps(js, k, x) => Keeps(jobs', k, x)
  <2>. DEFINE job == Published(n.queue, js[ids[i]].payload)
              ks == Put(js, id, job)
  <2>1. id \in Nat \ {0} /\ id \notin DOMAIN js /\ id \in 1 .. id
    BY DEF JobsOK
  <2>2. ids[i] \in DOMAIN js /\ js[ids[i]] \in Job /\ js[ids[i]].name.dead
    BY <1>2 DEF Replayable, JobsOK
  <2>3. n.queue \in Queue /\ js[ids[i]].payload \in Payload
    BY <2>2 DEF JobName, Job
  <2>4. /\ job \in Job /\ job.state = "active" /\ ~job.name.dead
        /\ job.payload = js[ids[i]].payload
    BY <2>3, JobTypes
  <2>. HIDE DEF job
  <2>5. /\ JobsOK(ks, id + 1)
        /\ DOMAIN ks = DOMAIN js \cup {id}
        /\ ks[id] = job
        /\ \A k \in DOMAIN js : k # id => ks[k] = js[k]
    <3>1. JobsOK(ks, id + 1)
      BY <2>4, PutFresh
    <3>2. /\ DOMAIN ks = DOMAIN js \cup {id}
          /\ ks[id] = job
          /\ \A k \in DOMAIN js : k # id => ks[k] = js[k]
      BY DEF Put
    <3>. QED  BY <3>1, <3>2
  <2>6. Rerun(c, ks, id + 1, id, n, ids, i)
    BY <1>2 DEF job
  <2>. HIDE DEF ks
  <2>7. /\ CallsOK'
        /\ jobs' = ks /\ nextId' = id + 1
        /\ CallsKnowTheirJobs'
        /\ ExclusiveExecution'
    <3>1. id \in DOMAIN ks /\ ks[id].state = "active" /\ id <= id + 1
      BY <2>1, <2>4, <2>5
    <3>2. IF id \in DOMAIN js THEN js[id].state = "failed" ELSE id = id
      BY <2>1
    <3>3. /\ ids[i] \in DOMAIN ks
          /\ ks[ids[i]].name.dead
          /\ ks[ids[i]].payload = ks[id].payload
      BY <2>1, <2>2, <2>4, <2>5
    <3>. QED  BY <1>2, <2>5, <2>6, <3>1, <3>2, <3>3, RerunFits, SMTT(30)
  <2>. QED  BY <2>1, <2>5, <2>7 DEF Keeps, Listed
<1>3. ASSUME NEW i \in DOMAIN ids, Replayable(js, n, ids[i]), ~n.dead,
             Rerun(c, Put(js, ids[i], Restarted(js[ids[i]])), id, ids[i], n, ids, i)
      PROVE  /\ CallsOK'
             /\ JobsOK(jobs', nextId')
             /\ CallsKnowTheirJobs'
             /\ ExclusiveExecution'
             /\ \A x \in Payload, k \in DOMAIN js : Keeps(js, k, x) => Keeps(jobs', k, x)
  <2>. DEFINE job == Restarted(js[ids[i]])
              ks == Put(js, ids[i], job)
  <2>1. /\ ids[i] \in DOMAIN js /\ ids[i] \in 1 .. id /\ ids[i] # id
        /\ js[ids[i]] \in Job /\ ~js[ids[i]].name.dead /\ js[ids[i]].state = "failed"
    BY <1>3 DEF Replayable, Listed, JobsOK
  <2>2. /\ job \in Job /\ job.state = "active" /\ ~job.name.dead
        /\ job.payload = js[ids[i]].payload
    BY <2>1, JobTypes
  <2>. HIDE DEF job
  <2>3. /\ JobsOK(ks, id)
        /\ DOMAIN ks = DOMAIN js \cup {ids[i]}
        /\ ks[ids[i]] = job
        /\ \A k \in DOMAIN js : k # ids[i] => ks[k] = js[k]
    <3>1. JobsOK(ks, id)
      BY <2>1, <2>2, PutOver
    <3>2. /\ DOMAIN ks = DOMAIN js \cup {ids[i]}
          /\ ks[ids[i]] = job
          /\ \A k \in DOMAIN js : k # ids[i] => ks[k] = js[k]
      BY DEF Put
    <3>. QED  BY <3>1, <3>2
  <2>4. Rerun(c, ks, id, ids[i], n, ids, i)
    BY <1>3 DEF job
  <2>5. id \in Nat
    BY DEF JobsOK
  <2>. HIDE DEF ks
  <2>6. /\ CallsOK'
        /\ jobs' = ks /\ nextId' = id
        /\ CallsKnowTheirJobs'
        /\ ExclusiveExecution'
    <3>1. ids[i] \in DOMAIN ks /\ ks[ids[i]].state = "active" /\ id <= id
      BY <2>2, <2>3, <2>5
    <3>2. IF ids[i] \in DOMAIN js THEN js[ids[i]].state = "failed" ELSE ids[i] = id
      BY <2>1
    <3>. QED  BY <1>3, <2>3, <2>4, <3>1, <3>2, RerunFits, SMTT(30)
  <2>. QED  BY <2>1, <2>2, <2>3, <2>6 DEF Keeps, Listed
<1>. QED  BY <1>1, <1>2, <1>3 DEF Proceed


-----------------------------------------------------------------------------
(* The inductive invariant. *)

HistoryOK ==
  /\ accepted \subseteq Payload
  /\ success \in [Payload -> Nat]
  /\ asked \in [Payload -> Nat]

\* The invariants, in the vocabulary of this proof.
LEMMA InvariantParts ==
  /\ IInv => JobsOK(jobs, nextId) /\ CallsOK /\ HistoryOK
  /\ JobsOK(jobs, nextId) /\ CallsOK /\ HistoryOK => TypeOK /\ DeadLettersRest
<1>1. IInv => JobsOK(jobs, nextId) /\ CallsOK /\ HistoryOK
  BY DEF IInv, TypeOK, DeadLettersRest, JobsOK, CallsOK, HistoryOK
<1>2. JobsOK(jobs, nextId) /\ CallsOK /\ HistoryOK => TypeOK /\ DeadLettersRest
  BY DEF TypeOK, DeadLettersRest, JobsOK, CallsOK, HistoryOK
<1>. QED  BY <1>1, <1>2

\* NoSilentLoss in the vocabulary of the proof.
LEMMA WorkIsKept ==
  NoSilentLoss <=>
    \A x \in accepted : success[x] = 0 => \E k \in DOMAIN jobs : Keeps(jobs, k, x)
BY DEF NoSilentLoss, Keeps

\* When the handler of the call c has settled and its job has the record job,
\* which is not active any more, the other calls fit the map.
LEMMA SettledFits ==
  ASSUME IInv, NEW c \in Caller, running[c] # 0,
         NEW job \in Job, job.state # "active",
         job.name = jobs[running[c]].name, job.payload = jobs[running[c]].payload
  PROVE  /\ JobsOK([jobs EXCEPT ![running[c]] = job], nextId)
         /\ OthersFit(c, [jobs EXCEPT ![running[c]] = job], nextId)
<1>. DEFINE r == running[c]
            js == [jobs EXCEPT ![r] = job]
<1>1. JobsOK(jobs, nextId) /\ CallsOK
  BY InvariantParts
<1>2. r \in DOMAIN jobs /\ jobs[r].state = "active"
  BY DEF IInv, CallsKnowTheirJobs, ExclusiveExecution
<1>3. /\ DOMAIN js = DOMAIN jobs
      /\ js[r] = job
      /\ \A k \in DOMAIN jobs : k # r => js[k] = jobs[k]
  BY <1>2
<1>. HIDE DEF js
<1>4. \A k \in DOMAIN jobs : js[k].name = jobs[k].name /\ js[k].payload = jobs[k].payload
  BY <1>3
<1>5. ~jobs[r].name.dead
  BY <1>1, <1>2 DEF JobsOK
<1>6. JobsOK(js, nextId)
  <2>1. \A k \in DOMAIN js : js[k].name.dead => js[k].state = "created"
    BY <1>1, <1>3, <1>4, <1>5 DEF JobsOK
  <2>2. js \in [DOMAIN js -> Job]
    BY <1>1, <1>2 DEF JobsOK, js
  <2>. QED  BY <1>1, <1>3, <2>1, <2>2 DEF JobsOK
<1>7. \A d \in Caller \ {c} : running[d] # r
  BY DEF IInv, ExclusiveExecution
<1>8. OthersFit(c, js, nextId)
  <2>1. ASSUME NEW d \in Caller \ {c}
        PROVE  /\ running[d] # 0 => running[d] \in DOMAIN js
               /\ replaying[d] # 0 =>
                    /\ running[d] # 0
                    /\ replaying[d] < nextId
                    /\ replaying[d] \in DOMAIN js =>
                         /\ js[replaying[d]].name.dead
                         /\ js[replaying[d]].payload = js[running[d]].payload
    BY <1>3, <1>4 DEF IInv, CallsKnowTheirJobs
  <2>2. \A d, e \in Caller \ {c} : running[d] # 0 /\ running[d] = running[e] => d = e
    BY DEF IInv, ExclusiveExecution
  <2>3. ASSUME NEW k \in DOMAIN js
        PROVE  js[k].state = "active" <=> \E d \in Caller \ {c} : running[d] = k
    <3>1. CASE k = r
      BY <1>3, <1>7, <3>1
    <3>2. CASE k # r
      BY <1>3, <3>2 DEF IInv, ExclusiveExecution
    <3>. QED  BY <3>1, <3>2
  <2>. QED  BY <2>1, <2>2, <2>3 DEF OthersFit
<1>. QED  BY <1>6, <1>8 DEF js

\* Deleting an entry that no other call runs.
LEMMA DeleteKeepsFit ==
  ASSUME CallsOK, NEW c \in Caller, NEW js, NEW id, JobsOK(js, id),
         OthersFit(c, js, id),
         NEW i, i \in DOMAIN js => js[i].name.dead
  PROVE  /\ JobsOK(Delete(js, i), id)
         /\ OthersFit(c, Delete(js, i), id)
<1>. DEFINE ks == Delete(js, i)
<1>1. /\ JobsOK(ks, id)
      /\ DOMAIN ks = DOMAIN js \ {i}
      /\ \A k \in DOMAIN js : k # i => ks[k] = js[k]
  BY DeleteFits
<1>. HIDE DEF ks
<1>2. \A d \in Caller \ {c} : running[d] # 0 => running[d] # i
  BY DEF OthersFit, JobsOK
<1>3. OthersFit(c, ks, id)
  BY <1>1, <1>2 DEF OthersFit
<1>. QED  BY <1>1, <1>3 DEF ks

\* A fresh entry that nobody runs.
LEMMA PutKeepsFit ==
  ASSUME CallsOK, NEW c \in Caller, NEW fs, NEW id, JobsOK(fs, id), OthersFit(c, fs, id),
         NEW letter, letter.state # "active",
         NEW js, js = Put(fs, id, letter)
  PROVE  OthersFit(c, js, id + 1)
<1>1. /\ DOMAIN js = DOMAIN fs \cup {id}
      /\ js[id] = letter
      /\ \A k \in DOMAIN fs : k # id => js[k] = fs[k]
  BY DEF Put
<1>2. id \in Nat \ {0} /\ id \notin DOMAIN fs
  BY DEF JobsOK
<1>3. ASSUME NEW d \in Caller \ {c}
      PROVE  /\ running[d] # 0 => running[d] \in DOMAIN js
             /\ replaying[d] # 0 =>
                  /\ running[d] # 0
                  /\ replaying[d] < id + 1
                  /\ replaying[d] \in DOMAIN js =>
                       /\ js[replaying[d]].name.dead
                       /\ js[replaying[d]].payload = js[running[d]].payload
  <2>1. replaying[d] \in Nat
    BY DEF CallsOK
  <2>2. running[d] # 0 => running[d] \in DOMAIN fs /\ js[running[d]] = fs[running[d]]
    BY <1>1, <1>2 DEF OthersFit
  <2>3. replaying[d] # 0 => running[d] # 0 /\ replaying[d] < id
    BY DEF OthersFit
  <2>4. replaying[d] # 0 /\ replaying[d] \in DOMAIN js =>
          /\ js[replaying[d]].name.dead
          /\ js[replaying[d]].payload = js[running[d]].payload
    <3>1. SUFFICES ASSUME replaying[d] # 0, replaying[d] \in DOMAIN js
                   PROVE  /\ js[replaying[d]].name.dead
                          /\ js[replaying[d]].payload = js[running[d]].payload
      OBVIOUS
    <3>2. replaying[d] # id
      BY <1>2, <2>1, <2>3, <3>1
    <3>3. replaying[d] \in DOMAIN fs /\ js[replaying[d]] = fs[replaying[d]]
      BY <1>1, <3>1, <3>2
    <3>. QED  BY <2>2, <2>3, <3>1, <3>3 DEF OthersFit
  <2>. QED  BY <1>1, <1>2, <2>1, <2>2, <2>3, <2>4
<1>4. \A d, e \in Caller \ {c} : running[d] # 0 /\ running[d] = running[e] => d = e
  BY DEF OthersFit
<1>5. \A d \in Caller \ {c} : running[d] # id
  BY <1>2 DEF OthersFit
<1>6. ASSUME NEW k \in DOMAIN js
      PROVE  js[k].state = "active" <=> \E d \in Caller \ {c} : running[d] = k
  <2>1. CASE k = id
    BY <1>1, <1>5, <2>1
  <2>2. CASE k # id
    BY <1>1, <2>2 DEF OthersFit
  <2>. QED  BY <2>1, <2>2
<1>. QED  BY <1>3, <1>4, <1>6 DEF OthersFit

\* The call c goes on after its handler settled; js is the map then.  Only
\* the work of its own job may lose the entry that was replayed.
LEMMA ResumeFits ==
  ASSUME CallsOK, NEW c \in Caller, NEW js, NEW id, JobsOK(js, id),
         OthersFit(c, js, id), NEW w \in Payload,
         replaying[c] \in DOMAIN js =>
           js[replaying[c]].name.dead /\ js[replaying[c]].payload = w,
         Resume(c, js, id)
  PROVE  /\ CallsOK'
         /\ JobsOK(jobs', nextId')
         /\ CallsKnowTheirJobs'
         /\ ExclusiveExecution'
         /\ \A x \in Payload, k \in DOMAIN js :
              Keeps(js, k, x) /\ (x # w \/ ~js[k].name.dead) => Keeps(jobs', k, x)
<1>. DEFINE left == IF replaying[c] = 0 THEN js ELSE Delete(js, replaying[c])
<1>1. Proceed(c, left, id, name[c], todo[c])
  BY DEF Resume
<1>2. JobsOK(left, id) /\ OthersFit(c, left, id)
  <2>1. CASE replaying[c] = 0
    BY <2>1
  <2>2. CASE replaying[c] # 0
    <3>1. PICK i : i = replaying[c]
      OBVIOUS
    <3>2. i \in DOMAIN js => js[i].name.dead
      BY <3>1
    <3>3. JobsOK(Delete(js, i), id) /\ OthersFit(c, Delete(js, i), id)
      BY <3>2, DeleteKeepsFit
    <3>. QED  BY <2>2, <3>1, <3>3
  <2>. QED  BY <2>1, <2>2
<1>3. \A x \in Payload, k \in DOMAIN js :
        Keeps(js, k, x) /\ (x # w \/ ~js[k].name.dead)
          => k \in DOMAIN left /\ Keeps(left, k, x)
  <2>1. CASE replaying[c] = 0
    BY <2>1
  <2>2. CASE replaying[c] # 0
    <3>1. /\ DOMAIN Delete(js, replaying[c]) = DOMAIN js \ {replaying[c]}
          /\ \A k \in DOMAIN js : k # replaying[c] => Delete(js, replaying[c])[k] = js[k]
      BY DEF Delete
    <3>. QED  BY <2>2, <3>1 DEF Keeps
  <2>. QED  BY <2>1, <2>2
<1>. HIDE DEF left
<1>4. name[c] \in JobName /\ todo[c] \in Seq(Nat)
  BY DEF CallsOK
<1>5. /\ CallsOK'
      /\ JobsOK(jobs', nextId')
      /\ CallsKnowTheirJobs'
      /\ ExclusiveExecution'
      /\ \A x \in Payload, k \in DOMAIN left : Keeps(left, k, x) => Keeps(jobs', k, x)
  BY <1>1, <1>2, <1>4, ProceedFits
<1>. QED  BY <1>3, <1>5


-----------------------------------------------------------------------------
(* The steps. *)

\* The driver starts in the invariant.
LEMMA InitIInv == Init => IInv
<1>. SUFFICES ASSUME Init PROVE IInv
  OBVIOUS
<1>1. TypeOK
  BY AnyNameType DEF Init, TypeOK
<1>. QED  BY <1>1 DEF Init, IInv, DeadLettersRest, CallsKnowTheirJobs,
                    ExclusiveExecution, NoSilentLoss

\* publish() keeps the invariant.
LEMMA PublishStep ==
  ASSUME IInv, NEW c \in Caller, NEW q \in Queue, NEW x \in Payload,
         Publish(c, q, x)
  PROVE  IInv'
<1>. DEFINE job == Published(q, x)
            js == Put(jobs, nextId, job)
<1>1. JobsOK(jobs, nextId) /\ CallsOK /\ HistoryOK
  BY InvariantParts
<1>2. job \in Job /\ job.state = "active" /\ job.payload = x /\ ~job.name.dead
  BY JobTypes
<1>3. jobs' = js /\ nextId' = nextId + 1 /\ accepted' = accepted \cup {x}
  BY DEF Publish
<1>. HIDE DEF job
<1>4. JobsOK(js, nextId + 1)
  BY <1>1, <1>2, PutFresh
<1>5. /\ DOMAIN js = DOMAIN jobs \cup {nextId}
      /\ js[nextId] = job
      /\ \A k \in DOMAIN jobs : k # nextId => js[k] = jobs[k]
  BY DEF Put
<1>. HIDE DEF js
<1>6. nextId \in Nat \ {0} /\ nextId \notin DOMAIN jobs
  BY <1>1 DEF JobsOK
<1>7. JobsOK(jobs', nextId')
  BY <1>3, <1>4
<1>8. CallsOK'
  BY <1>1, <1>6 DEF CallsOK, Publish
<1>9. HistoryOK'
  BY <1>1 DEF HistoryOK, Publish
<1>10. /\ running'[c] = nextId
       /\ \A d \in Caller \ {c} : running'[d] = running[d]
       /\ replaying' = replaying
  BY <1>1 DEF CallsOK, Publish
<1>11. replaying[c] = 0
  BY DEF IInv, CallsKnowTheirJobs, Publish
<1>12. CallsKnowTheirJobs'
  <2>1. ASSUME NEW d \in Caller \ {c}
        PROVE  /\ running[d] # 0 => running[d] \in DOMAIN jobs
               /\ replaying[d] # 0 =>
                    /\ running[d] # 0
                    /\ replaying[d] \in Nat
                    /\ replaying[d] < nextId
                    /\ replaying[d] \in DOMAIN jobs =>
                         /\ jobs[replaying[d]].name.dead
                         /\ jobs[replaying[d]].payload = jobs[running[d]].payload
    BY <1>1 DEF IInv, CallsKnowTheirJobs, CallsOK
  <2>2. ASSUME NEW d \in Caller
        PROVE  /\ running'[d] # 0 => running'[d] \in DOMAIN js
               /\ replaying'[d] # 0 =>
                    /\ running'[d] # 0
                    /\ replaying'[d] < nextId + 1
                    /\ replaying'[d] \in DOMAIN js =>
                         /\ js[replaying'[d]].name.dead
                         /\ js[replaying'[d]].payload = js[running'[d]].payload
    <3>1. CASE d = c
      BY <1>5, <1>10, <1>11, <3>1
    <3>2. CASE d # c
      BY <1>5, <1>6, <1>10, <2>1, <3>2
    <3>. QED  BY <3>1, <3>2
  <2>. QED  BY <1>3, <2>2 DEF CallsKnowTheirJobs
<1>13. ExclusiveExecution'
  <2>1. \A d \in Caller : running[d] # nextId
    BY <1>6 DEF IInv, CallsKnowTheirJobs
  <2>2. \A k \in DOMAIN jobs :
          jobs[k].state = "active" <=> \E d \in Caller \ {c} : running[d] = k
    <3>1. running[c] = 0 /\ 0 \notin DOMAIN jobs
      BY <1>1 DEF Publish, JobsOK
    <3>. QED  BY <3>1 DEF IInv, ExclusiveExecution
  <2>3. \A k \in DOMAIN js : js[k].state = "active" <=> \E d \in Caller : running'[d] = k
    <3>1. ASSUME NEW k \in DOMAIN js
          PROVE  js[k].state = "active" <=> \E d \in Caller : running'[d] = k
      <4>1. CASE k = nextId
        BY <1>2, <1>5, <1>10, <4>1
      <4>2. CASE k # nextId
        BY <1>5, <1>10, <2>2, <4>2
      <4>. QED  BY <4>1, <4>2
    <3>. QED  BY <3>1
  <2>4. \A d, e \in Caller : running'[d] # 0 /\ running'[d] = running'[e] => d = e
    BY <1>10, <2>1 DEF IInv, ExclusiveExecution
  <2>. QED  BY <1>3, <2>3, <2>4 DEF ExclusiveExecution
<1>14. NoSilentLoss'
  <2>1. ASSUME NEW y \in accepted', success'[y] = 0
        PROVE  \E k \in DOMAIN jobs' : Keeps(jobs', k, y)
    <3>1. CASE y = x
      BY <1>2, <1>3, <1>5, <3>1 DEF Keeps
    <3>2. CASE y # x
      <4>1. PICK k \in DOMAIN jobs : Keeps(jobs, k, y)
        BY <1>3, <2>1, <3>2, WorkIsKept DEF IInv, Publish
      <4>. QED  BY <1>3, <1>5, <1>6, <4>1 DEF Keeps
    <3>. QED  BY <3>1, <3>2
  <2>. QED  BY <2>1 DEF NoSilentLoss, Keeps
<1>. QED  BY <1>7, <1>8, <1>9, <1>12, <1>13, <1>14, InvariantParts DEF IInv, TypeOK, DeadLettersRest, JobsOK, CallsOK, HistoryOK

\* The ids of a request are a sequence, and asked counts finitely many.
LEMMA BatchType ==
  ASSUME IInv, NEW ids \in Batch
  PROVE  /\ ids \in Seq(Nat)
         /\ \A x \in Payload :
              Cardinality({i \in DOMAIN ids : jobs[ids[i]].payload = x}) \in Nat
<1>1. PICK k \in 1 .. MaxBatch : ids \in [1 .. k -> DOMAIN jobs]
  BY DEF Batch
<1>2. k \in Nat /\ DOMAIN ids = 1 .. k
  BY <1>1, ConstantsAssumption
<1>3. DOMAIN jobs \subseteq Nat
  BY DEF IInv, TypeOK
<1>4. ids \in Seq(Nat)
  BY <1>1, <1>2, <1>3
<1>5. IsFiniteSet(1 .. k)
  BY <1>2, FS_Interval
<1>6. ASSUME NEW x \in Payload
      PROVE  Cardinality({i \in DOMAIN ids : jobs[ids[i]].payload = x}) \in Nat
  <2>1. {i \in DOMAIN ids : jobs[ids[i]].payload = x} \subseteq 1 .. k
    BY <1>2
  <2>. QED  BY <1>5, <2>1, FS_Subset, FS_CardinalityType
<1>. QED  BY <1>4, <1>6

\* retry() keeps the invariant.
LEMMA RetryStep ==
  ASSUME IInv, NEW c \in Caller, NEW n \in JobName, NEW ids \in Batch,
         Retry(c, n, ids)
  PROVE  IInv'
<1>1. JobsOK(jobs, nextId) /\ CallsOK /\ HistoryOK
  BY InvariantParts
<1>2. ids \in Seq(Nat)
  BY BatchType
<1>3. running[c] = 0 /\ Proceed(c, jobs, nextId, n, ids) /\ accepted' = accepted /\ success' = success
  BY DEF Retry
<1>4. OthersFit(c, jobs, nextId)
  <2>1. 0 \notin DOMAIN jobs
    BY <1>1 DEF JobsOK
  <2>. QED  BY <1>3, <2>1 DEF OthersFit, IInv, CallsKnowTheirJobs, ExclusiveExecution
<1>5. /\ CallsOK'
      /\ JobsOK(jobs', nextId')
      /\ CallsKnowTheirJobs'
      /\ ExclusiveExecution'
      /\ \A x \in Payload, k \in DOMAIN jobs : Keeps(jobs, k, x) => Keeps(jobs', k, x)
  BY <1>1, <1>2, <1>3, <1>4, ProceedFits
<1>6. HistoryOK'
  <2>1. \A x \in Payload :
          asked[x] + Cardinality({i \in DOMAIN ids : jobs[ids[i]].payload = x}) \in Nat
    BY <1>1, BatchType DEF HistoryOK
  <2>2. asked' \in [Payload -> Nat]
    BY <2>1 DEF Retry
  <2>. QED  BY <1>1, <1>3, <2>2 DEF HistoryOK
<1>7. NoSilentLoss'
  <2>1. ASSUME NEW y \in accepted', success'[y] = 0
        PROVE  \E k \in DOMAIN jobs' : Keeps(jobs', k, y)
    <3>1. PICK k \in DOMAIN jobs : Keeps(jobs, k, y)
      BY <1>3, <2>1, WorkIsKept DEF IInv
    <3>2. y \in Payload
      BY <1>1, <1>3 DEF HistoryOK
    <3>. QED  BY <1>5, <3>1, <3>2 DEF Keeps
  <2>. QED  BY <2>1 DEF NoSilentLoss, Keeps
<1>. QED  BY <1>5, <1>6, <1>7 DEF IInv, TypeOK, DeadLettersRest, JobsOK, CallsOK, HistoryOK

\* The work of the job that a call runs, and of the entry it replays.
LEMMA RunningJob ==
  ASSUME IInv, NEW c \in Caller, InHandler(c)
  PROVE  /\ running[c] # 0 /\ running[c] \in DOMAIN jobs
         /\ jobs[running[c]] \in Job
         /\ jobs[running[c]].payload \in Payload
         /\ ~jobs[running[c]].name.dead
         /\ replaying[c] \in DOMAIN jobs =>
              /\ replaying[c] # running[c]
              /\ jobs[replaying[c]].name.dead
              /\ jobs[replaying[c]].payload = jobs[running[c]].payload
<1>1. running[c] # 0 /\ running[c] \in DOMAIN jobs
  BY DEF InHandler, IInv, CallsKnowTheirJobs
<1>2. jobs[running[c]] \in Job
  BY <1>1 DEF IInv, TypeOK
<1>3. ~jobs[running[c]].name.dead
  BY <1>1 DEF InHandler, IInv, DeadLettersRest
<1>4. 0 \notin DOMAIN jobs
  BY DEF IInv, TypeOK
<1>5. replaying[c] \in DOMAIN jobs =>
        /\ jobs[replaying[c]].name.dead
        /\ jobs[replaying[c]].payload = jobs[running[c]].payload
  BY <1>4 DEF IInv, CallsKnowTheirJobs
<1>. QED  BY <1>1, <1>2, <1>3, <1>5 DEF Job

\* A handler that succeeds, and what its call does next, keep the invariant.
LEMMA SuccessStep ==
  ASSUME IInv, NEW c \in Caller, HandlerSucceeds(c)
  PROVE  IInv'
<1>. DEFINE r == running[c]
            w == jobs[r].payload
            job == [jobs[r] EXCEPT !.state = "completed"]
            js == [jobs EXCEPT ![r] = job]
<1>1. JobsOK(jobs, nextId) /\ CallsOK /\ HistoryOK
  BY InvariantParts
<1>2. InHandler(c)
  BY DEF HandlerSucceeds
<1>3. /\ r # 0 /\ r \in DOMAIN jobs /\ jobs[r] \in Job /\ w \in Payload
      /\ ~jobs[r].name.dead
      /\ replaying[c] \in DOMAIN jobs =>
           /\ replaying[c] # r
           /\ jobs[replaying[c]].name.dead
           /\ jobs[replaying[c]].payload = w
  BY <1>2, RunningJob
<1>4. Resume(c, js, nextId)
  BY DEF HandlerSucceeds
<1>5. /\ accepted' = accepted /\ asked' = asked
      /\ success' = [success EXCEPT ![w] = @ + 1]
  BY DEF HandlerSucceeds
<1>6. /\ job \in Job /\ job.state # "active"
      /\ job.name = jobs[r].name /\ job.payload = jobs[r].payload
  BY <1>3 DEF Job, JobState
<1>. HIDE DEF job
<1>7. JobsOK(js, nextId) /\ OthersFit(c, js, nextId)
  BY <1>3, <1>6, SettledFits
<1>8. /\ DOMAIN js = DOMAIN jobs
      /\ \A k \in DOMAIN jobs : k # r => js[k] = jobs[k]
      /\ js[r] = job
  BY <1>3
<1>. HIDE DEF js
<1>9. replaying[c] \in DOMAIN js =>
        js[replaying[c]].name.dead /\ js[replaying[c]].payload = w
  BY <1>3, <1>8
<1>. HIDE DEF w
<1>10. /\ CallsOK'
       /\ JobsOK(jobs', nextId')
       /\ CallsKnowTheirJobs'
       /\ ExclusiveExecution'
       /\ \A x \in Payload, k \in DOMAIN js :
            Keeps(js, k, x) /\ (x # w \/ ~js[k].name.dead) => Keeps(jobs', k, x)
  BY <1>1, <1>3, <1>4, <1>7, <1>9, ResumeFits
<1>11. HistoryOK'
  BY <1>1, <1>3, <1>5 DEF HistoryOK
<1>12. NoSilentLoss'
  <2>1. ASSUME NEW y \in accepted', success'[y] = 0
        PROVE  \E k \in DOMAIN jobs' : Keeps(jobs', k, y)
    <3>1. y \in Payload
      BY <1>1, <1>5 DEF HistoryOK
    <3>2. y # w /\ success[y] = 0
      BY <1>1, <1>3, <1>5, <2>1, <3>1 DEF HistoryOK
    <3>3. PICK k \in DOMAIN jobs : Keeps(jobs, k, y)
      BY <1>5, <3>2, WorkIsKept DEF IInv
    <3>4. k # r
      BY <3>2, <3>3 DEF Keeps, w
    <3>5. Keeps(js, k, y)
      BY <1>8, <3>3, <3>4 DEF Keeps
    <3>. QED  BY <1>8, <1>10, <3>1, <3>2, <3>3, <3>5 DEF Keeps
  <2>. QED  BY <2>1 DEF NoSilentLoss, Keeps
<1>. QED  BY <1>10, <1>11, <1>12 DEF IInv, TypeOK, DeadLettersRest, JobsOK, CallsOK, HistoryOK

\* A handler that throws and is called again keeps the invariant.
LEMMA RetriedStep ==
  ASSUME IInv, NEW c \in Caller, HandlerThrowsAndRetries(c)
  PROVE  IInv'
<1>. DEFINE r == running[c]
<1>1. r \in DOMAIN jobs /\ jobs[r] \in Job /\ jobs[r].payload \in Payload
  BY RunningJob DEF HandlerThrowsAndRetries
<1>2. /\ DOMAIN jobs' = DOMAIN jobs
      /\ \A k \in DOMAIN jobs :
           /\ jobs'[k] \in Job
           /\ jobs'[k].name = jobs[k].name
           /\ jobs'[k].payload = jobs[k].payload
           /\ jobs'[k].state = jobs[k].state
  <2>1. jobs' = [jobs EXCEPT ![r] = [jobs[r] EXCEPT !.attempt = jobs[r].attempt + 1]]
    BY <1>1 DEF HandlerThrowsAndRetries
  <2>2. \A k \in DOMAIN jobs : jobs[k] \in Job
    BY DEF IInv, TypeOK
  <2>. QED  BY <1>1, <2>1, <2>2 DEF Job
<1>3. UNCHANGED <<nextId, running, replaying, name, todo, accepted, success, asked>>
  BY DEF HandlerThrowsAndRetries, callVars
<1>4. invoked' \in [Payload -> Nat]
  BY <1>1 DEF HandlerThrowsAndRetries, IInv, TypeOK
<1>5. jobs' \in [DOMAIN jobs' -> Job]
  <2>1. jobs' = [k \in DOMAIN jobs' |-> jobs'[k]]
    BY DEF HandlerThrowsAndRetries
  <2>. QED  BY <1>2, <2>1
<1>6. TypeOK'
  BY <1>2, <1>3, <1>4, <1>5 DEF IInv, TypeOK
<1>7. DeadLettersRest'
  BY <1>2 DEF IInv, DeadLettersRest
<1>8. CallsKnowTheirJobs'
  BY <1>2, <1>3 DEF IInv, CallsKnowTheirJobs
<1>9. ExclusiveExecution'
  BY <1>2, <1>3 DEF IInv, ExclusiveExecution
<1>10. NoSilentLoss'
  <2>1. ASSUME NEW y \in accepted, success[y] = 0
        PROVE  \E k \in DOMAIN jobs' : Keeps(jobs', k, y)
    <3>1. PICK k \in DOMAIN jobs : Keeps(jobs, k, y)
      BY <2>1, WorkIsKept DEF IInv
    <3>. QED  BY <1>2, <3>1 DEF Keeps, Listed
  <2>. QED  BY <1>3, <2>1 DEF NoSilentLoss, Keeps
<1>. QED  BY <1>6, <1>7, <1>8, <1>9, <1>10 DEF IInv

\* A handler that throws on its last attempt keeps the invariant.
LEMMA FailureStep ==
  ASSUME IInv, NEW c \in Caller, HandlerThrowsAndFails(c)
  PROVE  IInv'
<1>. DEFINE r == running[c]
            w == jobs[r].payload
            job == [jobs[r] EXCEPT !.state = "failed"]
            letter == DeadLetter(jobs[r])
            fs == [jobs EXCEPT ![r] = job]
            js == Put(fs, nextId, letter)
<1>1. JobsOK(jobs, nextId) /\ CallsOK /\ HistoryOK
  BY InvariantParts
<1>2. InHandler(c)
  BY DEF HandlerThrowsAndFails
<1>3. /\ r # 0 /\ r \in DOMAIN jobs /\ jobs[r] \in Job /\ w \in Payload
      /\ ~jobs[r].name.dead
      /\ replaying[c] \in DOMAIN jobs =>
           /\ replaying[c] # r
           /\ jobs[replaying[c]].name.dead
           /\ jobs[replaying[c]].payload = w
  BY <1>2, RunningJob
<1>4. Resume(c, js, nextId + 1)
  BY DEF HandlerThrowsAndFails
<1>5. accepted' = accepted /\ asked' = asked /\ success' = success
  BY DEF HandlerThrowsAndFails
<1>6. /\ job \in Job /\ job.state = "failed"
      /\ job.name = jobs[r].name /\ job.payload = jobs[r].payload
  BY <1>3 DEF Job, JobState
<1>7. /\ letter \in Job /\ letter.state = "created"
      /\ letter.payload = w /\ letter.name.dead = TRUE
  BY <1>3, JobTypes
<1>. HIDE DEF job, letter
<1>8. JobsOK(fs, nextId) /\ OthersFit(c, fs, nextId)
  BY <1>3, <1>6, SettledFits
<1>9. /\ DOMAIN fs = DOMAIN jobs
      /\ \A k \in DOMAIN jobs : k # r => fs[k] = jobs[k]
      /\ fs[r] = job
  BY <1>3
<1>. HIDE DEF fs
<1>10. JobsOK(js, nextId + 1)
  BY <1>7, <1>8, PutFresh
<1>11. /\ DOMAIN js = DOMAIN fs \cup {nextId}
       /\ js[nextId] = letter
       /\ \A k \in DOMAIN fs : k # nextId => js[k] = fs[k]
  BY DEF Put
<1>. HIDE DEF js
<1>12. nextId \in Nat \ {0} /\ nextId \notin DOMAIN jobs
  BY <1>1 DEF JobsOK
<1>13. OthersFit(c, js, nextId + 1)
  BY <1>1, <1>7, <1>8, PutKeepsFit DEF js
<1>14. replaying[c] \in DOMAIN js =>
         js[replaying[c]].name.dead /\ js[replaying[c]].payload = w
  <2>1. SUFFICES ASSUME replaying[c] \in DOMAIN js
                 PROVE  js[replaying[c]].name.dead /\ js[replaying[c]].payload = w
    OBVIOUS
  <2>2. CASE replaying[c] = nextId
    BY <1>7, <1>11, <2>2
  <2>3. CASE replaying[c] # nextId
    <3>1. replaying[c] \in DOMAIN jobs /\ js[replaying[c]] = fs[replaying[c]]
      BY <1>9, <1>11, <2>1, <2>3
    <3>. QED  BY <1>3, <1>9, <3>1
  <2>. QED  BY <2>2, <2>3
<1>. HIDE DEF w
<1>15. nextId + 1 \in Nat \ {0}
  BY <1>12
<1>16. /\ CallsOK'
       /\ JobsOK(jobs', nextId')
       /\ CallsKnowTheirJobs'
       /\ ExclusiveExecution'
       /\ \A x \in Payload, k \in DOMAIN js :
            Keeps(js, k, x) /\ (x # w \/ ~js[k].name.dead) => Keeps(jobs', k, x)
  BY <1>1, <1>3, <1>4, <1>10, <1>13, <1>14, ResumeFits
<1>17. HistoryOK'
  BY <1>1, <1>5 DEF HistoryOK
<1>18. NoSilentLoss'
  <2>1. ASSUME NEW y \in accepted, success[y] = 0
        PROVE  \E k \in DOMAIN jobs' : Keeps(jobs', k, y)
    <3>1. y \in Payload
      BY <1>1 DEF HistoryOK
    <3>2. CASE y = w
      <4>1. r \in DOMAIN js /\ js[r] = job
        BY <1>3, <1>9, <1>11, <1>12
      <4>2. Keeps(js, r, y) /\ ~js[r].name.dead
        BY <1>3, <1>6, <3>2, <4>1 DEF Keeps, Listed, w
      <4>. QED  BY <1>16, <3>1, <4>1, <4>2 DEF Keeps
    <3>3. CASE y # w
      <4>1. PICK k \in DOMAIN jobs : Keeps(jobs, k, y)
        BY <2>1, WorkIsKept DEF IInv
      <4>2. k # r
        BY <3>3, <4>1 DEF Keeps, w
      <4>3. k \in DOMAIN js /\ js[k] = jobs[k]
        BY <1>9, <1>11, <1>12, <4>2
      <4>4. Keeps(js, k, y)
        BY <4>1, <4>3 DEF Keeps
      <4>. QED  BY <1>16, <3>1, <3>3, <4>3, <4>4 DEF Keeps
    <3>. QED  BY <3>2, <3>3
  <2>. QED  BY <1>5, <2>1 DEF NoSilentLoss, Keeps
<1>. QED  BY <1>16, <1>17, <1>18 DEF IInv, TypeOK, DeadLettersRest, JobsOK, CallsOK, HistoryOK

\* Every step of the driver keeps the invariant.
LEMMA StepIInv == IInv /\ [Next]_vars => IInv'
<1>. SUFFICES ASSUME IInv, [Next]_vars PROVE IInv'
  OBVIOUS
<1>1. CASE Next
  BY <1>1, PublishStep, RetryStep, SuccessStep, RetriedStep, FailureStep DEF Next
<1>2. CASE UNCHANGED vars
  BY <1>2 DEF vars, IInv, TypeOK, DeadLettersRest, CallsKnowTheirJobs,
              ExclusiveExecution, NoSilentLoss, Listed
<1>. QED  BY <1>1, <1>2

\* The invariant holds in every state the driver reaches.
LEMMA Invariance == Spec => []IInv
<1>. QED  BY InitIInv, StepIInv, PTL DEF Spec

-----------------------------------------------------------------------------
(* The promise of WorkQueue. *)

\* The work that a jobs map holds.
Works(js) == {js[k].payload : k \in DOMAIN js}

\* Only accepted work is in the map or done.
WorkIsAccepted ==
  /\ Works(jobs) \subseteq accepted
  /\ \A x \in Payload : success[x] > 0 => x \in accepted

\* The loop of retry() starts no work but that of the map.
LEMMA ProceedKeepsWork ==
  ASSUME NEW c \in Caller, NEW js, NEW id, NEW n, NEW ids,
         Proceed(c, js, id, n, ids)
  PROVE  Works(jobs') \subseteq Works(js)
<1>1. CASE Finish(c, js, id)
  BY <1>1 DEF Finish, Works
<1>2. ASSUME NEW i \in DOMAIN ids, Replayable(js, n, ids[i]),
             Rerun(c, Put(js, id, Published(n.queue, js[ids[i]].payload)),
                   id + 1, id, n, ids, i)
      PROVE  Works(jobs') \subseteq Works(js)
  <2>1. jobs' = Put(js, id, Published(n.queue, js[ids[i]].payload))
    BY <1>2 DEF Rerun
  <2>2. ids[i] \in DOMAIN js
    BY <1>2 DEF Replayable
  <2>3. \A k \in DOMAIN jobs' :
          \/ jobs'[k].payload = js[ids[i]].payload
          \/ k \in DOMAIN js /\ jobs'[k].payload = js[k].payload
    BY <2>1 DEF Put, Published
  <2>. QED  BY <2>2, <2>3 DEF Works
<1>3. ASSUME NEW i \in DOMAIN ids, Replayable(js, n, ids[i]),
             Rerun(c, Put(js, ids[i], Restarted(js[ids[i]])), id, ids[i], n, ids, i)
      PROVE  Works(jobs') \subseteq Works(js)
  <2>1. jobs' = Put(js, ids[i], Restarted(js[ids[i]]))
    BY <1>3 DEF Rerun
  <2>2. ids[i] \in DOMAIN js
    BY <1>3 DEF Replayable
  <2>3. \A k \in DOMAIN jobs' : k \in DOMAIN js /\ jobs'[k].payload = js[k].payload
    BY <2>1, <2>2 DEF Put, Restarted
  <2>. QED  BY <2>3 DEF Works
<1>. QED  BY <1>1, <1>2, <1>3 DEF Proceed

\* So does a call that goes on after its handler settled.
LEMMA ResumeKeepsWork ==
  ASSUME NEW c \in Caller, NEW js, NEW id, Resume(c, js, id)
  PROVE  Works(jobs') \subseteq Works(js)
<1>. DEFINE left == IF replaying[c] = 0 THEN js ELSE Delete(js, replaying[c])
<1>1. Proceed(c, left, id, name[c], todo[c])
  BY DEF Resume
<1>2. Works(left) \subseteq Works(js)
  BY DEF Works, Delete
<1>. HIDE DEF left
<1>3. Works(jobs') \subseteq Works(left)
  BY <1>1, ProceedKeepsWork
<1>. QED  BY <1>2, <1>3

\* Every step keeps it so; what it accepts is new, and is pending then.
LEMMA StepWorkIsAccepted ==
  ASSUME IInv, WorkIsAccepted, [Next]_vars
  PROVE  /\ WorkIsAccepted'
         /\ accepted \subseteq accepted'
         /\ \A x \in Payload : success[x] <= success'[x]
         /\ \A x \in accepted' \ accepted : StatusOf(x)' = "pending"
<1>1. success \in [Payload -> Nat] /\ accepted \subseteq Payload
  BY DEF IInv, TypeOK
<1>2. ASSUME NEW c \in Caller, NEW q \in Queue, NEW x \in Payload, Publish(c, q, x)
      PROVE  /\ WorkIsAccepted'
             /\ accepted \subseteq accepted'
             /\ \A y \in Payload : success[y] <= success'[y]
             /\ \A y \in accepted' \ accepted : StatusOf(y)' = "pending"
  <2>1. /\ accepted' = accepted \cup {x} /\ x \notin accepted /\ success' = success
        /\ jobs' = Put(jobs, nextId, Published(q, x))
        /\ running' = [running EXCEPT ![c] = nextId]
    BY <1>2 DEF Publish
  <2>2. \A k \in DOMAIN jobs' :
          \/ jobs'[k].payload = x
          \/ k \in DOMAIN jobs /\ jobs'[k].payload = jobs[k].payload
    BY <2>1 DEF Put, Published
  <2>3. WorkIsAccepted'
    BY <2>1, <2>2 DEF WorkIsAccepted, Works
  <2>4. running'[c] = nextId /\ nextId # 0 /\ jobs'[nextId].payload = x
    BY <2>1 DEF IInv, TypeOK, Put, Published
  <2>5. ~(success[x] > 0)
    BY <2>1 DEF WorkIsAccepted
  <2>6. StatusOf(x)' = "pending"
    BY <2>1, <2>4, <2>5 DEF StatusOf
  <2>. QED  BY <1>1, <2>1, <2>3, <2>6
<1>3. ASSUME NEW c \in Caller, NEW n \in JobName, NEW ids \in Batch, Retry(c, n, ids)
      PROVE  Works(jobs') \subseteq Works(jobs) /\ UNCHANGED <<accepted, success>>
  BY <1>3, ProceedKeepsWork DEF Retry
<1>4. ASSUME NEW c \in Caller, HandlerSucceeds(c)
      PROVE  /\ WorkIsAccepted'
             /\ accepted' = accepted
             /\ \A x \in Payload : success[x] <= success'[x]
  <2>. DEFINE r == running[c]
              js == [jobs EXCEPT ![r].state = "completed"]
  <2>1. Resume(c, js, nextId) /\ accepted' = accepted /\ InHandler(c)
    BY <1>4 DEF HandlerSucceeds
  <2>2. r \in DOMAIN jobs
    BY <2>1, RunningJob
  <2>3. \A k \in DOMAIN js : k \in DOMAIN jobs /\ js[k].payload = jobs[k].payload
    BY <2>2
  <2>. HIDE DEF js
  <2>4. Works(jobs') \subseteq Works(js)
    BY <2>1, ResumeKeepsWork
  <2>5. Works(js) \subseteq Works(jobs)
    BY <2>3 DEF Works
  <2>6. PICK w \in Payload : w = jobs[r].payload /\ w \in accepted
    BY <2>1, <2>2, RunningJob DEF WorkIsAccepted, Works
  <2>7. success' = [success EXCEPT ![w] = @ + 1]
    BY <1>4, <2>6 DEF HandlerSucceeds
  <2>8. \A x \in Payload : success[x] <= success'[x] /\ (x # w => success'[x] = success[x])
    BY <1>1, <2>7
  <2>. QED  BY <2>1, <2>4, <2>5, <2>6, <2>8 DEF WorkIsAccepted
<1>5. ASSUME NEW c \in Caller, HandlerThrowsAndRetries(c)
      PROVE  Works(jobs') \subseteq Works(jobs) /\ UNCHANGED <<accepted, success>>
  <2>1. \A k \in DOMAIN jobs' : k \in DOMAIN jobs /\ jobs'[k].payload = jobs[k].payload
    BY <1>5, RunningJob DEF HandlerThrowsAndRetries
  <2>. QED  BY <1>5, <2>1 DEF HandlerThrowsAndRetries, Works
<1>6. ASSUME NEW c \in Caller, HandlerThrowsAndFails(c)
      PROVE  Works(jobs') \subseteq Works(jobs) /\ UNCHANGED <<accepted, success>>
  <2>. DEFINE r == running[c]
              js == Put([jobs EXCEPT ![r].state = "failed"], nextId, DeadLetter(jobs[r]))
  <2>1. Resume(c, js, nextId + 1) /\ UNCHANGED <<accepted, success>> /\ InHandler(c)
    BY <1>6 DEF HandlerThrowsAndFails
  <2>2. r \in DOMAIN jobs
    BY <2>1, RunningJob
  <2>3. \A k \in DOMAIN js :
          \/ js[k].payload = jobs[r].payload
          \/ k \in DOMAIN jobs /\ js[k].payload = jobs[k].payload
    BY <2>2 DEF Put, DeadLetter
  <2>. HIDE DEF js
  <2>4. Works(js) \subseteq Works(jobs)
    BY <2>2, <2>3 DEF Works
  <2>5. Works(jobs') \subseteq Works(js)
    BY <2>1, ResumeKeepsWork
  <2>. QED  BY <2>1, <2>4, <2>5
<1>7. CASE Works(jobs') \subseteq Works(jobs) /\ UNCHANGED <<accepted, success>>
  BY <1>1, <1>7 DEF WorkIsAccepted
<1>8. CASE UNCHANGED vars
  BY <1>7, <1>8 DEF vars, Works
<1>. QED  BY <1>2, <1>3, <1>4, <1>5, <1>6, <1>7, <1>8 DEF Next

\* What the status of a piece of work says.
StatusOK ==
  \A x \in Payload :
    /\ x \notin accepted => StatusOf(x) = "new"
    /\ x \in accepted => StatusOf(x) \in {"pending", "listed", "done"}
    /\ success[x] > 0 <=> StatusOf(x) = "done"

\* No work is lost, and none is done before it is accepted.
LEMMA StatusFacts == IInv /\ WorkIsAccepted => StatusOK
<1>. SUFFICES ASSUME IInv, WorkIsAccepted, NEW x \in Payload
              PROVE  /\ x \notin accepted => StatusOf(x) = "new"
                     /\ x \in accepted => StatusOf(x) \in {"pending", "listed", "done"}
                     /\ success[x] > 0 <=> StatusOf(x) = "done"
  BY DEF StatusOK
<1>1. success[x] \in Nat
  BY DEF IInv, TypeOK
<1>2. success[x] > 0 => x \in accepted
  BY DEF WorkIsAccepted
<1>3. x \in accepted /\ success[x] = 0 =>
        \/ \E c \in Caller : running[c] # 0 /\ jobs[running[c]].payload = x
        \/ \E id \in DOMAIN jobs : jobs[id].payload = x /\ Listed(jobs[id])
  <2>1. SUFFICES ASSUME NEW id \in DOMAIN jobs, jobs[id].payload = x, jobs[id].state = "active"
                 PROVE  \E c \in Caller : running[c] # 0 /\ jobs[running[c]].payload = x
    BY DEF IInv, NoSilentLoss
  <2>2. PICK c \in Caller : running[c] = id
    BY <2>1 DEF IInv, ExclusiveExecution
  <2>3. id # 0
    BY DEF IInv, TypeOK
  <2>. QED  BY <2>1, <2>2, <2>3
<1>. QED  BY <1>1, <1>2, <1>3 DEF StatusOf

\* Every step of the driver is one of WorkQueue, or none.
LEMMA StepOfWork ==
  ASSUME IInv, WorkIsAccepted, [Next]_vars
  PROVE  [Work!Next]_([x \in Payload |-> StatusOf(x)])
<1>1. /\ WorkIsAccepted' /\ accepted \subseteq accepted'
      /\ \A x \in Payload : success[x] <= success'[x]
      /\ \A x \in accepted' \ accepted : StatusOf(x)' = "pending"
  BY StepWorkIsAccepted
<1>2. IInv'
  BY StepIInv
<1>3. \A x \in Payload :
        /\ x \notin accepted => StatusOf(x) = "new"
        /\ x \in accepted => StatusOf(x) \in {"pending", "listed", "done"}
        /\ success[x] > 0 <=> StatusOf(x) = "done"
  BY StatusFacts DEF StatusOK
<1>4. \A x \in Payload :
        /\ x \notin accepted' => StatusOf(x)' = "new"
        /\ x \in accepted' => StatusOf(x)' \in {"pending", "listed", "done"}
        /\ success'[x] > 0 <=> StatusOf(x)' = "done"
  <2>1. (IInv /\ WorkIsAccepted)' => StatusOK'
    BY StatusFacts, PTL
  <2>. QED  BY <1>1, <1>2, <2>1 DEF StatusOK
<1>5. \A x \in Payload : success[x] \in Nat /\ success'[x] \in Nat
  BY <1>2 DEF IInv, TypeOK
<1>. DEFINE old == [x \in Payload |-> StatusOf(x)]
            new == [x \in Payload |-> StatusOf(x)']
<1>6. ASSUME NEW x \in Payload
      PROVE  new[x] \in Work!Status /\ (new[x] # old[x] => <<old[x], new[x]>> \in Work!Move)
  <2>1. old[x] = StatusOf(x) /\ new[x] = StatusOf(x)'
    OBVIOUS
  <2>2. StatusOf(x) = "done" => StatusOf(x)' = "done"
    BY <1>1, <1>3, <1>4, <1>5
  <2>. HIDE DEF old, new
  <2>3. CASE x \in accepted
    <3>1. old[x] \in {"pending", "listed", "done"} /\ new[x] \in {"pending", "listed", "done"}
      BY <1>1, <1>3, <1>4, <2>1, <2>3
    <3>2. old[x] = "done" => new[x] = "done"
      BY <2>1, <2>2
    <3>. QED  BY <3>1, <3>2 DEF Work!Status, Work!Move
  <2>4. CASE x \notin accepted /\ x \in accepted'
    <3>1. old[x] = "new" /\ new[x] = "pending"
      BY <1>1, <1>3, <2>1, <2>4
    <3>. QED  BY <3>1 DEF Work!Status, Work!Move
  <2>5. CASE x \notin accepted'
    <3>1. old[x] = "new" /\ new[x] = "new"
      BY <1>1, <1>3, <1>4, <2>1, <2>5
    <3>. QED  BY <3>1 DEF Work!Status
  <2>. QED  BY <2>3, <2>4, <2>5
<1>7. new \in [Payload -> Work!Status]
  BY <1>6
<1>8. \E S \in SUBSET Payload :
        /\ new \in [Payload -> Work!Status]
        /\ \A x \in S : <<old[x], new[x]>> \in Work!Move
        /\ \A x \in Payload \ S : new[x] = old[x]
  <2>1. {x \in Payload : new[x] # old[x]} \in SUBSET Payload
    OBVIOUS
  <2>. HIDE DEF old, new
  <2>. QED  BY <1>6, <1>7, <2>1
<1>9. Work!Next
  BY <1>8 DEF Work!Next
<1>. QED  BY <1>9

-----------------------------------------------------------------------------
(* What a step of one call does to the others, for modules that compose the *)
(* driver with the handlers that it calls.                                  *)

\* The loop of retry() keeps the work of every job, and counts the handler
\* that it calls, if any.
LEMMA ProceedEffect ==
  ASSUME CallsOK, NEW c \in Caller, NEW js, NEW id, JobsOK(js, id),
         NEW n, NEW ids, Proceed(c, js, id, n, ids)
  PROVE  /\ \A k \in DOMAIN js : k \in DOMAIN jobs' /\ jobs'[k].payload = js[k].payload
         /\ \A d \in Caller \ {c} : running'[d] = running[d]
         /\ running'[c] = 0 => invoked' = invoked
         /\ running'[c] # 0 =>
              invoked' = [invoked EXCEPT ![jobs'[running'[c]].payload] = @ + 1]
<1>1. CASE Finish(c, js, id)
  BY <1>1 DEF Finish, CallsOK
<1>2. ASSUME NEW ks, NEW next, NEW r, NEW i, Rerun(c, ks, next, r, n, ids, i), r # 0
      PROVE  /\ jobs' = ks
             /\ \A d \in Caller \ {c} : running'[d] = running[d]
             /\ running'[c] # 0
             /\ invoked' = [invoked EXCEPT ![jobs'[running'[c]].payload] = @ + 1]
  BY <1>2 DEF Rerun, CallsOK
<1>3. ASSUME NEW i \in DOMAIN ids, Replayable(js, n, ids[i]),
             Rerun(c, Put(js, id, Published(n.queue, js[ids[i]].payload)),
                   id + 1, id, n, ids, i)
      PROVE  /\ \A k \in DOMAIN js : k \in DOMAIN jobs' /\ jobs'[k].payload = js[k].payload
             /\ \A d \in Caller \ {c} : running'[d] = running[d]
             /\ running'[c] # 0
             /\ invoked' = [invoked EXCEPT ![jobs'[running'[c]].payload] = @ + 1]
  <2>1. id # 0 /\ id \notin DOMAIN js
    BY DEF JobsOK
  <2>. DEFINE ks == Put(js, id, Published(n.queue, js[ids[i]].payload))
  <2>2. Rerun(c, ks, id + 1, id, n, ids, i)
    BY <1>3
  <2>3. \A k \in DOMAIN js : k \in DOMAIN ks /\ ks[k].payload = js[k].payload
    BY <2>1 DEF Put
  <2>. HIDE DEF ks
  <2>. QED  BY <1>2, <2>1, <2>2, <2>3
<1>4. ASSUME NEW i \in DOMAIN ids, Replayable(js, n, ids[i]),
             Rerun(c, Put(js, ids[i], Restarted(js[ids[i]])), id, ids[i], n, ids, i)
      PROVE  /\ \A k \in DOMAIN js : k \in DOMAIN jobs' /\ jobs'[k].payload = js[k].payload
             /\ \A d \in Caller \ {c} : running'[d] = running[d]
             /\ running'[c] # 0
             /\ invoked' = [invoked EXCEPT ![jobs'[running'[c]].payload] = @ + 1]
  <2>1. ids[i] # 0 /\ ids[i] \in DOMAIN js
    BY <1>4 DEF JobsOK, Replayable
  <2>. DEFINE ks == Put(js, ids[i], Restarted(js[ids[i]]))
  <2>2. Rerun(c, ks, id, ids[i], n, ids, i)
    BY <1>4
  <2>3. \A k \in DOMAIN js : k \in DOMAIN ks /\ ks[k].payload = js[k].payload
    BY <2>1 DEF Put, Restarted
  <2>. HIDE DEF ks
  <2>. QED  BY <1>2, <2>1, <2>2, <2>3
<1>. QED  BY <1>1, <1>3, <1>4 DEF Proceed

\* A step of the call c: the executions of other calls go on with their work,
\* and the handler that c awaits from then on, if any, is counted.
StepsOf(c) ==
  /\ \A d \in Caller \ {c} :
       /\ running'[d] = running[d]
       /\ running[d] # 0 => jobs'[running[d]].payload = jobs[running[d]].payload
  /\ running'[c] = 0 => invoked' = invoked
  /\ running'[c] # 0 => invoked' = [invoked EXCEPT ![jobs'[running'[c]].payload] = @ + 1]

\* A handler has settled and its call goes on with a map js that keeps the
\* work of all jobs.
LEMMA ResumeEffect ==
  ASSUME IInv, NEW c \in Caller, NEW js, NEW id, JobsOK(js, id), Resume(c, js, id),
         \A k \in DOMAIN jobs : k \in DOMAIN js /\ js[k].payload = jobs[k].payload,
         replaying[c] \in DOMAIN js => js[replaying[c]].name.dead,
         \A d \in Caller \ {c} : running[d] # 0 => ~js[running[d]].name.dead
  PROVE  StepsOf(c)
<1>. DEFINE left == IF replaying[c] = 0 THEN js ELSE Delete(js, replaying[c])
<1>1. Proceed(c, left, id, name[c], todo[c])
  BY DEF Resume
<1>2. /\ JobsOK(left, id)
      /\ \A k \in DOMAIN js : ~js[k].name.dead => k \in DOMAIN left /\ left[k] = js[k]
  <2>1. CASE replaying[c] = 0
    BY <2>1
  <2>2. CASE replaying[c] # 0
    <3>1. PICK i : i = replaying[c]
      OBVIOUS
    <3>2. /\ JobsOK(Delete(js, i), id)
          /\ DOMAIN Delete(js, i) = DOMAIN js \ {i}
          /\ \A k \in DOMAIN js : k # i => Delete(js, i)[k] = js[k]
      BY DeleteFits
    <3>. QED  BY <2>2, <3>1, <3>2
  <2>. QED  BY <2>1, <2>2
<1>. HIDE DEF left
<1>3. CallsOK
  BY InvariantParts
<1>4. /\ \A k \in DOMAIN left : k \in DOMAIN jobs' /\ jobs'[k].payload = left[k].payload
      /\ \A d \in Caller \ {c} : running'[d] = running[d]
      /\ running'[c] = 0 => invoked' = invoked
      /\ running'[c] # 0 =>
           invoked' = [invoked EXCEPT ![jobs'[running'[c]].payload] = @ + 1]
  BY <1>1, <1>2, <1>3, ProceedEffect
<1>5. \A d \in Caller : running[d] # 0 => running[d] \in DOMAIN jobs
  BY DEF IInv, CallsKnowTheirJobs
<1>. QED  BY <1>2, <1>4, <1>5 DEF StepsOf

\* Jobs that a call runs are no dead letters.
LEMMA RunsNoDeadLetter ==
  ASSUME IInv, NEW d \in Caller, running[d] # 0
  PROVE  running[d] \in DOMAIN jobs /\ ~jobs[running[d]].name.dead
BY DEF IInv, CallsKnowTheirJobs, ExclusiveExecution, DeadLettersRest

\* Every step of the driver is one of some call.
LEMMA StepEffect ==
  ASSUME IInv, NEW c \in Caller,
         \/ \E q \in Queue, x \in Payload : Publish(c, q, x)
         \/ \E n \in JobName, ids \in Batch : Retry(c, n, ids)
         \/ HandlerSettles(c)
  PROVE  StepsOf(c)
<1>1. JobsOK(jobs, nextId) /\ CallsOK
  BY InvariantParts
<1>2. ASSUME NEW q \in Queue, NEW x \in Payload, Publish(c, q, x)
      PROVE  StepsOf(c)
  <2>1. nextId # 0 /\ nextId \notin DOMAIN jobs
    BY <1>1 DEF JobsOK
  <2>2. /\ jobs' = Put(jobs, nextId, Published(q, x))
        /\ running' = [running EXCEPT ![c] = nextId]
        /\ invoked' = [invoked EXCEPT ![x] = @ + 1]
    BY <1>2 DEF Publish
  <2>3. /\ jobs'[nextId].payload = x
        /\ \A k \in DOMAIN jobs : jobs'[k].payload = jobs[k].payload
    BY <2>1, <2>2 DEF Put, Published
  <2>. QED  BY <1>1, <2>1, <2>2, <2>3, RunsNoDeadLetter DEF StepsOf, CallsOK
<1>3. ASSUME NEW n \in JobName, NEW ids \in Batch, Retry(c, n, ids)
      PROVE  StepsOf(c)
  <2>1. Proceed(c, jobs, nextId, n, ids)
    BY <1>3 DEF Retry
  <2>2. /\ \A k \in DOMAIN jobs : k \in DOMAIN jobs' /\ jobs'[k].payload = jobs[k].payload
        /\ \A d \in Caller \ {c} : running'[d] = running[d]
        /\ running'[c] = 0 => invoked' = invoked
        /\ running'[c] # 0 =>
             invoked' = [invoked EXCEPT ![jobs'[running'[c]].payload] = @ + 1]
    BY <1>1, <2>1, ProceedEffect
  <2>. QED  BY <2>2, RunsNoDeadLetter DEF StepsOf
<1>4. ASSUME HandlerSucceeds(c) PROVE StepsOf(c)
  <2>. DEFINE r == running[c]
              job == [jobs[r] EXCEPT !.state = "completed"]
              js == [jobs EXCEPT ![r] = job]
  <2>1. Resume(c, js, nextId) /\ InHandler(c)
    BY <1>4 DEF HandlerSucceeds
  <2>2. /\ r # 0 /\ r \in DOMAIN jobs /\ jobs[r] \in Job /\ ~jobs[r].name.dead
        /\ replaying[c] \in DOMAIN jobs => jobs[replaying[c]].name.dead
    BY <2>1, RunningJob
  <2>3. /\ job \in Job /\ job.state # "active"
        /\ job.name = jobs[r].name /\ job.payload = jobs[r].payload
    BY <2>2 DEF Job, JobState
  <2>. HIDE DEF job
  <2>4. JobsOK(js, nextId)
    BY <2>2, <2>3, SettledFits
  <2>5. /\ DOMAIN js = DOMAIN jobs
        /\ \A k \in DOMAIN jobs : js[k].name = jobs[k].name /\ js[k].payload = jobs[k].payload
    BY <2>2, <2>3
  <2>. HIDE DEF js
  <2>6. replaying[c] \in DOMAIN js => js[replaying[c]].name.dead
    BY <2>2, <2>5
  <2>7. \A d \in Caller \ {c} : running[d] # 0 => ~js[running[d]].name.dead
    BY <2>5, RunsNoDeadLetter
  <2>. QED  BY <2>1, <2>4, <2>5, <2>6, <2>7, ResumeEffect
<1>5. ASSUME HandlerThrowsAndRetries(c) PROVE StepsOf(c)
  <2>1. running[c] # 0 /\ running[c] \in DOMAIN jobs
    BY <1>5, RunningJob DEF HandlerThrowsAndRetries
  <2>2. /\ running' = running
        /\ jobs' = [jobs EXCEPT ![running[c]].attempt = @ + 1]
        /\ invoked' = [invoked EXCEPT ![jobs[running[c]].payload] = @ + 1]
    BY <1>5 DEF HandlerThrowsAndRetries, callVars
  <2>3. \A k \in DOMAIN jobs : jobs'[k].payload = jobs[k].payload
    BY <2>1, <2>2
  <2>. QED  BY <2>1, <2>2, <2>3, RunsNoDeadLetter DEF StepsOf
<1>6. ASSUME HandlerThrowsAndFails(c) PROVE StepsOf(c)
  <2>. DEFINE r == running[c]
              job == [jobs[r] EXCEPT !.state = "failed"]
              letter == DeadLetter(jobs[r])
              fs == [jobs EXCEPT ![r] = job]
              js == Put(fs, nextId, letter)
  <2>1. Resume(c, js, nextId + 1) /\ InHandler(c)
    BY <1>6 DEF HandlerThrowsAndFails
  <2>2. /\ r # 0 /\ r \in DOMAIN jobs /\ jobs[r] \in Job /\ ~jobs[r].name.dead
        /\ replaying[c] \in DOMAIN jobs => jobs[replaying[c]].name.dead
    BY <2>1, RunningJob
  <2>3. /\ job \in Job /\ job.state # "active"
        /\ job.name = jobs[r].name /\ job.payload = jobs[r].payload
    BY <2>2 DEF Job, JobState
  <2>4. letter \in Job /\ letter.state = "created" /\ letter.name.dead = TRUE
    BY <2>2, JobTypes
  <2>. HIDE DEF job, letter
  <2>5. JobsOK(fs, nextId)
    BY <2>2, <2>3, SettledFits
  <2>6. /\ DOMAIN fs = DOMAIN jobs
        /\ \A k \in DOMAIN jobs : fs[k].name = jobs[k].name /\ fs[k].payload = jobs[k].payload
    BY <2>2, <2>3
  <2>. HIDE DEF fs
  <2>7. JobsOK(js, nextId + 1)
    BY <2>4, <2>5, PutFresh
  <2>8. /\ DOMAIN js = DOMAIN jobs \cup {nextId}
        /\ js[nextId] = letter
        /\ \A k \in DOMAIN jobs : js[k].name = jobs[k].name /\ js[k].payload = jobs[k].payload
    <3>1. nextId \notin DOMAIN jobs
      BY <1>1 DEF JobsOK
    <3>. QED  BY <2>6, <3>1 DEF Put
  <2>. HIDE DEF js
  <2>9. replaying[c] \in DOMAIN js => js[replaying[c]].name.dead
    BY <2>2, <2>4, <2>8
  <2>10. \A d \in Caller \ {c} : running[d] # 0 => ~js[running[d]].name.dead
    BY <2>8, RunsNoDeadLetter
  <2>. QED  BY <2>1, <2>7, <2>8, <2>9, <2>10, ResumeEffect
<1>. QED  BY <1>2, <1>3, <1>4, <1>5, <1>6 DEF HandlerSettles

-----------------------------------------------------------------------------
(* What a piece of work may still cost.  A token stands for each further    *)
(* attempt of a job that a call runs, and a plan for each position of a     *)
(* request that is still to be looked at and names a job of the work.       *)
(* Positions count from the end of the request: they stay the same while    *)
(* the loop of retry() drops its prefixes.                                  *)

\* The calls that run a job of the work x.
Execs(js, run, x) == {c \in Caller : run[c] # 0 /\ js[run[c]].payload = x}

\* The attempts that a running job has left, by their numbers.
AttemptsLeft(job) == (job.attempt + 1) .. (RetryLimit[job.name.queue] + 1)

ExecsLeft(js, run, x) ==
  UNION {{c} \X AttemptsLeft(js[run[c]]) : c \in Execs(js, run, x)}

\* The positions of the ids that name a job of x.
Wanted(js, ids, x) ==
  {k \in 1 .. Len(ids) :
     /\ ids[Len(ids) + 1 - k] \in DOMAIN js
     /\ js[ids[Len(ids) + 1 - k]].payload = x}

Planned(js, plan, x) == UNION {{c} \X Wanted(js, plan[c], x) : c \in Caller}

\* Handler calls with attempts left to come, and successes with executions to
\* come, stay within what was asked for of work of the queue q; each plan is
\* worth all the attempts of one job.
Paid(inv, suc, ask, attempts, execs, plans, q) ==
  /\ Covered(inv, attempts, plans, RetryLimit[q] + 1, (1 + ask) * (RetryLimit[q] + 1))
  /\ Covered(suc, execs, plans, 1, 1 + ask)

\* The budget of the work x of the queue q.
Budget(js, run, plan, x, q, inv, suc, ask) ==
  /\ \A i \in DOMAIN js : js[i].payload = x => js[i].name.queue = q
  /\ Paid(inv, suc, ask, ExecsLeft(js, run, x), Execs(js, run, x), Planned(js, plan, x), q)

\* Requests name ids that were given out.
KnownIds(plan, id) == \A c \in Caller : \A i \in DOMAIN plan[c] : plan[c][i] < id

\* A call that runs nothing has nothing left to do.
IdleRests(run, plan) == \A c \in Caller : run[c] = 0 => plan[c] = <<>>

\* The calls that run a job of x run the same job as before, which is unchanged.
FewerRun(js, run, ks, go, x) ==
  \A c \in Caller : go[c] # 0 /\ ks[go[c]].payload = x =>
    go[c] = run[c] /\ ks[run[c]] = js[run[c]]

\* What is left of the requests names the same jobs as before, or fewer.
FewerWaited(js, plan, ks, rest) ==
  /\ plan \in [Caller -> Seq(Nat)]
  /\ \A c \in Caller :
       \/ rest[c] = <<>>
       \/ /\ rest[c] = plan[c]
          /\ \A i \in DOMAIN plan[c] : plan[c][i] \in DOMAIN ks =>
               plan[c][i] \in DOMAIN js /\ ks[plan[c][i]].payload = js[plan[c][i]].payload

\* The tokens of a call are its own.
LEMMA ExecsLeftMember ==
  ASSUME NEW js, NEW run, NEW x
  PROVE  /\ \A p \in ExecsLeft(js, run, x) :
              \E c \in Execs(js, run, x) : \E k \in AttemptsLeft(js[run[c]]) : p = <<c, k>>
         /\ \A c \in Execs(js, run, x) : \A k \in AttemptsLeft(js[run[c]]) :
              <<c, k>> \in ExecsLeft(js, run, x)
<1>. DEFINE A(c) == AttemptsLeft(js[run[c]])
            E == Execs(js, run, x)
            L == UNION {{c} \X A(c) : c \in E}
<1>1. ExecsLeft(js, run, x) = L
  BY DEF ExecsLeft
<1>. HIDE DEF A, E
<1>2. \A p \in L : \E c \in E : \E k \in A(c) : p = <<c, k>>
  OBVIOUS
<1>3. \A c \in E : \A k \in A(c) : <<c, k>> \in L
  OBVIOUS
<1>. QED  BY <1>1, <1>2, <1>3 DEF A, E

LEMMA PlannedMember ==
  ASSUME NEW js, NEW plan, NEW x
  PROVE  /\ \A p \in Planned(js, plan, x) :
              \E c \in Caller : \E k \in Wanted(js, plan[c], x) : p = <<c, k>>
         /\ \A c \in Caller : \A k \in Wanted(js, plan[c], x) :
              <<c, k>> \in Planned(js, plan, x)
<1>. DEFINE W(c) == Wanted(js, plan[c], x)
            P == UNION {{c} \X W(c) : c \in Caller}
<1>1. Planned(js, plan, x) = P
  BY DEF Planned
<1>. HIDE DEF W
<1>2. \A p \in P : \E c \in Caller : \E k \in W(c) : p = <<c, k>>
  OBVIOUS
<1>3. \A c \in Caller : \A k \in W(c) : <<c, k>> \in P
  OBVIOUS
<1>. QED  BY <1>1, <1>2, <1>3 DEF W

\* The numbers of a budget.
LEMMA BudgetTypes ==
  ASSUME NEW q \in Queue, NEW ask \in Nat
  PROVE  /\ RetryLimit[q] \in Nat
         /\ RetryLimit[q] + 1 \in Nat
         /\ 1 + ask \in Nat
         /\ (1 + ask) * (RetryLimit[q] + 1) \in Nat
<1>1. RetryLimit[q] \in Nat
  BY ConstantsAssumption
<1>. QED  BY <1>1

\* Dropping what is to come.
LEMMA PaidDrop ==
  ASSUME NEW q \in Queue, NEW inv \in Nat, NEW suc \in Nat, NEW ask \in Nat,
         NEW L, NEW E, NEW P, Paid(inv, suc, ask, L, E, P, q),
         NEW M, M \subseteq L, NEW F, F \subseteq E, NEW R, R \subseteq P
  PROVE  Paid(inv, suc, ask, M, F, R, q)
<1>1. PICK m \in Nat, a \in Nat, b \in Nat :
        m = RetryLimit[q] + 1 /\ b = 1 + ask /\ a = (1 + ask) * (RetryLimit[q] + 1)
  BY BudgetTypes
<1>2. Covered(inv, L, P, m, a) /\ Covered(suc, E, P, 1, b)
  BY <1>1 DEF Paid
<1>3. Covered(inv, M, R, m, a)
  BY <1>2, CoveredDrop
<1>4. Covered(suc, F, R, 1, b)
  BY <1>2, CoveredDrop
<1>. QED  BY <1>1, <1>3, <1>4 DEF Paid

\* An execution succeeds.
LEMMA PaidSuccess ==
  ASSUME NEW q \in Queue, NEW inv \in Nat, NEW suc \in Nat, NEW ask \in Nat,
         NEW L, NEW E, NEW P, Paid(inv, suc, ask, L, E, P, q),
         NEW M, M \subseteq L, NEW c \in E, NEW F, F \subseteq E \ {c},
         NEW R, R \subseteq P
  PROVE  Paid(inv, suc + 1, ask, M, F, R, q)
<1>1. PICK m \in Nat, a \in Nat, b \in Nat :
        m = RetryLimit[q] + 1 /\ b = 1 + ask /\ a = (1 + ask) * (RetryLimit[q] + 1)
  BY BudgetTypes
<1>2. Covered(inv, L, P, m, a) /\ Covered(suc, E, P, 1, b)
  BY <1>1 DEF Paid
<1>3. Covered(inv, M, R, m, a)
  BY <1>2, CoveredDrop
<1>4. Covered(suc + 1, F, R, 1, b)
  BY <1>2, CoveredSpend
<1>. QED  BY <1>1, <1>3, <1>4 DEF Paid

\* Calls that stop, requests that are dropped, and entries that leave the map
\* or come into it without anybody to run them, leave less to come.
LEMMA FewerToCome ==
  ASSUME NEW js, NEW run, NEW plan, NEW ks, NEW go, NEW rest, NEW x,
         FewerRun(js, run, ks, go, x), FewerWaited(js, plan, ks, rest)
  PROVE  /\ Execs(ks, go, x) \subseteq Execs(js, run, x)
         /\ ExecsLeft(ks, go, x) \subseteq ExecsLeft(js, run, x)
         /\ Planned(ks, rest, x) \subseteq Planned(js, plan, x)
<1>1. Execs(ks, go, x) \subseteq Execs(js, run, x)
  BY DEF Execs, FewerRun
<1>2. ExecsLeft(ks, go, x) \subseteq ExecsLeft(js, run, x)
  <2>1. SUFFICES ASSUME NEW p \in ExecsLeft(ks, go, x) PROVE p \in ExecsLeft(js, run, x)
    OBVIOUS
  <2>2. PICK c \in Execs(ks, go, x) : \E k \in AttemptsLeft(ks[go[c]]) : p = <<c, k>>
    BY ExecsLeftMember
  <2>3. ks[go[c]] = js[run[c]]
    BY DEF Execs, FewerRun
  <2>. QED  BY <1>1, <2>2, <2>3, ExecsLeftMember
<1>3. Planned(ks, rest, x) \subseteq Planned(js, plan, x)
  <2>1. SUFFICES ASSUME NEW p \in Planned(ks, rest, x) PROVE p \in Planned(js, plan, x)
    OBVIOUS
  <2>2. PICK c \in Caller : \E k \in Wanted(ks, rest[c], x) : p = <<c, k>>
    BY PlannedMember
  <2>3. rest[c] # <<>>
    BY <2>2 DEF Wanted
  <2>4. Wanted(ks, plan[c], x) \subseteq Wanted(js, plan[c], x)
    BY <2>3 DEF Wanted, FewerWaited
  <2>5. rest[c] = plan[c]
    BY <2>3 DEF FewerWaited
  <2>. QED  BY <2>2, <2>4, <2>5, PlannedMember
<1>. QED  BY <1>1, <1>2, <1>3

\* So the budget is kept, and where one of them succeeded it counts.
LEMMA FewerKeepsBudget ==
  ASSUME NEW js, NEW run, NEW plan, NEW ks, NEW go, NEW rest, NEW x, NEW q \in Queue,
         NEW inv \in Nat, NEW suc \in Nat, NEW ask \in Nat,
         Budget(js, run, plan, x, q, inv, suc, ask),
         FewerRun(js, run, ks, go, x), FewerWaited(js, plan, ks, rest),
         \A i \in DOMAIN ks : ks[i].payload = x => ks[i].name.queue = q
  PROVE  /\ Budget(ks, go, rest, x, q, inv, suc, ask)
         /\ \A c \in Execs(js, run, x) :
              go[c] = 0 => Budget(ks, go, rest, x, q, inv, suc + 1, ask)
<1>. DEFINE E == Execs(js, run, x)
            L == ExecsLeft(js, run, x)
            P == Planned(js, plan, x)
            F == Execs(ks, go, x)
            M == ExecsLeft(ks, go, x)
            R == Planned(ks, rest, x)
<1>1. F \subseteq E /\ M \subseteq L /\ R \subseteq P
  BY FewerToCome
<1>2. Paid(inv, suc, ask, L, E, P, q)
  BY DEF Budget
<1>3. \A c \in Caller : go[c] = 0 => c \notin F
  BY DEF Execs
<1>. HIDE DEF E, L, P, F, M, R
<1>4. Paid(inv, suc, ask, M, F, R, q)
  BY <1>1, <1>2, PaidDrop
<1>5. ASSUME NEW c \in E, go[c] = 0
      PROVE  Paid(inv, suc + 1, ask, M, F, R, q)
  <2>1. F \subseteq E \ {c}
    BY <1>1, <1>3, <1>5 DEF E, Execs
  <2>. QED  BY <1>1, <1>2, <2>1, PaidSuccess
<1>. QED  BY <1>4, <1>5 DEF Budget, E, F, M, R

\* The ids behind the i-th one, seen from the end.
LEMMA LaterIds ==
  ASSUME NEW ids \in Seq(Nat), NEW i \in DOMAIN ids
  PROVE  /\ Len(ids) \in Nat /\ DOMAIN ids = 1 .. Len(ids)
         /\ Len(SubSeq(ids, i + 1, Len(ids))) = Len(ids) - i
         /\ \A k \in 1 .. Len(ids) - i :
              SubSeq(ids, i + 1, Len(ids))[Len(ids) - i + 1 - k] = ids[Len(ids) + 1 - k]
<1>1. Len(ids) \in Nat /\ DOMAIN ids = 1 .. Len(ids)
  OBVIOUS
<1>2. Len(SubSeq(ids, i + 1, Len(ids))) = Len(ids) - i
  BY <1>1
<1>3. \A j \in 1 .. Len(ids) - i : SubSeq(ids, i + 1, Len(ids))[j] = ids[i + j]
  BY <1>1
<1>4. ASSUME NEW k \in 1 .. Len(ids) - i
      PROVE  /\ Len(ids) - i + 1 - k \in 1 .. Len(ids) - i
             /\ i + (Len(ids) - i + 1 - k) = Len(ids) + 1 - k
  BY <1>1
<1>. QED  BY <1>1, <1>2, <1>3, <1>4

\* Numbers of positions in a sequence and in what follows its i-th position.
LEMMA LaterPositions ==
  ASSUME NEW n \in Nat, NEW i \in 1 .. n, NEW k \in 1 .. n - i
  PROVE  k \in 1 .. n /\ k # n + 1 - i /\ n + 1 - k \in 1 .. n
OBVIOUS

\* All attempts of a job of the queue q, as tokens of the call c.
AllAttempts(c, q) == {c} \X (1 .. (RetryLimit[q] + 1))

LEMMA CountAllAttempts ==
  ASSUME NEW q \in Queue, NEW c
  PROVE  /\ IsFiniteSet(AllAttempts(c, q))
         /\ Cardinality(AllAttempts(c, q)) = RetryLimit[q] + 1
         /\ <<c, 1>> \in AllAttempts(c, q)
<1>1. PICK m \in Nat : m = RetryLimit[q] + 1 /\ m >= 1
  BY ConstantsAssumption
<1>2. PICK S : S = 1 .. m
  OBVIOUS
<1>3. IsFiniteSet(S) /\ Cardinality(S) = m
  BY <1>1, <1>2, FS_Interval
<1>4. IsFiniteSet({c} \X S) /\ Cardinality({c} \X S) = m
  BY <1>3, CardColumn
<1>5. <<c, 1>> \in {c} \X S
  BY <1>1, <1>2
<1>. QED  BY <1>1, <1>2, <1>4, <1>5 DEF AllAttempts

\* The handler is called for a position of a request, which pays for this
\* attempt and all later ones of the job.
LEMMA RunIsPaid ==
  ASSUME NEW q \in Queue, NEW inv \in Nat, NEW suc \in Nat, NEW ask \in Nat,
         NEW L, NEW E, NEW P, Paid(inv, suc, ask, L, E, P, q),
         NEW c, NEW F, F \subseteq E \cup {c},
         NEW M, M \subseteq L \cup AllAttempts(c, q), <<c, 1>> \notin M,
         NEW t \in P, NEW R, R \subseteq P \ {t}
  PROVE  Paid(inv + 1, suc, ask, M, F, R, q)
<1>1. PICK m \in Nat, a \in Nat, b \in Nat :
        m = RetryLimit[q] + 1 /\ b = 1 + ask /\ a = (1 + ask) * (RetryLimit[q] + 1)
  BY BudgetTypes
<1>2. PICK C : /\ C = AllAttempts(c, q)
               /\ IsFiniteSet(C) /\ Cardinality(C) = m /\ <<c, 1>> \in C
  BY <1>1, CountAllAttempts
<1>3. PICK K : K = L \cup C
  OBVIOUS
<1>4. Covered(inv, L, P, m, a) /\ K \subseteq L \cup C
  BY <1>1, <1>3 DEF Paid
<1>5. Covered(inv, K, R, m, a)
  BY <1>2, <1>4, CoveredCarryOut
<1>6. <<c, 1>> \in K /\ M \subseteq K \ {<<c, 1>>} /\ R \subseteq R
  BY <1>2, <1>3
<1>7. Covered(inv + 1, M, R, m, a)
  BY <1>5, <1>6, CoveredSpend
<1>8. Covered(suc, E, P, 1, b)
  BY <1>1 DEF Paid
<1>9. Covered(suc, F, R, 1, b)
  BY <1>8, CoveredTurn
<1>. QED  BY <1>1, <1>7, <1>9 DEF Paid

\* The call c of the map js, which runs nothing, calls the handler on the job
\* r of the map ks, put there for the i-th of its ids.
Reruns(js, run, plan, ks, go, rest, c, ids, i, r) ==
  /\ run[c] = 0
  /\ plan \in [Caller -> Seq(Nat)]
  /\ plan[c] = ids
  /\ i \in DOMAIN ids
  /\ ids[i] \in DOMAIN js
  /\ r # 0
  /\ DOMAIN ks = DOMAIN js \cup {r}
  /\ \A k \in DOMAIN js : k # r => ks[k] = js[k]
  /\ ks[r].payload = js[ids[i]].payload
  /\ ks[r].name.queue = js[ids[i]].name.queue
  /\ ks[r].attempt = 1
  /\ r \in DOMAIN js => js[r].payload = ks[r].payload
  /\ r \notin DOMAIN js => \A d \in Caller : \A j \in DOMAIN plan[d] : plan[d][j] # r
  /\ \A d \in Caller \ {c} : /\ run[d] # r
                             /\ run[d] # 0 => run[d] \in DOMAIN js
                             /\ go[d] = run[d]
                             /\ rest[d] = plan[d]
  /\ go[c] = r
  /\ rest[c] = SubSeq(ids, i + 1, Len(ids))

\* Nobody's ids name other work than before.
NamesStay(js, plan, ks) ==
  \A d \in Caller : \A j \in DOMAIN plan[d] : plan[d][j] \in DOMAIN ks =>
    plan[d][j] \in DOMAIN js /\ ks[plan[d][j]].payload = js[plan[d][j]].payload

LEMMA RerunNames ==
  ASSUME NEW js, NEW run, NEW plan, NEW ks, NEW go, NEW rest,
         NEW c \in Caller, NEW ids, NEW i, NEW r,
         Reruns(js, run, plan, ks, go, rest, c, ids, i, r)
  PROVE  NamesStay(js, plan, ks)
BY DEF Reruns, NamesStay

\* Only c runs another job than before.
LEMMA RerunExecs ==
  ASSUME NEW js, NEW run, NEW plan, NEW ks, NEW go, NEW rest,
         NEW c \in Caller, NEW ids, NEW i, NEW r,
         Reruns(js, run, plan, ks, go, rest, c, ids, i, r),
         NEW x, NEW d \in Execs(ks, go, x)
  PROVE  /\ d # c => d \in Execs(js, run, x) /\ ks[go[d]] = js[run[d]]
         /\ d = c => ks[r].payload = x
<1>1. d \in Caller /\ go[d] # 0 /\ ks[go[d]].payload = x
  BY DEF Execs
<1>2. d # c => go[d] = run[d] /\ (run[d] # 0 => ks[run[d]] = js[run[d]])
  BY <1>1 DEF Reruns
<1>3. go[c] = r
  BY DEF Reruns
<1>. QED  BY <1>1, <1>2, <1>3 DEF Execs

\* The attempts that are left are old ones, or later ones than the first of c
\* on the job r.
LeftWithin(left, old, turned, c, q) ==
  \A p \in left : p # <<c, 1>> /\ (p \in old \/ (turned /\ p \in AllAttempts(c, q)))

LEMMA RerunLeft ==
  ASSUME NEW js, NEW run, NEW plan, NEW ks, NEW go, NEW rest,
         NEW c \in Caller, NEW ids, NEW i, NEW r,
         Reruns(js, run, plan, ks, go, rest, c, ids, i, r), NEW x, NEW q \in Queue,
         ks[r].payload = x => ks[r].name.queue = q
  PROVE  LeftWithin(ExecsLeft(ks, go, x), ExecsLeft(js, run, x), ks[r].payload = x, c, q)
<1>. SUFFICES ASSUME NEW p \in ExecsLeft(ks, go, x)
     PROVE  /\ p # <<c, 1>>
            /\ p \in ExecsLeft(js, run, x) \/ (ks[r].payload = x /\ p \in AllAttempts(c, q))
  BY DEF LeftWithin
<1>1. PICK d \in Execs(ks, go, x) : \E k \in AttemptsLeft(ks[go[d]]) : p = <<d, k>>
  BY ExecsLeftMember
<1>2. PICK k \in AttemptsLeft(ks[go[d]]) : p = <<d, k>>
  BY <1>1
<1>3. CASE d = c
  <2>1. ks[r].payload = x
    BY <1>3, RerunExecs
  <2>2. go[c] = r /\ ks[r].name.queue = q /\ ks[r].attempt = 1
    BY <2>1 DEF Reruns
  <2>3. AttemptsLeft(ks[go[d]]) = 2 .. (RetryLimit[q] + 1)
    BY <1>3, <2>2 DEF AttemptsLeft
  <2>4. k \in 1 .. (RetryLimit[q] + 1) /\ k # 1
    BY <1>2, <2>3, BudgetTypes
  <2>. QED  BY <1>2, <1>3, <2>1, <2>4 DEF AllAttempts
<1>4. CASE d # c
  <2>1. d \in Execs(js, run, x) /\ ks[go[d]] = js[run[d]]
    BY <1>4, RerunExecs
  <2>2. p \in ExecsLeft(js, run, x)
    BY <1>2, <2>1, ExecsLeftMember
  <2>. QED  BY <1>2, <1>4, <2>2
<1>. QED  BY <1>3, <1>4

\* The position of the id is used up.
LEMMA RerunPlanned ==
  ASSUME NEW js, NEW run, NEW plan, NEW ks, NEW go, NEW rest,
         NEW c \in Caller, NEW ids \in Seq(Nat), NEW i, NEW r,
         Reruns(js, run, plan, ks, go, rest, c, ids, i, r), NEW x
  PROVE  /\ Planned(ks, rest, x) \subseteq Planned(js, plan, x) \ {<<c, Len(ids) + 1 - i>>}
         /\ ks[r].payload = x => <<c, Len(ids) + 1 - i>> \in Planned(js, plan, x)
<1>1. PICK n \in Nat : n = Len(ids) /\ DOMAIN ids = 1 .. n
  OBVIOUS
<1>2. /\ i \in 1 .. n /\ plan[c] = ids /\ rest[c] = SubSeq(ids, i + 1, n)
      /\ plan \in [Caller -> Seq(Nat)]
      /\ \A d \in Caller \ {c} : rest[d] = plan[d]
      /\ ids[i] \in DOMAIN js /\ ks[r].payload = js[ids[i]].payload
  BY <1>1 DEF Reruns
<1>3. NamesStay(js, plan, ks)
  BY RerunNames
<1>4. ASSUME NEW k \in Wanted(ks, rest[c], x)
      PROVE  k \in Wanted(js, ids, x) /\ k # n + 1 - i
  <2>1. Len(rest[c]) = n - i
    BY <1>1, <1>2, LaterIds
  <2>2. /\ k \in 1 .. n - i
        /\ rest[c][n - i + 1 - k] \in DOMAIN ks
        /\ ks[rest[c][n - i + 1 - k]].payload = x
    BY <2>1 DEF Wanted
  <2>3. rest[c][n - i + 1 - k] = ids[n + 1 - k]
    <3>1. PICK later : later = SubSeq(ids, i + 1, Len(ids))
      OBVIOUS
    <3>2. i \in DOMAIN ids
      BY <1>1, <1>2
    <3>3. \A h \in 1 .. Len(ids) - i : later[Len(ids) - i + 1 - h] = ids[Len(ids) + 1 - h]
      BY <3>1, <3>2, LaterIds
    <3>4. later = rest[c] /\ k \in 1 .. Len(ids) - i
      BY <1>1, <1>2, <2>2, <3>1
    <3>. QED  BY <1>1, <3>3, <3>4
  <2>4. k \in 1 .. n /\ k # n + 1 - i /\ n + 1 - k \in 1 .. n
    BY <1>2, <2>2, LaterPositions
  <2>5. PICK j : j = n + 1 - k
    OBVIOUS
  <2>6. /\ j \in DOMAIN plan[c] /\ plan[c][j] \in DOMAIN ks
        /\ ks[plan[c][j]].payload = x
    BY <1>1, <1>2, <2>2, <2>3, <2>4, <2>5
  <2>7. plan[c][j] \in DOMAIN js /\ js[plan[c][j]].payload = x
    BY <1>3, <2>6 DEF NamesStay
  <2>. QED  BY <1>1, <1>2, <2>4, <2>5, <2>7 DEF Wanted
<1>5. ASSUME NEW p \in Planned(ks, rest, x)
      PROVE  p \in Planned(js, plan, x) /\ p # <<c, n + 1 - i>>
  <2>1. PICK d \in Caller : \E k \in Wanted(ks, rest[d], x) : p = <<d, k>>
    BY PlannedMember
  <2>2. PICK k \in Wanted(ks, rest[d], x) : p = <<d, k>>
    BY <2>1
  <2>3. CASE d = c
    <3>1. k \in Wanted(js, plan[d], x) /\ k # n + 1 - i
      BY <1>2, <1>4, <2>2, <2>3
    <3>. QED  BY <2>2, <3>1, PlannedMember
  <2>4. CASE d # c
    <3>1. rest[d] = plan[d] /\ plan[d] \in Seq(Nat)
      BY <1>2, <2>4
    <3>2. PICK o \in Nat : o = Len(plan[d]) /\ DOMAIN plan[d] = 1 .. o
      BY <3>1
    <3>3. /\ k \in 1 .. o
          /\ plan[d][o + 1 - k] \in DOMAIN ks
          /\ ks[plan[d][o + 1 - k]].payload = x
      BY <2>2, <3>1, <3>2 DEF Wanted
    <3>4. PICK j : j = o + 1 - k
      OBVIOUS
    <3>5. j \in DOMAIN plan[d]
      BY <3>2, <3>3, <3>4
    <3>6. plan[d][j] \in DOMAIN js /\ js[plan[d][j]].payload = x
      BY <1>3, <3>3, <3>4, <3>5 DEF NamesStay
    <3>7. k \in Wanted(js, plan[d], x)
      BY <3>2, <3>3, <3>4, <3>6 DEF Wanted
    <3>. QED  BY <2>2, <2>4, <3>7, PlannedMember
  <2>. QED  BY <2>3, <2>4
<1>6. ks[r].payload = x => <<c, n + 1 - i>> \in Planned(js, plan, x)
  <2>1. SUFFICES ASSUME ks[r].payload = x PROVE <<c, n + 1 - i>> \in Planned(js, plan, x)
    OBVIOUS
  <2>2. PICK k : k = n + 1 - i
    OBVIOUS
  <2>3. k \in 1 .. n /\ n + 1 - k = i
    BY <1>2, <2>2
  <2>4. k \in Wanted(js, plan[c], x)
    BY <1>1, <1>2, <2>1, <2>3 DEF Wanted
  <2>. QED  BY <2>2, <2>4, PlannedMember
<1>. QED  BY <1>1, <1>5, <1>6

\* The loop of retry() calls the handler within the budget of every work.
LEMMA RerunKeepsBudget ==
  ASSUME NEW js, NEW run, NEW plan, NEW ks, NEW go, NEW rest,
         NEW c \in Caller, NEW ids \in Seq(Nat), NEW i, NEW r,
         Reruns(js, run, plan, ks, go, rest, c, ids, i, r),
         NEW x, NEW q \in Queue, NEW inv \in Nat, NEW suc \in Nat, NEW ask \in Nat,
         Budget(js, run, plan, x, q, inv, suc, ask)
  PROVE  Budget(ks, go, rest, x, q, IF ks[r].payload = x THEN inv + 1 ELSE inv, suc, ask)
<1>1. \A k \in DOMAIN ks : ks[k].payload = x => ks[k].name.queue = q
  BY DEF Budget, Reruns
<1>2. r \in DOMAIN ks
  BY DEF Reruns
<1>3. \A p \in ExecsLeft(ks, go, x) :
        /\ p # <<c, 1>>
        /\ p \in ExecsLeft(js, run, x) \/ (ks[r].payload = x /\ p \in AllAttempts(c, q))
  <2>1. ks[r].payload = x => ks[r].name.queue = q
    BY <1>1, <1>2
  <2>2. LeftWithin(ExecsLeft(ks, go, x), ExecsLeft(js, run, x), ks[r].payload = x, c, q)
    BY <2>1, RerunLeft
  <2>. QED  BY <2>2 DEF LeftWithin
<1>4. ASSUME NEW d \in Execs(ks, go, x)
      PROVE  d \in Execs(js, run, x) \/ (ks[r].payload = x /\ d = c)
  BY RerunExecs
<1>5. PICK t : t = <<c, Len(ids) + 1 - i>>
  OBVIOUS
<1>6. /\ Planned(ks, rest, x) \subseteq Planned(js, plan, x) \ {t}
      /\ ks[r].payload = x => t \in Planned(js, plan, x)
  BY <1>5, RerunPlanned
<1>. DEFINE E == Execs(js, run, x)
            L == ExecsLeft(js, run, x)
            P == Planned(js, plan, x)
            F == Execs(ks, go, x)
            M == ExecsLeft(ks, go, x)
            R == Planned(ks, rest, x)
<1>7. Paid(inv, suc, ask, L, E, P, q)
  BY DEF Budget
<1>8. CASE ks[r].payload = x
  <2>. HIDE DEF E, L, P, F, M, R
  <2>1. t \in P /\ R \subseteq P \ {t}
    BY <1>6, <1>8 DEF P, R
  <2>2. F \subseteq E \cup {c}
    BY <1>4 DEF F, E
  <2>3. M \subseteq L \cup AllAttempts(c, q) /\ <<c, 1>> \notin M
    BY <1>3 DEF M, L
  <2>4. Paid(inv + 1, suc, ask, M, F, R, q)
    BY <1>7, <2>1, <2>2, <2>3, RunIsPaid
  <2>. QED  BY <1>1, <1>8, <2>4 DEF Budget, F, M, R
<1>9. CASE ks[r].payload # x
  <2>. HIDE DEF E, L, P, F, M, R
  <2>1. R \subseteq P
    BY <1>6 DEF P, R
  <2>2. F \subseteq E
    BY <1>4, <1>9 DEF F, E
  <2>3. M \subseteq L
    BY <1>3, <1>9 DEF M, L
  <2>4. Paid(inv, suc, ask, M, F, R, q)
    BY <1>7, <2>1, <2>2, <2>3, PaidDrop
  <2>. QED  BY <1>1, <1>9, <2>4 DEF Budget, F, M, R
<1>. QED  BY <1>8, <1>9


\* The call c runs nothing and has the ids to look at; the others are as they
\* are.
Waits(run, plan, c, ids) ==
  /\ run[c] = 0
  /\ plan \in [Caller -> Seq(Nat)]
  /\ plan[c] = ids
  /\ \A d \in Caller \ {c} : /\ run[d] = running[d] /\ plan[d] = todo[d]
                             /\ running[d] = 0 => todo[d] = <<>>

\* The handler is called on a job that c put into the map, which is a rerun.
LEMMA RerunBudget ==
  ASSUME CallsOK, NEW c \in Caller, NEW js, NEW ks, NEW next, NEW n, NEW r,
         NEW ids \in Seq(Nat), NEW i, NEW run, NEW plan,
         Rerun(c, ks, next, r, n, ids, i),
         Reruns(js, run, plan, ks, running', todo', c, ids, i, r),
         NEW x \in Payload, NEW q \in Queue, NEW suc \in Nat, NEW ask \in Nat,
         Budget(js, run, plan, x, q, invoked[x], suc, ask)
  PROVE  Budget(jobs', running', todo', x, q, invoked'[x], suc, ask)
<1>1. jobs' = ks
  BY DEF Rerun
<1>2. PICK e \in Nat : e = invoked[x]
  BY DEF CallsOK
<1>3. invoked'[x] = IF ks[r].payload = x THEN e + 1 ELSE e
  BY <1>2 DEF Rerun, CallsOK
<1>4. PICK go, rest : go = running' /\ rest = todo'
  OBVIOUS
<1>5. Reruns(js, run, plan, ks, go, rest, c, ids, i, r)
  BY <1>4
<1>6. Budget(js, run, plan, x, q, e, suc, ask)
  BY <1>2
<1>7. Budget(ks, go, rest, x, q, IF ks[r].payload = x THEN e + 1 ELSE e, suc, ask)
  BY <1>2, <1>5, <1>6, RerunKeepsBudget
<1>. QED  BY <1>1, <1>3, <1>4, <1>7

\* What Rerun does to the calls.
LEMMA RerunCalls ==
  ASSUME CallsOK, NEW c \in Caller, NEW ks, NEW next, NEW n, NEW r, NEW ids, NEW i,
         Rerun(c, ks, next, r, n, ids, i)
  PROVE  /\ running'[c] = r /\ todo'[c] = SubSeq(ids, i + 1, Len(ids))
         /\ \A d \in Caller \ {c} : running'[d] = running[d] /\ todo'[d] = todo[d]
         /\ nextId' = next
BY DEF Rerun, CallsOK

\* However the loop of retry() goes on, it stays within the budget.
LEMMA ProceedBudget ==
  ASSUME CallsOK, NEW c \in Caller, NEW js, NEW id, JobsOK(js, id), OthersFit(c, js, id),
         NEW n \in JobName, NEW ids \in Seq(Nat), NEW run, NEW plan,
         Waits(run, plan, c, ids), KnownIds(plan, id),
         Proceed(c, js, id, n, ids),
         NEW x \in Payload, NEW q \in Queue, NEW suc \in Nat, NEW ask \in Nat,
         Budget(js, run, plan, x, q, invoked[x], suc, ask)
  PROVE  Budget(jobs', running', todo', x, q, invoked'[x], suc, ask)
<1>1. CASE Finish(c, js, id)
  <2>1. /\ jobs' = js /\ invoked' = invoked
        /\ running'[c] = 0 /\ todo'[c] = <<>>
        /\ \A d \in Caller \ {c} : running'[d] = running[d] /\ todo'[d] = todo[d]
    BY <1>1 DEF Finish, CallsOK
  <2>2. PICK go, rest : go = running' /\ rest = todo'
    OBVIOUS
  <2>3. FewerRun(js, run, js, go, x)
    BY <2>1, <2>2 DEF FewerRun, Waits
  <2>4. FewerWaited(js, plan, js, rest)
    BY <2>1, <2>2 DEF FewerWaited, Waits
  <2>5. PICK e \in Nat : e = invoked[x]
    BY DEF CallsOK
  <2>6. \A k \in DOMAIN js : js[k].payload = x => js[k].name.queue = q
    BY DEF Budget
  <2>7. Budget(js, run, plan, x, q, e, suc, ask)
    BY <2>5
  <2>8. Budget(js, go, rest, x, q, e, suc, ask)
    BY <2>3, <2>4, <2>5, <2>6, <2>7, FewerKeepsBudget
  <2>. QED  BY <2>1, <2>2, <2>5, <2>8
<1>2. \A d \in Caller \ {c} : /\ running[d] # 0 => running[d] \in DOMAIN js
                              /\ run[d] = running[d] /\ plan[d] = todo[d]
  BY DEF OthersFit, Waits
<1>3. run[c] = 0 /\ plan \in [Caller -> Seq(Nat)] /\ plan[c] = ids
  BY DEF Waits
<1>4. ASSUME NEW i \in DOMAIN ids, Replayable(js, n, ids[i]),
             Rerun(c, Put(js, id, Published(n.queue, js[ids[i]].payload)),
                   id + 1, id, n, ids, i)
      PROVE  Budget(jobs', running', todo', x, q, invoked'[x], suc, ask)
  <2>. DEFINE ks == Put(js, id, Published(n.queue, js[ids[i]].payload))
  <2>1. id # 0 /\ id \notin DOMAIN js
    BY DEF JobsOK
  <2>2. ids[i] \in DOMAIN js /\ js[ids[i]].name.queue = n.queue
    BY <1>4 DEF Replayable
  <2>3. /\ DOMAIN ks = DOMAIN js \cup {id}
        /\ \A k \in DOMAIN js : k # id => ks[k] = js[k]
        /\ ks[id].payload = js[ids[i]].payload
        /\ ks[id].name.queue = n.queue
        /\ ks[id].attempt = 1
    BY DEF Put, Published
  <2>4. Rerun(c, ks, id + 1, id, n, ids, i)
    BY <1>4
  <2>. HIDE DEF ks
  <2>5. /\ running'[c] = id /\ todo'[c] = SubSeq(ids, i + 1, Len(ids))
        /\ \A d \in Caller \ {c} : running'[d] = running[d] /\ todo'[d] = todo[d]
    BY <2>4, RerunCalls
  <2>6. \A d \in Caller : \A j \in DOMAIN plan[d] : plan[d][j] # id
    BY DEF KnownIds, JobsOK
  <2>7. \A d \in Caller \ {c} : /\ run[d] # id
                                /\ run[d] # 0 => run[d] \in DOMAIN js
                                /\ running'[d] = run[d]
                                /\ todo'[d] = plan[d]
    BY <1>2, <2>1, <2>5
  <2>8. PICK rest : rest = SubSeq(ids, i + 1, Len(ids))
    OBVIOUS
  <2>9. ks[id].name.queue = js[ids[i]].name.queue
    BY <2>2, <2>3
  <2>10. todo'[c] = rest /\ running'[c] = id
    BY <2>5, <2>8
  <2>11. Reruns(js, run, plan, ks, running', todo', c, ids, i, id)
    BY <1>3, <2>1, <2>2, <2>3, <2>6, <2>7, <2>8, <2>9, <2>10 DEF Reruns
  <2>. QED  BY <2>4, <2>11, RerunBudget
<1>5. ASSUME NEW i \in DOMAIN ids, Replayable(js, n, ids[i]), ~n.dead,
             Rerun(c, Put(js, ids[i], Restarted(js[ids[i]])), id, ids[i], n, ids, i)
      PROVE  Budget(jobs', running', todo', x, q, invoked'[x], suc, ask)
  <2>. DEFINE r == ids[i]
              ks == Put(js, r, Restarted(js[r]))
  <2>1. /\ r # 0 /\ r \in DOMAIN js /\ js[r].state = "failed" /\ js[r] \in Job
    BY <1>5 DEF Replayable, Listed, JobsOK
  <2>2. /\ Restarted(js[r]).payload = js[r].payload
        /\ Restarted(js[r]).name = js[r].name
        /\ Restarted(js[r]).attempt = 1
    BY <2>1 DEF Restarted, Job
  <2>3. /\ DOMAIN ks = DOMAIN js \cup {r}
        /\ \A k \in DOMAIN js : k # r => ks[k] = js[k]
        /\ ks[r] = Restarted(js[r])
    BY DEF Put
  <2>4. Rerun(c, ks, id, r, n, ids, i)
    BY <1>5
  <2>. HIDE DEF ks
  <2>5. /\ running'[c] = r /\ todo'[c] = SubSeq(ids, i + 1, Len(ids))
        /\ \A d \in Caller \ {c} : running'[d] = running[d] /\ todo'[d] = todo[d]
    BY <2>4, RerunCalls
  <2>6. \A d \in Caller \ {c} : running[d] # r
    BY <2>1 DEF OthersFit
  <2>7. Reruns(js, run, plan, ks, running', todo', c, ids, i, r)
    BY <1>2, <1>3, <2>1, <2>2, <2>3, <2>5, <2>6 DEF Reruns
  <2>. QED  BY <2>4, <2>7, RerunBudget
<1>. QED  BY <1>1, <1>4, <1>5 DEF Proceed

\* The ids that are left of a request are among those it had.
LEMMA LaterIdsBelow ==
  ASSUME NEW ids \in Seq(Nat), NEW i \in DOMAIN ids, NEW id,
         \A j \in DOMAIN ids : ids[j] < id
  PROVE  \E rest \in Seq(Nat) :
           /\ rest = SubSeq(ids, i + 1, Len(ids))
           /\ \A j \in DOMAIN rest : rest[j] \in Nat /\ rest[j] < id
<1>. DEFINE rest == SubSeq(ids, i + 1, Len(ids))
<1>1. rest \in Seq(Nat)
  BY SubSeqType
<1>2. \A j \in DOMAIN rest : rest[j] < id
  OBVIOUS
<1>3. rest = SubSeq(ids, i + 1, Len(ids))
  OBVIOUS
<1>. HIDE DEF rest
<1>4. \A j \in DOMAIN rest : rest[j] \in Nat
  BY <1>1
<1>. QED  BY <1>1, <1>2, <1>3, <1>4

\* The requests that are left know ids below the next fresh one, and a call
\* that ends has none left.
LEMMA ProceedRequests ==
  ASSUME CallsOK, NEW c \in Caller, NEW js, NEW id, JobsOK(js, id),
         NEW n \in JobName, NEW ids \in Seq(Nat), NEW run, NEW plan,
         Waits(run, plan, c, ids), KnownIds(plan, id),
         Proceed(c, js, id, n, ids)
  PROVE  KnownIds(todo', nextId') /\ IdleRests(running', todo')
<1>1. /\ id \in Nat
      /\ \A j \in DOMAIN ids : ids[j] < id
      /\ \A d \in Caller \ {c} : /\ running[d] = 0 => todo[d] = <<>>
                                 /\ \A j \in DOMAIN todo[d] : todo[d][j] < id
  BY DEF Waits, KnownIds, JobsOK
<1>2. CASE Finish(c, js, id)
  <2>1. /\ nextId' = id /\ todo'[c] = <<>>
        /\ \A d \in Caller \ {c} : running'[d] = running[d] /\ todo'[d] = todo[d]
    BY <1>2 DEF Finish, CallsOK
  <2>. QED  BY <1>1, <2>1 DEF KnownIds, IdleRests
<1>3. ASSUME NEW i \in DOMAIN ids, NEW ks, NEW next \in {id, id + 1}, NEW r, r # 0,
             Rerun(c, ks, next, r, n, ids, i)
      PROVE  KnownIds(todo', nextId') /\ IdleRests(running', todo')
  <2>1. /\ running'[c] = r /\ todo'[c] = SubSeq(ids, i + 1, Len(ids))
        /\ \A d \in Caller \ {c} : running'[d] = running[d] /\ todo'[d] = todo[d]
        /\ nextId' = next
    BY <1>3, RerunCalls
  <2>2. PICK rest \in Seq(Nat) :
          /\ rest = SubSeq(ids, i + 1, Len(ids))
          /\ \A j \in DOMAIN rest : rest[j] \in Nat /\ rest[j] < id
    BY <1>1, LaterIdsBelow
  <2>3. ASSUME NEW k \in Nat, k < id PROVE k < next
    BY <1>1, <2>3
  <2>4. \A d \in Caller : \A j \in DOMAIN todo'[d] : todo'[d][j] \in Nat /\ todo'[d][j] < id
    <3>1. \A d \in Caller \ {c} : \A j \in DOMAIN todo[d] : todo[d][j] \in Nat
      BY DEF CallsOK
    <3>2. ASSUME NEW d \in Caller, NEW j \in DOMAIN todo'[d]
          PROVE  todo'[d][j] \in Nat /\ todo'[d][j] < id
      <4>1. CASE d = c
        <5>1. todo'[d] = rest
          BY <2>1, <2>2, <4>1
        <5>. QED  BY <2>2, <5>1
      <4>2. CASE d # c
        <5>1. todo'[d] = todo[d] /\ d \in Caller \ {c}
          BY <2>1, <4>2
        <5>. QED  BY <1>1, <3>1, <5>1
      <4>. QED  BY <4>1, <4>2
    <3>. QED  BY <3>2
  <2>. QED  BY <1>1, <1>3, <2>1, <2>3, <2>4 DEF KnownIds, IdleRests
<1>4. id # 0 /\ 0 \notin DOMAIN js
  BY DEF JobsOK
<1>. QED  BY <1>2, <1>3, <1>4 DEF Proceed, Replayable

\* The map js after the handler of the call c settled: the jobs of the other
\* calls are as before, and no entry is of other work than before.  The fresh
\* entry, if there is one, is the dead letter of the job.
Settled(c, js) ==
  /\ \A d \in Caller \ {c} : running[d] # 0 =>
       /\ running[d] \in DOMAIN js
       /\ js[running[d]] = jobs[running[d]]
       /\ ~jobs[running[d]].name.dead
  /\ \A k \in DOMAIN js :
       /\ k # nextId => k \in DOMAIN jobs /\ js[k].payload = jobs[k].payload
       /\ \E m \in DOMAIN jobs : /\ js[k].payload = jobs[m].payload
                                 /\ js[k].name.queue = jobs[m].name.queue

\* The map once the entry that c replayed, if any, is deleted.
After(c, js) == IF replaying[c] = 0 THEN js ELSE Delete(js, replaying[c])

LEMMA AfterFits ==
  ASSUME CallsOK, NEW c \in Caller, NEW js, NEW id, JobsOK(js, id), OthersFit(c, js, id),
         replaying[c] \in DOMAIN js => js[replaying[c]].name.dead, Settled(c, js)
  PROVE  /\ JobsOK(After(c, js), id) /\ OthersFit(c, After(c, js), id)
         /\ Settled(c, After(c, js))
<1>1. CASE replaying[c] = 0
  BY <1>1 DEF After
<1>2. CASE replaying[c] # 0
  <2>1. PICK i : i = replaying[c]
    OBVIOUS
  <2>2. i \in DOMAIN js => js[i].name.dead
    BY <2>1
  <2>3. JobsOK(Delete(js, i), id) /\ OthersFit(c, Delete(js, i), id)
    BY <2>2, DeleteKeepsFit
  <2>4. /\ DOMAIN Delete(js, i) = DOMAIN js \ {i}
        /\ \A k \in DOMAIN js : k # i => Delete(js, i)[k] = js[k]
    BY DeleteFits
  <2>5. PICK ks : ks = Delete(js, i)
    OBVIOUS
  <2>6. DOMAIN ks = DOMAIN js \ {i} /\ \A k \in DOMAIN ks : ks[k] = js[k]
    BY <2>4, <2>5
  <2>7. \A d \in Caller \ {c} : running[d] # 0 => running[d] # i
    BY <2>2 DEF Settled
  <2>8. Settled(c, ks)
    BY <2>6, <2>7 DEF Settled
  <2>. QED  BY <1>2, <2>1, <2>3, <2>5, <2>8 DEF After
<1>. QED  BY <1>1, <1>2

\* What the call has left to do is then as before, and it runs nothing.
LEMMA AfterFewer ==
  ASSUME CallsOK, NEW c \in Caller, NEW ks, Settled(c, ks),
         KnownIds(todo, nextId), IdleRests(running, todo), nextId \in Nat,
         NEW run, run = [running EXCEPT ![c] = 0], NEW x
  PROVE  /\ FewerRun(jobs, running, ks, run, x)
         /\ FewerWaited(jobs, todo, ks, todo)
         /\ Waits(run, todo, c, todo[c])
<1>1. /\ run[c] = 0
      /\ \A d \in Caller \ {c} : run[d] = running[d]
      /\ todo \in [Caller -> Seq(Nat)]
  BY DEF CallsOK
<1>2. FewerRun(jobs, running, ks, run, x)
  BY <1>1 DEF FewerRun, Settled
<1>3. \A d \in Caller : \A i \in DOMAIN todo[d] : todo[d][i] \in Nat /\ todo[d][i] # nextId
  BY <1>1 DEF KnownIds
<1>4. FewerWaited(jobs, todo, ks, todo)
  BY <1>1, <1>3 DEF FewerWaited, Settled
<1>5. Waits(run, todo, c, todo[c])
  BY <1>1 DEF Waits, IdleRests
<1>. QED  BY <1>2, <1>4, <1>5

\* So the call goes on within the budget; if its handler succeeded, that
\* success was to come.
LEMMA ResumeBudget ==
  ASSUME CallsOK, NEW c \in Caller, running[c] # 0,
         NEW js, NEW id, JobsOK(js, id), OthersFit(c, js, id),
         replaying[c] \in DOMAIN js => js[replaying[c]].name.dead, Settled(c, js),
         KnownIds(todo, nextId), IdleRests(running, todo), nextId \in Nat, nextId <= id,
         Resume(c, js, id),
         NEW x \in Payload, NEW q \in Queue, NEW suc \in Nat, NEW ask \in Nat,
         Budget(jobs, running, todo, x, q, invoked[x], suc, ask)
  PROVE  /\ KnownIds(todo', nextId') /\ IdleRests(running', todo')
         /\ Budget(jobs', running', todo', x, q, invoked'[x], suc, ask)
         /\ jobs[running[c]].payload = x =>
              Budget(jobs', running', todo', x, q, invoked'[x], suc + 1, ask)
<1>1. PICK ks : ks = After(c, js)
  OBVIOUS
<1>2. PICK run : run = [running EXCEPT ![c] = 0]
  OBVIOUS
<1>3. JobsOK(ks, id) /\ OthersFit(c, ks, id) /\ Settled(c, ks)
  BY <1>1, AfterFits
<1>4. Proceed(c, ks, id, name[c], todo[c])
  BY <1>1 DEF Resume, After
<1>5. /\ FewerRun(jobs, running, ks, run, x)
      /\ FewerWaited(jobs, todo, ks, todo)
      /\ Waits(run, todo, c, todo[c])
  BY <1>2, <1>3, AfterFewer
<1>6. PICK n \in JobName : n = name[c]
  BY DEF CallsOK
<1>7. PICK ids \in Seq(Nat) : ids = todo[c]
  BY DEF CallsOK
<1>8. KnownIds(todo, id)
  <2>1. \A d \in Caller : \A i \in DOMAIN todo[d] : todo[d][i] \in Nat
    BY DEF CallsOK
  <2>2. id \in Nat
    BY DEF JobsOK
  <2>. QED  BY <2>1, <2>2 DEF KnownIds
<1>9. Proceed(c, ks, id, n, ids) /\ Waits(run, todo, c, ids)
  BY <1>4, <1>5, <1>6, <1>7
<1>10. KnownIds(todo', nextId') /\ IdleRests(running', todo')
  BY <1>3, <1>8, <1>9, ProceedRequests
<1>11. PICK e \in Nat : e = invoked[x]
  BY DEF CallsOK
<1>12. \A k \in DOMAIN ks : ks[k].payload = x => ks[k].name.queue = q
  BY <1>3 DEF Settled, Budget
<1>13. /\ Budget(ks, run, todo, x, q, e, suc, ask)
       /\ \A d \in Execs(jobs, running, x) :
            run[d] = 0 => Budget(ks, run, todo, x, q, e, suc + 1, ask)
  <2>1. Budget(jobs, running, todo, x, q, e, suc, ask)
    BY <1>11
  <2>. QED  BY <1>5, <1>11, <1>12, <2>1, FewerKeepsBudget
<1>14. Budget(jobs', running', todo', x, q, invoked'[x], suc, ask)
  <2>1. Budget(ks, run, todo, x, q, invoked[x], suc, ask)
    BY <1>11, <1>13
  <2>. QED  BY <1>3, <1>8, <1>9, <2>1, ProceedBudget
<1>15. ASSUME jobs[running[c]].payload = x
       PROVE  Budget(jobs', running', todo', x, q, invoked'[x], suc + 1, ask)
  <2>1. c \in Execs(jobs, running, x)
    BY <1>15 DEF Execs
  <2>2. run[c] = 0
    BY <1>5 DEF Waits
  <2>3. PICK suc2 \in Nat : suc2 = suc + 1
    OBVIOUS
  <2>4. Budget(ks, run, todo, x, q, invoked[x], suc2, ask)
    BY <1>11, <1>13, <2>1, <2>2, <2>3
  <2>5. Budget(jobs', running', todo', x, q, invoked'[x], suc2, ask)
    BY <1>3, <1>8, <1>9, <2>4, ProceedBudget
  <2>. QED  BY <2>3, <2>5
<1>. QED  BY <1>10, <1>14, <1>15

\* The budget of the work x of the queue q in a state of the driver.
Budgeted(x, q) == Budget(jobs, running, todo, x, q, invoked[x], success[x], asked[x])

RequestsOK == KnownIds(todo, nextId) /\ IdleRests(running, todo)

\* The inductive invariant behind AttemptBudget and ReplayOnlyOnRequest.
BudgetInv ==
  /\ RequestsOK
  /\ \A x \in Payload \ accepted : invoked[x] = 0
  /\ \A x \in accepted : \E q \in Queue : Budgeted(x, q)

\* The map when the handler of c has settled.
LEMMA SettledMap ==
  ASSUME IInv, NEW c \in Caller, running[c] # 0,
         NEW job, job.name = jobs[running[c]].name, job.payload = jobs[running[c]].payload,
         NEW js, DOMAIN js = DOMAIN jobs, js[running[c]] = job,
         \A k \in DOMAIN jobs : k # running[c] => js[k] = jobs[k]
  PROVE  Settled(c, js)
<1>1. \A d \in Caller : running[d] # 0 =>
        running[d] \in DOMAIN jobs /\ ~jobs[running[d]].name.dead
  BY RunsNoDeadLetter
<1>2. \A d \in Caller \ {c} : running[d] # running[c]
  BY DEF IInv, ExclusiveExecution
<1>. QED  BY <1>1, <1>2 DEF Settled

\* A handler that succeeds.
LEMMA SuccessBudget ==
  ASSUME IInv, RequestsOK, NEW c \in Caller, HandlerSucceeds(c),
         NEW x \in Payload, NEW q \in Queue, Budgeted(x, q)
  PROVE  RequestsOK' /\ Budgeted(x, q)'
<1>. DEFINE r == running[c]
            w == jobs[r].payload
            job == [jobs[r] EXCEPT !.state = "completed"]
            js == [jobs EXCEPT ![r] = job]
<1>1. JobsOK(jobs, nextId) /\ CallsOK /\ HistoryOK
  BY InvariantParts
<1>2. Resume(c, js, nextId) /\ InHandler(c)
  BY DEF HandlerSucceeds
<1>3. /\ r # 0 /\ r \in DOMAIN jobs /\ jobs[r] \in Job /\ w \in Payload
      /\ replaying[c] \in DOMAIN jobs => replaying[c] # r /\ jobs[replaying[c]].name.dead
  BY <1>2, RunningJob
<1>4. /\ job \in Job /\ job.state # "active"
      /\ job.name = jobs[r].name /\ job.payload = jobs[r].payload
  BY <1>3 DEF Job, JobState
<1>5. success' = [success EXCEPT ![w] = @ + 1] /\ asked' = asked
  BY DEF HandlerSucceeds
<1>. HIDE DEF job
<1>6. JobsOK(js, nextId) /\ OthersFit(c, js, nextId)
  BY <1>3, <1>4, SettledFits
<1>7. /\ DOMAIN js = DOMAIN jobs
      /\ js[r] = job
      /\ \A k \in DOMAIN jobs : k # r => js[k] = jobs[k]
  BY <1>3
<1>. HIDE DEF js
<1>8. Settled(c, js)
  BY <1>3, <1>4, <1>7, SettledMap
<1>9. replaying[c] \in DOMAIN js => js[replaying[c]].name.dead
  BY <1>3, <1>7
<1>10. PICK suc \in Nat : suc = success[x]
  BY <1>1 DEF HistoryOK
<1>11. PICK ask \in Nat : ask = asked[x]
  BY <1>1 DEF HistoryOK
<1>12. Budget(jobs, running, todo, x, q, invoked[x], suc, ask)
  BY <1>10, <1>11 DEF Budgeted
<1>13. nextId \in Nat /\ nextId <= nextId
  BY <1>1 DEF JobsOK
<1>14. KnownIds(todo, nextId) /\ IdleRests(running, todo)
  BY DEF RequestsOK
<1>. HIDE DEF w
<1>15. /\ KnownIds(todo', nextId') /\ IdleRests(running', todo')
       /\ Budget(jobs', running', todo', x, q, invoked'[x], suc, ask)
       /\ w = x => Budget(jobs', running', todo', x, q, invoked'[x], suc + 1, ask)
  BY <1>1, <1>2, <1>3, <1>6, <1>8, <1>9, <1>12, <1>13, <1>14, ResumeBudget DEF w
<1>16. asked'[x] = ask /\ success'[x] = IF w = x THEN suc + 1 ELSE suc
  BY <1>1, <1>5, <1>10, <1>11 DEF HistoryOK
<1>. QED  BY <1>15, <1>16 DEF RequestsOK, Budgeted

\* A handler that throws on the last attempt.
LEMMA FailureBudget ==
  ASSUME IInv, RequestsOK, NEW c \in Caller, HandlerThrowsAndFails(c),
         NEW x \in Payload, NEW q \in Queue, Budgeted(x, q)
  PROVE  RequestsOK' /\ Budgeted(x, q)'
<1>. DEFINE r == running[c]
            job == [jobs[r] EXCEPT !.state = "failed"]
            letter == DeadLetter(jobs[r])
            fs == [jobs EXCEPT ![r] = job]
            js == Put(fs, nextId, letter)
<1>1. JobsOK(jobs, nextId) /\ CallsOK /\ HistoryOK
  BY InvariantParts
<1>2. Resume(c, js, nextId + 1) /\ InHandler(c)
  BY DEF HandlerThrowsAndFails
<1>3. /\ r # 0 /\ r \in DOMAIN jobs /\ jobs[r] \in Job
      /\ replaying[c] \in DOMAIN jobs => replaying[c] # r /\ jobs[replaying[c]].name.dead
  BY <1>2, RunningJob
<1>4. /\ job \in Job /\ job.state # "active"
      /\ job.name = jobs[r].name /\ job.payload = jobs[r].payload
  BY <1>3 DEF Job, JobState
<1>5. /\ letter \in Job /\ letter.state = "created" /\ letter.name.dead = TRUE
      /\ letter.payload = jobs[r].payload /\ letter.name.queue = jobs[r].name.queue
  <2>1. letter.name.queue = jobs[r].name.queue
    BY <1>3 DEF DeadLetter, Job, JobName
  <2>. QED  BY <1>3, <2>1, JobTypes
<1>6. success' = success /\ asked' = asked
  BY DEF HandlerThrowsAndFails
<1>. HIDE DEF job, letter
<1>7. JobsOK(fs, nextId) /\ OthersFit(c, fs, nextId)
  BY <1>3, <1>4, SettledFits
<1>8. /\ DOMAIN fs = DOMAIN jobs
      /\ fs[r] = job
      /\ \A k \in DOMAIN jobs : k # r => fs[k] = jobs[k]
  BY <1>3
<1>. HIDE DEF fs
<1>9. JobsOK(js, nextId + 1) /\ OthersFit(c, js, nextId + 1)
  BY <1>1, <1>5, <1>7, PutFresh, PutKeepsFit
<1>10. /\ DOMAIN js = DOMAIN jobs \cup {nextId}
       /\ js[nextId] = letter
       /\ \A k \in DOMAIN jobs : k # nextId => js[k] = fs[k]
  BY <1>8 DEF Put
<1>11. nextId \in Nat /\ nextId <= nextId + 1 /\ nextId \notin DOMAIN jobs
  BY <1>1 DEF JobsOK
<1>. HIDE DEF js
<1>12. Settled(c, js)
  <2>1. Settled(c, fs)
    BY <1>3, <1>4, <1>8, SettledMap
  <2>2. \A k \in DOMAIN js : (k \in DOMAIN fs /\ k # nextId /\ js[k] = fs[k]) \/ k = nextId
    BY <1>8, <1>10
  <2>3. \A k \in DOMAIN fs : k \in DOMAIN js /\ js[k] = fs[k]
    BY <1>8, <1>10, <1>11
  <2>. QED  BY <1>3, <1>5, <1>10, <2>1, <2>2, <2>3 DEF Settled
<1>13. replaying[c] \in DOMAIN js => js[replaying[c]].name.dead
  BY <1>3, <1>5, <1>8, <1>10
<1>14. PICK suc \in Nat : suc = success[x]
  BY <1>1 DEF HistoryOK
<1>15. PICK ask \in Nat : ask = asked[x]
  BY <1>1 DEF HistoryOK
<1>16. Budget(jobs, running, todo, x, q, invoked[x], suc, ask)
  BY <1>14, <1>15 DEF Budgeted
<1>17. KnownIds(todo, nextId) /\ IdleRests(running, todo)
  BY DEF RequestsOK
<1>18. PICK next : next = nextId + 1
  OBVIOUS
<1>19. /\ KnownIds(todo', nextId') /\ IdleRests(running', todo')
       /\ Budget(jobs', running', todo', x, q, invoked'[x], suc, ask)
  BY <1>1, <1>2, <1>3, <1>9, <1>11, <1>12, <1>13, <1>16, <1>17, <1>18, ResumeBudget
<1>. QED  BY <1>6, <1>14, <1>15, <1>19 DEF RequestsOK, Budgeted

\* The handler is called again for an attempt that was left.
LEMMA PaidAttempt ==
  ASSUME NEW q \in Queue, NEW inv \in Nat, NEW suc \in Nat, NEW ask \in Nat,
         NEW L, NEW E, NEW P, Paid(inv, suc, ask, L, E, P, q),
         NEW t \in L, NEW M, M \subseteq L \ {t}, NEW F, F \subseteq E,
         NEW R, R \subseteq P
  PROVE  Paid(inv + 1, suc, ask, M, F, R, q)
<1>1. PICK m \in Nat, a \in Nat, b \in Nat :
        m = RetryLimit[q] + 1 /\ b = 1 + ask /\ a = (1 + ask) * (RetryLimit[q] + 1)
  BY BudgetTypes
<1>2. Covered(inv, L, P, m, a) /\ Covered(suc, E, P, 1, b)
  BY <1>1 DEF Paid
<1>3. Covered(inv + 1, M, R, m, a)
  BY <1>2, CoveredSpend
<1>4. Covered(suc, F, R, 1, b)
  BY <1>2, CoveredDrop
<1>. QED  BY <1>1, <1>3, <1>4 DEF Paid

\* The attempt that follows is the first of those that were left.
LEMMA NextAttempt ==
  ASSUME NEW l \in Nat, NEW a \in Nat, a <= l
  PROVE  /\ a + 1 \in (a + 1) .. (l + 1)
         /\ \A k \in (a + 1 + 1) .. (l + 1) : k \in (a + 1) .. (l + 1) /\ k # a + 1
OBVIOUS

\* A handler that throws and is called again.
LEMMA RetriedBudget ==
  ASSUME IInv, RequestsOK, NEW c \in Caller, HandlerThrowsAndRetries(c),
         NEW x \in Payload, NEW q \in Queue, Budgeted(x, q)
  PROVE  RequestsOK' /\ Budgeted(x, q)'
<1>. DEFINE r == running[c]
            w == jobs[r].payload
            E == Execs(jobs, running, x)
            L == ExecsLeft(jobs, running, x)
            P == Planned(jobs, todo, x)
<1>1. JobsOK(jobs, nextId) /\ CallsOK /\ HistoryOK
  BY InvariantParts
<1>2. InHandler(c) /\ jobs[r].attempt <= RetryLimit[jobs[r].name.queue]
  BY DEF HandlerThrowsAndRetries
<1>3. r # 0 /\ r \in DOMAIN jobs /\ jobs[r] \in Job /\ w \in Payload
  BY <1>2, RunningJob
<1>4. PICK a \in Nat : a = jobs[r].attempt
  BY <1>3 DEF Job
<1>5. /\ UNCHANGED <<nextId, running, replaying, name, todo, accepted, success, asked>>
      /\ jobs' = [jobs EXCEPT ![r] = [jobs[r] EXCEPT !.attempt = a + 1]]
      /\ invoked' = [invoked EXCEPT ![w] = @ + 1]
  BY <1>3, <1>4 DEF HandlerThrowsAndRetries, callVars
<1>6. PICK ks : ks = jobs'
  OBVIOUS
<1>7. /\ DOMAIN ks = DOMAIN jobs
      /\ \A k \in DOMAIN jobs : ks[k].payload = jobs[k].payload /\ ks[k].name = jobs[k].name
      /\ \A k \in DOMAIN jobs : k # r => ks[k] = jobs[k]
      /\ ks[r].attempt = a + 1
  BY <1>3, <1>5, <1>6 DEF Job
<1>8. RequestsOK'
  BY <1>5 DEF RequestsOK, KnownIds, IdleRests
<1>9. \A k \in DOMAIN ks : ks[k].payload = x => ks[k].name.queue = q
  BY <1>7 DEF Budgeted, Budget
<1>10. PICK e \in Nat : e = invoked[x]
  BY <1>1 DEF CallsOK
<1>11. PICK suc \in Nat : suc = success[x]
  BY <1>1 DEF HistoryOK
<1>12. PICK ask \in Nat : ask = asked[x]
  BY <1>1 DEF HistoryOK
<1>13. Paid(e, suc, ask, L, E, P, q)
  BY <1>10, <1>11, <1>12 DEF Budgeted, Budget
<1>14. \A d \in Caller : running[d] # 0 => running[d] \in DOMAIN jobs
  BY DEF IInv, CallsKnowTheirJobs
<1>15. Execs(ks, running, x) \subseteq E
  BY <1>7, <1>14 DEF Execs
<1>16. Planned(ks, todo, x) \subseteq P
  <2>1. \A d \in Caller : Wanted(ks, todo[d], x) = Wanted(jobs, todo[d], x)
    BY <1>7 DEF Wanted
  <2>. QED  BY <2>1 DEF Planned
<1>17. \A d \in Caller : running[d] # 0 /\ d # c => running[d] # r
  BY DEF IInv, ExclusiveExecution
<1>18. PICK t : t = <<c, a + 1>>
  OBVIOUS
<1>19. ASSUME NEW p \in ExecsLeft(ks, running, x)
       PROVE  p \in L /\ (w = x => p # t)
  <2>1. PICK d \in Execs(ks, running, x) : \E k \in AttemptsLeft(ks[running[d]]) : p = <<d, k>>
    BY ExecsLeftMember
  <2>2. PICK k \in AttemptsLeft(ks[running[d]]) : p = <<d, k>>
    BY <2>1
  <2>3. d \in E
    BY <1>15
  <2>4. CASE d # c
    <3>1. ks[running[d]] = jobs[running[d]]
      BY <1>7, <1>14, <1>17, <2>4 DEF Execs
    <3>2. p \in L
      BY <2>2, <2>3, <3>1, ExecsLeftMember
    <3>. QED  BY <1>18, <2>2, <2>4, <3>2
  <2>5. CASE d = c
    <3>1. PICK l \in Nat : l = RetryLimit[jobs[r].name.queue]
      BY <1>3, JobTypes, ConstantsAssumption
    <3>2. k \in (a + 1 + 1) .. (l + 1)
      BY <1>3, <1>7, <2>2, <2>5, <3>1 DEF AttemptsLeft
    <3>3. a <= l
      BY <1>2, <1>4, <3>1
    <3>4. k \in (a + 1) .. (l + 1) /\ k # a + 1
      BY <3>2, <3>3, NextAttempt
    <3>5. k \in AttemptsLeft(jobs[running[d]])
      BY <1>4, <2>5, <3>1, <3>4 DEF AttemptsLeft
    <3>6. p \in L
      BY <2>2, <2>3, <3>5, ExecsLeftMember
    <3>. QED  BY <1>18, <2>2, <3>4, <3>6
  <2>. QED  BY <2>4, <2>5
<1>20. w = x => t \in L
  <2>1. SUFFICES ASSUME w = x PROVE t \in L
    OBVIOUS
  <2>2. c \in E
    BY <1>3, <2>1 DEF Execs
  <2>3. PICK l \in Nat : l = RetryLimit[jobs[r].name.queue]
    BY <1>3, JobTypes, ConstantsAssumption
  <2>4. a + 1 \in (a + 1) .. (l + 1)
    BY <1>2, <1>4, <2>3, NextAttempt
  <2>5. a + 1 \in AttemptsLeft(jobs[running[c]])
    BY <1>4, <2>3, <2>4 DEF AttemptsLeft
  <2>. QED  BY <1>18, <2>2, <2>5, ExecsLeftMember
<1>21. PICK M : M = ExecsLeft(ks, running, x)
  OBVIOUS
<1>22. PICK F : F = Execs(ks, running, x)
  OBVIOUS
<1>23. PICK R : R = Planned(ks, todo, x)
  OBVIOUS
<1>24. Paid(IF w = x THEN e + 1 ELSE e, suc, ask, M, F, R, q)
  <2>. HIDE DEF E, L, P, w
  <2>1. F \subseteq E /\ R \subseteq P /\ M \subseteq L
    BY <1>15, <1>16, <1>19, <1>21, <1>22, <1>23
  <2>2. CASE w = x
    <3>1. t \in L /\ M \subseteq L \ {t}
      BY <1>19, <1>20, <1>21, <2>2
    <3>2. Paid(e + 1, suc, ask, M, F, R, q)
      BY <1>13, <2>1, <3>1, PaidAttempt
    <3>. QED  BY <2>2, <3>2
  <2>3. CASE w # x
    <3>1. Paid(e, suc, ask, M, F, R, q)
      BY <1>13, <2>1, PaidDrop
    <3>. QED  BY <2>3, <3>1
  <2>. QED  BY <2>2, <2>3
<1>25. invoked'[x] = IF w = x THEN e + 1 ELSE e
  BY <1>1, <1>5, <1>10 DEF CallsOK
<1>26. Budget(ks, running, todo, x, q, invoked'[x], suc, ask)
  BY <1>9, <1>21, <1>22, <1>23, <1>24, <1>25 DEF Budget
<1>27. Budgeted(x, q)'
  BY <1>5, <1>6, <1>11, <1>12, <1>26 DEF Budgeted
<1>. QED  BY <1>8, <1>27

\* An operator asks for n more executions of the work.
LEMMA MoreAsked ==
  ASSUME NEW m \in Nat, NEW ask \in Nat, NEW n \in Nat, NEW k \in Nat, k <= n
  PROVE  /\ (1 + ask) * m + m * k <= (1 + (ask + n)) * m
         /\ 1 + ask + 1 * k <= 1 + (ask + n)
         /\ (1 + ask) * m \in Nat /\ (1 + (ask + n)) * m \in Nat
<1>1. (1 + (ask + n)) * m = (1 + ask) * m + m * n
  OBVIOUS
<1>2. m * k <= m * n /\ m * k \in Nat /\ m * n \in Nat
  BY WorthOfFewer
<1>3. (1 + ask) * m \in Nat
  OBVIOUS
<1>. QED  BY <1>1, <1>2, <1>3

LEMMA PaidAsk ==
  ASSUME NEW q \in Queue, NEW inv \in Nat, NEW suc \in Nat, NEW ask \in Nat,
         NEW L, NEW E, NEW P, Paid(inv, suc, ask, L, E, P, q),
         NEW n \in Nat, NEW C, IsFiniteSet(C), Cardinality(C) <= n,
         NEW R, R \subseteq P \cup C
  PROVE  Paid(inv, suc, ask + n, L, E, R, q)
<1>1. PICK m \in Nat : m = RetryLimit[q] + 1
  BY BudgetTypes
<1>2. PICK k \in Nat : k = Cardinality(C) /\ k <= n
  BY FS_CardinalityType
<1>3. PICK a \in Nat, b \in Nat, a2 \in Nat, b2 \in Nat :
        /\ a = (1 + ask) * m /\ b = 1 + ask
        /\ a2 = (1 + (ask + n)) * m /\ b2 = 1 + (ask + n)
        /\ a + m * k <= a2 /\ b + 1 * k <= b2
  BY <1>1, <1>2, MoreAsked
<1>4. Covered(inv, L, P, m, a) /\ Covered(suc, E, P, 1, b)
  BY <1>1, <1>3 DEF Paid
<1>5. a + m * Cardinality(C) <= a2 /\ b + 1 * Cardinality(C) <= b2
  BY <1>2, <1>3
<1>6. Covered(inv, L, R, m, a2)
  BY <1>3, <1>4, <1>5, CoveredPlan
<1>7. Covered(suc, E, R, 1, b2)
  BY <1>3, <1>4, <1>5, CoveredPlan
<1>. QED  BY <1>1, <1>3, <1>6, <1>7 DEF Paid

\* The positions of a request that name a job of x are as many as the request
\* is counted for.
LEMMA WantedCount ==
  ASSUME IInv, NEW ids \in Batch, NEW x
  PROVE  /\ IsFiniteSet(Wanted(jobs, ids, x))
         /\ Cardinality(Wanted(jobs, ids, x)) \in Nat
         /\ Cardinality({i \in DOMAIN ids : jobs[ids[i]].payload = x}) \in Nat
         /\ Cardinality(Wanted(jobs, ids, x))
              <= Cardinality({i \in DOMAIN ids : jobs[ids[i]].payload = x})
<1>1. PICK n \in Nat : n = Len(ids) /\ DOMAIN ids = 1 .. n
  BY BatchType
<1>2. PICK S : S = {i \in DOMAIN ids : jobs[ids[i]].payload = x}
  OBVIOUS
<1>3. PICK T : T = Wanted(jobs, ids, x)
  OBVIOUS
<1>4. S \subseteq 1 .. n /\ T \subseteq 1 .. n
  BY <1>1, <1>2, <1>3 DEF Wanted
<1>5. ASSUME NEW k \in T PROVE n + 1 - k \in S
  <2>1. PICK j : j = n + 1 - k
    OBVIOUS
  <2>2. k \in 1 .. n /\ jobs[ids[j]].payload = x
    BY <1>1, <1>3, <2>1 DEF Wanted
  <2>3. j \in 1 .. n
    BY <2>1, <2>2
  <2>. QED  BY <1>1, <1>2, <2>1, <2>2, <2>3
<1>6. /\ IsFiniteSet(S) /\ IsFiniteSet(T)
      /\ Cardinality(T) \in Nat /\ Cardinality(S) \in Nat
      /\ Cardinality(T) <= Cardinality(S)
  BY <1>4, <1>5, CardBackwards
<1>. QED  BY <1>2, <1>3, <1>6

\* retry() of a batch of ids.
LEMMA RetryBudget ==
  ASSUME IInv, RequestsOK, NEW c \in Caller, NEW n \in JobName, NEW ids \in Batch,
         Retry(c, n, ids),
         NEW x \in Payload, NEW q \in Queue, Budgeted(x, q)
  PROVE  RequestsOK' /\ Budgeted(x, q)'
<1>1. JobsOK(jobs, nextId) /\ CallsOK /\ HistoryOK
  BY InvariantParts
<1>2. ids \in Seq(Nat)
  BY BatchType
<1>3. running[c] = 0 /\ Proceed(c, jobs, nextId, n, ids) /\ success' = success
  BY DEF Retry
<1>4. OthersFit(c, jobs, nextId)
  <2>1. 0 \notin DOMAIN jobs
    BY <1>1 DEF JobsOK
  <2>. QED  BY <1>3, <2>1 DEF OthersFit, IInv, CallsKnowTheirJobs, ExclusiveExecution
<1>5. PICK plan : plan = [todo EXCEPT ![c] = ids]
  OBVIOUS
<1>6. /\ plan \in [Caller -> Seq(Nat)] /\ plan[c] = ids
      /\ \A d \in Caller \ {c} : plan[d] = todo[d]
  BY <1>1, <1>2, <1>5 DEF CallsOK
<1>7. Waits(running, plan, c, ids)
  BY <1>3, <1>6 DEF Waits, RequestsOK, IdleRests
<1>8. KnownIds(plan, nextId)
  <2>1. \A j \in DOMAIN ids : ids[j] < nextId
    <3>1. \A j \in DOMAIN ids : ids[j] \in DOMAIN jobs
      BY DEF Batch
    <3>. QED  BY <1>1, <3>1 DEF JobsOK
  <2>. QED  BY <1>6, <2>1 DEF RequestsOK, KnownIds
<1>9. RequestsOK'
  <2>1. KnownIds(todo', nextId') /\ IdleRests(running', todo')
    BY <1>1, <1>2, <1>3, <1>7, <1>8, ProceedRequests
  <2>. QED  BY <2>1 DEF RequestsOK
<1>10. PICK e \in Nat : e = invoked[x]
  BY <1>1 DEF CallsOK
<1>11. PICK suc \in Nat : suc = success[x]
  BY <1>1 DEF HistoryOK
<1>12. PICK ask \in Nat : ask = asked[x]
  BY <1>1 DEF HistoryOK
<1>13. PICK W : W = Wanted(jobs, ids, x)
  OBVIOUS
<1>14. PICK k \in Nat : k = Cardinality({i \in DOMAIN ids : jobs[ids[i]].payload = x})
  BY WantedCount
<1>15. IsFiniteSet(W) /\ Cardinality(W) <= k
  BY <1>13, <1>14, WantedCount
<1>16. PICK C : C = {c} \X W /\ IsFiniteSet(C) /\ Cardinality(C) <= k
  BY <1>15, CardColumn
<1>17. PICK P : P = Planned(jobs, todo, x)
  OBVIOUS
<1>18. PICK R : R = Planned(jobs, plan, x)
  OBVIOUS
<1>19. R \subseteq P \cup C
  <2>1. SUFFICES ASSUME NEW p \in R PROVE p \in P \cup C
    OBVIOUS
  <2>2. PICK d \in Caller : \E o \in Wanted(jobs, plan[d], x) : p = <<d, o>>
    BY <1>18, PlannedMember
  <2>3. PICK o \in Wanted(jobs, plan[d], x) : p = <<d, o>>
    BY <2>2
  <2>4. CASE d = c
    BY <1>6, <1>13, <1>16, <2>3, <2>4
  <2>5. CASE d # c
    <3>1. plan[d] = todo[d]
      BY <1>6, <2>5
    <3>. QED  BY <1>17, <2>3, <3>1, PlannedMember
  <2>. QED  BY <2>4, <2>5
<1>20. PICK E, L : E = Execs(jobs, running, x) /\ L = ExecsLeft(jobs, running, x)
  OBVIOUS
<1>21. Paid(e, suc, ask, L, E, P, q)
  BY <1>10, <1>11, <1>12, <1>17, <1>20 DEF Budgeted, Budget
<1>22. Paid(e, suc, ask + k, L, E, R, q)
  BY <1>16, <1>19, <1>21, PaidAsk
<1>23. PICK ask2 \in Nat : ask2 = ask + k
  OBVIOUS
<1>24. Budget(jobs, running, plan, x, q, invoked[x], suc, ask2)
  BY <1>10, <1>18, <1>20, <1>22, <1>23 DEF Budgeted, Budget
<1>25. Budget(jobs', running', todo', x, q, invoked'[x], suc, ask2)
  BY <1>1, <1>2, <1>3, <1>4, <1>7, <1>8, <1>24, ProceedBudget
<1>26. asked'[x] = ask2
  BY <1>12, <1>14, <1>23 DEF Retry
<1>27. Budgeted(x, q)'
  BY <1>3, <1>11, <1>25, <1>26 DEF Budgeted
<1>. QED  BY <1>9, <1>27

\* The first execution of the work, with all its attempts but the first one.
LEMMA PaidStart ==
  ASSUME NEW q \in Queue, NEW ask \in Nat, NEW c,
         NEW M, M \subseteq AllAttempts(c, q), <<c, 1>> \notin M
  PROVE  Paid(1, 0, ask, M, {c}, {}, q)
<1>1. PICK m \in Nat, a \in Nat, b \in Nat :
        m = RetryLimit[q] + 1 /\ b = 1 + ask /\ a = (1 + ask) * (RetryLimit[q] + 1)
  BY BudgetTypes
<1>2. PICK C : /\ C = AllAttempts(c, q)
               /\ IsFiniteSet(C) /\ Cardinality(C) = m /\ <<c, 1>> \in C
  BY <1>1, CountAllAttempts
<1>3. m <= a
  <2>1. (1 + ask) * m = m + ask * m
    OBVIOUS
  <2>2. ask * m \in Nat
    OBVIOUS
  <2>. QED  BY <1>1, <2>1, <2>2
<1>4. Covered(0, C, {}, m, a)
  BY <1>2, <1>3, CoveredStart
<1>5. M \subseteq C \ {<<c, 1>>}
  BY <1>2
<1>6. Covered(0 + 1, M, {}, m, a)
  BY <1>2, <1>4, <1>5, CoveredSpend
<1>7. IsFiniteSet({c}) /\ Cardinality({c}) = 1
  BY FS_Singleton
<1>8. Covered(0, {c}, {}, 1, b)
  BY <1>1, <1>7, CoveredStart
<1>. QED  BY <1>1, <1>6, <1>8 DEF Paid

\* publish() of the work y leaves the budget of other work as it is, and
\* starts the one of y.
LEMMA PublishBudget ==
  ASSUME IInv, WorkIsAccepted, RequestsOK,
         NEW c \in Caller, NEW p \in Queue, NEW y \in Payload, Publish(c, p, y)
  PROVE  /\ RequestsOK'
         /\ \A x \in Payload, q \in Queue : x # y /\ Budgeted(x, q) => Budgeted(x, q)'
         /\ invoked[y] = 0 => Budgeted(y, p)'
<1>1. JobsOK(jobs, nextId) /\ CallsOK /\ HistoryOK
  BY InvariantParts
<1>2. nextId \in Nat \ {0} /\ nextId \notin DOMAIN jobs
  BY <1>1 DEF JobsOK
<1>3. /\ running[c] = 0 /\ y \notin accepted
      /\ jobs' = Put(jobs, nextId, Published(p, y))
      /\ nextId' = nextId + 1
      /\ running' = [running EXCEPT ![c] = nextId]
      /\ invoked' = [invoked EXCEPT ![y] = @ + 1]
      /\ todo' = todo /\ success' = success /\ asked' = asked
  BY DEF Publish
<1>4. PICK ks : ks = jobs'
  OBVIOUS
<1>5. PICK go : go = running'
  OBVIOUS
<1>6. /\ DOMAIN ks = DOMAIN jobs \cup {nextId}
      /\ \A k \in DOMAIN jobs : ks[k] = jobs[k]
      /\ ks[nextId].payload = y /\ ks[nextId].name.queue = p /\ ks[nextId].attempt = 1
  BY <1>2, <1>3, <1>4 DEF Put, Published
<1>7. go[c] = nextId /\ \A d \in Caller \ {c} : go[d] = running[d]
  BY <1>1, <1>3, <1>5 DEF CallsOK
<1>8. \A d \in Caller : running[d] # 0 => running[d] \in DOMAIN jobs
  BY DEF IInv, CallsKnowTheirJobs
<1>9. todo \in [Caller -> Seq(Nat)]
  BY <1>1 DEF CallsOK
<1>10. RequestsOK'
  <2>1. KnownIds(todo, nextId + 1)
    <3>1. \A d \in Caller : \A i \in DOMAIN todo[d] : todo[d][i] \in Nat
      BY <1>9
    <3>. QED  BY <1>2, <3>1 DEF RequestsOK, KnownIds
  <2>2. IdleRests(running', todo)
    BY <1>2, <1>5, <1>7 DEF RequestsOK, IdleRests
  <2>. QED  BY <1>3, <2>1, <2>2 DEF RequestsOK
<1>11. \A d \in Caller : \A i \in DOMAIN todo[d] : todo[d][i] # nextId
  BY <1>2, <1>9 DEF RequestsOK, KnownIds
<1>12. ASSUME NEW x \in Payload, NEW q \in Queue, x # y, Budgeted(x, q)
       PROVE  Budgeted(x, q)'
  <2>1. PICK e \in Nat : e = invoked[x]
    BY <1>1 DEF CallsOK
  <2>2. PICK suc \in Nat : suc = success[x]
    BY <1>1 DEF HistoryOK
  <2>3. PICK ask \in Nat : ask = asked[x]
    BY <1>1 DEF HistoryOK
  <2>4. Budget(jobs, running, todo, x, q, e, suc, ask)
    BY <1>12, <2>1, <2>2, <2>3 DEF Budgeted
  <2>5. FewerRun(jobs, running, ks, go, x)
    BY <1>6, <1>7, <1>8, <1>12 DEF FewerRun
  <2>6. FewerWaited(jobs, todo, ks, todo)
    BY <1>6, <1>9, <1>11 DEF FewerWaited
  <2>7. \A k \in DOMAIN ks : ks[k].payload = x => ks[k].name.queue = q
    BY <1>6, <1>12, <2>4 DEF Budget
  <2>8. Budget(ks, go, todo, x, q, e, suc, ask)
    BY <2>1, <2>2, <2>3, <2>4, <2>5, <2>6, <2>7, FewerKeepsBudget
  <2>9. invoked'[x] = e
    BY <1>1, <1>3, <1>12, <2>1 DEF CallsOK
  <2>. QED  BY <1>3, <1>4, <1>5, <2>2, <2>3, <2>8, <2>9 DEF Budgeted
<1>13. ASSUME invoked[y] = 0
       PROVE  Budgeted(y, p)'
  <2>1. \A k \in DOMAIN jobs : jobs[k].payload # y
    BY <1>3 DEF WorkIsAccepted, Works
  <2>2. success[y] = 0
    BY <1>1, <1>3 DEF HistoryOK, WorkIsAccepted
  <2>3. PICK ask \in Nat : ask = asked[y]
    BY <1>1 DEF HistoryOK
  <2>4. invoked'[y] = 1
    BY <1>1, <1>3, <1>13 DEF CallsOK
  <2>5. \A k \in DOMAIN ks : ks[k].payload = y => ks[k].name.queue = p
    BY <1>6, <2>1
  <2>6. Execs(ks, go, y) = {c}
    BY <1>2, <1>6, <1>7, <1>8, <2>1 DEF Execs
  <2>7. Planned(ks, todo, y) = {}
    <3>1. SUFFICES ASSUME NEW t \in Planned(ks, todo, y) PROVE FALSE
      OBVIOUS
    <3>2. PICK d \in Caller : \E k \in Wanted(ks, todo[d], y) : t = <<d, k>>
      BY PlannedMember
    <3>3. PICK k \in Wanted(ks, todo[d], y) : t = <<d, k>>
      BY <3>2
    <3>4. PICK o \in Nat : o = Len(todo[d]) /\ DOMAIN todo[d] = 1 .. o
      BY <1>9
    <3>5. PICK j : j = o + 1 - k
      OBVIOUS
    <3>6. k \in 1 .. o /\ todo[d][j] \in DOMAIN ks /\ ks[todo[d][j]].payload = y
      BY <3>3, <3>4, <3>5 DEF Wanted
    <3>7. j \in DOMAIN todo[d]
      BY <3>4, <3>5, <3>6
    <3>. QED  BY <1>6, <1>11, <2>1, <3>6, <3>7
  <2>8. PICK M : M = ExecsLeft(ks, go, y)
    OBVIOUS
  <2>9. M \subseteq AllAttempts(c, p) /\ <<c, 1>> \notin M
    <3>1. ASSUME NEW t \in M PROVE t \in AllAttempts(c, p) /\ t # <<c, 1>>
      <4>1. PICK d \in Execs(ks, go, y) : \E k \in AttemptsLeft(ks[go[d]]) : t = <<d, k>>
        BY <2>8, ExecsLeftMember
      <4>2. PICK k \in AttemptsLeft(ks[go[d]]) : t = <<d, k>>
        BY <4>1
      <4>3. AttemptsLeft(ks[go[d]]) = 2 .. (RetryLimit[p] + 1) /\ d = c
        BY <1>6, <1>7, <2>6 DEF AttemptsLeft
      <4>4. k \in 1 .. (RetryLimit[p] + 1) /\ k # 1
        BY <4>2, <4>3, BudgetTypes
      <4>. QED  BY <4>2, <4>3, <4>4 DEF AllAttempts
    <3>. QED  BY <3>1
  <2>10. Paid(1, 0, ask, M, {c}, {}, p)
    BY <2>9, PaidStart
  <2>11. Budget(ks, go, todo, y, p, 1, 0, ask)
    BY <2>5, <2>6, <2>7, <2>8, <2>10 DEF Budget
  <2>. QED  BY <1>3, <1>4, <1>5, <2>2, <2>3, <2>4, <2>11 DEF Budgeted
<1>. QED  BY <1>10, <1>12, <1>13

\* A step that accepts nothing keeps every budget.
LEMMA HandlerOrRetryBudget ==
  ASSUME IInv, RequestsOK, NEW c \in Caller,
         \/ \E n \in JobName, ids \in Batch : Retry(c, n, ids)
         \/ HandlerSettles(c)
  PROVE  /\ accepted' = accepted
         /\ \A x \in Payload, q \in Queue :
              Budgeted(x, q) => RequestsOK' /\ Budgeted(x, q)'
<1>1. accepted' = accepted
  BY DEF Retry, HandlerSettles, HandlerSucceeds, HandlerThrowsAndRetries, HandlerThrowsAndFails
<1>2. ASSUME NEW x \in Payload, NEW q \in Queue, Budgeted(x, q)
      PROVE  RequestsOK' /\ Budgeted(x, q)'
  BY <1>2, RetryBudget, SuccessBudget, RetriedBudget, FailureBudget DEF HandlerSettles
<1>. QED  BY <1>1, <1>2

\* The handler is never called for work that nobody published.
LEMMA CallsOnlyAccepted ==
  ASSUME IInv, WorkIsAccepted, [Next]_vars,
         \A x \in Payload \ accepted : invoked[x] = 0
  PROVE  \A x \in Payload \ accepted' : invoked'[x] = 0
<1>1. SUFFICES ASSUME NEW x \in Payload, x \notin accepted' PROVE invoked'[x] = 0
  OBVIOUS
<1>2. IInv'
  BY StepIInv
<1>3. WorkIsAccepted' /\ accepted \subseteq accepted'
  BY StepWorkIsAccepted
<1>4. invoked[x] = 0
  BY <1>1, <1>3
<1>5. invoked \in [Payload -> Nat]
  BY DEF IInv, TypeOK
<1>6. ASSUME NEW c \in Caller, StepsOf(c)
      PROVE  invoked'[x] = 0
  <2>1. CASE running'[c] = 0
    BY <1>4, <1>6, <2>1 DEF StepsOf
  <2>2. CASE running'[c] # 0
    <3>1. running'[c] \in DOMAIN jobs'
      BY <1>2, <2>2 DEF IInv, CallsKnowTheirJobs
    <3>2. jobs'[running'[c]].payload # x
      BY <1>1, <1>3, <3>1 DEF WorkIsAccepted, Works
    <3>3. invoked' = [invoked EXCEPT ![jobs'[running'[c]].payload] = @ + 1]
      BY <1>6, <2>2 DEF StepsOf
    <3>. QED  BY <1>4, <1>5, <3>2, <3>3
  <2>. QED  BY <2>1, <2>2
<1>7. CASE Next
  BY <1>6, <1>7, StepEffect DEF Next, HandlerSettles
<1>8. CASE UNCHANGED vars
  BY <1>4, <1>8 DEF vars
<1>. QED  BY <1>7, <1>8

\* The driver starts in the budget, and every step keeps it.
LEMMA InitBudget == Init => BudgetInv
BY DEF Init, BudgetInv, RequestsOK, KnownIds, IdleRests

LEMMA StepBudget ==
  ASSUME IInv, WorkIsAccepted, BudgetInv, [Next]_vars
  PROVE  BudgetInv'
<1>1. accepted \subseteq Payload /\ RequestsOK
  BY DEF IInv, TypeOK, BudgetInv
<1>2. \A x \in Payload \ accepted' : invoked'[x] = 0
  BY CallsOnlyAccepted DEF BudgetInv
<1>3. ASSUME NEW c \in Caller, NEW p \in Queue, NEW y \in Payload, Publish(c, p, y)
      PROVE  RequestsOK' /\ \A x \in accepted' : \E q \in Queue : Budgeted(x, q)'
  <2>1. accepted' = accepted \cup {y} /\ y \notin accepted
    BY <1>3 DEF Publish
  <2>2. /\ RequestsOK'
        /\ \A x \in Payload, q \in Queue : x # y /\ Budgeted(x, q) => Budgeted(x, q)'
        /\ invoked[y] = 0 => Budgeted(y, p)'
    BY <1>1, <1>3, PublishBudget
  <2>3. invoked[y] = 0
    BY <2>1 DEF BudgetInv
  <2>. QED  BY <1>1, <2>1, <2>2, <2>3 DEF BudgetInv
<1>4. ASSUME NEW c \in Caller,
             \/ \E n \in JobName, ids \in Batch : Retry(c, n, ids)
             \/ HandlerSettles(c)
      PROVE  RequestsOK' /\ \A x \in accepted' : \E q \in Queue : Budgeted(x, q)'
  <2>1. PICK k \in DOMAIN jobs : TRUE
    BY <1>4, RunningJob DEF Retry, Replayable, HandlerSettles, HandlerSucceeds,
                            HandlerThrowsAndRetries, HandlerThrowsAndFails
  <2>2. jobs[k].payload \in accepted
    BY DEF WorkIsAccepted, Works
  <2>3. /\ accepted' = accepted
        /\ \A x \in Payload, q \in Queue :
             Budgeted(x, q) => RequestsOK' /\ Budgeted(x, q)'
    BY <1>1, <1>4, HandlerOrRetryBudget
  <2>. QED  BY <1>1, <2>2, <2>3 DEF BudgetInv
<1>5. CASE UNCHANGED vars
  BY <1>5 DEF vars, BudgetInv, RequestsOK, Budgeted
<1>. QED  BY <1>2, <1>3, <1>4, <1>5 DEF Next, HandlerSettles, BudgetInv

\* The budget bounds what was done.
LEMMA BudgetBounds ==
  ASSUME IInv, WorkIsAccepted, BudgetInv
  PROVE  AttemptBudget /\ ReplayOnlyOnRequest
<1>1. JobsOK(jobs, nextId) /\ CallsOK /\ HistoryOK
  BY InvariantParts
<1>2. ASSUME NEW x \in accepted
      PROVE  /\ \A id \in DOMAIN jobs : jobs[id].payload = x =>
                  invoked[x] <= (1 + asked[x]) * (RetryLimit[jobs[id].name.queue] + 1)
             /\ success[x] <= 1 + asked[x]
  <2>1. PICK q \in Queue : Budgeted(x, q)
    BY DEF BudgetInv
  <2>2. x \in Payload
    BY <1>1 DEF HistoryOK
  <2>3. PICK e \in Nat : e = invoked[x]
    BY <1>1, <2>2 DEF CallsOK
  <2>4. PICK suc \in Nat : suc = success[x]
    BY <1>1, <2>2 DEF HistoryOK
  <2>5. PICK ask \in Nat : ask = asked[x]
    BY <1>1, <2>2 DEF HistoryOK
  <2>6. PICK m \in Nat, a \in Nat, b \in Nat :
          m = RetryLimit[q] + 1 /\ b = 1 + ask /\ a = (1 + ask) * (RetryLimit[q] + 1)
    BY BudgetTypes
  <2>7. PICK L, E, P : /\ L = ExecsLeft(jobs, running, x)
                       /\ E = Execs(jobs, running, x)
                       /\ P = Planned(jobs, todo, x)
    OBVIOUS
  <2>8. Covered(e, L, P, m, a) /\ Covered(suc, E, P, 1, b)
    BY <2>1, <2>3, <2>4, <2>5, <2>6, <2>7 DEF Budgeted, Budget, Paid
  <2>9. e <= a /\ suc <= b
    BY <2>8, CoveredBound
  <2>10. \A id \in DOMAIN jobs : jobs[id].payload = x => jobs[id].name.queue = q
    BY <2>1 DEF Budgeted, Budget
  <2>. QED  BY <2>3, <2>4, <2>5, <2>6, <2>9, <2>10
<1>3. AttemptBudget
  BY <1>2 DEF AttemptBudget, WorkIsAccepted, Works
<1>4. \A x \in Payload : success[x] \in Nat /\ asked[x] \in Nat
  BY <1>1 DEF HistoryOK
<1>5. \A x \in Payload : x \in accepted \/ success[x] = 0
  BY <1>4 DEF WorkIsAccepted
<1>6. ReplayOnlyOnRequest
  BY <1>2, <1>4, <1>5 DEF ReplayOnlyOnRequest
<1>. QED  BY <1>3, <1>6

\* The executions of a piece of work are counted with its successes.
LEMMA ExecutionsAreBudgeted ==
  ASSUME IInv, WorkIsAccepted, BudgetInv, NEW x \in Payload, NEW S,
         S \subseteq {c \in Caller : running[c] # 0 /\ jobs[running[c]].payload = x}
  PROVE  success[x] + Cardinality(S) <= 1 + asked[x]
<1>1. JobsOK(jobs, nextId) /\ CallsOK /\ HistoryOK
  BY InvariantParts
<1>2. PICK suc \in Nat, ask \in Nat : suc = success[x] /\ ask = asked[x]
  BY <1>1 DEF HistoryOK
<1>3. S \subseteq Execs(jobs, running, x)
  BY DEF Execs
<1>4. CASE x \in accepted
  <2>1. PICK q \in Queue : Budgeted(x, q)
    BY <1>4 DEF BudgetInv
  <2>2. PICK b \in Nat : b = 1 + ask
    BY <1>2
  <2>3. PICK E, P : E = Execs(jobs, running, x) /\ P = Planned(jobs, todo, x)
    OBVIOUS
  <2>4. Covered(suc, E, P, 1, b)
    BY <1>2, <2>1, <2>2, <2>3 DEF Budgeted, Budget, Paid
  <2>5. /\ IsFiniteSet(E) /\ IsFiniteSet(P)
        /\ suc + Cardinality(E) + 1 * Cardinality(P) <= b
    BY <2>4 DEF Covered
  <2>6. /\ Cardinality(S) \in Nat /\ Cardinality(E) \in Nat
        /\ Cardinality(S) <= Cardinality(E)
    BY <1>3, <2>3, <2>5, CardPart
  <2>7. Cardinality(P) \in Nat
    BY <2>5, FS_CardinalityType
  <2>8. suc + Cardinality(S) <= b
    BY <2>2, <2>5, <2>6, <2>7
  <2>. QED  BY <1>2, <2>2, <2>8
<1>5. CASE x \notin accepted
  <2>1. suc = 0
    BY <1>1, <1>2, <1>5 DEF WorkIsAccepted, HistoryOK
  <2>2. S = {}
    BY <1>5 DEF IInv, CallsKnowTheirJobs, WorkIsAccepted, Works
  <2>3. Cardinality(S) = 0
    BY <2>2, FS_EmptySet
  <2>. QED  BY <1>2, <2>1, <2>3
<1>. QED  BY <1>4, <1>5

\* The budget is kept in every state the driver reaches.
LEMMA BudgetInvariance == Spec => [](WorkIsAccepted /\ BudgetInv)
<1>1. Init => WorkIsAccepted /\ BudgetInv
  BY InitBudget DEF Init, WorkIsAccepted, Works
<1>2. IInv /\ WorkIsAccepted /\ BudgetInv /\ [Next]_vars => WorkIsAccepted' /\ BudgetInv'
  BY StepWorkIsAccepted, StepBudget
<1>. QED  BY <1>1, <1>2, Invariance, PTL DEF Spec

-----------------------------------------------------------------------------
\* Every reachable state of InlineQueueDriver has the shape TypeOK describes:
\* job ids below the next fresh one, attempts and counts natural numbers.
THEOREM TypeCorrect == Spec => []TypeOK
<1>1. IInv => TypeOK
  BY DEF IInv
<1>. QED  BY <1>1, Invariance, PTL

\* executeInlineJob() never runs a job twice at a time, whatever retries
\* overlap, and a job is active exactly while a call runs it.
THEOREM Exclusion == Spec => []ExclusiveExecution
<1>1. IInv => ExclusiveExecution
  BY DEF IInv
<1>. QED  BY <1>1, Invariance, PTL

\* Work accepted by publish() is executed, being executed, or listed by
\* listFailed(), for every number of overlapping publications and retries.
THEOREM NothingLost == Spec => []NoSilentLoss
<1>1. IInv => NoSilentLoss
  BY DEF IInv
<1>. QED  BY <1>1, Invariance, PTL

\* Work that keeps failing is bounded: however publications, replays of the
\* dead letter queue and retries of failed jobs overlap, executeInlineJob()
\* calls the handler on a piece of work at most retryLimit + 1 times for its
\* publication and for each id of a retry request that named a job of it.
THEOREM BoundedAttempts == Spec => []AttemptBudget
<1>1. IInv /\ WorkIsAccepted /\ BudgetInv => AttemptBudget
  BY BudgetBounds
<1>. QED  BY <1>1, Invariance, BudgetInvariance, PTL

\* The handler succeeds again on a piece of work only as often as operators
\* named a job of it in retry requests, also when overlapping requests replay
\* the same dead letter entry.
THEOREM ReplaysAreAsked == Spec => []ReplayOnlyOnRequest
<1>1. IInv /\ WorkIsAccepted /\ BudgetInv => ReplayOnlyOnRequest
  BY BudgetBounds
<1>. QED  BY <1>1, Invariance, BudgetInvariance, PTL

\* The inline driver keeps the promise of QueueDriver: accepted work is pending
\* or listed until it is done, and stays done.
THEOREM Refinement == Spec => ImplementsWorkQueue
<1>1. Init => Work!Init
  BY DEF Init, Work!Init, StatusOf
<1>. QED  BY <1>1, StepOfWork, Invariance, BudgetInvariance, PTL
          DEF Spec, ImplementsWorkQueue, Work!Spec

=============================================================================
