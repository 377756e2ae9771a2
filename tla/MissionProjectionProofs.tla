----------------------- MODULE MissionProjectionProofs -----------------------
(***************************************************************************)
(* Proofs about MissionProjection, for every finite set of callers, every  *)
(* set of missions and queues and every set of faults: what the run log    *)
(* says agrees with the queue and with Notion, and requests bound the      *)
(* pages of a mission.  What a step of the queue does, and its budget, are *)
(* taken from InlineQueueProofs.                                           *)
(***************************************************************************)
EXTENDS MissionProjection, FiniteSetTheorems, TLAPS

\* The proofs of the queue, about the queue of this system.
QP == INSTANCE InlineQueueProofs WITH Payload <- Mission

-----------------------------------------------------------------------------
(* Q and QP name the same driver. *)

LEMMA SameCardinality ==
  /\ \A S : Q!Cardinality(S) = Cardinality(S)
  /\ \A S : QP!Cardinality(S) = Cardinality(S)
<1>1. \A S : Q!Cardinality(S) = Cardinality(S)
  BY DEF Q!Cardinality, Cardinality
<1>2. \A S : QP!Cardinality(S) = Cardinality(S)
  BY DEF QP!Cardinality, Cardinality
<1>. QED  BY <1>1, <1>2

LEMMA SameConstants == QP!ConstantsAssumption
BY QueueAssumption DEF QP!ConstantsAssumption, Q!ConstantsAssumption

LEMMA SameInvariant == Q!IInv <=> QP!IInv
BY DEF Q!IInv, QP!IInv, Q!TypeOK, QP!TypeOK,
       Q!DeadLettersRest, QP!DeadLettersRest,
       Q!CallsKnowTheirJobs, QP!CallsKnowTheirJobs,
       Q!ExclusiveExecution, QP!ExclusiveExecution,
       Q!NoSilentLoss, QP!NoSilentLoss, Q!Job, QP!Job,
       Q!JobName, QP!JobName, Q!JobState, QP!JobState, Q!Listed, QP!Listed

LEMMA SameInit == Q!Init <=> QP!Init
BY DEF Q!Init, QP!Init, Q!AnyName, QP!AnyName, Q!JobName, QP!JobName

LEMMA SamePublish ==
  ASSUME NEW c, NEW q, NEW x
  PROVE  Q!Publish(c, q, x) <=> QP!Publish(c, q, x)
BY DEF Q!Publish, QP!Publish, Q!Put, QP!Put, Q!Published, QP!Published

LEMMA SameReplayable ==
  ASSUME NEW js, NEW n, NEW id
  PROVE  Q!Replayable(js, n, id) <=> QP!Replayable(js, n, id)
BY DEF Q!Replayable, QP!Replayable, Q!Listed, QP!Listed

LEMMA SameProceed ==
  ASSUME NEW c, NEW js, NEW id, NEW n, NEW ids
  PROVE  Q!Proceed(c, js, id, n, ids) <=> QP!Proceed(c, js, id, n, ids)
<1>1. \A k : Q!Replayable(js, n, k) <=> QP!Replayable(js, n, k)
  BY SameReplayable
<1>2. Q!Finish(c, js, id) <=> QP!Finish(c, js, id)
  BY DEF Q!Finish, QP!Finish, Q!AnyName, QP!AnyName, Q!JobName, QP!JobName
<1>3. ASSUME NEW i
      PROVE  (IF n.dead
                THEN LET job == Q!Published(n.queue, js[ids[i]].payload)
                     IN  Q!Rerun(c, Q!Put(js, id, job), id + 1, id, n, ids, i)
                ELSE LET job == Q!Restarted(js[ids[i]])
                     IN  Q!Rerun(c, Q!Put(js, ids[i], job), id, ids[i], n, ids, i)) <=>
             (IF n.dead
                THEN LET job == QP!Published(n.queue, js[ids[i]].payload)
                     IN  QP!Rerun(c, QP!Put(js, id, job), id + 1, id, n, ids, i)
                ELSE LET job == QP!Restarted(js[ids[i]])
                     IN  QP!Rerun(c, QP!Put(js, ids[i], job), id, ids[i], n, ids, i))
  BY DEF Q!Rerun, QP!Rerun, Q!Put, QP!Put, Q!Published, QP!Published,
         Q!Restarted, QP!Restarted
<1>. QED  BY <1>1, <1>2, <1>3 DEF Q!Proceed, QP!Proceed

LEMMA SameRetry ==
  ASSUME NEW c, NEW n, NEW ids
  PROVE  Q!Retry(c, n, ids) <=> QP!Retry(c, n, ids)
<1>. DEFINE Of(x) == {i \in DOMAIN ids : jobs[ids[i]].payload = x}
            rest == /\ running[c] = 0
                    /\ nextId <= MaxJobs
                    /\ UNCHANGED <<accepted, success>>
<1>1. (\E i \in DOMAIN ids : Q!Replayable(jobs, n, ids[i]))
        <=> (\E i \in DOMAIN ids : QP!Replayable(jobs, n, ids[i]))
  BY DEF Q!Replayable, QP!Replayable, Q!Listed, QP!Listed
<1>2. Q!Proceed(c, jobs, nextId, n, ids) <=> QP!Proceed(c, jobs, nextId, n, ids)
  BY SameProceed
<1>3. Q!Retry(c, n, ids) <=>
        /\ rest
        /\ asked' = [x \in Mission |-> asked[x] + Q!Cardinality(Of(x))]
        /\ \E i \in DOMAIN ids : Q!Replayable(jobs, n, ids[i])
        /\ Q!Proceed(c, jobs, nextId, n, ids)
  BY DEF Q!Retry
<1>4. QP!Retry(c, n, ids) <=>
        /\ rest
        /\ asked' = [x \in Mission |-> asked[x] + QP!Cardinality(Of(x))]
        /\ \E i \in DOMAIN ids : QP!Replayable(jobs, n, ids[i])
        /\ QP!Proceed(c, jobs, nextId, n, ids)
  BY DEF QP!Retry
<1>. HIDE DEF Of, rest
<1>5. [x \in Mission |-> asked[x] + Q!Cardinality(Of(x))]
        = [x \in Mission |-> asked[x] + QP!Cardinality(Of(x))]
  BY SameCardinality
<1>. QED  BY <1>1, <1>2, <1>3, <1>4, <1>5

LEMMA SameResume ==
  ASSUME NEW c, NEW js, NEW id
  PROVE  Q!Resume(c, js, id) <=> QP!Resume(c, js, id)
<1>. DEFINE left == IF replaying[c] = 0 THEN js
                    ELSE [i \in DOMAIN js \ {replaying[c]} |-> js[i]]
<1>1. Q!Proceed(c, left, id, name[c], todo[c]) <=> QP!Proceed(c, left, id, name[c], todo[c])
  BY SameProceed
<1>. QED  BY <1>1 DEF Q!Resume, QP!Resume, Q!Delete, QP!Delete

LEMMA SameHandler ==
  ASSUME NEW c
  PROVE  /\ Q!HandlerSucceeds(c) <=> QP!HandlerSucceeds(c)
         /\ Q!HandlerThrowsAndRetries(c) <=> QP!HandlerThrowsAndRetries(c)
         /\ Q!HandlerThrowsAndFails(c) <=> QP!HandlerThrowsAndFails(c)
<1>. DEFINE done == [jobs EXCEPT ![running[c]].state = "completed"]
            failed == [jobs EXCEPT ![running[c]].state = "failed"]
            letter == [name |-> [jobs[running[c]].name EXCEPT !.dead = TRUE],
                       payload |-> jobs[running[c]].payload,
                       state |-> "created", attempt |-> jobs[running[c]].attempt]
            copied == [i \in DOMAIN failed \cup {nextId} |->
                         IF i = nextId THEN letter ELSE failed[i]]
<1>1. Q!InHandler(c) <=> QP!InHandler(c)
  BY DEF Q!InHandler, QP!InHandler
<1>2. Q!Resume(c, done, nextId) <=> QP!Resume(c, done, nextId)
  BY SameResume
<1>3. Q!Resume(c, copied, nextId + 1) <=> QP!Resume(c, copied, nextId + 1)
  BY SameResume
<1>4. Q!HandlerSucceeds(c) <=> QP!HandlerSucceeds(c)
  BY <1>1, <1>2 DEF Q!HandlerSucceeds, QP!HandlerSucceeds
<1>5. Q!HandlerThrowsAndRetries(c) <=> QP!HandlerThrowsAndRetries(c)
  BY <1>1 DEF Q!HandlerThrowsAndRetries, QP!HandlerThrowsAndRetries, Q!callVars, QP!callVars
<1>6. Q!HandlerThrowsAndFails(c) <=> QP!HandlerThrowsAndFails(c)
  BY <1>1, <1>3 DEF Q!HandlerThrowsAndFails, QP!HandlerThrowsAndFails,
                    Q!Put, QP!Put, Q!DeadLetter, QP!DeadLetter
<1>. QED  BY <1>4, <1>5, <1>6

-----------------------------------------------------------------------------
(* A step of the queue, as the rest of the system sees it. *)

SomePublish(c) == \E q \in Queue, x \in Mission : Q!Publish(c, q, x)
SomeRetry(c) == \E n \in Q!JobName, ids \in Q!Batch : Q!Retry(c, n, ids)
QueueStep(c) == SomePublish(c) \/ SomeRetry(c) \/ Q!HandlerSettles(c)

\* The work of the handler that a call of the queue awaits is a mission.
SubjectsAreMissions == \A c \in Caller : running[c] # 0 => Subject(c) \in Mission

LEMMA SubjectType == Q!IInv => SubjectsAreMissions
<1>. SUFFICES ASSUME Q!IInv, NEW c \in Caller, running[c] # 0
              PROVE  Subject(c) \in Mission
  BY DEF SubjectsAreMissions
<1>1. running[c] \in DOMAIN jobs
  BY DEF Q!IInv, Q!CallsKnowTheirJobs
<1>2. jobs[running[c]] \in Q!Job
  BY <1>1 DEF Q!IInv, Q!TypeOK
<1>. QED  BY <1>2 DEF Q!Job, Subject

\* Q and QP take the same steps.
LEMMA SameStep ==
  ASSUME NEW c \in Caller, QueueStep(c)
  PROVE  /\ \/ \E q \in Queue, x \in Mission : QP!Publish(c, q, x)
            \/ \E n \in QP!JobName, ids \in QP!Batch : QP!Retry(c, n, ids)
            \/ QP!HandlerSettles(c)
         /\ QP!Next
<1>1. Q!JobName = QP!JobName /\ Q!Batch = QP!Batch
  BY DEF Q!JobName, QP!JobName, Q!Batch, QP!Batch
<1>2. \/ \E q \in Queue, x \in Mission : QP!Publish(c, q, x)
      \/ \E n \in QP!JobName, ids \in QP!Batch : QP!Retry(c, n, ids)
      \/ QP!HandlerSettles(c)
  <2>1. CASE SomePublish(c)
    BY <2>1, SamePublish DEF SomePublish
  <2>2. CASE SomeRetry(c)
    BY <1>1, <2>2, SameRetry DEF SomeRetry
  <2>3. CASE Q!HandlerSettles(c)
    BY <2>3, SameHandler DEF Q!HandlerSettles, QP!HandlerSettles
  <2>. QED  BY <2>1, <2>2, <2>3 DEF QueueStep
<1>. QED  BY <1>2 DEF QP!Next, QP!HandlerSettles

\* The queue keeps its invariant, the executions of other callers go on with
\* the same mission, and the call of a handler is counted.
LEMMA StepOfTheQueue ==
  ASSUME Q!IInv, NEW c \in Caller, QueueStep(c)
  PROVE  /\ Q!IInv'
         /\ SubjectsAreMissions'
         /\ \A d \in Caller \ {c} :
              /\ running'[d] = running[d]
              /\ running[d] # 0 => jobs'[running'[d]].payload = Subject(d)
         /\ running'[c] = 0 => invoked' = invoked
         /\ running'[c] # 0 =>
              invoked' = [invoked EXCEPT ![jobs'[running'[c]].payload] = @ + 1]
<1>1. QP!IInv
  BY SameInvariant
<1>2. /\ \/ \E q \in Queue, x \in Mission : QP!Publish(c, q, x)
         \/ \E n \in QP!JobName, ids \in QP!Batch : QP!Retry(c, n, ids)
         \/ QP!HandlerSettles(c)
      /\ QP!Next
  BY SameStep
<1>3. QP!IInv'
  BY <1>1, <1>2, QP!StepIInv, SameConstants
<1>4. Q!IInv'
  <2>1. (QP!IInv)' => (Q!IInv)'
    BY SameInvariant, PTL
  <2>. QED  BY <1>3, <2>1
<1>5. SubjectsAreMissions'
  <2>1. (Q!IInv)' => SubjectsAreMissions'
    BY SubjectType, PTL
  <2>. QED  BY <1>4, <2>1
<1>6. QP!StepsOf(c)
  BY <1>1, <1>2, QP!StepEffect, SameConstants
<1>. QED  BY <1>4, <1>5, <1>6 DEF QP!StepsOf, Subject

\* Only a handler that succeeds changes the count of successes.
LEMMA StepOfSuccess ==
  ASSUME NEW c \in Caller
  PROVE  /\ SomePublish(c) \/ SomeRetry(c) => success' = success /\ running[c] = 0
         /\ Q!HandlerSucceeds(c) =>
              success' = [success EXCEPT ![Subject(c)] = @ + 1] /\ running[c] # 0
         /\ Q!HandlerThrowsAndRetries(c) \/ Q!HandlerThrowsAndFails(c) =>
              success' = success /\ running[c] # 0
BY DEF SomePublish, SomeRetry, Q!Publish, Q!Retry, Q!HandlerSucceeds, Q!InHandler,
       Q!HandlerThrowsAndRetries, Q!HandlerThrowsAndFails, Subject

\* Steps outside the queue.
LEMMA QueueIdle == Q!IInv /\ UNCHANGED queueVars => Q!IInv'
<1>. SUFFICES ASSUME Q!IInv, UNCHANGED queueVars PROVE Q!IInv'
  OBVIOUS
<1>1. QP!IInv /\ UNCHANGED QP!vars
  BY SameInvariant DEF queueVars, QP!vars
<1>2. QP!IInv'
  BY <1>1, QP!StepIInv, SameConstants
<1>3. (QP!IInv)' => (Q!IInv)'
  BY SameInvariant, PTL
<1>. QED  BY <1>2, <1>3

-----------------------------------------------------------------------------
(* CountsDifferByOne the requests that work on a mission. *)

\* Two sets of callers that differ at most in c.
LEMMA CountsDifferByOne ==
  ASSUME NEW c \in Caller, NEW S \in SUBSET Caller, NEW T \in SUBSET Caller,
         S \ {c} = T \ {c}
  PROVE  /\ Cardinality(S) \in Nat /\ Cardinality(T) \in Nat
         /\ Cardinality(T) + (IF c \in S THEN 1 ELSE 0)
              = Cardinality(S) + (IF c \in T THEN 1 ELSE 0)
<1>1. IsFiniteSet(S) /\ IsFiniteSet(T)
  BY CallersAssumption, FS_Subset
<1>2. Cardinality(S) \in Nat /\ Cardinality(T) \in Nat
  BY <1>1, FS_CardinalityType
<1>3. CASE c \in S /\ c \in T
  <2>1. S = T
    BY <1>3
  <2>. QED  BY <1>2, <1>3, <2>1
<1>4. CASE c \notin S /\ c \notin T
  <2>1. S = T
    BY <1>4
  <2>. QED  BY <1>2, <1>4, <2>1
<1>5. CASE c \notin S /\ c \in T
  <2>1. T = S \cup {c}
    BY <1>5
  <2>2. Cardinality(S \cup {c}) = Cardinality(S) + 1
    BY <1>1, <1>5, FS_AddElement
  <2>. QED  BY <1>2, <1>5, <2>1, <2>2
<1>6. CASE c \in S /\ c \notin T
  <2>1. S = T \cup {c}
    BY <1>6
  <2>2. Cardinality(T \cup {c}) = Cardinality(T) + 1
    BY <1>1, <1>6, FS_AddElement
  <2>. QED  BY <1>2, <1>6, <2>1, <2>2
<1>. QED  BY <1>3, <1>4, <1>5, <1>6

\* The calls for x whose outcome is open, and those whose success is recorded
\* in the run log only.
Open(x) == Busy(x, {"announcing", "creating", "updating"})
Closing(x) == Busy(x, {"closing"})

\* What the run log, the queue and Notion know about x.
Ledger(x) ==
  /\ runs[x]["running"] = invoked[x]
  /\ "io" \notin happened =>
       /\ runs[x]["running"] = runs[x]["succeeded"] + runs[x]["failed"] + Cardinality(Open(x))
       /\ runs[x]["succeeded"] = success[x] + Cardinality(Closing(x))
  /\ pages[x] + Cardinality(Unanswered(x)) <= invoked[x]
  /\ happened \subseteq {"refused"} => pages[x] <= success[x] + Cardinality(Answered(x))

Ledgers == \A x \in Mission : Ledger(x)

CallsHaveStages == \A c \in Caller : stage[c] \in InTheHandler <=> running[c] # 0

\* The invariant in the vocabulary of this proof.
LEMMA InvariantParts ==
  IInv <=> /\ TypeOK
           /\ Q!IInv
           /\ CallsHaveStages
           /\ Ledgers
           /\ SuccessIsReal
           /\ RequestsKnowTheirPages
BY DEF IInv, RunLogMatchesQueue, OutcomesAreRecorded, PagesAreCounted,
       CallsHaveStages, Ledgers, Ledger, Open, Closing

\* The step of one request: the others are where they were.
Undisturbed(c) ==
  \A d \in Caller \ {c} :
    /\ stage'[d] = stage[d]
    /\ answer'[d] = answer[d]
    /\ running'[d] = running[d]
    /\ running[d] # 0 => jobs'[running'[d]].payload = Subject(d)

\* The counts change by what the step does to the request c itself.
Counted(c, x) ==
  /\ Cardinality(Open(x)) \in Nat /\ Cardinality(Open(x))' \in Nat
  /\ Cardinality(Open(x))'
       + (IF stage[c] \in {"announcing", "creating", "updating"} /\ Subject(c) = x THEN 1 ELSE 0)
     = Cardinality(Open(x))
       + (IF stage'[c] \in {"announcing", "creating", "updating"} /\ Subject(c)' = x THEN 1 ELSE 0)
  /\ Cardinality(Closing(x)) \in Nat /\ Cardinality(Closing(x))' \in Nat
  /\ Cardinality(Closing(x))' + (IF stage[c] = "closing" /\ Subject(c) = x THEN 1 ELSE 0)
     = Cardinality(Closing(x)) + (IF stage'[c] = "closing" /\ Subject(c)' = x THEN 1 ELSE 0)
  /\ Cardinality(Unanswered(x)) \in Nat /\ Cardinality(Unanswered(x))' \in Nat
  /\ Cardinality(Unanswered(x))'
       + (IF /\ stage[c] = "announcing" \/ (stage[c] = "creating" /\ answer[c] = 0)
             /\ Subject(c) = x THEN 1 ELSE 0)
     = Cardinality(Unanswered(x))
       + (IF /\ stage'[c] = "announcing" \/ (stage'[c] = "creating" /\ answer'[c] = 0)
             /\ Subject(c)' = x THEN 1 ELSE 0)
  /\ Cardinality(Answered(x)) \in Nat /\ Cardinality(Answered(x))' \in Nat
  /\ Cardinality(Answered(x))'
       + (IF /\ stage[c] \in {"updating", "closing"} \/ (stage[c] = "creating" /\ answer[c] # 0)
             /\ Subject(c) = x THEN 1 ELSE 0)
     = Cardinality(Answered(x))
       + (IF /\ stage'[c] \in {"updating", "closing"} \/ (stage'[c] = "creating" /\ answer'[c] # 0)
             /\ Subject(c)' = x THEN 1 ELSE 0)

LEMMA Counts ==
  ASSUME CallsHaveStages, NEW c \in Caller, Undisturbed(c), NEW x \in Mission
  PROVE  Counted(c, x)
<1>1. \A d \in Caller \ {c} :
        /\ stage'[d] = stage[d] /\ answer'[d] = answer[d]
        /\ stage[d] \in InTheHandler => Subject(d)' = Subject(d)
  BY DEF CallsHaveStages, Undisturbed, Subject
<1>2. PICK S, T : S = Open(x) /\ T = Open(x)'
  OBVIOUS
<1>3. /\ S \in SUBSET Caller /\ T \in SUBSET Caller /\ S \ {c} = T \ {c}
      /\ c \in S <=> stage[c] \in {"announcing", "creating", "updating"} /\ Subject(c) = x
      /\ c \in T <=> stage'[c] \in {"announcing", "creating", "updating"} /\ Subject(c)' = x
  BY <1>1, <1>2 DEF Open, Busy, InTheHandler
<1>4. /\ Cardinality(S) \in Nat /\ Cardinality(T) \in Nat
      /\ Cardinality(T) + (IF c \in S THEN 1 ELSE 0)
           = Cardinality(S) + (IF c \in T THEN 1 ELSE 0)
  BY <1>3, CountsDifferByOne
<1>5. PICK S2, T2 : S2 = Closing(x) /\ T2 = Closing(x)'
  OBVIOUS
<1>6. /\ S2 \in SUBSET Caller /\ T2 \in SUBSET Caller /\ S2 \ {c} = T2 \ {c}
      /\ c \in S2 <=> stage[c] = "closing" /\ Subject(c) = x
      /\ c \in T2 <=> stage'[c] = "closing" /\ Subject(c)' = x
  BY <1>1, <1>5 DEF Closing, Busy, InTheHandler
<1>7. /\ Cardinality(S2) \in Nat /\ Cardinality(T2) \in Nat
      /\ Cardinality(T2) + (IF c \in S2 THEN 1 ELSE 0)
           = Cardinality(S2) + (IF c \in T2 THEN 1 ELSE 0)
  BY <1>6, CountsDifferByOne
<1>8. PICK S3, T3 : S3 = Unanswered(x) /\ T3 = Unanswered(x)'
  OBVIOUS
<1>9. /\ S3 \in SUBSET Caller /\ T3 \in SUBSET Caller /\ S3 \ {c} = T3 \ {c}
      /\ c \in S3 <=> /\ stage[c] = "announcing" \/ (stage[c] = "creating" /\ answer[c] = 0)
                      /\ Subject(c) = x
      /\ c \in T3 <=> /\ stage'[c] = "announcing" \/ (stage'[c] = "creating" /\ answer'[c] = 0)
                      /\ Subject(c)' = x
  BY <1>1, <1>8 DEF Unanswered, InTheHandler
<1>10. /\ Cardinality(S3) \in Nat /\ Cardinality(T3) \in Nat
       /\ Cardinality(T3) + (IF c \in S3 THEN 1 ELSE 0)
            = Cardinality(S3) + (IF c \in T3 THEN 1 ELSE 0)
  BY <1>9, CountsDifferByOne
<1>11. PICK S4, T4 : S4 = Answered(x) /\ T4 = Answered(x)'
  OBVIOUS
<1>12. /\ S4 \in SUBSET Caller /\ T4 \in SUBSET Caller /\ S4 \ {c} = T4 \ {c}
       /\ c \in S4 <=> /\ stage[c] \in {"updating", "closing"} \/ (stage[c] = "creating" /\ answer[c] # 0)
                       /\ Subject(c) = x
       /\ c \in T4 <=> /\ stage'[c] \in {"updating", "closing"} \/ (stage'[c] = "creating" /\ answer'[c] # 0)
                       /\ Subject(c)' = x
  BY <1>1, <1>11 DEF Answered, InTheHandler
<1>13. /\ Cardinality(S4) \in Nat /\ Cardinality(T4) \in Nat
       /\ Cardinality(T4) + (IF c \in S4 THEN 1 ELSE 0)
            = Cardinality(S4) + (IF c \in T4 THEN 1 ELSE 0)
  BY <1>12, CountsDifferByOne
<1>14. /\ Cardinality(Open(x)) = Cardinality(S) /\ Cardinality(Open(x))' = Cardinality(T)
       /\ Cardinality(Closing(x)) = Cardinality(S2) /\ Cardinality(Closing(x))' = Cardinality(T2)
       /\ Cardinality(Unanswered(x)) = Cardinality(S3) /\ Cardinality(Unanswered(x))' = Cardinality(T3)
       /\ Cardinality(Answered(x)) = Cardinality(S4) /\ Cardinality(Answered(x))' = Cardinality(T4)
  BY <1>2, <1>5, <1>8, <1>11
<1>. QED  BY <1>3, <1>4, <1>6, <1>7, <1>9, <1>10, <1>12, <1>13, <1>14 DEF Counted

\* A run record adds one to one count.
LEMMA RecordEffect ==
  ASSUME TypeOK, NEW c \in Caller, NEW x \in Mission, NEW s \in RunStatus,
         NEW g \in Stage, Record(c, x, s, g)
  PROVE  /\ runs' \in [Mission -> [RunStatus -> Nat]]
         /\ \A y \in Mission, t \in RunStatus :
              runs'[y][t] = IF y = x /\ t = s THEN runs[y][t] + 1 ELSE runs[y][t]
         /\ stage' \in [Caller -> Stage]
         /\ stage'[c] = g
         /\ \A d \in Caller \ {c} : stage'[d] = stage[d]
<1>1. runs \in [Mission -> [RunStatus -> Nat]] /\ stage \in [Caller -> Stage]
  BY DEF TypeOK
<1>2. runs' = [runs EXCEPT ![x] = [runs[x] EXCEPT ![s] = runs[x][s] + 1]]
  BY DEF Record
<1>3. stage' = [stage EXCEPT ![c] = g]
  BY DEF Record
<1>. QED  BY <1>1, <1>2, <1>3

-----------------------------------------------------------------------------
(* The steps of a request outside the queue. *)

\* The types behind the sums of the invariant.
LEMMA Numbers ==
  ASSUME IInv
  PROVE  /\ \A x \in Mission :
              /\ invoked[x] \in Nat /\ success[x] \in Nat /\ pages[x] \in Nat
              /\ \A s \in RunStatus : runs[x][s] \in Nat
              /\ mission[x].page \in Nat
         /\ \A c \in Caller : answer[c] \in Nat
BY DEF IInv, TypeOK, Q!TypeOK

\* The queue does nothing, and c is the only request that does something.
LEMMA OutsideTheQueue ==
  ASSUME IInv, NEW c \in Caller, UNCHANGED queueVars,
         \A d \in Caller \ {c} : stage'[d] = stage[d] /\ answer'[d] = answer[d]
  PROVE  /\ Q!IInv' /\ Q!TypeOK'
         /\ \A d \in Caller : running'[d] = running[d] /\ Subject(d)' = Subject(d)
         /\ invoked' = invoked /\ success' = success
         /\ running[c] # 0 => Subject(c) \in Mission
         /\ \A x \in Mission : Counted(c, x)
<1>1. Q!IInv'
  BY QueueIdle, InvariantParts
<1>2. /\ \A d \in Caller : running'[d] = running[d] /\ Subject(d)' = Subject(d)
      /\ invoked' = invoked /\ success' = success
  BY DEF queueVars, Subject
<1>3. Undisturbed(c)
  BY <1>2 DEF Undisturbed, Subject
<1>. QED  BY <1>1, <1>2, <1>3, Counts, SubjectType, InvariantParts DEF SubjectsAreMissions, Q!IInv

\* The invariant after a step, from its parts.
LEMMA PrimedParts ==
  TypeOK' /\ Q!IInv' /\ CallsHaveStages' /\ Ledgers' /\ SuccessIsReal' /\ RequestsKnowTheirPages'
    => IInv'
BY InvariantParts, PTL

\* A new mission is accepted in memory.
LEMMA AcceptStep ==
  ASSUME IInv, NEW c \in Caller, NEW z \in Mission, Accept(c, z)
  PROVE  IInv'
<1>1. /\ stage[c] = "idle"
      /\ mission' = [mission EXCEPT ![z].status = "accepted"]
      /\ posting' = [posting EXCEPT ![c] = {z}]
      /\ stage' = [stage EXCEPT ![c] = "accepting"]
      /\ UNCHANGED <<queueVars, pages, runs, answer, happened>>
  BY DEF Accept
<1>2. TypeOK
  BY InvariantParts
<1>3. /\ mission' \in [Mission -> [status : MissionStatus, page : Nat]]
      /\ \A x \in Mission : mission'[x].page = mission[x].page
  BY <1>1, <1>2 DEF TypeOK, MissionStatus
<1>4. /\ stage' \in [Caller -> Stage]
      /\ stage'[c] = "accepting"
      /\ \A d \in Caller \ {c} : stage'[d] = stage[d]
  BY <1>1, <1>2 DEF TypeOK, Stage
<1>5. /\ Q!IInv' /\ Q!TypeOK'
      /\ \A d \in Caller : running'[d] = running[d] /\ Subject(d)' = Subject(d)
      /\ invoked' = invoked /\ success' = success
      /\ \A x \in Mission : Counted(c, x)
  BY <1>1, <1>4, OutsideTheQueue
<1>6. TypeOK'
  BY <1>1, <1>2, <1>3, <1>4, <1>5 DEF TypeOK
<1>7. CallsHaveStages'
  BY <1>1, <1>4, <1>5, InvariantParts DEF CallsHaveStages, InTheHandler
<1>8. Ledgers'
  <2>1. ASSUME NEW x \in Mission PROVE Ledger(x)'
    <3>1. Ledger(x) /\ Counted(c, x)
      BY <1>5, InvariantParts DEF Ledgers
    <3>. QED  BY <1>1, <1>4, <1>5, <3>1 DEF Ledger, Counted
  <2>. QED  BY <2>1 DEF Ledgers
<1>9. SuccessIsReal'
  BY <1>1, <1>3, <1>5, InvariantParts DEF SuccessIsReal
<1>10. RequestsKnowTheirPages'
  <2>1. \A d \in Caller : stage[d] \in InTheHandler => Subject(d) \in Mission
    BY InvariantParts, SubjectType DEF CallsHaveStages, SubjectsAreMissions
  <2>. QED  BY <1>1, <1>3, <1>4, <1>5, <2>1, InvariantParts
            DEF RequestsKnowTheirPages, InTheHandler
<1>. QED  BY <1>5, <1>6, <1>7, <1>8, <1>9, <1>10, PrimedParts

\* Storing the mission fails, or a request is answered: a request ends.
LEMMA EndStep ==
  ASSUME IInv, NEW c \in Caller, AcceptFails(c) \/ Answer(c)
  PROVE  IInv'
<1>1. /\ stage[c] \in {"accepting", "queueing"}
      /\ posting' = [posting EXCEPT ![c] = {}]
      /\ stage' = [stage EXCEPT ![c] = "idle"]
      /\ happened \subseteq happened' /\ happened' \subseteq happened \cup Faults
      /\ UNCHANGED <<queueVars, mission, pages, runs, answer>>
  BY DEF AcceptFails, Answer, Happens
<1>2. TypeOK
  BY InvariantParts
<1>3. /\ stage' \in [Caller -> Stage]
      /\ stage'[c] = "idle"
      /\ \A d \in Caller \ {c} : stage'[d] = stage[d]
  BY <1>1, <1>2 DEF TypeOK, Stage
<1>4. /\ Q!IInv' /\ Q!TypeOK'
      /\ \A d \in Caller : running'[d] = running[d] /\ Subject(d)' = Subject(d)
      /\ invoked' = invoked /\ success' = success
      /\ \A x \in Mission : Counted(c, x)
  BY <1>1, <1>3, OutsideTheQueue
<1>5. TypeOK'
  BY <1>1, <1>2, <1>3, <1>4 DEF TypeOK
<1>6. CallsHaveStages'
  BY <1>1, <1>3, <1>4, InvariantParts DEF CallsHaveStages, InTheHandler
<1>7. Ledgers'
  <2>1. ASSUME NEW x \in Mission PROVE Ledger(x)'
    <3>1. Ledger(x) /\ Counted(c, x)
      BY <1>4, InvariantParts DEF Ledgers
    <3>. QED  BY <1>1, <1>3, <1>4, <3>1 DEF Ledger, Counted
  <2>. QED  BY <2>1 DEF Ledgers
<1>8. SuccessIsReal'
  BY <1>1, <1>4, InvariantParts DEF SuccessIsReal
<1>9. RequestsKnowTheirPages'
  BY <1>1, <1>3, <1>4, InvariantParts DEF RequestsKnowTheirPages
<1>. QED  BY <1>4, <1>5, <1>6, <1>7, <1>8, <1>9, PrimedParts

\* The record "running" is stored and the handler asks Notion for a page.
LEMMA RequestPageStep ==
  ASSUME IInv, NEW c \in Caller, RequestPage(c)
  PROVE  IInv'
<1>1. /\ stage[c] = "announcing"
      /\ stage' = [stage EXCEPT ![c] = "creating"]
      /\ UNCHANGED <<queueVars, posting, mission, pages, runs, answer, happened>>
  BY DEF RequestPage
<1>2. TypeOK
  BY InvariantParts
<1>3. /\ stage' \in [Caller -> Stage]
      /\ stage'[c] = "creating"
      /\ \A d \in Caller \ {c} : stage'[d] = stage[d]
  BY <1>1, <1>2 DEF TypeOK, Stage
<1>4. /\ Q!IInv' /\ Q!TypeOK'
      /\ \A d \in Caller : running'[d] = running[d] /\ Subject(d)' = Subject(d)
      /\ invoked' = invoked /\ success' = success
      /\ \A x \in Mission : Counted(c, x)
  BY <1>1, <1>3, OutsideTheQueue
<1>5. TypeOK'
  BY <1>1, <1>2, <1>3, <1>4 DEF TypeOK
<1>6. CallsHaveStages'
  BY <1>1, <1>3, <1>4, InvariantParts DEF CallsHaveStages, InTheHandler
<1>7. answer[c] = 0
  BY <1>1, InvariantParts DEF RequestsKnowTheirPages
<1>8. Ledgers'
  <2>1. ASSUME NEW x \in Mission PROVE Ledger(x)'
    <3>1. Ledger(x) /\ Counted(c, x)
      BY <1>4, InvariantParts DEF Ledgers
    <3>. QED  BY <1>1, <1>3, <1>4, <1>7, <3>1 DEF Ledger, Counted
  <2>. QED  BY <2>1 DEF Ledgers
<1>9. SuccessIsReal'
  BY <1>1, <1>4, InvariantParts DEF SuccessIsReal
<1>10. RequestsKnowTheirPages'
  BY <1>1, <1>3, <1>4, <1>7, InvariantParts DEF RequestsKnowTheirPages
<1>. QED  BY <1>4, <1>5, <1>6, <1>8, <1>9, <1>10, PrimedParts

\* Notion creates the page.
LEMMA NotionStep ==
  ASSUME IInv, NEW c \in Caller, NotionCreatesPage(c)
  PROVE  IInv'
<1>. DEFINE z == Subject(c)
<1>1. /\ stage[c] = "creating" /\ answer[c] = 0
      /\ pages' = [pages EXCEPT ![z] = @ + 1]
      /\ answer' = [answer EXCEPT ![c] = pages[z] + 1]
      /\ UNCHANGED <<queueVars, stage, posting, mission, runs, happened>>
  BY DEF NotionCreatesPage
<1>2. TypeOK
  BY InvariantParts
<1>3. z \in Mission
  BY <1>1, InvariantParts, SubjectType DEF CallsHaveStages, InTheHandler, SubjectsAreMissions
<1>4. /\ pages' \in [Mission -> Nat] /\ answer' \in [Caller -> Nat]
      /\ \A x \in Mission : pages'[x] = IF x = z THEN pages[x] + 1 ELSE pages[x]
      /\ answer'[c] = pages[z] + 1 /\ answer'[c] # 0
      /\ \A d \in Caller \ {c} : answer'[d] = answer[d]
  BY <1>1, <1>2, <1>3 DEF TypeOK
<1>5. /\ Q!IInv' /\ Q!TypeOK'
      /\ \A d \in Caller : running'[d] = running[d] /\ Subject(d)' = Subject(d)
      /\ invoked' = invoked /\ success' = success
      /\ \A x \in Mission : Counted(c, x)
  BY <1>1, <1>4, OutsideTheQueue
<1>6. TypeOK'
  BY <1>1, <1>2, <1>4, <1>5 DEF TypeOK
<1>7. CallsHaveStages'
  BY <1>1, <1>5, InvariantParts DEF CallsHaveStages, InTheHandler
<1>8. Ledgers'
  <2>1. ASSUME NEW x \in Mission PROVE Ledger(x)'
    <3>1. Ledger(x) /\ Counted(c, x)
      BY <1>5, InvariantParts DEF Ledgers
    <3>2. invoked[x] \in Nat /\ success[x] \in Nat /\ pages[x] \in Nat
      BY Numbers
    <3>3. pages'[x] = IF x = Subject(c) THEN pages[x] + 1 ELSE pages[x]
      BY <1>4
    <3>. QED  BY <1>1, <1>4, <1>5, <3>1, <3>2, <3>3 DEF Ledger, Counted
  <2>. QED  BY <2>1 DEF Ledgers
<1>9. SuccessIsReal'
  BY <1>1, <1>4, <1>5, Numbers, InvariantParts DEF SuccessIsReal
<1>10. RequestsKnowTheirPages'
  <2>1. \A d \in Caller : stage[d] \in InTheHandler => Subject(d) \in Mission
    BY InvariantParts, SubjectType DEF CallsHaveStages, SubjectsAreMissions
  <2>2. \A d \in Caller : /\ answer[d] # 0 => stage[d] = "creating" /\ answer[d] <= pages[Subject(d)]
                          /\ stage[d] \in {"updating", "closing"} => mission[Subject(d)].page # 0
    BY InvariantParts DEF RequestsKnowTheirPages
  <2>3. ASSUME NEW d \in Caller, answer'[d] # 0
        PROVE  stage'[d] = "creating" /\ answer'[d] <= pages'[Subject(d)]
    <3>1. CASE d = c
      BY <1>1, <1>3, <1>4, <3>1
    <3>2. CASE d # c
      BY <1>1, <1>4, <2>1, <2>2, <2>3, <3>2, Numbers DEF InTheHandler
    <3>. QED  BY <3>1, <3>2
  <2>. QED  BY <1>1, <1>5, <2>2, <2>3 DEF RequestsKnowTheirPages
<1>. QED  BY <1>5, <1>6, <1>7, <1>8, <1>9, <1>10, PrimedParts

\* The answer arrives: the mission is linked to the page.
LEMMA PageCreatedStep ==
  ASSUME IInv, NEW c \in Caller, PageCreated(c)
  PROVE  IInv'
<1>. DEFINE z == Subject(c)
<1>1. /\ stage[c] = "creating" /\ answer[c] # 0
      /\ mission' = [mission EXCEPT ![z] = [status |-> "projected", page |-> answer[c]]]
      /\ answer' = [answer EXCEPT ![c] = 0]
      /\ stage' = [stage EXCEPT ![c] = "updating"]
      /\ UNCHANGED <<queueVars, posting, pages, runs, happened>>
  BY DEF PageCreated
<1>2. TypeOK
  BY InvariantParts
<1>3. z \in Mission
  BY <1>1, InvariantParts, SubjectType DEF CallsHaveStages, InTheHandler, SubjectsAreMissions
<1>4. answer[c] <= pages[z]
  BY <1>1, InvariantParts DEF RequestsKnowTheirPages
<1>5. /\ mission' \in [Mission -> [status : MissionStatus, page : Nat]]
      /\ mission'[z].page = answer[c]
      /\ \A x \in Mission \ {z} : mission'[x] = mission[x]
      /\ answer' \in [Caller -> Nat]
      /\ answer'[c] = 0
      /\ \A d \in Caller \ {c} : answer'[d] = answer[d]
  BY <1>1, <1>2, <1>3 DEF TypeOK, MissionStatus
<1>6. /\ stage' \in [Caller -> Stage]
      /\ stage'[c] = "updating"
      /\ \A d \in Caller \ {c} : stage'[d] = stage[d]
  BY <1>1, <1>2 DEF TypeOK, Stage
<1>7. /\ Q!IInv' /\ Q!TypeOK'
      /\ \A d \in Caller : running'[d] = running[d] /\ Subject(d)' = Subject(d)
      /\ invoked' = invoked /\ success' = success
      /\ \A x \in Mission : Counted(c, x)
  BY <1>1, <1>5, <1>6, OutsideTheQueue
<1>8. TypeOK'
  BY <1>1, <1>2, <1>5, <1>6, <1>7 DEF TypeOK
<1>9. CallsHaveStages'
  BY <1>1, <1>6, <1>7, InvariantParts DEF CallsHaveStages, InTheHandler
<1>10. Ledgers'
  <2>1. ASSUME NEW x \in Mission PROVE Ledger(x)'
    <3>1. Ledger(x) /\ Counted(c, x)
      BY <1>7, InvariantParts DEF Ledgers
    <3>. QED  BY <1>1, <1>5, <1>6, <1>7, <3>1 DEF Ledger, Counted
  <2>. QED  BY <2>1 DEF Ledgers
<1>11. SuccessIsReal'
  BY <1>1, <1>4, <1>5, <1>7, Numbers, InvariantParts DEF SuccessIsReal
<1>12. RequestsKnowTheirPages'
  <2>1. \A d \in Caller : stage[d] \in InTheHandler => Subject(d) \in Mission
    BY InvariantParts, SubjectType DEF CallsHaveStages, SubjectsAreMissions
  <2>2. \A x \in Mission : mission[x].page # 0 => mission'[x].page # 0
    BY <1>1, <1>5
  <2>. QED  BY <1>1, <1>3, <1>5, <1>6, <1>7, <2>1, <2>2, InvariantParts
            DEF RequestsKnowTheirPages, InTheHandler
<1>. QED  BY <1>7, <1>8, <1>9, <1>10, <1>11, <1>12, PrimedParts

\* The link and the status are stored: the run log says "succeeded".
LEMMA LinkStoredStep ==
  ASSUME IInv, NEW c \in Caller, LinkStored(c)
  PROVE  IInv'
<1>1. /\ stage[c] = "updating" /\ Record(c, Subject(c), "succeeded", "closing")
      /\ UNCHANGED <<queueVars, posting, mission, pages, answer, happened>>
  BY DEF LinkStored
<1>2. running[c] # 0 /\ Subject(c) \in Mission
  BY <1>1, InvariantParts, SubjectType DEF CallsHaveStages, InTheHandler, SubjectsAreMissions
<1>3. /\ runs' \in [Mission -> [RunStatus -> Nat]]
      /\ \A y \in Mission, t \in RunStatus :
           runs'[y][t] = IF y = Subject(c) /\ t = "succeeded" THEN runs[y][t] + 1 ELSE runs[y][t]
      /\ stage' \in [Caller -> Stage]
      /\ stage'[c] = "closing"
      /\ \A d \in Caller \ {c} : stage'[d] = stage[d]
  BY <1>1, <1>2, RecordEffect, InvariantParts DEF RunStatus, Stage
<1>4. /\ Q!IInv' /\ Q!TypeOK'
      /\ \A d \in Caller : running'[d] = running[d] /\ Subject(d)' = Subject(d)
      /\ invoked' = invoked /\ success' = success
      /\ \A x \in Mission : Counted(c, x)
  BY <1>1, <1>3, OutsideTheQueue
<1>5. TypeOK'
  BY <1>1, <1>3, <1>4 DEF IInv, TypeOK
<1>6. CallsHaveStages'
  BY <1>1, <1>3, <1>4, InvariantParts DEF CallsHaveStages, InTheHandler
<1>7. Ledgers'
  <2>1. ASSUME NEW x \in Mission PROVE Ledger(x)'
    <3>1. Ledger(x) /\ Counted(c, x)
      BY <1>4, InvariantParts DEF Ledgers
    <3>2. /\ runs'[x]["running"] = runs[x]["running"]
          /\ runs'[x]["failed"] = runs[x]["failed"]
          /\ runs'[x]["succeeded"] = IF x = Subject(c) THEN runs[x]["succeeded"] + 1
                                                      ELSE runs[x]["succeeded"]
      BY <1>3 DEF RunStatus
    <3>3. /\ runs[x]["running"] \in Nat /\ runs[x]["failed"] \in Nat /\ runs[x]["succeeded"] \in Nat
          /\ invoked[x] \in Nat /\ success[x] \in Nat /\ pages[x] \in Nat
      BY Numbers DEF RunStatus
    <3>4. Subject(c)' = Subject(c)
      BY <1>4
    <3>5. stage[c] = "updating" /\ stage'[c] = "closing"
      BY <1>1, <1>3
    <3>6. /\ Cardinality(Open(x)) \in Nat /\ Cardinality(Open(x))' \in Nat
          /\ Cardinality(Open(x))' + (IF x = Subject(c) THEN 1 ELSE 0) = Cardinality(Open(x))
      BY <3>1, <3>5 DEF Counted
    <3>7. /\ Cardinality(Closing(x)) \in Nat /\ Cardinality(Closing(x))' \in Nat
          /\ Cardinality(Closing(x))' = Cardinality(Closing(x)) + (IF x = Subject(c) THEN 1 ELSE 0)
      BY <3>1, <3>4, <3>5 DEF Counted
    <3>8. Cardinality(Unanswered(x))' = Cardinality(Unanswered(x))
      BY <3>1, <3>5 DEF Counted
    <3>9. Cardinality(Answered(x))' = Cardinality(Answered(x))
      BY <3>1, <3>4, <3>5 DEF Counted
    <3>10. /\ invoked' = invoked /\ success' = success /\ pages' = pages /\ happened' = happened
      BY <1>1, <1>4
    <3>11. ASSUME "io" \notin happened'
           PROVE  /\ runs'[x]["running"]
                       = runs'[x]["succeeded"] + runs'[x]["failed"] + Cardinality(Open(x))'
                  /\ runs'[x]["succeeded"] = success'[x] + Cardinality(Closing(x))'
      <4>1. /\ runs[x]["running"]
                 = runs[x]["succeeded"] + runs[x]["failed"] + Cardinality(Open(x))
            /\ runs[x]["succeeded"] = success[x] + Cardinality(Closing(x))
        BY <3>1, <3>10, <3>11 DEF Ledger
      <4>. QED  BY <3>2, <3>3, <3>6, <3>7, <3>10, <4>1
    <3>12. /\ runs'[x]["running"] = invoked'[x]
           /\ pages'[x] + Cardinality(Unanswered(x))' <= invoked'[x]
           /\ happened' \subseteq {"refused"} =>
                pages'[x] <= success'[x] + Cardinality(Answered(x))'
      BY <3>1, <3>2, <3>8, <3>9, <3>10 DEF Ledger
    <3>. QED  BY <3>11, <3>12 DEF Ledger
  <2>. QED  BY <2>1 DEF Ledgers
<1>8. SuccessIsReal'
  BY <1>1, <1>3, <1>4, InvariantParts DEF SuccessIsReal, RequestsKnowTheirPages, RunStatus
<1>9. RequestsKnowTheirPages'
  BY <1>1, <1>3, <1>4, InvariantParts DEF RequestsKnowTheirPages
<1>. QED  BY <1>4, <1>5, <1>6, <1>7, <1>8, <1>9, PrimedParts

\* pages.create() rejects: the run log says "failed".
LEMMA PageFailsStep ==
  ASSUME IInv, NEW c \in Caller, PageFails(c)
  PROVE  IInv'
<1>. DEFINE z == Subject(c)
<1>1. /\ stage[c] = "creating"
      /\ happened \subseteq happened' /\ happened' \subseteq happened \cup Faults
      /\ answer[c] # 0 => "lost" \in happened'
      /\ answer' = [answer EXCEPT ![c] = 0]
      /\ Record(c, z, "failed", "reporting")
      /\ UNCHANGED <<queueVars, posting, mission, pages>>
  BY DEF PageFails, Happens
<1>2. TypeOK
  BY InvariantParts
<1>3. z \in Mission
  BY <1>1, InvariantParts, SubjectType DEF CallsHaveStages, InTheHandler, SubjectsAreMissions
<1>4. /\ runs' \in [Mission -> [RunStatus -> Nat]]
      /\ \A y \in Mission, t \in RunStatus :
           runs'[y][t] = IF y = z /\ t = "failed" THEN runs[y][t] + 1 ELSE runs[y][t]
      /\ stage' \in [Caller -> Stage]
      /\ stage'[c] = "reporting"
      /\ \A d \in Caller \ {c} : stage'[d] = stage[d]
  BY <1>1, <1>2, <1>3, RecordEffect DEF RunStatus, Stage
<1>5. /\ answer' \in [Caller -> Nat]
      /\ answer'[c] = 0
      /\ \A d \in Caller \ {c} : answer'[d] = answer[d]
  BY <1>1, <1>2 DEF TypeOK
<1>6. /\ Q!IInv' /\ Q!TypeOK'
      /\ \A d \in Caller : running'[d] = running[d] /\ Subject(d)' = Subject(d)
      /\ invoked' = invoked /\ success' = success
      /\ \A x \in Mission : Counted(c, x)
  BY <1>1, <1>4, <1>5, OutsideTheQueue
<1>7. TypeOK'
  BY <1>1, <1>2, <1>4, <1>5, <1>6 DEF TypeOK
<1>8. CallsHaveStages'
  BY <1>1, <1>4, <1>6, InvariantParts DEF CallsHaveStages, InTheHandler
<1>9. Ledgers'
  <2>1. ASSUME NEW x \in Mission PROVE Ledger(x)'
    <3>1. Ledger(x) /\ Counted(c, x)
      BY <1>6, InvariantParts DEF Ledgers
    <3>2. /\ runs'[x]["running"] = runs[x]["running"]
          /\ runs'[x]["succeeded"] = runs[x]["succeeded"]
          /\ runs'[x]["failed"] = IF x = Subject(c) THEN runs[x]["failed"] + 1
                                                  ELSE runs[x]["failed"]
      BY <1>4 DEF RunStatus
    <3>3. /\ \A s \in {"running", "failed", "succeeded"} : runs[x][s] \in Nat
          /\ invoked[x] \in Nat /\ success[x] \in Nat /\ pages[x] \in Nat
      BY Numbers DEF RunStatus
    <3>4. /\ happened' \subseteq {"refused"} => happened \subseteq {"refused"} /\ answer[c] = 0
          /\ "io" \notin happened' => "io" \notin happened
      BY <1>1
    <3>5. /\ runs'[x]["running"] = invoked'[x]
          /\ "io" \notin happened' =>
               /\ runs'[x]["running"]
                    = runs'[x]["succeeded"] + runs'[x]["failed"] + Cardinality(Open(x))'
               /\ runs'[x]["succeeded"] = success'[x] + Cardinality(Closing(x))'
      <4>1. /\ Cardinality(Open(x)) \in Nat /\ Cardinality(Open(x))' \in Nat
            /\ Cardinality(Closing(x))' = Cardinality(Closing(x))
        BY <1>1, <1>4, <3>1 DEF Counted
      <4>2. Cardinality(Open(x))' = IF x = Subject(c) THEN Cardinality(Open(x)) - 1
                                                      ELSE Cardinality(Open(x))
        BY <1>1, <1>4, <3>1 DEF Counted
      <4>3. /\ runs[x]["running"] = invoked[x]
            /\ "io" \notin happened' =>
                 /\ runs[x]["running"]
                      = runs[x]["succeeded"] + runs[x]["failed"] + Cardinality(Open(x))
                 /\ runs[x]["succeeded"] = success[x] + Cardinality(Closing(x))
        BY <3>1, <3>4 DEF Ledger
      <4>. QED  BY <1>6, <3>2, <3>3, <4>1, <4>2, <4>3
    <3>6. pages'[x] + Cardinality(Unanswered(x))' <= invoked'[x]
      <4>1. Cardinality(Unanswered(x))' <= Cardinality(Unanswered(x))
        BY <1>4, <3>1 DEF Counted
      <4>2. Cardinality(Unanswered(x)) \in Nat /\ Cardinality(Unanswered(x))' \in Nat
        BY <3>1 DEF Counted
      <4>3. pages[x] + Cardinality(Unanswered(x)) <= invoked[x]
        BY <3>1 DEF Ledger
      <4>. QED  BY <1>1, <1>6, <3>3, <4>1, <4>2, <4>3
    <3>7. ASSUME happened' \subseteq {"refused"}
          PROVE  pages'[x] <= success'[x] + Cardinality(Answered(x))'
      <4>1. answer[c] = 0 /\ pages[x] <= success[x] + Cardinality(Answered(x))
        BY <3>1, <3>4, <3>7 DEF Ledger
      <4>2. Cardinality(Answered(x))' = Cardinality(Answered(x))
        BY <1>1, <1>4, <3>1, <4>1 DEF Counted
      <4>. QED  BY <1>1, <1>6, <4>1, <4>2
    <3>. QED  BY <3>5, <3>6, <3>7 DEF Ledger
  <2>. QED  BY <2>1 DEF Ledgers
<1>10. SuccessIsReal'
  BY <1>1, <1>4, <1>6, InvariantParts DEF SuccessIsReal, RunStatus
<1>11. RequestsKnowTheirPages'
  BY <1>1, <1>4, <1>5, <1>6, InvariantParts DEF RequestsKnowTheirPages
<1>. QED  BY <1>6, <1>7, <1>8, <1>9, <1>10, <1>11, PrimedParts

\* A store fails after the page was created: the run log says "failed".
LEMMA StoreFailsStep ==
  ASSUME IInv, NEW c \in Caller, StoreFails(c)
  PROVE  IInv'
<1>. DEFINE z == Subject(c)
<1>1. /\ stage[c] \in {"updating", "closing"}
      /\ happened \subseteq happened' /\ happened' \subseteq happened \cup Faults
      /\ "io" \in happened'
      /\ Record(c, z, "failed", "reporting")
      /\ UNCHANGED <<queueVars, posting, mission, pages, answer>>
  BY DEF StoreFails, Happens
<1>2. TypeOK
  BY InvariantParts
<1>3. z \in Mission
  BY <1>1, InvariantParts, SubjectType DEF CallsHaveStages, InTheHandler, SubjectsAreMissions
<1>4. /\ runs' \in [Mission -> [RunStatus -> Nat]]
      /\ \A y \in Mission, t \in RunStatus :
           runs'[y][t] = IF y = z /\ t = "failed" THEN runs[y][t] + 1 ELSE runs[y][t]
      /\ stage' \in [Caller -> Stage]
      /\ stage'[c] = "reporting"
      /\ \A d \in Caller \ {c} : stage'[d] = stage[d]
  BY <1>1, <1>2, <1>3, RecordEffect DEF RunStatus, Stage
<1>5. /\ Q!IInv' /\ Q!TypeOK'
      /\ \A d \in Caller : running'[d] = running[d] /\ Subject(d)' = Subject(d)
      /\ invoked' = invoked /\ success' = success
      /\ \A x \in Mission : Counted(c, x)
  BY <1>1, <1>4, OutsideTheQueue
<1>6. TypeOK'
  BY <1>1, <1>2, <1>4, <1>5 DEF TypeOK
<1>7. CallsHaveStages'
  BY <1>1, <1>4, <1>5, InvariantParts DEF CallsHaveStages, InTheHandler
<1>8. Ledgers'
  <2>1. ASSUME NEW x \in Mission PROVE Ledger(x)'
    <3>1. Ledger(x) /\ Counted(c, x)
      BY <1>5, InvariantParts DEF Ledgers
    <3>2. runs'[x]["running"] = runs[x]["running"]
      BY <1>4 DEF RunStatus
    <3>3. invoked[x] \in Nat /\ success[x] \in Nat /\ pages[x] \in Nat
      BY Numbers
    <3>. QED  BY <1>1, <1>4, <1>5, <3>1, <3>2, <3>3 DEF Ledger, Counted
  <2>. QED  BY <2>1 DEF Ledgers
<1>9. SuccessIsReal'
  BY <1>1, <1>4, <1>5, InvariantParts DEF SuccessIsReal, RunStatus
<1>10. RequestsKnowTheirPages'
  BY <1>1, <1>4, <1>5, InvariantParts DEF RequestsKnowTheirPages
<1>. QED  BY <1>5, <1>6, <1>7, <1>8, <1>9, <1>10, PrimedParts

\* No request does anything: the bootstrap of a flow sets the status of a
\* mission at most.
LEMMA NoRequestStep ==
  ASSUME IInv, UNCHANGED <<queueVars, stage, posting, pages, runs, answer, happened>>,
         \/ UNCHANGED mission
         \/ \E z \in Mission : mission' = [mission EXCEPT ![z].status = "in_execution"]
  PROVE  IInv'
<1>1. TypeOK
  BY InvariantParts
<1>2. /\ mission' \in [Mission -> [status : MissionStatus, page : Nat]]
      /\ \A x \in Mission : mission'[x].page = mission[x].page
  <2>1. ASSUME NEW z \in Mission, mission' = [mission EXCEPT ![z].status = "in_execution"]
        PROVE  /\ mission' \in [Mission -> [status : MissionStatus, page : Nat]]
               /\ \A x \in Mission : mission'[x].page = mission[x].page
    BY <1>1, <2>1 DEF TypeOK, MissionStatus
  <2>. QED  BY <1>1, <2>1 DEF TypeOK
<1>3. Q!IInv' /\ Q!TypeOK'
  <2>1. Q!IInv'
    BY QueueIdle, InvariantParts
  <2>. QED  BY <2>1 DEF Q!IInv
<1>4. running' = running /\ invoked' = invoked /\ success' = success /\ jobs' = jobs
  BY DEF queueVars
<1>5. TypeOK'
  BY <1>1, <1>2, <1>3 DEF TypeOK
<1>6. CallsHaveStages'
  BY <1>4, InvariantParts DEF CallsHaveStages
<1>7. Ledgers'
  <2>1. ASSUME NEW x \in Mission PROVE Ledger(x)'
    <3>1. /\ Open(x)' = Open(x) /\ Closing(x)' = Closing(x)
          /\ Unanswered(x)' = Unanswered(x) /\ Answered(x)' = Answered(x)
      BY <1>4 DEF Open, Closing, Busy, Unanswered, Answered, Subject
    <3>2. Ledger(x)
      BY InvariantParts DEF Ledgers
    <3>. QED  BY <1>4, <3>1, <3>2 DEF Ledger
  <2>. QED  BY <2>1 DEF Ledgers
<1>8. SuccessIsReal'
  BY <1>2, <1>4, InvariantParts DEF SuccessIsReal
<1>9. RequestsKnowTheirPages'
  <2>1. \A d \in Caller : stage[d] \in InTheHandler => Subject(d) \in Mission
    BY InvariantParts, SubjectType DEF CallsHaveStages, SubjectsAreMissions
  <2>. QED  BY <1>2, <1>4, <2>1, InvariantParts DEF RequestsKnowTheirPages, InTheHandler, Subject
<1>. QED  BY <1>3, <1>5, <1>6, <1>7, <1>8, <1>9, PrimedParts

-----------------------------------------------------------------------------
(* The steps of a request in which the queue goes on. *)

\* What a request is at when the queue goes on: it publishes or retries, its
\* handler failed before its page or has recorded a failure, or it succeeded.
Turn(c) ==
  \/ stage[c] \in {"idle", "accepting", "reporting"} /\ success' = success
  \/ stage[c] = "announcing" /\ success' = success /\ "io" \in happened'
  \/ /\ stage[c] = "closing"
     /\ success' = [success EXCEPT ![Subject(c)] = @ + 1]

LEMMA ContinueStep ==
  ASSUME IInv, NEW c \in Caller, QueueStep(c), Continue(c), Turn(c),
         UNCHANGED <<posting, mission, pages, answer>>,
         happened \subseteq happened', happened' \subseteq happened \cup Faults
  PROVE  IInv'
<1>1. TypeOK /\ CallsHaveStages /\ Q!IInv
  BY InvariantParts
<1>2. /\ Q!IInv'
      /\ SubjectsAreMissions'
      /\ \A d \in Caller \ {c} :
           /\ running'[d] = running[d]
           /\ running[d] # 0 => jobs'[running'[d]].payload = Subject(d)
      /\ running'[c] = 0 => invoked' = invoked
      /\ running'[c] # 0 => invoked' = [invoked EXCEPT ![jobs'[running'[c]].payload] = @ + 1]
  BY <1>1, StepOfTheQueue
<1>3. Q!TypeOK'
  BY <1>2 DEF Q!IInv
<1>4. answer[c] = 0
  BY InvariantParts DEF Turn, RequestsKnowTheirPages
<1>5. stage[c] = "closing" => Subject(c) \in Mission /\ mission[Subject(c)].page # 0
  BY <1>1, InvariantParts, SubjectType
  DEF CallsHaveStages, InTheHandler, SubjectsAreMissions, RequestsKnowTheirPages
<1>6. /\ runs' \in [Mission -> [RunStatus -> Nat]]
      /\ \A x \in Mission :
           /\ runs'[x]["succeeded"] = runs[x]["succeeded"]
           /\ runs'[x]["failed"] = runs[x]["failed"]
           /\ runs'[x]["running"] = IF running'[c] # 0 /\ x = Subject(c)'
                                      THEN runs[x]["running"] + 1 ELSE runs[x]["running"]
      /\ stage' \in [Caller -> Stage]
      /\ IF running'[c] # 0 THEN stage'[c] = "announcing" ELSE stage'[c] \in {"queueing", "idle"}
      /\ \A d \in Caller \ {c} : stage'[d] = stage[d]
  <2>1. CASE running'[c] # 0
    <3>1. PICK y \in Mission : y = jobs'[running'[c]].payload
      BY <1>2, <2>1 DEF SubjectsAreMissions, Subject
    <3>2. Record(c, y, "running", "announcing")
      BY <2>1, <3>1 DEF Continue
    <3>3. /\ runs' \in [Mission -> [RunStatus -> Nat]]
          /\ \A x \in Mission, t \in RunStatus :
               runs'[x][t] = IF x = y /\ t = "running" THEN runs[x][t] + 1 ELSE runs[x][t]
          /\ stage' \in [Caller -> Stage]
          /\ stage'[c] = "announcing"
          /\ \A d \in Caller \ {c} : stage'[d] = stage[d]
      BY <1>1, <3>2, RecordEffect DEF RunStatus, Stage
    <3>. QED  BY <2>1, <3>1, <3>3 DEF Subject, RunStatus
  <2>2. ASSUME running'[c] = 0, NEW y \in posting[c], Record(c, y, "queued", "queueing")
        PROVE  /\ runs' \in [Mission -> [RunStatus -> Nat]]
               /\ \A x \in Mission, t \in RunStatus :
                    runs'[x][t] = IF x = y /\ t = "queued" THEN runs[x][t] + 1 ELSE runs[x][t]
               /\ stage' \in [Caller -> Stage]
               /\ stage'[c] = "queueing"
               /\ \A d \in Caller \ {c} : stage'[d] = stage[d]
    <3>1. y \in Mission
      BY <1>1 DEF TypeOK
    <3>. QED  BY <1>1, <2>2, <3>1, RecordEffect DEF RunStatus, Stage
  <2>3. CASE running'[c] = 0 /\ stage' = [stage EXCEPT ![c] = "idle"] /\ UNCHANGED runs
    BY <1>1, <2>3 DEF TypeOK, Stage
  <2>. QED  BY <2>1, <2>2, <2>3 DEF Continue, RunStatus
<1>7. TypeOK'
  BY <1>1, <1>3, <1>6 DEF TypeOK
<1>8. CallsHaveStages'
  BY <1>1, <1>2, <1>6 DEF CallsHaveStages, InTheHandler
<1>9. \A x \in Mission : Counted(c, x)
  <2>1. Undisturbed(c)
    BY <1>2, <1>6 DEF Undisturbed
  <2>. QED  BY <1>1, <2>1, Counts
<1>10. \A x \in Mission :
         /\ invoked'[x] = IF running'[c] # 0 /\ x = Subject(c)' THEN invoked[x] + 1 ELSE invoked[x]
         /\ success'[x] = IF stage[c] = "closing" /\ x = Subject(c) THEN success[x] + 1 ELSE success[x]
  <2>1. invoked \in [Mission -> Nat] /\ success \in [Mission -> Nat]
    BY <1>1 DEF Q!IInv, Q!TypeOK
  <2>2. ASSUME NEW x \in Mission
        PROVE  invoked'[x] = IF running'[c] # 0 /\ x = Subject(c)' THEN invoked[x] + 1 ELSE invoked[x]
    <3>1. PICK y : y = jobs'[running'[c]].payload
      OBVIOUS
    <3>2. Subject(c)' = y /\ (running'[c] # 0 => invoked' = [invoked EXCEPT ![y] = @ + 1])
      BY <1>2, <3>1 DEF Subject
    <3>. QED  BY <1>2, <2>1, <3>2
  <2>3. ASSUME NEW x \in Mission
        PROVE  success'[x] = IF stage[c] = "closing" /\ x = Subject(c) THEN success[x] + 1 ELSE success[x]
    <3>1. PICK y : y = Subject(c)
      OBVIOUS
    <3>2. stage[c] = "closing" => success' = [success EXCEPT ![y] = @ + 1]
      BY <3>1 DEF Turn
    <3>3. stage[c] # "closing" => success' = success
      BY DEF Turn
    <3>. QED  BY <2>1, <3>1, <3>2, <3>3
  <2>. QED  BY <2>2, <2>3
<1>11. Ledgers'
  <2>1. ASSUME NEW x \in Mission PROVE Ledger(x)'
    <3>1. Ledger(x) /\ Counted(c, x)
      BY <1>9, InvariantParts DEF Ledgers
    <3>2. /\ \A s \in {"running", "failed", "succeeded"} : runs[x][s] \in Nat
          /\ invoked[x] \in Nat /\ success[x] \in Nat /\ pages[x] \in Nat
      BY Numbers DEF RunStatus
    <3>3. /\ runs'[x]["succeeded"] = runs[x]["succeeded"]
          /\ runs'[x]["failed"] = runs[x]["failed"]
          /\ runs'[x]["running"] = IF running'[c] # 0 /\ x = Subject(c)'
                                     THEN runs[x]["running"] + 1 ELSE runs[x]["running"]
      BY <1>6
    <3>4. /\ invoked'[x] = IF running'[c] # 0 /\ x = Subject(c)' THEN invoked[x] + 1 ELSE invoked[x]
          /\ success'[x] = IF stage[c] = "closing" /\ x = Subject(c) THEN success[x] + 1 ELSE success[x]
      BY <1>10
    <3>5. /\ happened' \subseteq {"refused"} => happened \subseteq {"refused"}
          /\ "io" \notin happened' => "io" \notin happened /\ stage[c] # "announcing"
          /\ stage[c] \in {"idle", "accepting", "reporting", "announcing", "closing"}
      BY DEF Turn
    <3>6. /\ runs'[x]["running"] = invoked'[x]
          /\ "io" \notin happened' =>
               runs'[x]["running"]
                 = runs'[x]["succeeded"] + runs'[x]["failed"] + Cardinality(Open(x))'
      <4>1. runs[x]["running"] = invoked[x] /\ runs'[x]["running"] = invoked'[x]
        BY <3>1, <3>3, <3>4 DEF Ledger
      <4>2. /\ Cardinality(Open(x)) \in Nat /\ Cardinality(Open(x))' \in Nat
            /\ "io" \notin happened' =>
                 Cardinality(Open(x))' = IF running'[c] # 0 /\ x = Subject(c)'
                                           THEN Cardinality(Open(x)) + 1 ELSE Cardinality(Open(x))
        BY <1>6, <3>1, <3>5 DEF Counted
      <4>3. "io" \notin happened' =>
              runs[x]["running"] = runs[x]["succeeded"] + runs[x]["failed"] + Cardinality(Open(x))
        BY <3>1, <3>5 DEF Ledger
      <4>4. /\ runs[x]["running"] \in Nat /\ runs[x]["succeeded"] \in Nat
            /\ runs[x]["failed"] \in Nat
        BY <3>2
      <4>. QED  BY <3>3, <4>1, <4>2, <4>3, <4>4
    <3>7. "io" \notin happened' => runs'[x]["succeeded"] = success'[x] + Cardinality(Closing(x))'
      <4>1. Cardinality(Closing(x)) - Cardinality(Closing(x))' = success'[x] - success[x]
        BY <1>6, <3>1, <3>2, <3>4, <3>5 DEF Counted
      <4>2. Cardinality(Closing(x)) \in Nat /\ Cardinality(Closing(x))' \in Nat
        BY <3>1 DEF Counted
      <4>3. "io" \notin happened' => runs[x]["succeeded"] = success[x] + Cardinality(Closing(x))
        BY <3>1, <3>5 DEF Ledger
      <4>4. runs[x]["succeeded"] \in Nat /\ runs'[x]["succeeded"] = runs[x]["succeeded"]
        BY <3>2, <3>3
      <4>5. success[x] \in Nat /\ success'[x] \in Nat
        BY <3>2, <3>4
      <4>. QED  BY <4>1, <4>2, <4>3, <4>4, <4>5
    <3>8. pages'[x] + Cardinality(Unanswered(x))' <= invoked'[x]
      <4>1. Cardinality(Unanswered(x))' - Cardinality(Unanswered(x)) <= invoked'[x] - invoked[x]
        BY <1>4, <1>6, <3>1, <3>2, <3>4 DEF Counted
      <4>2. Cardinality(Unanswered(x)) \in Nat /\ Cardinality(Unanswered(x))' \in Nat
        BY <3>1 DEF Counted
      <4>3. pages[x] + Cardinality(Unanswered(x)) <= invoked[x]
        BY <3>1 DEF Ledger
      <4>. QED  BY <3>2, <3>4, <4>1, <4>2, <4>3
    <3>9. ASSUME happened' \subseteq {"refused"}
          PROVE  pages'[x] <= success'[x] + Cardinality(Answered(x))'
      <4>1. pages[x] <= success[x] + Cardinality(Answered(x))
        BY <3>1, <3>5, <3>9 DEF Ledger
      <4>2. Cardinality(Answered(x)) - Cardinality(Answered(x))' <= success'[x] - success[x]
        BY <1>4, <1>6, <3>1, <3>2, <3>4, <3>5 DEF Counted
      <4>3. Cardinality(Answered(x)) \in Nat /\ Cardinality(Answered(x))' \in Nat
        BY <3>1 DEF Counted
      <4>. QED  BY <3>2, <3>4, <4>1, <4>2, <4>3
    <3>. QED  BY <3>6, <3>7, <3>8, <3>9 DEF Ledger
  <2>. QED  BY <2>1 DEF Ledgers
<1>12. SuccessIsReal'
  BY <1>5, <1>6, <1>10, InvariantParts DEF SuccessIsReal
<1>13. RequestsKnowTheirPages'
  BY <1>1, <1>2, <1>4, <1>6, InvariantParts
  DEF RequestsKnowTheirPages, CallsHaveStages, InTheHandler, Subject
<1>. QED  BY <1>2, <1>7, <1>8, <1>11, <1>12, <1>13, PrimedParts

\* Every step in which the queue goes on is one of these.
LEMMA QueueTurns ==
  ASSUME IInv, NEW c \in Caller,
         \/ PublishJob(c)
         \/ \E n \in Q!JobName, ids \in Q!Batch : RetryJobs(c, n, ids)
         \/ AnnounceFails(c)
         \/ HandlerReturns(c)
         \/ HandlerThrows(c)
  PROVE  IInv'
<1>1. CASE PublishJob(c)
  <2>1. /\ SomePublish(c) /\ Continue(c) /\ stage[c] = "accepting"
        /\ UNCHANGED <<posting, mission, pages, answer>> /\ happened' = happened
    <3>1. posting[c] \subseteq Mission
      BY InvariantParts DEF TypeOK
    <3>. QED  BY <1>1, <3>1 DEF PublishJob, SomePublish
  <2>. QED  BY <2>1, ContinueStep, StepOfSuccess DEF QueueStep, Turn
<1>2. CASE \E n \in Q!JobName, ids \in Q!Batch : RetryJobs(c, n, ids)
  <2>1. /\ SomeRetry(c) /\ Continue(c) /\ stage[c] = "idle"
        /\ UNCHANGED <<posting, mission, pages, answer>> /\ happened' = happened
    BY <1>2 DEF RetryJobs, SomeRetry
  <2>. QED  BY <2>1, ContinueStep, StepOfSuccess DEF QueueStep, Turn
<1>3. CASE AnnounceFails(c)
  <2>1. /\ Q!HandlerThrowsAndRetries(c) \/ Q!HandlerThrowsAndFails(c)
        /\ Continue(c) /\ stage[c] = "announcing" /\ "io" \in happened'
        /\ UNCHANGED <<posting, mission, pages, answer>>
        /\ happened \subseteq happened' /\ happened' \subseteq happened \cup Faults
    BY <1>3 DEF AnnounceFails, Throw, Happens
  <2>. QED  BY <2>1, ContinueStep, StepOfSuccess DEF QueueStep, Q!HandlerSettles, Turn
<1>4. CASE HandlerReturns(c)
  <2>1. /\ Q!HandlerSucceeds(c) /\ Continue(c) /\ stage[c] = "closing"
        /\ UNCHANGED <<posting, mission, pages, answer>> /\ happened' = happened
    BY <1>4 DEF HandlerReturns
  <2>. QED  BY <2>1, ContinueStep, StepOfSuccess DEF QueueStep, Q!HandlerSettles, Turn
<1>5. CASE HandlerThrows(c)
  <2>1. /\ Q!HandlerThrowsAndRetries(c) \/ Q!HandlerThrowsAndFails(c)
        /\ Continue(c) /\ stage[c] = "reporting"
        /\ UNCHANGED <<posting, mission, pages, answer>>
        /\ happened \subseteq happened' /\ happened' \subseteq happened \cup Faults
    BY <1>5 DEF HandlerThrows, Throw, Happens
  <2>. QED  BY <2>1, ContinueStep, StepOfSuccess DEF QueueStep, Q!HandlerSettles, Turn
<1>. QED  BY <1>1, <1>2, <1>3, <1>4, <1>5

-----------------------------------------------------------------------------
(* The invariant holds in every reachable state. *)

LEMMA InitIInv == Init => IInv
<1>. SUFFICES ASSUME Init PROVE IInv
  OBVIOUS
<1>1. Q!IInv
  <2>1. QP!Init
    BY SameInit DEF Init
  <2>. QED  BY <2>1, QP!InitIInv, SameConstants, SameInvariant
<1>2. TypeOK
  <2>1. Q!TypeOK
    BY <1>1 DEF Q!IInv
  <2>. QED  BY <2>1 DEF Init, TypeOK, Stage, MissionStatus, RunStatus
<1>3. running = [c \in Caller |-> 0] /\ invoked = [x \in Mission |-> 0] /\ success = [x \in Mission |-> 0]
  BY DEF Init, Q!Init
<1>4. CallsHaveStages
  BY <1>3 DEF Init, CallsHaveStages, InTheHandler
<1>5. Ledgers
  <2>1. ASSUME NEW x \in Mission PROVE Ledger(x)
    <3>1. Open(x) = {} /\ Closing(x) = {} /\ Unanswered(x) = {} /\ Answered(x) = {}
      BY DEF Init, Open, Closing, Busy, Unanswered, Answered
    <3>2. Cardinality({}) = 0
      BY FS_EmptySet
    <3>. QED  BY <1>3, <3>1, <3>2 DEF Init, Ledger, RunStatus
  <2>. QED  BY <2>1 DEF Ledgers
<1>6. SuccessIsReal
  BY <1>3 DEF Init, SuccessIsReal, RunStatus
<1>7. RequestsKnowTheirPages
  BY DEF Init, RequestsKnowTheirPages
<1>. QED  BY <1>1, <1>2, <1>4, <1>5, <1>6, <1>7, InvariantParts

LEMMA StepIInv == IInv /\ [Next]_vars => IInv'
<1>. SUFFICES ASSUME IInv, [Next]_vars PROVE IInv'
  OBVIOUS
<1>1. ASSUME NEW c \in Caller, NEW x \in Mission, Accept(c, x) PROVE IInv'
  BY <1>1, AcceptStep
<1>2. ASSUME NEW c \in Caller, AcceptFails(c) \/ Answer(c) PROVE IInv'
  BY <1>2, EndStep
<1>3. ASSUME NEW c \in Caller, NEW n \in Q!JobName, NEW ids \in Q!Batch, RetryJobs(c, n, ids)
      PROVE  IInv'
  BY <1>3, QueueTurns
<1>4. ASSUME NEW c \in Caller,
             PublishJob(c) \/ AnnounceFails(c) \/ HandlerReturns(c) \/ HandlerThrows(c)
      PROVE  IInv'
  BY <1>4, QueueTurns
<1>5. ASSUME NEW c \in Caller, RequestPage(c) PROVE IInv'
  BY <1>5, RequestPageStep
<1>6. ASSUME NEW c \in Caller, NotionCreatesPage(c) PROVE IInv'
  BY <1>6, NotionStep
<1>7. ASSUME NEW c \in Caller, PageCreated(c) PROVE IInv'
  BY <1>7, PageCreatedStep
<1>8. ASSUME NEW c \in Caller, PageFails(c) PROVE IInv'
  BY <1>8, PageFailsStep
<1>9. ASSUME NEW c \in Caller, LinkStored(c) PROVE IInv'
  BY <1>9, LinkStoredStep
<1>10. ASSUME NEW c \in Caller, StoreFails(c) PROVE IInv'
  BY <1>10, StoreFailsStep
<1>11. ASSUME NEW x \in Mission, BootstrapFlow(x) PROVE IInv'
  BY <1>11, NoRequestStep DEF BootstrapFlow
<1>12. CASE UNCHANGED vars
  BY <1>12, NoRequestStep DEF vars
<1>. QED  BY <1>1, <1>2, <1>3, <1>4, <1>5, <1>6, <1>7, <1>8, <1>9, <1>10, <1>11, <1>12
          DEF Next, Step

LEMMA Invariance == Spec => []IInv
<1>. QED  BY InitIInv, StepIInv, PTL DEF Spec

-----------------------------------------------------------------------------
(* The budget of the queue, in this system. *)

\* Every step is a step of the queue or leaves it alone.
LEMMA StepsAreQueueSteps ==
  ASSUME IInv, [Next]_vars
  PROVE  (\E c \in Caller : QueueStep(c)) \/ UNCHANGED queueVars
<1>1. ASSUME NEW c \in Caller, PublishJob(c) PROVE QueueStep(c)
  <2>1. posting[c] \subseteq Mission
    BY DEF IInv, TypeOK
  <2>. QED  BY <1>1, <2>1 DEF PublishJob, QueueStep, SomePublish
<1>2. ASSUME NEW c \in Caller, NEW n \in Q!JobName, NEW ids \in Q!Batch, RetryJobs(c, n, ids)
      PROVE  QueueStep(c)
  BY <1>2 DEF RetryJobs, QueueStep, SomeRetry
<1>3. ASSUME NEW c \in Caller, AnnounceFails(c) \/ HandlerReturns(c) \/ HandlerThrows(c)
      PROVE  QueueStep(c)
  BY <1>3 DEF AnnounceFails, HandlerReturns, HandlerThrows, Throw, QueueStep, Q!HandlerSettles
<1>4. ASSUME NEW c \in Caller,
             \/ \E x \in Mission : Accept(c, x)
             \/ AcceptFails(c) \/ Answer(c) \/ RequestPage(c) \/ NotionCreatesPage(c)
             \/ PageCreated(c) \/ PageFails(c) \/ LinkStored(c) \/ StoreFails(c)
      PROVE  UNCHANGED queueVars
  BY <1>4 DEF Accept, AcceptFails, Answer, RequestPage, NotionCreatesPage,
              PageCreated, PageFails, LinkStored, StoreFails
<1>5. ASSUME UNCHANGED vars \/ \E x \in Mission : BootstrapFlow(x)
      PROVE  UNCHANGED queueVars
  BY <1>5 DEF BootstrapFlow, vars, queueVars
<1>. QED  BY <1>1, <1>2, <1>3, <1>4, <1>5 DEF Next, Step

\* What InlineQueueProofs shows of the calls and successes of a handler.
QueueBudgetInv == QP!WorkIsAccepted /\ QP!BudgetInv

LEMMA QueueBudgetInvariance == Spec => []QueueBudgetInv
<1>1. Init => QueueBudgetInv
  <2>1. Init => QP!Init
    BY SameInit DEF Init
  <2>2. QP!Init => QP!WorkIsAccepted
    BY DEF QP!Init, QP!WorkIsAccepted, QP!Works
  <2>. QED  BY <2>1, <2>2, QP!InitBudget, SameConstants DEF QueueBudgetInv
<1>2. IInv /\ QueueBudgetInv /\ [Next]_vars => QueueBudgetInv'
  <2>. SUFFICES ASSUME IInv, QueueBudgetInv, [Next]_vars PROVE QueueBudgetInv'
    OBVIOUS
  <2>1. QP!IInv /\ QP!WorkIsAccepted /\ QP!BudgetInv
    BY SameInvariant DEF IInv, QueueBudgetInv
  <2>2. [QP!Next]_(QP!vars)
    BY StepsAreQueueSteps, SameStep DEF queueVars, QP!vars
  <2>3. QP!BudgetInv'
    BY <2>1, <2>2, QP!StepBudget, SameConstants
  <2>4. QP!WorkIsAccepted'
    BY <2>1, <2>2, QP!StepWorkIsAccepted, SameConstants
  <2>. QED  BY <2>3, <2>4 DEF QueueBudgetInv
<1>. QED  BY <1>1, <1>2, Invariance, PTL DEF Spec

\* Requests that have an answer from Notion are among the executions, so that
\* their pages are paid by the budget of the queue.
LEMMA PagesAreBudgeted ==
  ASSUME IInv, QueueBudgetInv, NEW x \in Mission
  PROVE  /\ \A id \in DOMAIN jobs : jobs[id].payload = x =>
              pages[x] <= (1 + asked[x]) * (RetryLimit[jobs[id].name.queue] + 1)
         /\ happened \subseteq {"refused"} => pages[x] <= 1 + asked[x]
<1>1. QP!IInv /\ QP!WorkIsAccepted /\ QP!BudgetInv
  BY SameInvariant DEF IInv, QueueBudgetInv
<1>2. QP!AttemptBudget
  BY <1>1, QP!BudgetBounds, SameConstants
<1>3. /\ pages[x] + Cardinality(Unanswered(x)) <= invoked[x]
      /\ happened \subseteq {"refused"} => pages[x] <= success[x] + Cardinality(Answered(x))
  BY DEF IInv, PagesAreCounted
<1>4. pages[x] \in Nat /\ invoked[x] \in Nat /\ success[x] \in Nat
  BY Numbers
<1>5. asked[x] \in Nat
  BY DEF IInv, Q!IInv, Q!TypeOK
<1>6. IsFiniteSet(Unanswered(x)) /\ IsFiniteSet(Answered(x))
  BY CallersAssumption, FS_Subset DEF Unanswered, Answered
<1>7. Cardinality(Unanswered(x)) \in Nat /\ Cardinality(Answered(x)) \in Nat
  BY <1>6, FS_CardinalityType
<1>8. ASSUME NEW id \in DOMAIN jobs, jobs[id].payload = x
      PROVE  pages[x] <= (1 + asked[x]) * (RetryLimit[jobs[id].name.queue] + 1)
  <2>1. PICK a : a = (1 + asked[x]) * (RetryLimit[jobs[id].name.queue] + 1)
    OBVIOUS
  <2>2. a \in Nat
    <3>1. jobs[id].name.queue \in Queue
      BY <1>8 DEF IInv, Q!IInv, Q!TypeOK, Q!Job, Q!JobName
    <3>2. RetryLimit[jobs[id].name.queue] \in Nat
      BY <3>1, QueueAssumption DEF Q!ConstantsAssumption
    <3>. QED  BY <1>5, <2>1, <3>2
  <2>3. invoked[x] <= a
    BY <1>2, <1>8, <2>1 DEF QP!AttemptBudget
  <2>4. pages[x] <= a
    BY <1>3, <1>4, <1>7, <2>2, <2>3
  <2>. QED  BY <2>1, <2>4
<1>9. success[x] + Cardinality(Answered(x)) <= 1 + asked[x]
  <2>1. Answered(x) \subseteq {c \in Caller : running[c] # 0 /\ jobs[running[c]].payload = x}
    BY DEF Answered, Subject, IInv, RunLogMatchesQueue, InTheHandler
  <2>2. success[x] + QP!Cardinality(Answered(x)) <= 1 + asked[x]
    BY <1>1, <2>1, QP!ExecutionsAreBudgeted, SameConstants
  <2>. QED  BY <2>2, SameCardinality
<1>10. happened \subseteq {"refused"} => pages[x] <= 1 + asked[x]
  BY <1>3, <1>4, <1>5, <1>7, <1>9
<1>. QED  BY <1>8, <1>10

-----------------------------------------------------------------------------
\* Every reachable state has the shape that TypeOK describes, the state of the
\* queue included.
THEOREM TypeCorrect == Spec => []TypeOK
<1>1. IInv => TypeOK
  BY DEF IInv
<1>. QED  BY <1>1, Invariance, PTL

\* recordWorkflowRun() writes one record "running" for each call of the
\* handler, and a handler runs only within a request in one of its stages.
THEOREM RunLog == Spec => []RunLogMatchesQueue
<1>1. IInv => RunLogMatchesQueue
  BY DEF IInv
<1>. QED  BY <1>1, Invariance, PTL

\* While every persist succeeds, each call of the handler leaves one record of
\* its outcome, and the successes recorded are those of the queue.
THEOREM Outcomes == Spec => []OutcomesAreRecorded
<1>1. IInv => OutcomesAreRecorded
  BY DEF IInv
<1>. QED  BY <1>1, Invariance, PTL

\* A projection reported as done has linked the mission to a page that exists.
THEOREM Success == Spec => []SuccessIsReal
<1>1. IInv => SuccessIsReal
  BY DEF IInv
<1>. QED  BY <1>1, Invariance, PTL

\* Notion has no more pages for a mission than calls of the handler were made,
\* which its publication and the retry requests for it bound; without lost
\* answers and failed persists it has one at most for each of those.
THEOREM Duplicates == Spec => []DuplicatesAreBounded
<1>1. IInv /\ QueueBudgetInv => DuplicatesAreBounded
  <2>. SUFFICES ASSUME IInv, QueueBudgetInv, NEW x \in Mission
                PROVE  /\ pages[x] <= invoked[x]
                       /\ happened \subseteq {"refused"} =>
                            pages[x] <= success[x]
                              + Cardinality(Busy(x, {"creating", "updating", "closing"}))
    BY PagesAreBudgeted DEF DuplicatesAreBounded
  <2>1. /\ pages[x] + Cardinality(Unanswered(x)) <= invoked[x]
        /\ happened \subseteq {"refused"} => pages[x] <= success[x] + Cardinality(Answered(x))
    BY DEF IInv, PagesAreCounted
  <2>2. pages[x] \in Nat /\ invoked[x] \in Nat /\ success[x] \in Nat
    BY Numbers
  <2>. DEFINE B == Busy(x, {"creating", "updating", "closing"})
  <2>3. /\ IsFiniteSet(B)
        /\ Answered(x) \in SUBSET B
        /\ IsFiniteSet(Unanswered(x))
    <3>1. B \in SUBSET Caller /\ Unanswered(x) \in SUBSET Caller
      BY DEF Busy, Unanswered
    <3>2. Answered(x) \in SUBSET B
      BY DEF Busy, Answered
    <3>. QED  BY <3>1, <3>2, CallersAssumption, FS_Subset
  <2>. HIDE DEF B
  <2>4. /\ Cardinality(Answered(x)) <= Cardinality(B)
        /\ IsFiniteSet(Answered(x))
    BY <2>3, FS_Subset
  <2>5. /\ Cardinality(Unanswered(x)) \in Nat /\ Cardinality(Answered(x)) \in Nat
        /\ Cardinality(B) \in Nat
    BY <2>3, <2>4, FS_CardinalityType
  <2>6. pages[x] <= invoked[x]
    BY <2>1, <2>2, <2>5
  <2>7. happened \subseteq {"refused"} => pages[x] <= success[x] + Cardinality(B)
    BY <2>1, <2>2, <2>4, <2>5
  <2>. QED  BY <2>6, <2>7 DEF B
<1>. QED  BY <1>1, Invariance, QueueBudgetInvariance, PTL

\* A mission whose job was published is linked to a page, or its handler is at
\* work in some request, or it has a failed job that the operator sees: the
\* safety part of ProjectionSettles, whatever faults happen.
NoProjectionIsForgotten ==
  \A x \in accepted :
    \/ Linked(x)
    \/ \E c \in Caller : stage[c] \in InTheHandler /\ Subject(c) = x
    \/ GivenUp(x)

THEOREM NothingForgotten == Spec => []NoProjectionIsForgotten
<1>1. IInv => NoProjectionIsForgotten
  <2>. SUFFICES ASSUME IInv, NEW x \in accepted, ~Linked(x), ~GivenUp(x)
                PROVE  \E c \in Caller : stage[c] \in InTheHandler /\ Subject(c) = x
    BY DEF NoProjectionIsForgotten
  <2>1. x \in Mission /\ success[x] \in Nat
    BY DEF IInv, Q!IInv, Q!TypeOK
  <2>2. success[x] = 0
    BY <2>1 DEF IInv, SuccessIsReal, Linked
  <2>3. PICK id \in DOMAIN jobs :
          /\ jobs[id].payload = x
          /\ jobs[id].state = "active" \/ Q!Listed(jobs[id])
    BY <2>2 DEF IInv, Q!IInv, Q!NoSilentLoss
  <2>4. jobs[id].state = "active"
    BY <2>3 DEF GivenUp
  <2>5. PICK c \in Caller : running[c] = id
    BY <2>4 DEF IInv, Q!IInv, Q!ExclusiveExecution
  <2>6. running[c] # 0
    BY <2>5 DEF IInv, Q!IInv, Q!TypeOK
  <2>7. stage[c] \in InTheHandler
    BY <2>6 DEF IInv, RunLogMatchesQueue
  <2>. QED  BY <2>3, <2>5, <2>7 DEF Subject
<1>. QED  BY <1>1, Invariance, PTL

\* The jobs of this system are run as InlineQueue runs them: every step is a
\* step of the driver or leaves it alone, so that the driver's promises hold
\* here: accepted projections are pending or listed until they are done.
THEOREM QueueSafety == Spec => Q!Init /\ [][Q!Next]_(Q!vars)
<1>1. Init => Q!Init
  BY DEF Init
<1>2. IInv /\ [Next]_vars => [Q!Next]_(Q!vars)
  <2>. SUFFICES ASSUME IInv, [Next]_vars PROVE [Q!Next]_(Q!vars)
    OBVIOUS
  <2>1. ASSUME NEW c \in Caller, QueueStep(c) PROVE Q!Next
    BY <2>1 DEF QueueStep, SomePublish, SomeRetry, Q!HandlerSettles, Q!Next
  <2>2. CASE UNCHANGED queueVars
    BY <2>2 DEF queueVars, Q!vars
  <2>. QED  BY <2>1, <2>2, StepsAreQueueSteps
<1>. QED  BY <1>1, <1>2, Invariance, PTL DEF Spec

=============================================================================
