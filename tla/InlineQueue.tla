----------------------------- MODULE InlineQueue -----------------------------
(***************************************************************************)
(* InlineQueueDriver: jobs live in a map of the process and run inside the *)
(* call that publishes or retries them.  A call awaits the handler, so the *)
(* calls of several clients overlap; everything between two handler calls  *)
(* happens in one turn of the event loop and is one step here.             *)
(*                                                                         *)
(* Queue names come in pairs, as bootstrap registers them: a queue q and   *)
(* its dead letter queue, written [queue |-> q, dead |-> TRUE].            *)
(***************************************************************************)
EXTENDS Naturals, Sequences, FiniteSets

CONSTANTS
  Caller,      \* calls of the driver that can be in progress at one time
  Queue,       \* registered job names
  RetryLimit,  \* retryLimit of each registration
  Payload,     \* pieces of work, each published once by its producer
  MaxJobs,     \* bound: no call creates a job once this many exist
  MaxBatch     \* bound: ids in one retry request

ASSUME ConstantsAssumption ==
  /\ Queue # {}
  /\ RetryLimit \in [Queue -> Nat]
  /\ MaxJobs \in Nat
  /\ MaxBatch \in Nat

VARIABLES
  jobs,        \* the jobs map, from ids to job records
  nextId,      \* ids are fresh: randomUUID()
  running,     \* the job whose handler each call awaits, 0 for an idle call
  replaying,   \* the dead letter entry it replays, 0 if it replays none
  name,        \* the job name of a retry request
  todo,        \* the ids of the request that are still to be looked at
  accepted,    \* history: the payloads that producers published
  success,     \* history: how often the handler succeeded on a payload
  invoked,     \* history: how often the handler was called on a payload
  asked        \* history: how often retry requests named a job of it

vars == <<jobs, nextId, running, replaying, name, todo,
          accepted, success, invoked, asked>>

callVars == <<running, replaying, name, todo>>

JobName == [queue : Queue, dead : BOOLEAN]
JobState == {"created", "active", "completed", "failed"}
\* A call that is no retry in progress has no job name; any value will do.
AnyName == CHOOSE n \in JobName : TRUE

Job == [name : JobName, payload : Payload, state : JobState, attempt : Nat]

-----------------------------------------------------------------------------
TypeOK ==
  /\ nextId \in Nat \ {0}
  /\ DOMAIN jobs \subseteq 1 .. (nextId - 1)
  /\ jobs \in [DOMAIN jobs -> Job]
  /\ running \in [Caller -> Nat]
  /\ replaying \in [Caller -> Nat]
  /\ name \in [Caller -> JobName]
  /\ todo \in [Caller -> Seq(Nat)]
  /\ accepted \subseteq Payload
  /\ success \in [Payload -> Nat]
  /\ invoked \in [Payload -> Nat]
  /\ asked \in [Payload -> Nat]

Init ==
  /\ jobs = [id \in {} |-> {}]
  /\ nextId = 1
  /\ running = [c \in Caller |-> 0]
  /\ replaying = [c \in Caller |-> 0]
  /\ name = [c \in Caller |-> AnyName]
  /\ todo = [c \in Caller |-> <<>>]
  /\ accepted = {}
  /\ success = [x \in Payload |-> 0]
  /\ invoked = [x \in Payload |-> 0]
  /\ asked = [x \in Payload |-> 0]

-----------------------------------------------------------------------------
(* The jobs map. *)

Put(js, id, job) == [i \in DOMAIN js \cup {id} |-> IF i = id THEN job ELSE js[i]]

\* Mutant of Delete: an entry takes the other jobs of its work with it.
DeleteWithItsWork(js, id) ==
  [i \in {i \in DOMAIN js : id \in DOMAIN js => js[i].payload # js[id].payload} |-> js[i]]

Delete(js, id) == [i \in DOMAIN js \ {id} |-> js[i]]

\* Mutant of Published: attempts are counted from zero.
PublishedAtZero(q, x) ==
  [name |-> [queue |-> q, dead |-> FALSE], payload |-> x,
   state |-> "active", attempt |-> 0]

\* A job that publish() creates has its handler called in the same turn, so
\* it is first seen active.
Published(q, x) ==
  [name |-> [queue |-> q, dead |-> FALSE], payload |-> x,
   state |-> "active", attempt |-> 1]

\* The copy of an exhausted job in its dead letter queue; nothing runs it.
DeadLetter(job) ==
  [name |-> [job.name EXCEPT !.dead = TRUE], payload |-> job.payload,
   state |-> "created", attempt |-> job.attempt]

Restarted(job) == [job EXCEPT !.state = "active", !.attempt = 1]

\* What listFailed() shows of a job.
Listed(job) == job.state = "failed" \/ job.name.dead

\* Mutant of Replayable: the state of the job is not looked at.
ReplayableInAnyState(js, n, id) == id \in DOMAIN js /\ js[id].name = n

\* retry() skips ids that are unknown, in another queue, or not failed.
Replayable(js, n, id) ==
  /\ id \in DOMAIN js
  /\ js[id].name = n
  /\ Listed(js[id])

-----------------------------------------------------------------------------
(* The loop of retry().  Proceed(c, js, id, n, ids) continues it for call c *)
(* with jobs js, next fresh id, name n and the ids still to be looked at.  *)

\* Mutant of Finish: the caller's promise is never resolved.
FinishUnresolved(c, js, id) ==
  /\ jobs' = js
  /\ nextId' = id
  /\ UNCHANGED <<callVars, invoked>>

Finish(c, js, id) ==
  /\ jobs' = js
  /\ nextId' = id
  /\ running' = [running EXCEPT ![c] = 0]
  /\ replaying' = [replaying EXCEPT ![c] = 0]
  /\ name' = [name EXCEPT ![c] = AnyName]
  /\ todo' = [todo EXCEPT ![c] = <<>>]
  /\ UNCHANGED invoked

\* The handler is called on the job r, created or restarted for ids[i].
Rerun(c, js, id, r, n, ids, i) ==
  /\ jobs' = js
  /\ nextId' = id
  /\ running' = [running EXCEPT ![c] = r]
  /\ replaying' = [replaying EXCEPT ![c] = IF n.dead THEN ids[i] ELSE 0]
  /\ name' = [name EXCEPT ![c] = n]
  /\ todo' = [todo EXCEPT ![c] = SubSeq(ids, i + 1, Len(ids))]
  /\ invoked' = [invoked EXCEPT ![js[r].payload] = @ + 1]

Proceed(c, js, id, n, ids) ==
  \/ /\ \A i \in DOMAIN ids : ~Replayable(js, n, ids[i])
     /\ Finish(c, js, id)
  \/ \E i \in DOMAIN ids :
       /\ Replayable(js, n, ids[i])
       /\ \A k \in 1 .. (i - 1) : ~Replayable(js, n, ids[k])
       /\ IF n.dead
            THEN LET job == Published(n.queue, js[ids[i]].payload)
                 IN  Rerun(c, Put(js, id, job), id + 1, id, n, ids, i)
            ELSE LET job == Restarted(js[ids[i]])
                 IN  Rerun(c, Put(js, ids[i], job), id, ids[i], n, ids, i)

\* executeInlineJob() returned to the call c: publish() is done; retry()
\* deletes the dead letter entry it replayed and goes on with its loop.
Resume(c, js, id) ==
  LET left == IF replaying[c] = 0 THEN js ELSE Delete(js, replaying[c])
  IN  Proceed(c, left, id, name[c], todo[c])

-----------------------------------------------------------------------------
\* publish() of new work.
Publish(c, q, x) ==
  /\ running[c] = 0
  /\ x \notin accepted
  /\ nextId <= MaxJobs
  /\ accepted' = accepted \cup {x}
  /\ jobs' = Put(jobs, nextId, Published(q, x))
  /\ nextId' = nextId + 1
  /\ running' = [running EXCEPT ![c] = nextId]
  /\ invoked' = [invoked EXCEPT ![x] = @ + 1]
  /\ UNCHANGED <<replaying, name, todo, success, asked>>

\* The ids a request names, in any order and with repetitions.  Unknown ids
\* are skipped, so requests with known ones are enough.
Batch == UNION {[1 .. k -> DOMAIN jobs] : k \in 1 .. MaxBatch}

\* retry(): a request of which nothing can be replayed changes nothing and is
\* left out.
Retry(c, n, ids) ==
  /\ running[c] = 0
  /\ nextId <= MaxJobs
  /\ \E i \in DOMAIN ids : Replayable(jobs, n, ids[i])
  /\ asked' = [x \in Payload |-> asked[x] +
                 Cardinality({i \in DOMAIN ids : jobs[ids[i]].payload = x})]
  /\ Proceed(c, jobs, nextId, n, ids)
  /\ UNCHANGED <<accepted, success>>

\* The call c awaits a handler that has not settled yet.
InHandler(c) == running[c] # 0 /\ jobs[running[c]].state = "active"

\* Mutant of HandlerSucceeds: an error after the work itself is done counts as
\* a failed attempt.
SucceedsAndRunsAgain(c) ==
  LET r == running[c] IN
  /\ InHandler(c)
  /\ success' = [success EXCEPT ![jobs[r].payload] = @ + 1]
  /\ jobs' = [jobs EXCEPT ![r].attempt = @ + 1]
  /\ invoked' = [invoked EXCEPT ![jobs[r].payload] = @ + 1]
  /\ UNCHANGED <<nextId, callVars, accepted, asked>>

HandlerSucceeds(c) ==
  LET r == running[c] IN
  /\ InHandler(c)
  /\ success' = [success EXCEPT ![jobs[r].payload] = @ + 1]
  /\ Resume(c, [jobs EXCEPT ![r].state = "completed"], nextId)
  /\ UNCHANGED <<accepted, asked>>

\* The handler throws and attempts are left: it is called again at once.
HandlerThrowsAndRetries(c) ==
  LET r == running[c] IN
  /\ InHandler(c)
  /\ jobs[r].attempt <= RetryLimit[jobs[r].name.queue]
  /\ jobs' = [jobs EXCEPT ![r].attempt = @ + 1]
  /\ invoked' = [invoked EXCEPT ![jobs[r].payload] = @ + 1]
  /\ UNCHANGED <<nextId, callVars, accepted, success, asked>>

\* Mutant of HandlerThrowsAndFails: the dead letter entry has no id of its own.
ThrowsAndReusesId(c) ==
  LET r == running[c]
      failed == [jobs EXCEPT ![r].state = "failed"]
  IN
  /\ InHandler(c)
  /\ jobs[r].attempt > RetryLimit[jobs[r].name.queue]
  /\ Resume(c, Put(failed, nextId, DeadLetter(jobs[r])), nextId)
  /\ UNCHANGED <<accepted, success, asked>>

\* The handler throws on the last attempt: the job fails and is copied to the
\* dead letter queue; the caller of publish() or retry() sees no error.
HandlerThrowsAndFails(c) ==
  LET r == running[c]
      failed == [jobs EXCEPT ![r].state = "failed"]
  IN
  /\ InHandler(c)
  /\ jobs[r].attempt > RetryLimit[jobs[r].name.queue]
  /\ Resume(c, Put(failed, nextId, DeadLetter(jobs[r])), nextId + 1)
  /\ UNCHANGED <<accepted, success, asked>>

HandlerSettles(c) ==
  HandlerSucceeds(c) \/ HandlerThrowsAndRetries(c) \/ HandlerThrowsAndFails(c)

Next ==
  \E c \in Caller :
    \/ \E q \in Queue, x \in Payload : Publish(c, q, x)
    \/ \E n \in JobName, ids \in Batch : Retry(c, n, ids)
    \/ HandlerSucceeds(c)
    \/ HandlerThrowsAndRetries(c)
    \/ HandlerThrowsAndFails(c)

\* Handlers settle: each awaits file system and HTTP calls that end.
Fairness == \A c \in Caller : WF_vars(HandlerSettles(c))

Spec == Init /\ [][Next]_vars /\ Fairness

-----------------------------------------------------------------------------
(* Properties. *)

\* Published work is never lost by the driver: until its handler succeeds it
\* is being executed or is listed for the operator, also while a dead letter
\* entry is deleted after its replay and while several retries overlap.
NoSilentLoss ==
  \A x \in accepted : success[x] = 0 =>
    \E id \in DOMAIN jobs :
      /\ jobs[id].payload = x
      /\ jobs[id].state = "active" \/ Listed(jobs[id])

\* A job has at most one execution in progress, and is active exactly then,
\* although retries of the same id may overlap.
ExclusiveExecution ==
  /\ \A c, d \in Caller : running[c] # 0 /\ running[c] = running[d] => c = d
  /\ \A id \in DOMAIN jobs :
       jobs[id].state = "active" <=> \E c \in Caller : running[c] = id

\* Work that keeps failing is bounded: its handler is called at most
\* retryLimit + 1 times for the publication and for each id of a retry request.
AttemptBudget ==
  \A id \in DOMAIN jobs :
    LET x == jobs[id].payload
    IN  invoked[x] <= (1 + asked[x]) * (RetryLimit[jobs[id].name.queue] + 1)

\* The handler succeeds twice on the same work only if an operator asked for
\* a replay.
ReplayOnlyOnRequest == \A x \in Payload : success[x] <= 1 + asked[x]

\* Every call of the driver returns, however often the handler throws.
CallsReturn == \A c \in Caller : running[c] # 0 ~> running[c] = 0

\* What the driver's user knows about a piece of work.
StatusOf(x) ==
  IF success[x] > 0 THEN "done"
  ELSE IF x \notin accepted THEN "new"
  ELSE IF \E c \in Caller : running[c] # 0 /\ jobs[running[c]].payload = x
         THEN "pending"
  ELSE IF \E id \in DOMAIN jobs : jobs[id].payload = x /\ Listed(jobs[id])
         THEN "listed"
  ELSE "lost"

Work == INSTANCE WorkQueue WITH status <- [x \in Payload |-> StatusOf(x)]

\* The driver keeps the promise of WorkQueue: in particular work that succeeded
\* stays done, and no work is in none of the four statuses.
ImplementsWorkQueue == Work!Spec

-----------------------------------------------------------------------------
(* The inductive invariant behind ExclusiveExecution and NoSilentLoss. *)

\* Nothing ever runs a dead letter entry itself: its replay is a new job.
DeadLettersRest ==
  \A id \in DOMAIN jobs : jobs[id].name.dead => jobs[id].state = "created"

\* A call awaits a job of the map; the dead letter entry it will delete, if
\* no overlapping replay deleted it, carries the work of that job.
CallsKnowTheirJobs ==
  \A c \in Caller :
    /\ running[c] # 0 => running[c] \in DOMAIN jobs
    /\ replaying[c] # 0 =>
         /\ running[c] # 0
         /\ replaying[c] < nextId
         /\ replaying[c] \in DOMAIN jobs =>
              /\ jobs[replaying[c]].name.dead
              /\ jobs[replaying[c]].payload = jobs[running[c]].payload

IInv ==
  /\ TypeOK
  /\ DeadLettersRest
  /\ CallsKnowTheirJobs
  /\ ExclusiveExecution
  /\ NoSilentLoss

=============================================================================
