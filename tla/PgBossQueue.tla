---------------------------- MODULE PgBossQueue ----------------------------
(***************************************************************************)
(* PgBossQueueDriver: jobs live in PostgreSQL, workers fetch them, and the *)
(* driver adds the replay of dead letter entries, three calls of pg-boss   *)
(* with an await before each.  pg-boss itself is external: a job whose     *)
(* worker neither completed nor failed it in time expires, and expiring    *)
(* counts as a failed attempt although its handler may still be running.   *)
(*                                                                         *)
(* Queue names come in pairs, as in InlineQueue.                           *)
(***************************************************************************)
EXTENDS Naturals, Sequences, FiniteSets

CONSTANTS
  Caller,      \* retry requests for dead letters that can be in progress
  Execution,   \* executions of handlers in progress, abandoned ones included
  Queue,       \* registered job names
  RetryLimit,  \* retryLimit of each registration
  Payload,     \* pieces of work, each published once by its producer
  MaxJobs,     \* bound: nobody sends a job once this many exist
  MaxBatch,    \* bound: ids in one retry request
  MaxRetries   \* bound: ids of retry requests that name jobs of one payload

ASSUME ConstantsAssumption ==
  /\ IsFiniteSet(Execution)
  /\ RetryLimit \in [Queue -> Nat]
  /\ MaxJobs \in Nat
  /\ MaxBatch \in Nat
  /\ MaxRetries \in Nat

VARIABLES
  jobs,      \* the job table, from ids to job records
  nextId,    \* ids are fresh
  handling,  \* the job of each execution, 0 for none
  returned,  \* its handler returned, the job is not completed yet
  overruns,  \* history: how often each job expired
  call,      \* the request for dead letters each caller has in progress
  accepted,  \* history: the payloads that producers published
  success,   \* history: how often the handler succeeded on a payload
  invoked,   \* history: how often the handler was called on a payload
  asked,     \* history: how often retry requests named a job of it
  expired    \* history: how often a job of it expired

vars == <<jobs, nextId, handling, returned, overruns, call,
          accepted, success, invoked, asked, expired>>

executions == <<handling, returned, overruns>>
history == <<accepted, success, invoked, asked, expired>>

JobName == [queue : Queue, dead : BOOLEAN]
JobState == {"created", "retry", "active", "completed", "failed"}
Job == [name : JobName, payload : Payload, state : JobState,
        count : Nat, limit : Nat]

\* stage is the call of pg-boss to be made for entry, the dead letter job the
\* request has come to; payload was read from that entry.
Call == [stage : {"get"}, queue : Queue, entry : Nat, todo : Seq(Nat)]
          \cup [stage : {"send", "delete"}, queue : Queue, entry : Nat,
                todo : Seq(Nat), payload : Payload]
Idle == [stage |-> "idle"]

-----------------------------------------------------------------------------
TypeOK ==
  /\ nextId \in Nat \ {0}
  /\ DOMAIN jobs \subseteq 1 .. (nextId - 1)
  /\ jobs \in [DOMAIN jobs -> Job]
  /\ handling \in [Execution -> Nat]
  /\ returned \in [Execution -> BOOLEAN]
  /\ overruns \in [DOMAIN overruns -> Nat]
  /\ call \in [Caller -> Call \cup {Idle}]
  /\ accepted \subseteq Payload
  /\ success \in [Payload -> Nat]
  /\ invoked \in [Payload -> Nat]
  /\ asked \in [Payload -> Nat]
  /\ expired \in [Payload -> Nat]

None(S) == [x \in S |-> 0]

Init ==
  /\ jobs = [id \in {} |-> {}]
  /\ nextId = 1
  /\ handling = None(Execution)
  /\ returned = [e \in Execution |-> FALSE]
  /\ overruns = [id \in {} |-> 0]
  /\ call = [c \in Caller |-> Idle]
  /\ accepted = {}
  /\ success = None(Payload)
  /\ invoked = None(Payload)
  /\ asked = None(Payload)
  /\ expired = None(Payload)

-----------------------------------------------------------------------------
(* The job table. *)

Put(js, id, job) == [i \in DOMAIN js \cup {id} |-> IF i = id THEN job ELSE js[i]]
Without(js, id) == [i \in DOMAIN js \ {id} |-> js[i]]

\* Mutant of Sent: the options are not sent, and pg-boss takes its defaults.
SentWithDefaults(q, x) ==
  [name |-> [queue |-> q, dead |-> FALSE], payload |-> x,
   state |-> "created", count |-> 0, limit |-> 2]

\* The options of the registration are sent with every job.
Sent(q, x) ==
  [name |-> [queue |-> q, dead |-> FALSE], payload |-> x,
   state |-> "created", count |-> 0, limit |-> RetryLimit[q]]

DeadLetter(job) ==
  [name |-> [job.name EXCEPT !.dead = TRUE], payload |-> job.payload,
   state |-> "created", count |-> 0, limit |-> 0]

Waiting(job) == ~job.name.dead /\ job.state \in {"created", "retry"}

\* What listFailed() shows of a job.
Listed(job) == job.state = "failed" \/ job.name.dead

\* Mutant of FailAttempt: the dead letter job has no id of its own.
FailAttemptReusingId(id) ==
  /\ jobs' = IF jobs[id].count >= jobs[id].limit
               THEN Put([jobs EXCEPT ![id].state = "failed"], nextId, DeadLetter(jobs[id]))
               ELSE [jobs EXCEPT ![id].state = "retry"]
  /\ UNCHANGED nextId

\* pg-boss fails the attempt of an active job, and does nothing to another one.
FailAttempt(id) ==
  LET job == jobs[id] IN
  \/ /\ job.state # "active"
     /\ UNCHANGED <<jobs, nextId>>
  \/ /\ job.state = "active"
     /\ job.count < job.limit
     /\ jobs' = [jobs EXCEPT ![id].state = "retry"]
     /\ UNCHANGED nextId
  \/ /\ job.state = "active"
     /\ job.count >= job.limit
     /\ jobs' = Put([jobs EXCEPT ![id].state = "failed"], nextId, DeadLetter(job))
     /\ nextId' = nextId + 1

\* pg-boss completes an active job, and does nothing to another one.
CompleteAttempt(id) ==
  /\ jobs' = IF jobs[id].state = "active"
               THEN [jobs EXCEPT ![id].state = "completed"]
               ELSE jobs
  /\ UNCHANGED nextId

-----------------------------------------------------------------------------
(* Producers and workers. *)

\* publish().  When the answer is lost the job is there all the same.
Publish(q, x) ==
  /\ x \notin accepted
  /\ nextId <= MaxJobs
  /\ accepted' = accepted \cup {x}
  /\ jobs' = Put(jobs, nextId, Sent(q, x))
  /\ nextId' = nextId + 1
  /\ UNCHANGED <<executions, call, success, invoked, asked, expired>>

\* Mutant of Fetch: failed attempts wait for a worker that never asks for them.
FetchOnlyNew(e, id) ==
  /\ handling[e] = 0
  /\ id \in DOMAIN jobs
  /\ ~jobs[id].name.dead
  /\ jobs[id].state = "created"
  /\ jobs' = [jobs EXCEPT ![id].state = "active"]
  /\ handling' = [handling EXCEPT ![e] = id]
  /\ invoked' = [invoked EXCEPT ![jobs[id].payload] = @ + 1]
  /\ UNCHANGED <<nextId, returned, overruns, call, accepted, success, asked, expired>>

\* A worker fetches a job, and calls the handler of its registration.
Fetch(e, id) ==
  /\ handling[e] = 0
  /\ id \in DOMAIN jobs
  /\ Waiting(jobs[id])
  /\ jobs' = [jobs EXCEPT ![id].state = "active",
                          ![id].count = IF jobs[id].state = "retry" THEN @ + 1 ELSE @]
  /\ handling' = [handling EXCEPT ![e] = id]
  /\ invoked' = [invoked EXCEPT ![jobs[id].payload] = @ + 1]
  /\ UNCHANGED <<nextId, returned, overruns, call, accepted, success, asked, expired>>

InHandler(e) == handling[e] # 0 /\ ~returned[e]

Leave(e) ==
  /\ handling' = [handling EXCEPT ![e] = 0]
  /\ returned' = [returned EXCEPT ![e] = FALSE]
  /\ UNCHANGED overruns

\* Mutant of HandlerSucceeds: an error after the work itself is done fails the
\* attempt.
SucceedsAndFails(e) ==
  /\ InHandler(e)
  /\ success' = [success EXCEPT ![jobs[handling[e]].payload] = @ + 1]
  /\ FailAttempt(handling[e])
  /\ Leave(e)
  /\ UNCHANGED <<call, accepted, invoked, asked, expired>>

HandlerSucceeds(e) ==
  /\ InHandler(e)
  /\ returned' = [returned EXCEPT ![e] = TRUE]
  /\ success' = [success EXCEPT ![jobs[handling[e]].payload] = @ + 1]
  /\ UNCHANGED <<jobs, nextId, handling, overruns, call, accepted, invoked, asked, expired>>

Complete(e) ==
  /\ returned[e]
  /\ CompleteAttempt(handling[e])
  /\ Leave(e)
  /\ UNCHANGED <<call, history>>

\* Mutant of HandlerThrows: the worker swallows the error of the handler.
ThrowsUnnoticed(e) ==
  /\ InHandler(e)
  /\ CompleteAttempt(handling[e])
  /\ Leave(e)
  /\ UNCHANGED <<call, history>>

HandlerThrows(e) ==
  /\ InHandler(e)
  /\ FailAttempt(handling[e])
  /\ Leave(e)
  /\ UNCHANGED <<call, history>>

Overruns(id) == IF id \in DOMAIN overruns THEN overruns[id] ELSE 0

\* The time of an attempt is up.  Nothing stops a handler in progress.
Expire(id) ==
  /\ id \in DOMAIN jobs
  /\ jobs[id].state = "active"
  /\ FailAttempt(id)
  /\ overruns' = Put(overruns, id, Overruns(id) + 1)
  /\ expired' = [expired EXCEPT ![jobs[id].payload] = @ + 1]
  /\ UNCHANGED <<handling, returned, call, accepted, success, invoked, asked>>

\* The execution ends without effect on its job: the process is killed, or the
\* connection is lost; or the worker gave the handler up when its time was up.
Abandon(e) ==
  /\ handling[e] # 0
  /\ Leave(e)
  /\ UNCHANGED <<jobs, nextId, call, history>>

-----------------------------------------------------------------------------
(* retry(). *)

\* How often the ids of a request name a job of x.
Named(ids, x) ==
  Cardinality({i \in DOMAIN ids : ids[i] \in DOMAIN jobs /\ jobs[ids[i]].payload = x})

Batch == UNION {[1 .. k -> DOMAIN jobs] : k \in 1 .. MaxBatch}

Ask(ids) ==
  /\ \A x \in Payload : asked[x] + Named(ids, x) <= MaxRetries
  /\ asked' = [x \in Payload |-> asked[x] + Named(ids, x)]

\* Mutant of RetryFailed: the state of the jobs is not looked at.
RetryInAnyState(q, ids) ==
  /\ \A i \in DOMAIN ids : jobs[ids[i]].name = [queue |-> q, dead |-> FALSE]
  /\ Ask(ids)
  /\ jobs' = [id \in DOMAIN jobs |->
               IF \E i \in DOMAIN ids : ids[i] = id
                 THEN [jobs[id] EXCEPT !.state = "retry", !.limit = @ + 1]
                 ELSE jobs[id]]
  /\ UNCHANGED <<nextId, executions, call, accepted, success, invoked, expired>>

\* Jobs of a primary queue: one statement makes the failed ones among the ids
\* wait again with one more attempt.  The answer is the number of ids, whatever
\* became of them.
RetryFailed(q, ids) ==
  LET chosen == {id \in DOMAIN jobs : /\ \E i \in DOMAIN ids : ids[i] = id
                                      /\ jobs[id].name = [queue |-> q, dead |-> FALSE]
                                      /\ jobs[id].state = "failed"}
  IN
  /\ chosen # {}
  /\ Ask(ids)
  /\ jobs' = [id \in DOMAIN jobs |->
               IF id \in chosen
                 THEN [jobs[id] EXCEPT !.state = "retry", !.limit = @ + 1]
                 ELSE jobs[id]]
  /\ UNCHANGED <<nextId, executions, call, accepted, success, invoked, expired>>

ToGet(q, ids) ==
  [stage |-> "get", queue |-> q, entry |-> Head(ids), todo |-> Tail(ids)]

\* Jobs of a dead letter queue: the loop over the ids begins.
RequestReplay(c, q, ids) ==
  /\ call[c] = Idle
  /\ \E i \in DOMAIN ids : jobs[ids[i]].name = [queue |-> q, dead |-> TRUE]
  /\ Ask(ids)
  /\ call' = [call EXCEPT ![c] = ToGet(q, ids)]
  /\ UNCHANGED <<jobs, nextId, executions, accepted, success, invoked, expired>>

\* The loop turns to its next id, or the request is answered.
Turn(c) ==
  call' = [call EXCEPT ![c] =
            IF @.todo = <<>> THEN Idle ELSE ToGet(@.queue, @.todo)]

\* getJobById() does not find the entry: an overlapping request replayed it, or
\* the id names a job of another queue.
GetNothing(c) ==
  /\ call[c].stage = "get"
  /\ call[c].entry \in DOMAIN jobs =>
       jobs[call[c].entry].name # [queue |-> call[c].queue, dead |-> TRUE]
  /\ Turn(c)
  /\ UNCHANGED <<jobs, nextId, executions, history>>

\* Mutant of Get: the entry is taken out of its queue when it is read.
GetAndDelete(c) ==
  /\ call[c].stage = "get"
  /\ call[c].entry \in DOMAIN jobs
  /\ jobs[call[c].entry].name = [queue |-> call[c].queue, dead |-> TRUE]
  /\ call' = [call EXCEPT ![c] =
               [stage |-> "send", queue |-> @.queue, entry |-> @.entry,
                todo |-> @.todo, payload |-> jobs[@.entry].payload]]
  /\ jobs' = Without(jobs, call[c].entry)
  /\ UNCHANGED <<nextId, executions, history>>

Get(c) ==
  /\ call[c].stage = "get"
  /\ call[c].entry \in DOMAIN jobs
  /\ jobs[call[c].entry].name = [queue |-> call[c].queue, dead |-> TRUE]
  /\ call' = [call EXCEPT ![c] =
               [stage |-> "send", queue |-> @.queue, entry |-> @.entry,
                todo |-> @.todo, payload |-> jobs[@.entry].payload]]
  /\ UNCHANGED <<jobs, nextId, executions, history>>

Send(c) ==
  /\ call[c].stage = "send"
  /\ nextId <= MaxJobs
  /\ jobs' = Put(jobs, nextId, Sent(call[c].queue, call[c].payload))
  /\ nextId' = nextId + 1
  /\ call' = [call EXCEPT ![c].stage = "delete"]
  /\ UNCHANGED <<executions, history>>

DeleteEntry(c) ==
  /\ call[c].stage = "delete"
  /\ jobs' = Without(jobs, call[c].entry)
  /\ Turn(c)
  /\ UNCHANGED <<nextId, executions, history>>

\* A call of pg-boss fails, or the process ends: the rest is not replayed.
RequestFails(c) ==
  /\ call[c] # Idle
  /\ call' = [call EXCEPT ![c] = Idle]
  /\ UNCHANGED <<jobs, nextId, executions, history>>

-----------------------------------------------------------------------------
Next ==
  \/ \E q \in Queue, x \in Payload : Publish(q, x)
  \/ \E e \in Execution :
       \/ \E id \in DOMAIN jobs : Fetch(e, id)
       \/ HandlerSucceeds(e)
       \/ Complete(e)
       \/ HandlerThrows(e)
       \/ Abandon(e)
  \/ \E id \in DOMAIN jobs : Expire(id)
  \/ \E q \in Queue, ids \in Batch : RetryFailed(q, ids)
  \/ \E c \in Caller :
       \/ \E q \in Queue, ids \in Batch : RequestReplay(c, q, ids)
       \/ GetNothing(c)
       \/ Get(c)
       \/ Send(c)
       \/ DeleteEntry(c)
       \/ RequestFails(c)

Settles(e) == HandlerSucceeds(e) \/ Complete(e) \/ HandlerThrows(e) \/ Abandon(e)

Serve(x) ==
  \E e \in Execution, id \in DOMAIN jobs : jobs[id].payload = x /\ Fetch(e, id)

\* Some worker process is running and polls for the oldest job, handlers end,
\* and pg-boss looks for expired jobs at intervals.
Fairness ==
  /\ \A x \in Payload : WF_vars(Serve(x))
  /\ \A e \in Execution : WF_vars(Settles(e))
  /\ WF_vars(\E id \in DOMAIN jobs : Expire(id))

Spec == Init /\ [][Next]_vars /\ Fairness

-----------------------------------------------------------------------------
(* Properties. *)

\* Work that was sent is never lost: until its handler has succeeded it waits,
\* is being executed, or is listed for the operator, also when workers die,
\* time runs out, and replays of its dead letter entry overlap or break off.
NoSilentLoss ==
  \A x \in accepted : success[x] = 0 =>
    \E id \in DOMAIN jobs :
      /\ jobs[id].payload = x
      /\ Waiting(jobs[id]) \/ jobs[id].state = "active" \/ Listed(jobs[id])

Handlers(id) == {e \in Execution : handling[e] = id}

\* Only its own expiry makes a job run beside itself: next to the attempt that
\* the table counts as active, at most one handler for each expiry of this very
\* job is in progress.  Neither retry requests nor dying workers add to that,
\* nor a late handler whose error fails the attempt of its successor.
OverlapsNeedExpiry ==
  \A id \in DOMAIN jobs :
    Cardinality(Handlers(id)) <= Overruns(id) + (IF jobs[id].state = "active" THEN 1 ELSE 0)

\* Work that keeps failing is bounded, whether its handler throws, its worker
\* dies or its time runs out: its handler is called at most retryLimit + 1
\* times for the publication and for each id of a retry request.
AttemptBudget ==
  \A id \in DOMAIN jobs :
    LET x == jobs[id].payload
    IN  invoked[x] <= (1 + asked[x]) * (RetryLimit[jobs[id].name.queue] + 1)

\* The handler succeeds again on the same work only for a replay that was
\* asked for or an attempt whose time ran out.
RepeatsHaveACause == \A x \in Payload : success[x] <= 1 + asked[x] + expired[x]

\* A dead letter entry disappears only after its work was sent anew.
EntriesLeaveAfterTheirReplay ==
  [][\A id \in DOMAIN jobs \ DOMAIN jobs' :
       \E new \in DOMAIN jobs : /\ new > id
                                /\ ~jobs[new].name.dead
                                /\ jobs[new].payload = jobs[id].payload]_vars

\* What the driver's user knows about a piece of work.
StatusOf(x) ==
  IF success[x] > 0 THEN "done"
  ELSE IF x \notin accepted THEN "new"
  ELSE IF \E id \in DOMAIN jobs :
            /\ jobs[id].payload = x
            /\ Waiting(jobs[id]) \/ jobs[id].state = "active"
         THEN "pending"
  ELSE IF \E id \in DOMAIN jobs : jobs[id].payload = x /\ Listed(jobs[id])
         THEN "listed"
  ELSE "lost"

Work == INSTANCE WorkQueue WITH status <- [x \in Payload |-> StatusOf(x)]

\* The driver keeps the promise of WorkQueue.
ImplementsWorkQueue == Work!Spec

\* Accepted work does not stay unattended: in the end it is done or listed,
\* although workers die and handlers are abandoned.
WorkSettles ==
  \A x \in Payload :
    x \in accepted ~> StatusOf(x) \in {"done", "listed"}

-----------------------------------------------------------------------------
(* The inductive invariant behind the safety properties. *)

\* Nothing runs a dead letter entry itself: its replay is a new job.
DeadLettersRest ==
  \A id \in DOMAIN jobs : jobs[id].name.dead => jobs[id].state = "created"

\* An execution is one of a job of a primary queue, which nothing deletes, and
\* one whose handler returned has done the work.
ExecutionsKnowTheirJobs ==
  \A e \in Execution :
    /\ handling[e] # 0 =>
         handling[e] \in DOMAIN jobs /\ ~jobs[handling[e]].name.dead
    /\ returned[e] =>
         handling[e] # 0 /\ success[jobs[handling[e]].payload] > 0

\* A request deletes nothing but the entry it read, after its work was sent.
RequestsKnowTheirEntries ==
  \A c \in Caller : call[c].stage \in {"send", "delete"} =>
    /\ call[c].payload \in accepted
    /\ call[c].entry < nextId
    /\ call[c].entry \in DOMAIN jobs =>
         /\ jobs[call[c].entry].name.dead
         /\ jobs[call[c].entry].payload = call[c].payload
    /\ call[c].stage = "delete" =>
         \E new \in DOMAIN jobs : /\ new > call[c].entry
                                  /\ ~jobs[new].name.dead
                                  /\ jobs[new].payload = call[c].payload

\* Only accepted work is in the table or done, and accepted work has a job.
WorkIsAccepted ==
  /\ \A id \in DOMAIN jobs : jobs[id].payload \in accepted
  /\ \A x \in Payload : success[x] > 0 => x \in accepted
  /\ \A x \in accepted :
       \E id \in DOMAIN jobs : ~jobs[id].name.dead /\ jobs[id].payload = x

CompletedWorkIsDone ==
  \A id \in DOMAIN jobs : jobs[id].state = "completed" => success[jobs[id].payload] > 0

IInv ==
  /\ TypeOK
  /\ DeadLettersRest
  /\ ExecutionsKnowTheirJobs
  /\ RequestsKnowTheirEntries
  /\ WorkIsAccepted
  /\ CompletedWorkIsDone
  /\ OverlapsNeedExpiry

=============================================================================
