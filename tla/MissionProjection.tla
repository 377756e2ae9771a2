-------------------------- MODULE MissionProjection --------------------------
(***************************************************************************)
(* From POST /api/missions to a page in Notion: MissionService accepts a   *)
(* mission and publishes the job mission.project-to-notion, whose handler  *)
(* creates the page, links it to the mission and keeps a run log.  The job *)
(* runs in InlineQueueDriver, inside the request that publishes it or the  *)
(* one that retries it, so the module composes the handler with            *)
(* InlineQueue: a handler that returns or throws is a step of the queue.   *)
(*                                                                         *)
(* Every step of a call ends at an await: of the repository, which persists *)
(* what is already changed in memory, or of Notion.  Two awaits in a row   *)
(* with nothing but an audit event between them are one stage.             *)
(***************************************************************************)
EXTENDS Naturals, Sequences, FiniteSets

CONSTANTS
  Caller,      \* requests in progress at one time
  Queue,       \* the job name of the projection, as a set
  RetryLimit,  \* its retryLimit, as a function on Queue
  Mission,     \* missions that are ever posted
  MaxJobs,     \* bound: no request creates a job once this many exist
  MaxBatch,    \* bound: ids in one retry request
  Faults       \* which of "refused", "lost" and "io" may happen

ASSUME FaultsAssumption == Faults \subseteq {"refused", "lost", "io"}

ASSUME CallersAssumption == IsFiniteSet(Caller)

VARIABLES
  jobs, nextId, running, replaying, name, todo,   \* the queue driver
  accepted, success, invoked, asked,              \* histories of the queue
  stage,       \* where each request is
  posting,     \* the mission it creates, as a set; empty for a retry
  mission,     \* status and Notion link of each mission, in memory
  pages,       \* how many pages Notion has for each mission
  runs,        \* how many workflow_runs of each status a mission has
  answer,      \* the page that Notion created for a request, 0 if none
  happened     \* history: the faults that have happened

Q == INSTANCE InlineQueue WITH Payload <- Mission

ASSUME QueueAssumption == Q!ConstantsAssumption

queueVars == <<jobs, nextId, running, replaying, name, todo,
               accepted, success, invoked, asked>>
vars == <<queueVars, stage, posting, mission, pages, runs, answer, happened>>

Stage == {"idle", "accepting", "announcing", "creating", "updating",
          "closing", "reporting", "queueing"}
InTheHandler == {"announcing", "creating", "updating", "closing", "reporting"}
RunStatus == {"queued", "running", "succeeded", "failed"}
MissionStatus == {"unknown", "accepted", "projected", "in_execution"}

\* The mission whose projection the handler called by c works on.
Subject(c) == jobs[running[c]].payload

-----------------------------------------------------------------------------
TypeOK ==
  /\ Q!TypeOK
  /\ stage \in [Caller -> Stage]
  /\ posting \in [Caller -> SUBSET Mission]
  /\ mission \in [Mission -> [status : MissionStatus, page : Nat]]
  /\ pages \in [Mission -> Nat]
  /\ runs \in [Mission -> [RunStatus -> Nat]]
  /\ answer \in [Caller -> Nat]
  /\ happened \subseteq Faults

Init ==
  /\ Q!Init
  /\ stage = [c \in Caller |-> "idle"]
  /\ posting = [c \in Caller |-> {}]
  /\ mission = [x \in Mission |-> [status |-> "unknown", page |-> 0]]
  /\ pages = [x \in Mission |-> 0]
  /\ runs = [x \in Mission |-> [s \in RunStatus |-> 0]]
  /\ answer = [c \in Caller |-> 0]
  /\ happened = {}

-----------------------------------------------------------------------------
(* recordWorkflowRun() and what a request does when the queue goes on.      *)

\* A run record of status s for x, the request c being in stage g from then.
Record(c, x, s, g) ==
  /\ runs' = [runs EXCEPT ![x][s] = @ + 1]
  /\ stage' = [stage EXCEPT ![c] = g]

\* The queue calls the handler, which records that it runs.  When it calls no
\* handler any more, createMission() records the job it published as queued
\* and a retry request is answered.
Continue(c) ==
  \/ /\ running'[c] # 0
     /\ Record(c, jobs'[running'[c]].payload, "running", "announcing")
  \/ /\ running'[c] = 0
     /\ \E x \in posting[c] : Record(c, x, "queued", "queueing")
  \/ /\ running'[c] = 0
     /\ posting[c] = {}
     /\ stage' = [stage EXCEPT ![c] = "idle"]
     /\ UNCHANGED runs

Happens(fault) == fault \in Faults /\ happened' = happened \cup {fault}

-----------------------------------------------------------------------------
(* MissionService.createMission() and the retry request. *)

Accept(c, x) ==
  /\ stage[c] = "idle"
  /\ mission[x].status = "unknown"
  /\ mission' = [mission EXCEPT ![x].status = "accepted"]
  /\ posting' = [posting EXCEPT ![c] = {x}]
  /\ stage' = [stage EXCEPT ![c] = "accepting"]
  /\ UNCHANGED <<queueVars, pages, runs, answer, happened>>

\* The request fails; the mission stays in memory and no job is published.
AcceptFails(c) ==
  /\ stage[c] = "accepting"
  /\ Happens("io")
  /\ posting' = [posting EXCEPT ![c] = {}]
  /\ stage' = [stage EXCEPT ![c] = "idle"]
  /\ UNCHANGED <<queueVars, mission, pages, runs, answer>>

PublishJob(c) ==
  /\ stage[c] = "accepting"
  /\ \E q \in Queue, x \in posting[c] : Q!Publish(c, q, x)
  /\ Continue(c)
  /\ UNCHANGED <<posting, mission, pages, answer, happened>>

\* The record of the queued job is stored, or not: nothing depends on it.
Answer(c) ==
  /\ stage[c] = "queueing"
  /\ posting' = [posting EXCEPT ![c] = {}]
  /\ stage' = [stage EXCEPT ![c] = "idle"]
  /\ UNCHANGED happened \/ Happens("io")
  /\ UNCHANGED <<queueVars, mission, pages, runs, answer>>

\* POST /api/queue/retry.
RetryJobs(c, n, ids) ==
  /\ stage[c] = "idle"
  /\ Q!Retry(c, n, ids)
  /\ Continue(c)
  /\ UNCHANGED <<posting, mission, pages, answer, happened>>

-----------------------------------------------------------------------------
(* The handler of mission.project-to-notion. *)

\* Mutant of Throw: the request ends although the handler is called again.
ThrowAndLeave(c) ==
  /\ Q!HandlerThrowsAndRetries(c) \/ Q!HandlerThrowsAndFails(c)
  /\ stage' = [stage EXCEPT ![c] = "idle"]
  /\ UNCHANGED runs

\* The handler throws: the queue calls it again or gives the job up.
Throw(c) ==
  /\ Q!HandlerThrowsAndRetries(c) \/ Q!HandlerThrowsAndFails(c)
  /\ Continue(c)

\* Recording "running" is outside the try block: when it fails, the handler
\* throws without a record of the failure.
AnnounceFails(c) ==
  /\ stage[c] = "announcing"
  /\ Happens("io")
  /\ Throw(c)
  /\ UNCHANGED <<posting, mission, pages, answer>>

RequestPage(c) ==
  /\ stage[c] = "announcing"
  /\ stage' = [stage EXCEPT ![c] = "creating"]
  /\ UNCHANGED <<queueVars, posting, mission, pages, runs, answer, happened>>

\* Notion creates the page; its answer is on the way.
NotionCreatesPage(c) ==
  LET x == Subject(c) IN
  /\ stage[c] = "creating"
  /\ answer[c] = 0
  /\ pages' = [pages EXCEPT ![x] = @ + 1]
  /\ answer' = [answer EXCEPT ![c] = pages[x] + 1]
  /\ UNCHANGED <<queueVars, stage, posting, mission, runs, happened>>

\* Mutant of PageCreated: a status that missions do not have.
PageCreatedDone(c) ==
  /\ stage[c] = "creating"
  /\ answer[c] # 0
  /\ mission' = [mission EXCEPT ![Subject(c)] =
                   [status |-> "done", page |-> answer[c]]]
  /\ answer' = [answer EXCEPT ![c] = 0]
  /\ stage' = [stage EXCEPT ![c] = "updating"]
  /\ UNCHANGED <<queueVars, posting, pages, runs, happened>>

\* pages.create() resolves; updateMission() sets the link and the status.
PageCreated(c) ==
  /\ stage[c] = "creating"
  /\ answer[c] # 0
  /\ mission' = [mission EXCEPT ![Subject(c)] =
                   [status |-> "projected", page |-> answer[c]]]
  /\ answer' = [answer EXCEPT ![c] = 0]
  /\ stage' = [stage EXCEPT ![c] = "updating"]
  /\ UNCHANGED <<queueVars, posting, pages, runs, happened>>

\* Mutants of PageFails: the failure is not recorded; it is taken for a
\* success; the promise that rejected was never awaited.
PageFailsSilently(c) ==
  /\ stage[c] = "creating"
  /\ Happens(IF answer[c] = 0 THEN "refused" ELSE "lost")
  /\ answer' = [answer EXCEPT ![c] = 0]
  /\ stage' = [stage EXCEPT ![c] = "reporting"]
  /\ UNCHANGED <<queueVars, posting, mission, pages, runs>>

PageFailsUnnoticed(c) ==
  /\ stage[c] = "creating"
  /\ Happens(IF answer[c] = 0 THEN "refused" ELSE "lost")
  /\ answer' = [answer EXCEPT ![c] = 0]
  /\ Record(c, Subject(c), "succeeded", "closing")
  /\ UNCHANGED <<queueVars, posting, mission, pages>>

PageFailsUnawaited(c) ==
  /\ stage[c] = "creating"
  /\ Happens(IF answer[c] = 0 THEN "refused" ELSE "lost")
  /\ answer' = [answer EXCEPT ![c] = 0]
  /\ Record(c, Subject(c), "failed", "idle")
  /\ UNCHANGED <<queueVars, posting, mission, pages>>

\* pages.create() rejects: Notion refused, or did the work and its answer is
\* lost.
PageFails(c) ==
  /\ stage[c] = "creating"
  /\ Happens(IF answer[c] = 0 THEN "refused" ELSE "lost")
  /\ answer' = [answer EXCEPT ![c] = 0]
  /\ Record(c, Subject(c), "failed", "reporting")
  /\ UNCHANGED <<queueVars, posting, mission, pages>>

LinkStored(c) ==
  /\ stage[c] = "updating"
  /\ Record(c, Subject(c), "succeeded", "closing")
  /\ UNCHANGED <<queueVars, posting, mission, pages, answer, happened>>

\* Mutant of StoreFails: the handler itself starts over.
StoreFailsAndRepeats(c) ==
  /\ stage[c] \in {"updating", "closing"}
  /\ Happens("io")
  /\ Record(c, Subject(c), "failed", "creating")
  /\ UNCHANGED <<queueVars, posting, mission, pages, answer>>

\* updateMission(), its audit event or the record "succeeded" is not stored:
\* the catch block records a failure although the page exists.
StoreFails(c) ==
  /\ stage[c] \in {"updating", "closing"}
  /\ Happens("io")
  /\ Record(c, Subject(c), "failed", "reporting")
  /\ UNCHANGED <<queueVars, posting, mission, pages, answer>>

\* Mutant of HandlerReturns: the queue does not learn of it.
HandlerReturnsUnnoticed(c) ==
  /\ stage[c] = "closing"
  /\ stage' = [stage EXCEPT ![c] = "idle"]
  /\ UNCHANGED <<queueVars, posting, mission, pages, runs, answer, happened>>

HandlerReturns(c) ==
  /\ stage[c] = "closing"
  /\ Q!HandlerSucceeds(c)
  /\ Continue(c)
  /\ UNCHANGED <<posting, mission, pages, answer, happened>>

\* The record "failed" is stored, or not: the handler throws in both cases.
HandlerThrows(c) ==
  /\ stage[c] = "reporting"
  /\ UNCHANGED happened \/ Happens("io")
  /\ Throw(c)
  /\ UNCHANGED <<posting, mission, pages, answer>>

-----------------------------------------------------------------------------
\* BusinessFlowService.bootstrapFlow() ends by putting the mission into
\* execution, whatever its status.
BootstrapFlow(x) ==
  /\ mission[x].status # "unknown"
  /\ mission' = [mission EXCEPT ![x].status = "in_execution"]
  /\ UNCHANGED <<queueVars, stage, posting, pages, runs, answer, happened>>

Step(c) ==
  \/ AcceptFails(c) \/ PublishJob(c) \/ Answer(c)
  \/ AnnounceFails(c) \/ RequestPage(c)
  \/ NotionCreatesPage(c) \/ PageCreated(c) \/ PageFails(c)
  \/ LinkStored(c) \/ StoreFails(c) \/ HandlerReturns(c) \/ HandlerThrows(c)

Next ==
  \/ \E c \in Caller :
       \/ \E x \in Mission : Accept(c, x)
       \/ \E n \in Q!JobName, ids \in Q!Batch : RetryJobs(c, n, ids)
       \/ Step(c)
  \/ \E x \in Mission : BootstrapFlow(x)

\* File system and HTTP calls settle, so a request in progress goes on.
Fairness == \A c \in Caller : WF_vars(Step(c))

Spec == Init /\ [][Next]_vars /\ Fairness

-----------------------------------------------------------------------------
(* Properties. *)

\* The run log and the queue agree, whatever fails and however retries of the
\* same mission overlap: one record "running" for each call of the handler,
\* and a handler is called only from within a request in one of its stages.
RunLogMatchesQueue ==
  /\ \A x \in Mission : runs[x]["running"] = invoked[x]
  /\ \A c \in Caller : stage[c] \in InTheHandler <=> running[c] # 0

\* As long as every persist succeeds, each call of the handler ends with
\* exactly one record of its outcome, and the outcome is the queue's.
Busy(x, stages) == {c \in Caller : stage[c] \in stages /\ Subject(c) = x}

OutcomesAreRecorded ==
  "io" \notin happened => \A x \in Mission :
    /\ runs[x]["running"] = runs[x]["succeeded"] + runs[x]["failed"]
         + Cardinality(Busy(x, {"announcing", "creating", "updating"}))
    /\ runs[x]["succeeded"] = success[x] + Cardinality(Busy(x, {"closing"}))

\* A projection that is reported as done, by the queue or by the run log, is
\* done: the mission has the link of a page that exists, for good.
SuccessIsReal ==
  \A x \in Mission :
    /\ mission[x].page <= pages[x]
    /\ success[x] > 0 \/ runs[x]["succeeded"] > 0 => mission[x].page # 0

\* Duplicated pages are bounded by the calls of the handler, and so by what was
\* asked for: retryLimit + 1 of them for the mission and for each id of a retry
\* request that named a job of it.  Without lost answers and failed persists
\* every page is linked by a successful call, and there is one at most for the
\* mission and for each id.
DuplicatesAreBounded ==
  \A x \in Mission :
    /\ pages[x] <= invoked[x]
    /\ \A id \in DOMAIN jobs : jobs[id].payload = x =>
         pages[x] <= (1 + asked[x]) * (RetryLimit[jobs[id].name.queue] + 1)
    /\ happened \subseteq {"refused"} =>
         /\ pages[x] <= success[x] + Cardinality(Busy(x, {"creating", "updating", "closing"}))
         /\ pages[x] <= 1 + asked[x]

\* The queue inside this system is InlineQueue, and its assumption that
\* handlers settle follows from the fairness of file system and HTTP calls.
ImplementsQueue == Q!Spec

\* The requests that publish or replay the projection of a mission are answered,
\* however often its handler throws.
RequestsReturn == Q!CallsReturn

\* A mission whose acceptance was stored ends up linked to a page, or has a
\* failed job that the operator sees.
Linked(x) == mission[x].page # 0
GivenUp(x) == \E id \in DOMAIN jobs : jobs[id].payload = x /\ Q!Listed(jobs[id])
ProjectionSettles ==
  \A x \in Mission : x \in accepted ~> Linked(x) \/ GivenUp(x)

\* The documented contract with Notion: one page per mission.
OnePagePerMission == \A x \in Mission : pages[x] <= 1

\* The documented mission life cycle: a mission in execution is not put back
\* to an earlier status.
ExecutionIsNotReverted ==
  [][\A x \in Mission :
       mission[x].status = "in_execution" => mission'[x].status = "in_execution"]_vars

-----------------------------------------------------------------------------
(* The inductive invariant behind the safety properties. *)

\* A page that Notion created is on its way to the one request that asked for
\* it, and a mission whose page was linked keeps a link.
RequestsKnowTheirPages ==
  \A c \in Caller :
    /\ answer[c] # 0 => stage[c] = "creating" /\ answer[c] <= pages[Subject(c)]
    /\ stage[c] \in {"updating", "closing"} => mission[Subject(c)].page # 0

\* The calls of the handler for x that have no page yet, and those that have.
Unanswered(x) ==
  {c \in Caller :
     /\ stage[c] = "announcing" \/ (stage[c] = "creating" /\ answer[c] = 0)
     /\ Subject(c) = x}

Answered(x) ==
  {c \in Caller :
     /\ stage[c] \in {"updating", "closing"} \/ (stage[c] = "creating" /\ answer[c] # 0)
     /\ Subject(c) = x}

PagesAreCounted ==
  \A x \in Mission :
    /\ pages[x] + Cardinality(Unanswered(x)) <= invoked[x]
    /\ happened \subseteq {"refused"} => pages[x] <= success[x] + Cardinality(Answered(x))

IInv ==
  /\ TypeOK
  /\ Q!IInv
  /\ RunLogMatchesQueue
  /\ OutcomesAreRecorded
  /\ SuccessIsReal
  /\ RequestsKnowTheirPages
  /\ PagesAreCounted

=============================================================================
