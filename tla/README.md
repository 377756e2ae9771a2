# A verification development of squadgmv

squadgmv is a runtime for a company run by agents.  An operator posts missions;
the runtime projects them to Notion, starts business flows for them, hands work
from agent to agent, escalates it along a chain of command, collects approvals
and validations, and mirrors its state to Notion.  The code of interest is a
TypeScript monorepo: `packages/domain` (services), `packages/queue` (jobs),
`packages/notion-adapter`, `apps/runtime` (wiring, HTTP API, worker and the
repository on a file) and `bin/gmv.ts` (CLI).

This directory holds TLA+ modules translated from that code, configurations
that check them with TLC on small instances, and theorems about them that TLAPS
checks for every value of the constants.  `PROJECT.json` maps every definition
to its source lines, and lists the runs, a mutant of the code for each property,
the hazards of the code and what covers them.

## 1. Inventory

Everything runs in Node.js: within one process nothing interrupts a piece of
code between two `await`s, and everything may happen at an `await`.  All state
of a process is one object in memory; every mutation changes it and then awaits
a rewrite of one JSON file.  A request is therefore a sequence of atomic steps
that end at awaits of the file, of Notion, or of a job handler.

| Component | State it keeps | Operations | Talks to |
|---|---|---|---|
| State file (`file-runtime-repository.ts`) | memory image, JSON file | `initialize`, `seedAgents`, about forty mutations, `persist` | file system; every service |
| Inline queue driver (`queue/src/index.ts`) | map of jobs | `register`, `publish`, `executeInlineJob`, `retry`, `listFailed`, `stats` | job handlers |
| pg-boss queue driver (same file) | the job table of pg-boss | the same interface; dead letter entries are read, sent anew and deleted | PostgreSQL, job handlers |
| Missions and projection (`MissionService`, `PlanningService.projectMissionToPlanningSystem`, handler in `bootstrap.ts`) | missions, workflow runs | `createMission`, handler `mission.project-to-notion`, `POST /api/queue/retry` | queue, Notion, state file |
| Handoffs and escalation (`HandoffService`, `EscalationService`, `governance.ts`) | handoffs, escalations, audit events | create, respond, escalate, force | state file, routing |
| Expansion (`ExpansionService`) | agents, capabilities, onboarding records | `createCapability`, `onboardAgent` | routing |
| Flow bootstrap (`business-flows.ts`) | items, handoffs, approvals, validations, runs, memory of a flow | `bootstrapFlow` (find or create, in loops of awaits) | routing, missions |
| Planning sync (pull), governance sync (push) | planning items, story files; what pages show | `syncPlanningTree`, `syncGovernanceState`, from routes, jobs and commands | Notion, disk, state file |
| Approvals, validations, gate policies | their records | request, decide, record, create | flow bootstrap; a push follows each |
| Runtime start (`bootstrap.ts`) | seeds | `createRuntimeContext`, `seedDefaultCapabilities`, `seedDefaultGovernancePolicies` | state file, queue |
| Reports and scheduler | snapshots | generate, enqueue, timer | queue |
| Optimization, boards, memory, contracts, config, auth, dashboard | records or nothing | see `PROJECT.json` | |

### How they interact

    POST /api/missions -> createMission -> state file
                                        -> publish -> handler -> Notion
                                                              -> updateMission -> state file
                       <- queued record (workflow run)
    POST /api/queue/retry -> retry -> handler ...
    POST /api/handoffs, /:id/respond, /:id/escalate -> state file, several times
    POST /api/onboarding, /api/capabilities        -> what routing reads
    flow start -> items, handoffs, approvals, ... -> mission status -> push
    approvals, decisions, validations -> state file -> push -> Notion pages
    humans -> Notion pages -> pull -> planning items, story files

### What is hard

* `persist` is an unserialised truncating `writeFile`.  Requests of one process
  overlap in it; processes share the file; a process may die in it.
* `publish` awaits the whole job, retries included, in the request that called
  it, and `retry` runs jobs in a loop of awaits; dead letter entries are replayed
  and then deleted.
* Notion creates pages without an idempotency key; its answer may be lost.
* Pulls and pushes await Notion for every database and every page: they work on
  snapshots, overlap each other, and humans edit pages in between.
* pg-boss workers die or run longer than their job may: the job is executed
  again beside them.  A restart loses the inline queue and keeps the other one.
* Mutations that fail to persist stay in memory.  Services of several mutations
  stop in the middle and are not rolled back.
* Checks (routes, duplicates, statuses) are made before an await and relied on
  after it.

### What makes each component correct

* State file: what a caller was told is stored survives a restart; a state file
  that was damaged becomes whole again.
* Queue, whichever driver: accepted work is pending or listed for the operator
  until it is done; a job runs beside itself never (inline driver), or in one
  handler more for each time that its own time was up (pg-boss); attempts and
  repeats are bounded by what was asked for; calls return.
* Projection: success means that a page exists and is linked; the run log tells
  what happened; every mission gets a page or a visible failure; one page each.
* Handoffs: escalation replaces a handoff once, records it, and climbs;
  nothing is addressed to paused agents or disabled sectors; the audit trail is
  complete.
* Flow bootstrap: one set of records per flow and mission, whatever overlaps.
* Syncs: when requests are over and nothing known to disturb them happened, a
  page shows the latest decisions about its item, a record has the revision of
  its page, and the file of a ready story has the revision of its record; a pull
  loses no parent it could have found.

## 2. Modules

| Module | What it is |
|---|---|
| `DurableStore` | abstract: acknowledged changes stay, until the store is disturbed |
| `StateFile` | the repository on a file; implements `DurableStore` |
| `WorkQueue` | abstract: what a queue driver promises about accepted work |
| `InlineQueue` | the inline driver, with handlers that succeed or throw; implements `WorkQueue` |
| `PgBossQueue` | the pg-boss driver with pg-boss and its workers; implements `WorkQueue` |
| `MissionProjection` | missions, the projection handler and Notion; composes `InlineQueue` by `INSTANCE` and implements it |
| `Handoffs` | handoffs, escalation, routing, and what onboarding changes about it |
| `FlowBootstrap` | `bootstrapFlow` of several calls and flows, the gates that operators create, the agents that are onboarded meanwhile, and restarts |
| `NotionSync` | pulls and pushes between planning items and Notion pages, with decisions, validations, bootstraps and humans |
| `...Proofs` | the theorems about the module of that name and their proofs |
| `Counting` | a counting argument that the proofs about both queue drivers share |
| `MC...` | instances for TLC |

The composition is where components share state that matters: `MissionProjection`
on `InlineQueue`, both queue drivers under `WorkQueue`, pulls, pushes and
bootstraps on the same records in `NotionSync`, routing and gates in `Handoffs`
and `FlowBootstrap`.  `StateFile` stands alone: in the other modules a `persist`
succeeds or rejects, and what the file makes of overlaps and crashes is its
subject.

### StateFile

A mutation is a record that only it adds, so a snapshot is a set of records and
its length on disk grows with their number.  `up` is the life cycle of each
process, `mem` its `this.state`, `phase` and `snap` the `persist` of each writer
(a request, or a starting process), `file` the content on disk: a document, or
something of a given length that does not parse.

* `Mutate` is any mutation of the repository: the record enters memory and
  `persist` serialises its snapshot in the same turn.
* `Truncate`, `Write`: `writeFile` opens with truncation and writes at offset 0.
  A shorter document written over a longer one leaves its tail (`Overlay`), which
  does not parse.  One `write` call is one step; the documents of this runtime
  are larger than a page, but partial writes appear as errors only.
* `Start`, `Seed`, `Serve`: `initialize` reads the file, taking one it cannot
  read or parse for none, in which case it persists the default state; then the
  seeds are persisted.  Reading and the first `persist` of a start are one step,
  and the several seeding persists are represented by one.
* `Exit` ends a process, anywhere with "kill".  `RequestFails`, `StartFails` are
  rejected writes: the record stays in memory, its caller sees an error.

History variables: `acked` (what callers saw succeed), `solo` (persists that no
other one overlapped), `causes` (events that disturb the store: overlap of
persists, a process starting next to another, a kill inside a persist, a failed
write).

### InlineQueue

`jobs` is the map, `running[c]` the job that call `c` awaits, `replaying[c]` the
dead letter entry that `retry` deletes after the replay, `name[c]`, `todo[c]` the
rest of its loop.  Everything between two handler calls is one step:
`Publish`, `Retry`, and then `HandlerSucceeds`, `HandlerThrowsAndRetries`,
`HandlerThrowsAndFails`, which end with the rest of `executeInlineJob`, the
deletion of the replayed entry and the loop of `retry` up to the next handler
call (`Resume`, `Proceed`).  A retry request of which nothing can be replayed
changes nothing and is left out.  Only dead letter queues of one level exist,
as `bootstrap.ts` registers them.  `register` happens before the first call.

`ImplementsWorkQueue` maps the state to what the driver's user knows of each
payload (`StatusOf`): "done" once its handler succeeded, "pending" while a job of
it is queued or executed, "listed" while only `listFailed` has it; "lost" is no
status of `WorkQueue`.

### PgBossQueue

`jobs` is the job table; an execution `e` is a handler that was called for the
job `handling[e]`, and stays after its job has expired.

* `Publish`, `Fetch`, `HandlerSucceeds` and then `Complete`, `HandlerThrows`: the
  way of a job.  The handler's effect and the completion are two steps, between
  which the worker may die (`Abandon`) or the job expire (`Expire`).
* `FailAttempt`, `CompleteAttempt` are pg-boss's statements: they change active
  jobs only.  With no attempt left, the job fails and a copy enters the dead letter queue.
* `RetryFailed` is one statement on all the ids of failed jobs.  A replay of dead
  letter entries is the loop `RequestReplay`, then `Get`, `Send`, `DeleteEntry`
  for each id, with an await between; `GetNothing` passes over an id,
  `RequestFails` is an error or the end of the process anywhere.
* pg-boss is external and modelled from how the driver uses it.  Left out: the
  removal of old jobs after its retention time, delays between attempts, and
  `getStats` and `listFailed`, which only read.  Which process runs workers
  (the worker or the API) only decides that some process does.

History variables: `invoked` and `success` (calls of the handler and their
successes), `asked` (the ids of retry requests, by the work they named), `expired`
(expiries, by payload) and `overruns` (expiries, by job).

### MissionProjection

Adds the stage of each request, the missions, Notion's page count, the workflow
run log and the answer that is on the way from Notion.  The handler's throws and
returns are the steps of `InlineQueue`; `Continue` adds what the request does
next (the handler records "running"; `createMission` records "queued").  Faults:
"refused" (Notion rejects), "lost" (Notion did it, the answer does not arrive),
"io" (a persist rejects).  `BootstrapFlow` is the last change of a flow's start,
which sets the mission to `in_execution`; the rest of it is in `FlowBootstrap`.  An audit
event that follows a mutation is part of the same stage.  A fault "io" stands for
a failure of either persist.

### Handoffs

`call[c]` is the sequence of changes that the request `c` has still to make: a
service reads, checks and makes its first change in one turn, and each further
change after the `persist` of the one before (`Proceed`).  `Fail` is a `persist`
that rejects, or the end of the process: the rest of the call never happens
(`lost`).  What is abstracted:

* "staff" stands for workers, specialists and human operators, which
  `resolveEscalationTarget` treats alike; the status "completed" stands for
  "failed", and "needs_changes" is stored as "rejected" by the code itself;
  the origin, priority and payload of a handoff are left out;
* the code takes the first matching agent of a list, the model any matching one;
* the audit events at the end of a call are one change;
* onboarding and capabilities are modelled by their effect on routing, as
  changes of other requests; the records they leave are read by nothing else;
* agents have ids, which onboarding replaces: a handoff is addressed to an id;
* no operation sets the statuses accepted, running and expired;
* the handoffs that a flow creates belong to `FlowBootstrap`.

### FlowBootstrap

A call of `bootstrapFlow` reads the agents once (`directory`), stores the
planning items, and goes through five stages: handoffs, approvals, validations,
workflow runs and memory records.  In each it reads the definitions (`todo`;
for the gates of a flow the active policies, if there is one) and the records
there are (`existing`), and creates what is missing in a loop of awaits.
`Begin`, `Ensure` and `Update` reach from one `persist` to the next; `Ensure`
therefore steps over stages in which nothing is missing, and reads a stage in
the step that creates its first record.  `Refuse` is a throw of
`getAgentBySlug` or `assertRouteAvailable`, `Fail` a `persist` that rejects or
the end of the process.  `CreateGatePolicy`, `Onboard` and `CreateCapability`
are the requests that change what a bootstrap reads.

The first start seeds the default gates and capabilities one persist at a time
and not at all when there are some, so that a start that is cut off leaves a
prefix of them for good (`FirstDefaults`, `FirstEnabled`).  `Restart` seeds the
default gates again when operators left none active.  Calls in progress end by
`Fail` before it; it finds what was in memory, since what a restart may lose is
the subject of `StateFile`.

* A record is told from another by the fields that the code compares: `Key`.
  `what` folds the item (or title) and the type; `from` and `to` are the ids of
  the agents involved, 0 where the code compares none.
* `createGatePolicy` accepts the id of an agent for a slug; `AnId` stands for it.
* The audit event after a record is part of its creation, so `Fail` right after
  a creation may or may not have it; no property is about it.
* The built-in definitions and the gates of the seed are constants.  Records
  that operators create by hand through other routes, and the statuses that
  records get later, are left out: the code compares neither.
* One mission is modelled; records of different missions never count as the same.

History variables: `beside` (the calls that overlapped each call) and `standing`
(the gates that were in force for a call's flow when it began and were not
replaced since).

### NotionSync

A page shows a revision (the planning and execution status of its item, which
humans write too), the checkbox "Validation Needed", an approval and a validation.
A record (`item`) has a revision, the checkbox, the link of its page and its
parent; `review` says of each item whether a handoff of it needs a validation.
An item without a validation that needs one, by its checkbox or by a handoff, has
the validation "pending" (`Needed`, `LatestVerdict`).  `call[c]` is what the
request `c` has under way:

* "storing": it changed records in memory and awaits `persist`
  (`RequestApproval`, `DecideApproval`, `RecordValidation`, `BootstrapFlow`);
  then it pushes the items of its scope (`ReadAfterStore`), or fails
  (`StoreFails`).  A bootstrap goes on after its planning items: `SeedNext`
  creates the next of its handoffs, approvals and validations (`Seeds`), unless it
  is there, and all items are pushed when none is left;
* "pushing": `syncGovernanceState` has read records, approvals and validations
  in one turn (`Read`), and writes one page after the other: a record without a
  link is looked up by its Runtime ID (`Resolve`), pages are overwritten
  (`Update`), an error ends the push, before or after Notion wrote (`PushFails`).
  `SyncGovernance` is the push without a change;
* "pulling": `syncPlanningTree` queries four databases one after the other
  (`StartPull`, `Query`); each answers with its first `PageSize` pages.  All
  records are then replaced in one turn (`Upsert`);
* "mirroring": the files of ready stories are written one by one (`Mirror`), or
  the pull fails on the way (`PullFails`).

`RespondToHandoff` changes `review` and makes no push; its `persist` changes
nothing more and is left out.  Humans create and edit pages at any time
(`CreatePage`, `EditPage`).  What is abstracted: planning and execution status are
one revision number, which a push writes back and a bootstrap sets to 0; approvals
are ordered by their latest change, so ties of their timestamps are left out;
`review` is one value for all handoffs of an item, which the answer to one of them
may leave or change; a bootstrap knows again what it created only as "may have
been there before" (which records count as the same is in `FlowBootstrap`); the
page of an item of the mission carries its Mission ID, so that a bootstrap pushes
all items of the model; pages are not archived; the writes of a push come in any
order.  Runtime IDs are unique among pages, as the contract asks.

History variables tell what may disturb the agreement of the two sides, so that
the properties can say "unless": `contested` (a request about the item failed, its
page was not found, pushes with different decisions overlapped, or its pending
validation came or went by a step that no push follows), `drifted` (the page was
edited, or another pull had read another revision), `unmirrored` (likewise for
files).  Each is cleared by the request that makes good.

## 3. Runs

| Run | Shows | Bounds |
|---|---|---|
| `state_file` | an undisturbed file keeps what was acknowledged; a persist that nothing overlaps repairs any file; `DurableStore` is implemented | 2 processes, 2 requests, 3 records, kills and I/O errors |
| `state_file_overlap` (violation) | two overlapping requests lose an acknowledged mutation, without any fault | 1 process, 2 requests, 3 records |
| `inline_queue` | `WorkQueue` is implemented, no job runs twice at once, attempts and replays are bounded | 2 calls, 2 queues with retry limits 1 and 0, 2 payloads, 5 jobs, 2 ids per request |
| `pgboss_queue` | `WorkQueue` is implemented, a job runs beside itself once per expiry of its own at most, attempts and repeats have a cause and a bound, entries leave after their replay, accepted work settles | 1 payload, 2 executions, 2 replays at a time, 4 jobs, 2 ids per request, 2 ids in all |
| `mission_projection` | run log, queue, missions and Notion agree under all faults; pages are bounded by what was asked for; `InlineQueue` with its fairness is implemented; every published mission gets a page or a visible failure; requests return | 1 mission, 2 requests, retry limit 1, 3 jobs |
| `mission_projection_pages` (violation) | a lost answer leads to a second page | 1 mission, "lost" only |
| `mission_projection_status` (violation) | a projection that ends after the flow was started takes the mission out of execution | 1 mission, "refused" only |
| `handoffs` | replacements, records, chain, routes and audit trail agree while calls overlap and are cut off | 2 calls, 4 agents, 5 agent ids, 1 creation, 3 handoffs, 2 answers, 1 failure |
| `handoffs_routing` (violation) | an escalation in progress addresses its replacement to an agent that was replaced since the check | 2 calls, 2 handoffs |
| `flow_bootstrap` | only overlapping calls make a record twice; stages come in order; a mission in execution has the handoffs, runs and memory records of its flow; gates that stand are asked | 3 calls, 2 of them at a time, 2 flows, 2 default gates, restarts, 1 change of gates, 1 onboarding, 1 capability |
| `notion_sync` | pages show decisions, records have the revisions of pages, story files those of records, up to what is known to disturb them; pulls keep parents | 3 items in 2 databases, 3 pages, 2 requests at a time and 3 in all, 3 edits, 3 seeds, 1 page per query |
| `notion_refinement` (violation) | a push writes an older status over the one a human set since the last pull | the same |

Why the bounds are enough to be of interest.  Overlaps need two requests; a third
adds no kind of pair.  Three records let a longer snapshot be overwritten by a
shorter one that still holds something.  Retry limits 1 and 0 give the first, a
middle and the last attempt; five jobs admit a job, its dead letter entry, a
replay and the dead letter entry of the replay, with another job in between.
In the pg-boss driver payloads meet only in the job table, and each job is about
one; four jobs of one payload admit a job, its entry, the entry's replay by two
overlapping requests, and two executions an expired one next to its successor.
Three jobs in the projection admit a failed job, its dead letter entry and a
replay; requests of different missions share nothing but the map of jobs, which
`inline_queue` checks with two payloads.  Three handoffs are a chain of two
escalations; four seeded agents hold every level; a fifth id is one onboarding,
of a new profile for an existing slug, between any two steps.  `MaxLost` 1 cuts
off one call (an escalation may lose up to three changes at once, so a second
failure could only follow a call that lost nothing).  Three bootstraps are two
that overlap and one that repeats what they left, or a flow and two of the flow
that needs it; `MaxRunning` 2 says how many overlap.  The two flows share the
gate that is about the whole project, one with a policy of the seed and one
built in, and the second gate that operators may create names an agent by its
id.  Two default gates let a first start end with one of them, and a restart
add the other or both.  In `NotionSync` a task below a story gives a relation
across databases, the other story makes a query leave a page out; the task is
seeded with a handoff that needs a validation, an approval and a validation, of
which each may come first; three requests are two that overlap in pull and push
and a third that disturbs or repairs; three edits create the three pages, or two
and edit one of them, its checkbox included.

Deadlock is not checked: a system whose bounded inputs are used up stops, and
nothing in the code waits on anything but the file system, Notion, PostgreSQL and
handlers, whose progress is the subject of the liveness properties.

Symmetry is used only where no liveness property is checked and only over
values that the configuration treats alike.  (`ImplementsWorkQueue` of
`inline_queue` has no fairness, so it is a safety property there.)

### Fairness

* `InlineQueue`: weak fairness of `HandlerSettles`.  A call awaits one handler
  at a time, and handlers await only file system and HTTP calls that end.
  `mission_projection` discharges it (`ImplementsQueue`): in the composed system
  it follows from the next assumption.
* `MissionProjection`: weak fairness of `Step(c)`, the next step of a request
  in progress.  File operations end, and the Notion client gives up after its
  time limit.  No fairness is assumed of requests, of operators' retries, of
  flows, or of a particular outcome.
* `PgBossQueue`: for each payload, weak fairness of fetching some waiting job of
  it (`Serve(x)`; some worker runs, and pg-boss fetches the oldest job first);
  for each execution, of its end, be it by success, by an error or by being
  abandoned (`Settles(e)`); and of expiry, which pg-boss looks for at intervals.
  `WorkSettles` does not assume that handlers ever succeed.
* `StateFile`, `Handoffs`, `FlowBootstrap`, `NotionSync`: safety only.

## 4. Proofs

TLC checks small instances; the following hold for all values of the constants,
under the assumptions named in the modules.

| Theorem | Argument |
|---|---|
| `StateFileProofs!TypeCorrect` | one step per action |
| `StateFileProofs!Durability` | inductive invariant `IInv` of `StateFile` |
| `StateFileProofs!Healing` | action property, from `SoloPersistsAreAlone` |
| `StateFileProofs!Refinement` | `StateFile` implements `DurableStore`: `Stored` is empty once disturbed, the snapshot being written while one is, the recoverable content otherwise |
| `InlineQueueProofs!TypeCorrect`, `Exclusion`, `NothingLost` | inductive invariant `IInv` of `InlineQueue` |
| `InlineQueueProofs!BoundedAttempts` (`AttemptBudget`), `ReplaysAreAsked` (`ReplayOnlyOnRequest`) | the inductive invariant `BudgetInv`, over `IInv` |
| `InlineQueueProofs!Refinement` (`ImplementsWorkQueue`) | from `IInv`: every step moves payloads along `WorkQueue!Move` |
| `PgBossQueueProofs!TypeCorrect`, `Exclusion` | inductive invariant `IInv` of `PgBossQueue` |
| `PgBossQueueProofs!ReplaysComeFirst` (`EntriesLeaveAfterTheirReplay`) | `RequestsKnowTheirEntries` |
| `PgBossQueueProofs!BoundedAttempts` (`AttemptBudget`), `RepeatsAreCaused` (`RepeatsHaveACause`) | the inductive invariant `BudgetInv`, over `IInv` |
| `PgBossQueueProofs!Refinement` (`ImplementsWorkQueue`) | from `IInv`, as above |
| `MissionProjectionProofs!TypeCorrect`, `RunLog`, `Outcomes`, `Success`, `Duplicates` | inductive invariant `IInv` of `MissionProjection`; `Duplicates` also needs the queue's `BudgetInv` |
| `MissionProjectionProofs!NothingForgotten` | the safety part of `ProjectionSettles`, from the queue's `NoSilentLoss` and `SuccessIsReal` |
| `MissionProjectionProofs!QueueSafety` | every step is a step of `InlineQueue` or leaves it alone |
| `HandoffsProofs!TypeCorrect` | needs the order of calls: only then is the head of a call a change of a known kind |
| `HandoffsProofs!Routing` (`NobodyPausedIsAddressed`) | `TargetsAreKnown` |
| `HandoffsProofs!Wholeness` (`EscalationsAreWhole`) | inductive over the order of calls |
| `HandoffsProofs!Climbing` (`EscalationsClimb`) | `LevelsAreKnown` |
| `HandoffsProofs!OneReplacement` (`OneReplacementEach`) | `OriginsAreKnown` and `ReplacedOnce` |
| `HandoffsProofs!Auditing` (`AuditTrailIsComplete`) | inductive over `OriginsAreKnown` |
| `FlowBootstrapProofs!TypeCorrect` | one step per action |
| `FlowBootstrapProofs!OneOfEachCorrect` | `OverlapsAreKnown` and `ListsAreRead` |
| `FlowBootstrapProofs!GatesInForceCorrect` | `StandingIsSeenTo` |
| `FlowBootstrapProofs!SeededInOrderCorrect`, `ExecutionIsSeededCorrect` | `NeedsAreSeenTo` and `GatesAreSeenTo` |
| `NotionSyncProofs!TypeCorrect` | needs `PullsAreWhole` and `LinksAreTargets`: a push never runs out of writes before it ends |
| `NotionSyncProofs!Decisions` (`PagesShowDecisions`) | `DecisionsAreUnderWay`, `LinksAreTargets` |
| `NotionSyncProofs!Revisions` (`PulledRevisionIsShown`) | inductive with `FindsAreCurrent` |
| `NotionSyncProofs!StoryFiles` (`ReadyStoriesAreOnDisk`) | inductive with `FileWritesAreCurrent` |
| `NotionSyncProofs!Parents` (`OrphansAreNew`) | action property, from `PullsAreWhole` |

*StateFile.*  `UndisturbedStoreKeepsAcked` is not inductive: between truncation
and write the file is empty.  `IInv` adds that a persist belongs to a live
process whose memory has the caller's record (`PersistsHaveOwners`); that a
persist which nothing overlapped is the only one in flight and finds the file
empty when it writes (`SoloPersistsAreAlone`); and, while undisturbed, that one
process is alive and the persist in flight carries its whole memory
(`OneWriter`), that its memory contains the disk and everything acknowledged
(`MemoryIsAhead`), and that the disk has what is or is about to be acknowledged
except while it is empty (`FileIsDurable`).

*InlineQueue.*  `ExclusiveExecution` needs that dead letter entries never run
(`DeadLettersRest`) and that a call's job is in the map.  `NoSilentLoss` needs
that the entry which a finished replay deletes carries the work of the job that
just ran (`CallsKnowTheirJobs`), so that either that work succeeded or its new
failed job and dead letter entry replace the deleted one.  The lemmas about
`Put`, `Delete`, `Rerun` and `Proceed` say that the loop of `retry` keeps these
facts wherever it stops.  For `Refinement` it remains that jobs and successes are
only of accepted work (`WorkIsAccepted`); then the status of the payload a call
was about moves from "pending" to "done" or "listed", that of the payload it turns
to from "listed" to "pending", and nothing becomes "lost" by `NoSilentLoss`.

*PgBossQueue.*  Jobs of primary queues are never deleted, so accepted work always
has one (`WorkIsAccepted`); it is waiting, active, failed, and so listed, or
completed, and then the work is done (`CompletedWorkIsDone`, because a worker
completes a job only after its handler returned: `ExecutionsKnowTheirJobs`).  A
request deletes only the dead letter entry it read, and only after its work was
sent (`RequestsKnowTheirEntries`), which is `EntriesLeaveAfterTheirReplay`.
`OverlapsNeedExpiry` counts the handlers of one job: at most one for each expiry
of that job and one for its active attempt.  That the earlier handlers have
expired would be false: the error of a late one fails the attempt of its
successor, which is then fetched once more and runs beside the third.  The count
stands nevertheless, and is inductive: a fetch adds a handler and makes a waiting
job active, an expiry takes the active attempt and adds to `overruns`, and
whatever else ends an attempt, in time or late, ends a handler of the same job
(`OverlapsAtFetch`, `OverlapsAtExpiry`, `OverlapsStay`; executions are assumed to
be finitely many).

*The budgets of both drivers.*  `AttemptBudget`, `ReplayOnlyOnRequest` and
`RepeatsHaveACause` bound what was done by what was asked for, and are far from
inductive: what a job, a retry request in its loop and a replay between two of its
awaits may still cause must be counted too.  `BudgetInv` keeps two accounts for
each piece of accepted work, each of the form `Covered` of module `Counting`:

    done + |tokens| + worth * |plans| <= allowed

* Handler calls: a token is one attempt that a job of the work still has
  (`Attempts`; of the inline driver's jobs only those that a call executes have
  any, `ExecsLeft`).  Allowed are `retryLimit + 1` for the publication and for each
  id of a retry request that named a job of the work (`asked`).
* Successes: a token is a handler of the work that is running, or that a waiting
  job will be given (`Runs`; the executions `Execs` of the inline driver).  Allowed
  are one for the publication, one for each id asked for and, with pg-boss, one
  for each expiry (`expired`).
* In both a plan is a position of a retry request, counted from its end, that the
  loop of `retry` has not finished with and that names a job of the work
  (`Planned`).  It is worth `retryLimit + 1` attempts and one success: what the
  job has that its replay makes.

The lemmas of `Counting` say how such an account may move: what was to come is
dropped (`CoveredDrop`), done (`CoveredSpend`), replaced (`CoveredSwap`), asked for
(`CoveredGrow`, `CoveredPlan`) or carried out by new tokens (`CoveredCarryOut`). In
`InlineQueueProofs` and `PgBossQueueProofs` one lemma per action says which of these
it is for the work it is about, and that it leaves the accounts of other work alone.
Two facts join the invariant. Requests know only ids that were given out
(`KnownIds`), so that a new job never falls under a plan made before it. And the
number of attempts a pg-boss job has had agrees with its state (`JobsFit`): a failed
one has none left, so that its replay is paid by the plan alone; an inline call that
executes nothing has nothing left to do (`IdleRests`). An entry that overlapping
requests replay twice is in both plans, and so paid twice; one that is gone when its
turn comes leaves its plan unused, which is why these are bounds and no equations.
TLC has checked `BudgetInv` on the instances of `MCInlineQueue` and `MCPgBossQueue`.

*MissionProjection.*  Assumed are those of `InlineQueue`, a finite set of callers,
and that the faults are among the three.  Each step is one of `InlineQueue` or
leaves it alone, and the last section of `InlineQueueProofs` says what a step of a
call does to its job and counts (`StepEffect`); the proofs reuse the invariant of
the queue through `INSTANCE InlineQueueProofs`.  `IInv` adds that a request knows
the page it created (`RequestsKnowTheirPages`), and one equation per counted
thing: calls of the handler, successes, pages (`Unanswered`, `Answered`,
`PagesAreCounted`).  They equate counts with numbers of requests in given stages;
a step changes the stage of one request and leaves the others' alone, so that each
such number changes by at most one.  `Duplicates` says what this and the budget of
the queue come to for the operator: pages are bounded by calls of the handler, and
these by publications and replays; and since a request that has an answer from
Notion is an execution that the queue's budget already counts with the successes
(`ExecutionsAreBudgeted`), without lost answers and failed persists a mission has
at most one page for its publication and one for each id of a retry request.

*Handoffs.*  Every safety property of the module is proved, for any number of
requests, agents, handoffs, answers and failures.  A first group of lemmas says
what each action does in terms of what calls owe (`Owed`: the rest of every call
and what was cut off): a call that begins owes what it announced, one that makes
a change owes the rest, one that is cut off owes as much as before
(`CreateEffect`, `RespondEffect`, `EscalateEffect`, `ReplaceEffect`,
`RecordEffect`, `AuditEffect`, `FailEffect`, `OnboardEffect`).  The inductive
invariant `IInv` of `Handoffs` is then proved in layers, each using the ones
before it:

* `CallsAreOrderly`: what is left of a call is a suffix of "replacement, record,
  audit events", the parts name each other, and the id of a replacement to come
  is nobody else's.  Without it a record could precede its replacement.
* `TargetsAreKnown`: an agent id belongs to one agent at most and is never given
  out again, so that onboarding takes a target away but never changes who it is.
* `LevelsAreKnown`: a record, made or announced, has the level of the agent that
  its replacement is addressed to; escalating that replacement therefore starts
  from that level (`EscalationsClimb` speaks of two records, which are made in
  different calls and after different onboardings).
* `OriginsAreKnown`, `ReplacedOnce`: only a handoff that is not escalated can be
  escalated, and such a handoff has no replacement and is owed none, unless it
  was answered after its escalation (`revived`).
* `EscalationsAreWhole` and `AuditTrailIsComplete` are inductive on top of them.

*FlowBootstrap.*  All five properties are proved, for any number of calls, flows,
agents and gates (`FlowBootstrapProofs!InvariantCorrect`), from the assumptions
that a gate has a key out of a finite set and that every flow comes with a gate
of each kind.  The inductive invariant `IInv` adds:

* `OverlapsAreKnown`: overlapping is mutual, and calls in progress overlap;
* `ListsAreRead`: in the stage a call is in, it knows all records but those of
  calls that overlap it; therefore a record it creates counts as another's only
  if that one's call overlaps it (`OneOfEach`);
* `StandingIsSeenTo`, `NeedsAreSeenTo`: what a flow needs, and every gate that
  has stood, is recorded if its stage is behind the call, and recorded or on its
  list if the call is in its stage (`SeenTo`).  The lemma `EnsureSeesTo` shows it
  for a step over any number of stages, `NothingMissing` for the last one;
* `GatesAreSeenTo`: a stage of gates that is behind a call has a record about one
  of the flow's subjects, although the definitions may have changed since.

*NotionSync.*  All properties that hold are proved, for any number of callers,
items, pages, approvals and revisions and any page size.  Assumed is that items
and pages are finitely many, that no two pages name the same item
(`RuntimeIdAssumption`, which the workspace contract asks for), and that a
mission's root, which is linked to the mission's page, is named by none.  `IInv`
relates what requests have under way to what they read before they awaited:

* `PullsAreWhole`: a pull has found each page once, only in databases it has
  queried, and all pages that were there when it began unless a query left some
  out.  `Upsert` comes after all four queries, and so finds the parent's page
  whatever database it is in.
* `FindsAreCurrent`, `FileWritesAreCurrent`: what other pulls still hold of a
  page that has not drifted, or of a file that is not excused, is the current
  revision; this is why a late `Upsert` or `Mirror` does no harm.
* `LinksAreTargets`: records and pending writes are linked to the one page that
  stands for the item (`IsTarget`).  `OneTarget` shows there is one only, which
  makes the page that a push wrote the page that `PagesShowDecisions` looks at.
* `DecisionsAreUnderWay`: the decisions about an item that is not contested are
  about to be read, on their way in every push that is about it, or shown.  The
  proof has one lemma per step that could part them: a decision
  (`RecordingUnderWay`), a seed (`SeedUnderWay`, where the push of the bootstrap
  is still to come), a read (`ReadUnderWay`), a lookup (`ResolveUnderWay`), a
  write (`UpdateUnderWay`) and an error (`PushFailsUnderWay`).  An answer to a
  handoff, a pull and the planning items of a bootstrap change only pending
  validations, and the items of which they do are contested
  (`ContestedVerdicts`).  The lemmas about
  lists of approvals (`LatestAfterAppend`, `LatestAfterRemove`) say that a
  decision about one item leaves the latest approval of the others alone.

Only model-checked is liveness: `ProjectionSettles`, `RequestsReturn`,
`WorkSettles` and the fairness in `ImplementsQueue`, whose safety part is
`QueueSafety`; TLAPS does not handle fairness and `ENABLED`.  Every other
property that a passing run checks is stated by a theorem.

## 5. Where the code and its documents disagree

Five runs end in a violation that the code really has; `PROJECT.json` quotes the
documents.

1. Overlapping requests can lose an acknowledged mutation, or the whole state
   (`persist` is not serialised).
2. A lost answer of Notion, or a failure to store the link, makes a second page
   for a mission; the architecture promises one.
3. A projection that completes late puts a mission in execution back to
   "projected".
4. A handoff can be created for an agent that has been replaced by a paused one
   since its route was checked.
5. A push takes the planning status that a human set in Notion back to the
   record's older one, although the architecture makes Notion the source of
   truth of the planning.

A sixth is visible in the properties without a run of its own: the answer to a
handoff (`POST /api/handoffs/:id/respond`) and a pull change whether a validation
is pending and push nothing, although `docs/notion-live-contract.md:147-148` asks
that the checkbox and the status "pending" appear.  `PagesShowDecisions` excuses the
item until the next push about it; without that excuse TLC finds the property
violated.

Three more things that the models show and no document denies:

* Two processes on one state file erase each other's changes.  The queue
  documentation calls a split on file-backed state unsafe, and allows it with the
  inline driver in local development; `StateFile` counts it among the events that
  disturb the store.
* A start that is cut off leaves default capabilities and gates out for good,
  since seeding looks only whether there are any.
* The executive report counts rows of the run log that say "running"; each
  outcome is a row of its own, so the number never falls.

## 6. What is not modelled

* Reports, optimization initiatives, boards, organizational memory: computed or
  appended in one turn from records whose changes the modules cover; their
  durability is that of any mutation of `StateFile`, and the jobs that reports
  run in are those of the queues.
* What a restart loses, below the other modules: `StateFile` has the crashes and
  `MissionProjection`, `Handoffs`, `FlowBootstrap` and `NotionSync` the calls that
  are cut off anywhere; none has the record collections put back to an older
  state.  The inline queue starts empty after a restart, and with it goes what
  `listFailed` showed.
* `start` and `stop` of the pg-boss driver, and its maintenance of old jobs.
* Rendering (dashboard, boards, CLI output), configuration, authentication (a
  role lookup), logging, and the drizzle schema, which no code uses.
* The copy of an earlier version under `handoff/` and the vendored framework under
  `.aiox-core/`, which the runtime does not import.  They are most of the lines of
  the repository.
