------------------------------ MODULE Handoffs ------------------------------
(***************************************************************************)
(* Handoffs between agents and their escalation: HandoffService,           *)
(* EscalationService, the routing rules of governance.ts and what the      *)
(* operations of ExpansionService change about routing.                    *)
(*                                                                         *)
(* A call reads and checks in memory, makes its first change and then      *)
(* awaits persist() after every change.  call[c] holds the changes it has  *)
(* still to make; a call that makes its last change is over.  Calls        *)
(* overlap at the awaits, so a check may be stale when its consequence     *)
(* comes.  A call that fails its checks changes nothing and is no step.    *)
(* The audit events that end a call are one change.                        *)
(***************************************************************************)
EXTENDS Naturals, Sequences, FiniteSets

CONSTANTS
  Caller,       \* requests in progress at one time
  Agent,        \* agent slugs
  Sector,       \* sectors, each in the phase its agents work in
  Seed,         \* the agents of the seed: a function from slugs to profiles
  Enabled,      \* sectors with an active capability from the start
  Position,     \* the pairs of a tier and a sector that are ever onboarded
  MaxCreated,   \* bound: no request creates a handoff once as many ids are drawn
  MaxHandoffs,  \* bound: handoff ids that are ever drawn
  MaxAgentId,   \* bound: agent ids that are ever drawn
  MaxAnswers,   \* bound: responses that are ever given
  MaxLost       \* bound: no call fails once this many changes are lost

\* Actor types; specialists, workers and human operators are "staff".
Tier == {"staff", "c_level", "ceo", "founder", "system"}
Leaders == {"c_level", "ceo", "founder"}
Profile == [id : Nat, tier : Tier, sector : Sector, active : BOOLEAN]

\* The seeded agents are active and have ids of their own.
ASSUME SeedAssumption ==
  /\ \E S \in SUBSET Agent : Seed \in [S -> Profile]
  /\ \A a \in DOMAIN Seed : Seed[a].active /\ Seed[a].id \in 1..MaxAgentId
  /\ \A a, b \in DOMAIN Seed : Seed[a].id = Seed[b].id => a = b
ASSUME ConstantsAssumption ==
  /\ Enabled \subseteq Sector
  /\ Position \subseteq Tier \X Sector
  /\ {MaxCreated, MaxHandoffs, MaxAgentId, MaxAnswers, MaxLost} \subseteq Nat

VARIABLES
  agents,    \* the profile of each agent, by slug
  enabled,   \* sectors with an active capability
  handoffs,  \* the handoffs, by id
  records,   \* the escalation records
  audit,     \* the audit events: type, handoff and, for a response, status
  call,      \* the changes that each request has still to make
  agentIds,  \* agent ids drawn so far
  drawn,     \* handoff ids drawn so far: 1..drawn
  answers,   \* history: how many responses there were
  revived,   \* history: handoffs that were answered after an escalation
  lost       \* history: changes that were never made

vars == <<agents, enabled, handoffs, records, audit, call, agentIds, drawn,
          answers, revived, lost>>

\* How a handoff is answered: "completed" stands for "failed" as well, and
\* needs_changes is stored as "rejected".  No operation sets any other status.
Answer == {"completed", "rejected"}
Status == {"pending", "escalated"} \cup Answer
Handoff == [target : Nat, from : Nat, status : Status]
EscalationRecord ==
  [handoff : Nat, replacement : Nat, level : Leaders, forced : BOOLEAN]

Event == {"handoff.created", "handoff.responded", "handoff.escalated",
          "handoff.escalation_replacement_created", "escalation.created"}

\* The changes a call may have to make.
Creates(h, handoff) == [do |-> "handoff", id |-> h, handoff |-> handoff]
Escalates(record) == [do |-> "record", record |-> record]
Audits(events) == [do |-> "audit", events |-> events]

Change ==
  [do : {"handoff"}, id : Nat, handoff : Handoff]
    \cup [do : {"record"}, record : EscalationRecord]
    \cup [do : {"audit"}, events : SUBSET (Event \X Nat)]

TypeOK ==
  /\ DOMAIN agents \subseteq Agent
  /\ \A a \in DOMAIN agents : agents[a] \in Profile
  /\ enabled \subseteq Sector
  /\ drawn \in Nat
  /\ answers \in Nat
  /\ agentIds \subseteq 1..MaxAgentId
  /\ DOMAIN handoffs \subseteq 1..drawn
  /\ \A h \in DOMAIN handoffs : handoffs[h] \in Handoff
  /\ records \subseteq EscalationRecord
  /\ audit \subseteq Event \X Nat \X (Status \cup {"none"})
  /\ call \in [Caller -> Seq(Change)]
  /\ revived \subseteq DOMAIN handoffs
  /\ lost \subseteq Change

Init ==
  /\ agents = Seed
  /\ enabled = Enabled
  /\ handoffs = [h \in {} |-> {}]
  /\ records = {}
  /\ audit = {}
  /\ call = [c \in Caller |-> <<>>]
  /\ agentIds = {Seed[a].id : a \in DOMAIN Seed}
  /\ drawn = 0
  /\ answers = 0
  /\ revived = {}
  /\ lost = {}

-----------------------------------------------------------------------------
(* A store of the repository: a new entry, or one in the place of another.  *)

Put(f, k, v) == [i \in DOMAIN f \cup {k} |-> IF i = k THEN v ELSE f[i]]

-----------------------------------------------------------------------------
(* Routing. *)

\* resolveAgent(): the agent that has the id i now, if any.
AgentWithId(i) == {a \in DOMAIN agents : agents[a].id = i}

Active(tier) ==
  {a \in DOMAIN agents : agents[a].active /\ agents[a].tier = tier}

\* Mutant of RouteAvailable: the target need not be active.
RouteToAnyone(a, b) ==
  /\ agents[a].active
  /\ agents[b].tier \in {"ceo", "founder"} \/ agents[b].sector \in enabled

RouteAvailable(a, b) ==
  /\ agents[a].active
  /\ agents[b].active
  /\ agents[b].tier \in {"ceo", "founder"} \/ agents[b].sector \in enabled

\* Mutant of EscalationTargets: a chief escalates to the chief of its sector.
TargetsAmongPeers(a) ==
  LET chiefs == {b \in Active("c_level") : agents[b].sector = agents[a].sector}
  IN IF agents[a].tier \in {"staff", "c_level"} /\ chiefs # {}
       THEN chiefs
       ELSE Active("ceo")

\* resolveEscalationTarget(): the agents that may be the first of the list.
EscalationTargets(a) ==
  LET tier == agents[a].tier
      chiefs == {b \in Active("c_level") : agents[b].sector = agents[a].sector}
  IN CASE tier = "staff" /\ chiefs # {} -> chiefs
       [] tier = "staff" /\ chiefs = {} -> Active("ceo")
       [] tier = "c_level" -> Active("ceo")
       [] tier = "ceo" -> Active("founder")
       [] OTHER -> {}

\* resolveForcedLevel(): whoever leads, wherever the handoff is now.
ForcedTargets == {a \in DOMAIN agents : agents[a].tier \in Leaders}

-----------------------------------------------------------------------------
(* The operations, up to their first change. *)

Idle(c) == call[c] = <<>>
Continues(c, changes) == call' = [call EXCEPT ![c] = changes]

\* HandoffService.createHandoff(), for a task that exists.
CreateHandoff(c) ==
  /\ Idle(c)
  /\ drawn < MaxCreated
  /\ drawn' = drawn + 1
  /\ \E a, b \in DOMAIN agents :
       /\ RouteAvailable(a, b)
       /\ handoffs' = Put(handoffs, drawn', [target |-> agents[b].id, from |-> 0,
                                             status |-> "pending"])
  /\ Continues(c, <<Audits({<<"handoff.created", drawn'>>})>>)
  /\ UNCHANGED <<agents, enabled, records, audit, agentIds, answers, revived, lost>>

\* Mutant of Respond: the audit event is written first.
AuditThenRespond(c) ==
  /\ Idle(c)
  /\ answers < MaxAnswers
  /\ answers' = answers + 1
  /\ \E h \in DOMAIN handoffs, s \in Answer :
       /\ audit' = audit \cup {<<"handoff.responded", h, handoffs[h].status>>}
       /\ handoffs' = [handoffs EXCEPT ![h].status = s]
       /\ revived' = IF handoffs[h].status = "escalated" THEN revived \cup {h} ELSE revived
  /\ UNCHANGED <<agents, enabled, records, call, agentIds, drawn, lost>>

\* Mutant of Respond: the status is stored as it was sent.
RespondVerbatim(c) ==
  /\ Idle(c)
  /\ answers < MaxAnswers
  /\ answers' = answers + 1
  /\ \E h \in DOMAIN handoffs, s \in {"completed", "needs_changes"} :
       /\ handoffs' = [handoffs EXCEPT ![h].status = s]
       /\ revived' = IF handoffs[h].status = "escalated" THEN revived \cup {h} ELSE revived
       /\ Continues(c, <<Audits({<<"handoff.responded", h>>})>>)
  /\ UNCHANGED <<agents, enabled, records, audit, agentIds, drawn, lost>>

\* HandoffService.respondToHandoff(): whatever the status of the handoff is.
Respond(c) ==
  /\ Idle(c)
  /\ answers < MaxAnswers
  /\ answers' = answers + 1
  /\ \E h \in DOMAIN handoffs, s \in Answer :
       /\ handoffs' = [handoffs EXCEPT ![h].status = s]
       /\ revived' = IF handoffs[h].status = "escalated" THEN revived \cup {h} ELSE revived
       /\ Continues(c, <<Audits({<<"handoff.responded", h>>})>>)
  /\ UNCHANGED <<agents, enabled, records, audit, agentIds, drawn, lost>>

\* Mutant of Escalation: the record comes before the replacement.
RecordThenReplace(h, k, b, forced) ==
  <<Escalates([handoff |-> h, replacement |-> k,
               level |-> agents[b].tier, forced |-> forced]),
    Creates(k, [target |-> agents[b].id, from |-> h, status |-> "pending"]),
    Audits({<<"handoff.escalated", h>>,
            <<"handoff.escalation_replacement_created", k>>,
            <<"escalation.created", k>>})>>

\* EscalationService.escalateHandoff(): the handoff becomes escalated; its
\* replacement k, the record and three audit events follow.
Escalation(h, k, b, forced) ==
  <<Creates(k, [target |-> agents[b].id, from |-> h, status |-> "pending"]),
    Escalates([handoff |-> h, replacement |-> k,
               level |-> agents[b].tier, forced |-> forced]),
    Audits({<<"handoff.escalated", h>>,
            <<"handoff.escalation_replacement_created", k>>,
            <<"escalation.created", k>>})>>

\* Mutant of Escalatable: an escalated handoff can be escalated again.
EscalatableAgain(h) == handoffs[h].status \in {"pending", "rejected", "escalated"}

Escalatable(h) == handoffs[h].status \in {"pending", "rejected"}

Escalate(c) ==
  /\ Idle(c)
  /\ drawn < MaxHandoffs
  /\ drawn' = drawn + 1
  /\ \E h \in DOMAIN handoffs, forced \in BOOLEAN :
     \E a \in AgentWithId(handoffs[h].target) :
     \E b \in IF forced THEN ForcedTargets ELSE EscalationTargets(a) :
       /\ Escalatable(h)
       /\ RouteAvailable(a, b)
       /\ handoffs' = [handoffs EXCEPT ![h].status = "escalated"]
       /\ Continues(c, Escalation(h, drawn', b, forced))
  /\ UNCHANGED <<agents, enabled, records, audit, agentIds, answers, revived, lost>>

\* ExpansionService.onboardAgent(): the slug gets a new profile, with a new
\* id and paused, whether it had one or not.  Nothing activates it later.
Onboard ==
  /\ \E a \in Agent, i \in (1..MaxAgentId) \ agentIds, p \in Position :
       /\ agents' = Put(agents, a, [id |-> i, tier |-> p[1], sector |-> p[2],
                                    active |-> FALSE])
       /\ agentIds' = agentIds \cup {i}
  /\ UNCHANGED <<enabled, handoffs, records, audit, call, drawn, answers, revived, lost>>

\* ExpansionService.createCapability(); no operation takes one back.
CreateCapability ==
  /\ \E x \in Sector \ enabled : enabled' = enabled \cup {x}
  /\ UNCHANGED <<agents, handoffs, records, audit, call, agentIds, drawn, answers, revived, lost>>

-----------------------------------------------------------------------------
(* The changes that follow, each when the persist() before it is done. *)

\* The event of a response shows the handoff as it is by then.
Noted(event, h) ==
  <<event, h, IF event = "handoff.responded" THEN handoffs[h].status ELSE "none">>

Proceed(c) ==
  /\ ~Idle(c)
  /\ Continues(c, Tail(call[c]))
  /\ LET change == Head(call[c]) IN
     \/ /\ change.do = "handoff"
        /\ handoffs' = Put(handoffs, change.id, change.handoff)
        /\ UNCHANGED <<records, audit>>
     \/ /\ change.do = "record"
        /\ records' = records \cup {change.record}
        /\ UNCHANGED <<handoffs, audit>>
     \/ /\ change.do = "audit"
        /\ audit' = audit \cup {Noted(e[1], e[2]) : e \in change.events}
        /\ UNCHANGED <<handoffs, records>>
  /\ UNCHANGED <<agents, enabled, agentIds, drawn, answers, revived, lost>>

Remaining(c) == {call[c][i] : i \in DOMAIN call[c]}

\* persist() rejects: what is in memory stays, the rest of the call does not
\* happen.  The end of the process does the same to every call in progress.
Fail(c) ==
  /\ ~Idle(c)
  /\ Cardinality(lost) < MaxLost
  /\ Continues(c, <<>>)
  /\ lost' = lost \cup Remaining(c)
  /\ UNCHANGED <<agents, enabled, handoffs, records, audit, agentIds, drawn, answers, revived>>

Next ==
  \/ \E c \in Caller :
       CreateHandoff(c) \/ Respond(c) \/ Escalate(c) \/ Proceed(c) \/ Fail(c)
  \/ Onboard \/ CreateCapability

Spec == Init /\ [][Next]_vars

-----------------------------------------------------------------------------
(* Properties. *)

\* The changes a call announced and has not made, or will never make.
Owed == lost \cup UNION {Remaining(c) : c \in Caller}
OwedReplacements(h) ==
  {s \in Owed : s.do = "handoff" /\ s.handoff.from = h}
Replacements(h) == {k \in DOMAIN handoffs : handoffs[k].from = h}

\* An escalation moves the work to one new handoff: as long as nobody answers
\* the escalated handoff, it has at most one replacement, counting the one a
\* call is about to create.
OneReplacementEach ==
  \A h \in DOMAIN handoffs \ revived :
    Cardinality(Replacements(h)) + Cardinality(OwedReplacements(h)) <= 1

\* An escalated handoff has a replacement, a replacement has a record that
\* names both handoffs and a record has its replacement, unless the call is
\* in progress or was cut off.
EscalationsAreWhole ==
  /\ \A h \in DOMAIN handoffs :
       handoffs[h].status = "escalated"
         => Replacements(h) # {} \/ OwedReplacements(h) # {}
  /\ \A k \in DOMAIN handoffs : handoffs[k].from # 0 =>
       \/ \E r \in records : r.handoff = handoffs[k].from /\ r.replacement = k
       \/ \E s \in Owed : s.do = "record" /\ s.record.replacement = k
  /\ \A r \in records : r.replacement \in Replacements(r.handoff)

Rank == [tier \in Leaders |->
           CASE tier = "c_level" -> 1 [] tier = "ceo" -> 2 [] tier = "founder" -> 3]

\* The chain specialist, C-level, CEO, founder: escalating a replacement takes
\* it to a higher level than the one it came to, unless the caller forces the
\* target, even when agents are onboarded anew in between.
EscalationsClimb ==
  \A r, s \in records :
    s.handoff = r.replacement /\ ~s.forced => Rank[s.level] > Rank[r.level]

\* A paused agent and an agent in a sector without an active capability hold
\* no handoff, unless they lead the company.  (Onboarding an agent anew takes
\* its handoffs away from it: their target does not exist any more.)
NobodyPausedIsAddressed ==
  \A h \in DOMAIN handoffs : \A a \in AgentWithId(handoffs[h].target) :
    /\ agents[a].active
    /\ agents[a].tier \in {"ceo", "founder"} \/ agents[a].sector \in enabled

\* The audit trail has the creation of every handoff, every escalation and,
\* whatever calls overlapped it, the answer that each handoff has now, unless
\* the call is in progress or was cut off.
OwesAudit(event, h) == \E s \in Owed : s.do = "audit" /\ <<event, h>> \in s.events
AuditTrailIsComplete ==
  /\ \A h \in DOMAIN handoffs :
       LET event == IF handoffs[h].from = 0
                      THEN "handoff.created"
                      ELSE "handoff.escalation_replacement_created"
       IN <<event, h, "none">> \in audit \/ OwesAudit(event, h)
  /\ \A r \in records : <<"escalation.created", r.replacement, "none">> \in audit
                          \/ OwesAudit("escalation.created", r.replacement)
  /\ \A h \in DOMAIN handoffs : handoffs[h].status \in Answer =>
       \/ <<"handoff.responded", h, handoffs[h].status>> \in audit
       \/ OwesAudit("handoff.responded", h)

\* Nothing is sent to an agent that is not enabled, as the product requires:
\* a handoff that appears is addressed to an agent that is active by then.
OnlyEnabledAgentsAreSent ==
  [][\A h \in DOMAIN handoffs' \ DOMAIN handoffs :
       \E a \in AgentWithId(handoffs'[h].target) : agents[a].active]_vars

-----------------------------------------------------------------------------
(* The inductive invariant behind the safety properties, in parts that build *)
(* on each other.                                                           *)

\* What is left of a call: nothing, its audit events, before them the record
\* of an escalation whose replacement exists, or also the replacement.
Orderly(q) ==
  /\ Len(q) <= 3
  /\ Len(q) = 1 => q[1].do = "audit"
  /\ Len(q) = 2 =>
       /\ q[1].do = "record"
       /\ q[2].do = "audit"
       /\ q[1].record.replacement \in Replacements(q[1].record.handoff)
       /\ <<"escalation.created", q[1].record.replacement>> \in q[2].events
  /\ Len(q) = 3 =>
       /\ q[1].do = "handoff"
       /\ q[2].do = "record"
       /\ q[3].do = "audit"
       /\ q[1].id = q[2].record.replacement
       /\ q[1].handoff.from = q[2].record.handoff
       /\ q[1].handoff.status = "pending"
       /\ <<"escalation.created", q[1].id>> \in q[3].events
       /\ <<"handoff.escalation_replacement_created", q[1].id>> \in q[3].events

\* The id of a replacement to come is not in use, nor meant for another one.
Replacing(S) == {s.id : s \in {t \in S : t.do = "handoff"}}
IdsAreFresh ==
  /\ \A c \in Caller :
       /\ Replacing(Remaining(c)) \subseteq (1..drawn) \ DOMAIN handoffs
       /\ Replacing(Remaining(c)) \cap Replacing(lost) = {}
       /\ \A d \in Caller \ {c} :
            Replacing(Remaining(c)) \cap Replacing(Remaining(d)) = {}
  /\ Replacing(lost) \subseteq (1..drawn) \ DOMAIN handoffs

\* An answer that is still to be noted was given to a handoff that exists.
AnswersAreKnown ==
  \A s \in Owed, h \in Nat :
    s.do = "audit" /\ <<"handoff.responded", h>> \in s.events => h \in DOMAIN handoffs

CallsAreOrderly ==
  /\ \A c \in Caller : Orderly(call[c])
  /\ IdsAreFresh
  /\ AnswersAreKnown

\* Agent ids are never used twice, and every target has been the id of an
\* agent: whoever has it now may be addressed.
Addressable(i) ==
  /\ i \in agentIds
  /\ \A a \in AgentWithId(i) :
       /\ agents[a].active
       /\ agents[a].tier \in {"ceo", "founder"} \/ agents[a].sector \in enabled

TargetsAreKnown ==
  /\ \A a \in DOMAIN agents : agents[a].id \in agentIds
  /\ \A a, b \in DOMAIN agents : agents[a].id = agents[b].id => a = b
  /\ \A h \in DOMAIN handoffs : Addressable(handoffs[h].target)
  /\ \A s \in Owed : s.do = "handoff" => Addressable(s.handoff.target)

\* The records made or announced: each names a handoff that exists, and who
\* has the id of the replacement's target leads at the level of the record.
Announced == records \cup {s.record : s \in {t \in Owed : t.do = "record"}}
LevelsAreKnown ==
  /\ \A r \in Announced :
       /\ r.handoff \in DOMAIN handoffs
       /\ r.replacement \in 1..drawn
       /\ r.replacement \in DOMAIN handoffs =>
            \A a \in AgentWithId(handoffs[r.replacement].target) :
              agents[a].tier = r.level
  /\ \A s \in Owed, r \in Announced :
       s.do = "handoff" /\ s.id = r.replacement =>
         \A a \in AgentWithId(s.handoff.target) : agents[a].tier = r.level
  /\ \A r, s \in Announced :
       s.handoff = r.replacement /\ ~s.forced => Rank[s.level] > Rank[r.level]

\* Only handoffs that exist have replacements.
OriginsAreKnown ==
  /\ \A h \in DOMAIN handoffs : handoffs[h].from \in DOMAIN handoffs \cup {0}
  /\ \A s \in Owed : s.do = "handoff" => s.handoff.from \in DOMAIN handoffs

\* A handoff that has a replacement, existing or to come, has just one and is
\* escalated, unless it was answered after that.
ReplacedOnce ==
  \A h \in DOMAIN handoffs \ revived :
    /\ Replacements(h) # {} \/ OwedReplacements(h) # {}
         => handoffs[h].status = "escalated"
    /\ \A j, k \in Replacements(h) : j = k
    /\ \A s, t \in OwedReplacements(h) : s = t
    /\ Replacements(h) = {} \/ OwedReplacements(h) = {}

IInv ==
  /\ TypeOK
  /\ CallsAreOrderly
  /\ TargetsAreKnown
  /\ LevelsAreKnown
  /\ EscalationsAreWhole
  /\ OriginsAreKnown
  /\ ReplacedOnce
  /\ AuditTrailIsComplete

=============================================================================
