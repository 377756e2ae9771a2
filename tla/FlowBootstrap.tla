---------------------------- MODULE FlowBootstrap ----------------------------
(***************************************************************************)
(* BusinessFlowService.bootstrapFlow() for one mission: the records that a *)
(* business flow needs are created unless they exist, one store after the  *)
(* other.  While a call awaits a persist(), other calls bootstrap the same *)
(* or another flow, operators change governance gates, and agents are      *)
(* onboarded anew.                                                         *)
(*                                                                         *)
(* Each call reads the agents once, when it begins, and the records of a   *)
(* stage once, when it comes to that stage; from then on it knows of other *)
(* calls' records nothing.  Between two persists a call runs alone, through *)
(* records that exist and, where none is missing, into the next stages.    *)
(* The audit event after a record is part of its creation.                 *)
(***************************************************************************)
EXTENDS Naturals, Sequences, FiniteSets

CONSTANTS
  Call,       \* requests that bootstrap a flow of the mission
  Flow,       \* the flows
  Needs,      \* the flows whose planning items a flow needs to find
  Slug,       \* agents by slug
  Seed,       \* the agents of the seed: a function from Slug to profiles
  Sector,     \* sectors
  Enabled,    \* the sectors of the default capabilities, in their order
  Built,      \* the definitions that the code has for each flow
  SeedGates,  \* the default gates by key, with their positions
  GateInput,  \* the gates that operators create or put in the place of others
  GateKey,    \* keys of gates
  Position,   \* the pairs of a sector and being a leader that are onboarded
  MaxRunning, \* bound: calls in progress at one time
  MaxEdits,   \* bound: gates created or replaced
  MaxAgentId  \* bound: agent ids that are ever drawn

\* The stages of a bootstrap, in the code's order.
Handoffs == 1
Approvals == 2
Validations == 3
Runs == 4
Memory == 5
Stage == Handoffs..Memory
Gated == {Approvals, Validations}

\* What a record is to be: the item and type it has, the agents involved (if
\* any) by their slugs, and its position in the list of the stage.
Nobody == "nobody"
Agent == Slug \cup {Nobody}
Definition == [stage : Stage, what : STRING, from : Agent, to : Agent, pos : Nat]

\* A gate policy: in force for a flow while it is active.  createGatePolicy()
\* also takes the id of an agent for its slug, here named AnId.
AnId == "an id"
Gate == [flow : Flow, active : BOOLEAN, stage : Gated, what : STRING,
         from : Agent \cup {AnId}, to : Agent \cup {AnId}]

Profile == [id : Nat, sector : Sector, leads : BOOLEAN, active : BOOLEAN]

\* Fields that two records have in common when one counts as the other.
Key == [stage : Stage, what : STRING, from : Nat, to : Nat]

ASSUME SeedAssumption ==
  /\ Seed \in [Slug -> Profile]
  /\ \A s \in Slug : Seed[s].id \in 1..MaxAgentId
  /\ Nobody \notin Slug /\ AnId \notin Agent
\* Every flow comes with a gate of each kind.
ASSUME GatesAssumption ==
  \A f \in Flow, st \in Gated : \E d \in Built[f] : d.stage = st
ASSUME ConstantsAssumption ==
  /\ Needs \in [Flow -> SUBSET Flow]
  /\ Built \in [Flow -> SUBSET Definition]
  /\ Enabled \in Seq(Sector)
  /\ GateInput \subseteq Gate
  /\ IsFiniteSet(GateKey)
  /\ DOMAIN SeedGates \subseteq GateKey
  /\ \A k \in DOMAIN SeedGates : SeedGates[k] \in [gate : Gate, pos : Nat]
  /\ Position \subseteq Sector \X BOOLEAN
  /\ {MaxRunning, MaxEdits, MaxAgentId} \subseteq Nat

VARIABLES
  agents,    \* the profile of each agent, by slug
  enabled,   \* sectors with an active capability
  gates,     \* the gate policies, by key, with their positions in the list
  items,     \* flows whose planning items exist
  records,   \* the records that calls created
  mission,   \* the mission's status: "open" or "in_execution"
  phase,     \* where each call is
  flow,      \* the flow that each call bootstraps
  directory, \* the agents as each call read them
  stage,     \* the stage each call has come to, 0 before the first
  todo,      \* the definitions of that stage
  existing,  \* the keys of the records that the call knows of in that stage
  agentIds,  \* agent ids drawn so far
  edits,     \* how often a gate was created or replaced
  beside,    \* history: the calls that overlapped each call
  standing   \* history: gates in force since each call began

callVars == <<phase, flow, directory, stage, todo, existing>>
vars == <<agents, enabled, gates, items, records, mission, callVars, agentIds,
          edits, beside, standing>>

Phase == {"new", "seeding", "updated", "returned", "stopped"}

TypeOK ==
  /\ agents \in [Slug -> Profile]
  /\ enabled \subseteq Sector
  /\ DOMAIN gates \subseteq GateKey
  /\ \A k \in DOMAIN gates : gates[k] \in [gate : Gate, pos : Nat]
  /\ items \subseteq Flow
  /\ records \subseteq [key : Key, pos : Nat, call : Call]
  /\ mission \in {"open", "in_execution"}
  /\ phase \in [Call -> Phase]
  /\ flow \in [Call -> Flow]
  /\ directory \in [Call -> [Slug -> Profile]]
  /\ stage \in [Call -> Stage \cup {0}]
  /\ todo \in [Call -> SUBSET [stage : Stage, what : STRING, from : Agent \cup {AnId},
                               to : Agent \cup {AnId}, pos : Nat]]
  /\ existing \in [Call -> SUBSET Key]
  /\ agentIds \subseteq Nat
  /\ edits \in Nat
  /\ beside \in [Call -> SUBSET Call]
  /\ standing \in [Call -> SUBSET GateKey]

Running(n) == phase[n] \in {"seeding", "updated"}

\* Default gates that one start may seed: it stores them one by one and may be
\* cut off, and the next start seeds none when it finds one.
FirstDefaults ==
  {K \in SUBSET DOMAIN SeedGates :
     /\ K = {} => DOMAIN SeedGates = {}
     /\ \A k \in K, i \in DOMAIN SeedGates \ K : SeedGates[k].pos <= SeedGates[i].pos}

\* Sectors after the first start that seeds a capability; it may be cut off too.
FirstEnabled ==
  {{Enabled[i] : i \in 1..m} : m \in {l \in 0..Len(Enabled) : l = 0 => Enabled = <<>>}}

Init ==
  /\ agents = Seed
  /\ enabled \in FirstEnabled
  /\ \E K \in FirstDefaults : gates = [k \in K |-> SeedGates[k]]
  /\ items = {}
  /\ records = {}
  /\ mission = "open"
  /\ phase = [n \in Call |-> "new"]
  /\ flow \in [Call -> Flow]
  /\ directory = [n \in Call |-> Seed]
  /\ stage = [n \in Call |-> 0]
  /\ todo = [n \in Call |-> {}]
  /\ existing = [n \in Call |-> {}]
  /\ agentIds = {Seed[s].id : s \in Slug}
  /\ edits = 0
  /\ beside = [n \in Call |-> {}]
  /\ standing = [n \in Call |-> {}]

-----------------------------------------------------------------------------
(* What a call has still to create. *)

IdOf(n, s) == IF s \in Slug THEN directory[n][s].id ELSE 0

KeyOf(d, n) ==
  [stage |-> d.stage, what |-> d.what, from |-> IdOf(n, d.from), to |-> IdOf(n, d.to)]
Keys == {r.key : r \in records}

Policies(f, st) ==
  {k \in DOMAIN gates : /\ gates[k].gate.active
                        /\ gates[k].gate.flow = f
                        /\ gates[k].gate.stage = st}

\* A policy as a definition, at its position in the list.
AsDefinition(k) ==
  [stage |-> gates[k].gate.stage, what |-> gates[k].gate.what,
   from |-> gates[k].gate.from, to |-> gates[k].gate.to, pos |-> gates[k].pos]

\* Mutant of Definitions: a built-in definition comes before all policies.
BuiltInFirst(f, st) ==
  LET built == {d \in Built[f] : d.stage = st}
  IN IF built # {} THEN built ELSE {AsDefinition(k) : k \in Policies(f, st)}

\* The policies of a flow replace the built-in gates of the stage, if any.
Definitions(f, st) ==
  IF st \in Gated /\ Policies(f, st) # {}
    THEN {AsDefinition(k) : k \in Policies(f, st)}
    ELSE {d \in Built[f] : d.stage = st}

\* Mutant of Missing: nothing is looked up among the records that exist.
MissingOrNot(n, st) ==
  IF st = stage[n]
    THEN {d \in todo[n] : KeyOf(d, n) \notin existing[n]}
    ELSE Definitions(flow[n], st)

\* The definitions of a stage without a record that the call knows of; where
\* the call has not come to the stage, that is any record there is now.
Missing(n, st) ==
  IF st = stage[n]
    THEN {d \in todo[n] : KeyOf(d, n) \notin existing[n]}
    ELSE {d \in Definitions(flow[n], st) : KeyOf(d, n) \notin Keys}

\* Mutant of ComesTo: the stages are run through from the last to the first.
ComesToLast(n, st) ==
  /\ Missing(n, st) # {}
  /\ \A t \in Stage : t > st => Missing(n, t) = {}

\* The stage in which the call creates its next record.
ComesTo(n, st) ==
  /\ st >= stage[n]
  /\ Missing(n, st) # {}
  /\ \A t \in Stage : stage[n] <= t /\ t < st => Missing(n, t) = {}

\* The definitions of a list that come first.
First(D) == {d \in D : \A e \in D : d.pos <= e.pos}

\* getAgentBySlug() throws for an id, assertRouteAvailable() for agents that
\* were not active when the call began and for sectors that are not enabled.
Possible(d, n) ==
  /\ AnId \notin {d.from, d.to}
  /\ d.stage = Handoffs =>
       LET origin == directory[n][d.from]
           target == directory[n][d.to]
       IN /\ origin.active /\ target.active
          /\ target.leads \/ target.sector \in enabled

-----------------------------------------------------------------------------
(* The steps of a call, each up to the next persist(). *)

\* The planning items are created or overwritten, all at once.
Begin(n) ==
  /\ phase[n] = "new"
  /\ Needs[flow[n]] \subseteq items
  /\ items' = items \cup {flow[n]}
  /\ phase' = [phase EXCEPT ![n] = "seeding"]
  /\ directory' = [directory EXCEPT ![n] = agents]
  /\ LET others == {m \in Call : Running(m)} IN
     /\ Cardinality(others) < MaxRunning
     /\ beside' = [m \in Call |-> IF m = n THEN others
                                ELSE IF m \in others THEN beside[m] \cup {n}
                                ELSE beside[m]]
  /\ standing' = [standing EXCEPT ![n] = UNION {Policies(flow[n], st) : st \in Gated}]
  /\ UNCHANGED <<agents, enabled, gates, records, mission, flow, stage, todo, existing,
                 agentIds, edits>>

\* The ensure...() methods, up to the next record that is created.
Ensure(n) ==
  /\ phase[n] = "seeding"
  /\ \E st \in Stage : ComesTo(n, st) /\ \E d \in First(Missing(n, st)) :
       /\ Possible(d, n)
       /\ records' = records \cup {[key |-> KeyOf(d, n), pos |-> d.pos, call |-> n]}
       /\ stage' = [stage EXCEPT ![n] = st]
       /\ todo' = [todo EXCEPT ![n] = Missing(n, st)]
       /\ existing' = [existing EXCEPT ![n] =
            (IF st = stage[n] THEN existing[n] ELSE Keys) \cup {KeyOf(d, n)}]
  /\ UNCHANGED <<agents, enabled, gates, items, mission, phase, flow, directory, agentIds,
                 edits, beside, standing>>

Ends(n, p) ==
  /\ phase' = [phase EXCEPT ![n] = p]
  /\ stage' = [stage EXCEPT ![n] = 0]
  /\ todo' = [todo EXCEPT ![n] = {}]
  /\ existing' = [existing EXCEPT ![n] = {}]

\* The next record cannot be created: what was created stays.
Refuse(n) ==
  /\ phase[n] = "seeding"
  /\ \E st \in Stage : ComesTo(n, st) /\ \E d \in First(Missing(n, st)) : ~Possible(d, n)
  /\ Ends(n, "stopped")
  /\ UNCHANGED <<agents, enabled, gates, items, records, mission, flow, directory,
                 agentIds, edits, beside, standing>>

\* Mutant of Update: the event's word for it becomes the status.
UpdateVerbatim(n) ==
  /\ phase[n] = "seeding"
  /\ \A st \in Stage : st >= stage[n] => Missing(n, st) = {}
  /\ mission' = "bootstrapped"
  /\ Ends(n, "updated")
  /\ UNCHANGED <<agents, enabled, gates, items, records, flow, directory, agentIds,
                 edits, beside, standing>>

\* Mutant of Update: the mission is updated after any stage.
UpdateAfterAnyStage(n) ==
  /\ phase[n] = "seeding"
  /\ stage[n] # 0 /\ Missing(n, stage[n]) = {}
  /\ mission' = "in_execution"
  /\ Ends(n, "updated")
  /\ UNCHANGED <<agents, enabled, gates, items, records, flow, directory, agentIds,
                 edits, beside, standing>>

\* Nothing is missing any more: updateMission().
Update(n) ==
  /\ phase[n] = "seeding"
  /\ \A st \in Stage : st >= stage[n] => Missing(n, st) = {}
  /\ mission' = "in_execution"
  /\ Ends(n, "updated")
  /\ UNCHANGED <<agents, enabled, gates, items, records, flow, directory, agentIds,
                 edits, beside, standing>>

Return(n) ==
  /\ phase[n] = "updated"
  /\ Ends(n, "returned")
  /\ UNCHANGED <<agents, enabled, gates, items, records, mission, flow, directory,
                 agentIds, edits, beside, standing>>

\* persist() rejects, or the process ends.
Fail(n) ==
  /\ Running(n)
  /\ Ends(n, "stopped")
  /\ UNCHANGED <<agents, enabled, gates, items, records, mission, flow, directory,
                 agentIds, edits, beside, standing>>

-----------------------------------------------------------------------------
(* Other requests. *)

\* GovernancePolicyService.createGatePolicy(): a gate with a known key takes
\* the place of the other, in the list as well.
CreateGatePolicy ==
  /\ edits < MaxEdits
  /\ edits' = edits + 1
  /\ \E k \in GateKey, g \in GateInput :
       /\ gates' = [i \in DOMAIN gates \cup {k} |->
            IF i # k THEN gates[i]
            ELSE [gate |-> g,
                  pos |-> IF k \in DOMAIN gates THEN gates[k].pos
                          ELSE Cardinality(DOMAIN gates) + 1]]
       /\ standing' = [n \in Call |-> standing[n] \ {k}]
  /\ UNCHANGED <<agents, enabled, items, records, mission, callVars, agentIds, beside>>

\* ExpansionService.onboardAgent(), for a slug that is taken.
Onboard ==
  /\ \E s \in Slug, i \in (1..MaxAgentId) \ agentIds, p \in Position :
       /\ agents' = [agents EXCEPT ![s] =
            [id |-> i, sector |-> p[1], leads |-> p[2], active |-> FALSE]]
       /\ agentIds' = agentIds \cup {i}
  /\ UNCHANGED <<enabled, gates, items, records, mission, callVars, edits, beside, standing>>

CreateCapability ==
  /\ \E x \in Sector \ enabled : enabled' = enabled \cup {x}
  /\ UNCHANGED <<agents, gates, items, records, mission, callVars, agentIds, edits, beside,
                 standing>>

\* The runtime starts again, what was in progress having ended.  It finds the
\* capabilities; without an active gate, it puts its defaults in force again,
\* over gates that operators have made of them.
Restart ==
  /\ \A n \in Call : ~Running(n)
  /\ \A k \in DOMAIN gates : ~gates[k].gate.active
  /\ \E K \in FirstDefaults :
       gates' = [i \in DOMAIN gates \cup K |->
         IF i \notin K THEN gates[i]
         ELSE [gate |-> SeedGates[i].gate,
               pos |-> IF i \in DOMAIN gates THEN gates[i].pos
                       ELSE Cardinality(DOMAIN gates) + SeedGates[i].pos]]
  /\ UNCHANGED <<agents, enabled, items, records, mission, callVars, agentIds, edits,
                 beside, standing>>

Next ==
  \/ \E n \in Call : Begin(n) \/ Ensure(n) \/ Refuse(n) \/ Update(n) \/ Return(n) \/ Fail(n)
  \/ CreateGatePolicy \/ Onboard \/ CreateCapability \/ Restart

Spec == Init /\ [][Next]_vars

-----------------------------------------------------------------------------
(* Properties. *)

\* A flow may be bootstrapped again, after a failure or for no reason: two
\* records that count as the same come from calls that overlapped.
OneOfEach ==
  \A r, s \in records : r.key = s.key /\ r # s => s.call \in beside[r.call]

Recorded(d, n) == \E r \in records : r.key = KeyOf(d, n)

\* What a flow needs besides gates, before a stage.
NeededBefore(f, st) == {d \in Built[f] : d.stage \notin Gated /\ d.stage < st}

\* The subjects of the gates that a flow ever has.
Subjects(f, st) ==
  {d.what : d \in {e \in Built[f] : e.stage = st}}
    \cup {g.what : g \in {h \in GateInput : h.flow = f /\ h.stage = st}}
    \cup {SeedGates[k].gate.what : k \in
            {i \in DOMAIN SeedGates : /\ SeedGates[i].gate.flow = f
                                      /\ SeedGates[i].gate.stage = st}}

\* A record tells that the bootstrap came so far: the earlier stages have what
\* the flow needs there, and at least one of its gates.  In particular a run
\* that is logged as succeeded has its handoffs, an approval and a validation.
SeededInOrder ==
  \A r \in records :
    LET f == flow[r.call] IN
    /\ \A d \in NeededBefore(f, r.key.stage) : Recorded(d, r.call)
    /\ \A st \in Gated : st < r.key.stage =>
         \E s \in records : s.key.stage = st /\ s.key.what \in Subjects(f, st)

\* A mission in execution has a flow with all its handoffs, runs and memory
\* records, whatever calls were cut off, refused or repeated.
ExecutionIsSeeded ==
  mission = "in_execution" =>
    \E n \in Call : /\ phase[n] \in {"updated", "returned", "stopped"}
                    /\ \A d \in NeededBefore(flow[n], Memory + 1) : Recorded(d, n)

\* A call that returns has asked for every gate that was in force since it
\* began, even when it found the records of others.
GatesInForceAreAsked ==
  \A n \in Call : phase[n] \in {"updated", "returned"} =>
    \A k \in standing[n] : Recorded(AsDefinition(k), n)

-----------------------------------------------------------------------------
(* The inductive invariant behind the properties. *)

\* Overlapping is mutual and begins with the calls; calls in progress overlap.
OverlapsAreKnown ==
  /\ \A n \in Call : phase[n] = "new" => beside[n] = {}
  /\ \A m, n \in Call : m \in beside[n] => n \in beside[m]
  /\ \A m, n \in Call : m # n /\ Running(m) /\ Running(n) => m \in beside[n]

\* A record has a call that began.  The list that a call reads in a stage has
\* the stage's definitions, existing records, and all records of the stage but
\* those of calls that overlap it.
ListsAreRead ==
  /\ \A r \in records : phase[r.call] # "new"
  /\ \A n \in Call : phase[n] # "seeding" => stage[n] = 0
  /\ \A n \in Call : \A d \in todo[n] : d.stage = stage[n]
  /\ \A n \in Call : existing[n] \subseteq Keys
  /\ \A n \in Call, r \in records :
       phase[n] = "seeding" /\ r.key.stage = stage[n] /\ r.key \notin existing[n]
         => r.call # n /\ r.call \in beside[n]

\* A call has seen to what its flow needs up to its stage: it is there or, in
\* the stage the call is in, on its list.
SeenTo(d, n) ==
  /\ d.stage < stage[n] => Recorded(d, n)
  /\ d.stage = stage[n] => d \in todo[n] \/ Recorded(d, n)

StandingIsSeenTo ==
  \A n \in Call : \A k \in standing[n] :
    /\ k \in DOMAIN gates
    /\ gates[k].gate.active
    /\ gates[k].gate.flow = flow[n]
    /\ phase[n] = "seeding" => SeenTo(AsDefinition(k), n)

NeedsAreSeenTo ==
  \A n \in Call : phase[n] = "seeding" =>
    \A d \in NeededBefore(flow[n], Memory + 1) : SeenTo(d, n)

\* The gates that there are and those on a call's list are gates of the flow,
\* and a call leaves no stage of gates without a record.
GateRecorded(f, st) == \E r \in records : r.key.stage = st /\ r.key.what \in Subjects(f, st)
GatesAreSeenTo ==
  /\ \A k \in DOMAIN gates :
       gates[k].gate \in GateInput \cup {SeedGates[i].gate : i \in DOMAIN SeedGates}
  /\ \A n \in Call, st \in Gated : phase[n] = "seeding" =>
       /\ st <= stage[n] => GateRecorded(flow[n], st)
       /\ st = stage[n] => \A d \in todo[n] : d.what \in Subjects(flow[n], st)

IInv ==
  /\ TypeOK
  /\ OverlapsAreKnown
  /\ ListsAreRead
  /\ OneOfEach
  /\ StandingIsSeenTo
  /\ GatesInForceAreAsked
  /\ NeedsAreSeenTo
  /\ GatesAreSeenTo
  /\ SeededInOrder
  /\ ExecutionIsSeeded

=============================================================================
