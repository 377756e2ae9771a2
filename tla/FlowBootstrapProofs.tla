------------------------- MODULE FlowBootstrapProofs -------------------------
(* Proofs about FlowBootstrap: the parts of its inductive invariant, one    *)
(* after the other, for any number of calls, flows, agents and gates.       *)
EXTENDS FlowBootstrap, FiniteSetTheorems, TLAPS

-----------------------------------------------------------------------------
(* What the steps have in common. *)

\* A definition as it may be on a list, built in or from a gate.
Listed == [stage : Stage, what : STRING, from : Agent \cup {AnId},
           to : Agent \cup {AnId}, pos : Nat]

\* The definitions of a stage are typed, and belong to the stage.
LEMMA DefinitionsType ==
  ASSUME TypeOK, NEW f \in Flow, NEW st \in Stage
  PROVE  /\ Definitions(f, st) \subseteq Listed
         /\ \A d \in Definitions(f, st) : d.stage = st
  <1>1. ASSUME NEW k \in Policies(f, st)
        PROVE  AsDefinition(k) \in Listed /\ AsDefinition(k).stage = st
    BY <1>1 DEF Policies, AsDefinition, Listed, TypeOK, Gate, Gated, Stage
  <1>2. ASSUME NEW d \in Built[f]
        PROVE  d \in Listed
    BY ConstantsAssumption DEF Definition, Listed
  <1> QED
    BY <1>1, <1>2 DEF Definitions

\* So are those that a call misses, and their keys.
LEMMA MissingType ==
  ASSUME TypeOK, NEW n \in Call, NEW st \in Stage
  PROVE  /\ Missing(n, st) \subseteq Listed
         /\ \A d \in Missing(n, st) : KeyOf(d, n) \in Key /\ KeyOf(d, n).stage = d.stage
  <1>1. Definitions(flow[n], st) \subseteq Listed
    BY DefinitionsType DEF TypeOK
  <1>2. Missing(n, st) \subseteq Listed
    BY <1>1 DEF Missing, TypeOK, Listed
  <1>3. ASSUME NEW s
        PROVE  IdOf(n, s) \in Nat
    BY DEF IdOf, TypeOK, Profile
  <1>4. ASSUME NEW d \in Listed
        PROVE  KeyOf(d, n) \in Key /\ KeyOf(d, n).stage = d.stage
    BY <1>3 DEF KeyOf, Key, Listed
  <1> QED
    BY <1>2, <1>4

\* What a call misses in a stage belongs to the stage.
LEMMA MissingStage ==
  ASSUME TypeOK, ListsAreRead, NEW n \in Call, NEW st \in Stage
  PROVE  \A d \in Missing(n, st) : d.stage = st
  BY DefinitionsType DEF Missing, ListsAreRead, TypeOK

\* What Ensure does for a definition d of the stage st.
EnsureEffect(n, st, d) ==
  /\ phase[n] = "seeding"
  /\ st >= stage[n]
  /\ d \in Missing(n, st)
  /\ \A t \in Stage : stage[n] <= t /\ t < st => Missing(n, t) = {}
  /\ records' = records \cup {[key |-> KeyOf(d, n), pos |-> d.pos, call |-> n]}
  /\ stage' = [stage EXCEPT ![n] = st]
  /\ todo' = [todo EXCEPT ![n] = Missing(n, st)]
  /\ existing' = [existing EXCEPT ![n] =
       (IF st = stage[n] THEN existing[n] ELSE Keys) \cup {KeyOf(d, n)}]
  /\ UNCHANGED <<agents, enabled, gates, items, mission, phase, flow, directory, agentIds,
                 edits, beside, standing>>

\* Ensure creates the record of one definition.
LEMMA EnsureStep ==
  ASSUME NEW n \in Call, Ensure(n)
  PROVE  \E st \in Stage : \E d \in Missing(n, st) : EnsureEffect(n, st, d)
  BY DEF Ensure, EnsureEffect, ComesTo, First

\* A call stops, is done or returns: its list is dropped, nothing else of the
\* calls and the records changes.
EndEffect(n) ==
  /\ \E p \in {"updated", "returned", "stopped"} : Ends(n, p)
  /\ Running(n)
  /\ UNCHANGED <<agents, enabled, gates, items, records, flow, directory, agentIds, edits,
                 beside, standing>>

\* The four ways in which a call's phase ends have that effect.
LEMMA EndStep ==
  ASSUME NEW n \in Call, Refuse(n) \/ Update(n) \/ Return(n) \/ Fail(n)
  PROVE  EndEffect(n)
  BY DEF Refuse, Update, Return, Fail, EndEffect, Running

\* Steps that the calls do not take part in, besides those that change gates.
Elsewhere ==
  UNCHANGED <<gates, items, records, mission, callVars, beside, standing>>

\* Onboarding, capabilities and stuttering steps are such.
LEMMA ElsewhereStep ==
  Onboard \/ CreateCapability \/ UNCHANGED vars => Elsewhere
  BY DEF Onboard, CreateCapability, vars, Elsewhere

-----------------------------------------------------------------------------
(* Types. *)

\* The state in which the first call begins is well-typed.
LEMMA InitType == Init => TypeOK
  <1> SUFFICES ASSUME Init
               PROVE  TypeOK
    OBVIOUS
  <1>1. enabled \subseteq Sector
    BY ConstantsAssumption DEF Init, FirstEnabled
  <1>2. /\ DOMAIN gates \subseteq GateKey
        /\ \A k \in DOMAIN gates : gates[k] \in [gate : Gate, pos : Nat]
    BY ConstantsAssumption DEF Init, FirstDefaults
  <1> QED
    BY <1>1, <1>2, SeedAssumption DEF Init, TypeOK, Phase

\* After a restart every gate is as it was or as the default of its key.
LEMMA RestartGates ==
  ASSUME TypeOK, Restart, NEW k \in DOMAIN gates'
  PROVE  /\ gates'[k] \in [gate : Gate, pos : Nat]
         /\ \/ k \in DOMAIN gates /\ gates'[k] = gates[k]
            \/ k \in DOMAIN SeedGates /\ gates'[k].gate = SeedGates[k].gate
  <1>1. PICK K \in FirstDefaults :
          gates' = [i \in DOMAIN gates \cup K |->
            IF i \notin K THEN gates[i]
            ELSE [gate |-> SeedGates[i].gate,
                  pos |-> IF i \in DOMAIN gates THEN gates[i].pos
                          ELSE Cardinality(DOMAIN gates) + SeedGates[i].pos]]
    BY DEF Restart
  <1>2. CASE k \notin K
    BY <1>1, <1>2 DEF TypeOK
  <1>3. CASE k \in K
    <2>1. k \in DOMAIN SeedGates /\ SeedGates[k].gate \in Gate /\ SeedGates[k].pos \in Nat
      BY <1>3, ConstantsAssumption DEF FirstDefaults
    <2>2. Cardinality(DOMAIN gates) \in Nat
      BY ConstantsAssumption, FS_Subset, FS_CardinalityType DEF TypeOK
    <2>3. k \in DOMAIN gates => gates[k].pos \in Nat
      BY DEF TypeOK
    <2>4. PICK p \in Nat : gates'[k] = [gate |-> SeedGates[k].gate, pos |-> p]
      BY <1>1, <1>3, <2>1, <2>2, <2>3
    <2> QED
      BY <2>1, <2>4
  <1> QED
    BY <1>2, <1>3

\* Every step keeps the state well-typed.
LEMMA StepType == TypeOK /\ [Next]_vars => TypeOK'
  <1> SUFFICES ASSUME TypeOK, [Next]_vars
               PROVE  TypeOK'
    OBVIOUS
  <1>1. ASSUME NEW n \in Call, Begin(n)
        PROVE  TypeOK'
    <2>1. /\ items' \subseteq Flow
          /\ phase' \in [Call -> Phase]
          /\ directory' \in [Call -> [Slug -> Profile]]
      BY <1>1 DEF Begin, TypeOK, Phase
    <2>2. beside' \in [Call -> SUBSET Call]
      BY <1>1 DEF Begin, TypeOK
    <2>3. standing' \in [Call -> SUBSET GateKey]
      <3>1. UNION {Policies(flow[n], st) : st \in Gated} \subseteq GateKey
        BY DEF Policies, TypeOK
      <3> QED
        BY <1>1, <3>1 DEF Begin, TypeOK
    <2> QED
      BY <1>1, <2>1, <2>2, <2>3 DEF Begin, TypeOK
  <1>2. ASSUME NEW n \in Call, Ensure(n)
        PROVE  TypeOK'
    <2>1. PICK st \in Stage : \E d \in Missing(n, st) : EnsureEffect(n, st, d)
      BY <1>2, EnsureStep
    <2>2. PICK d \in Missing(n, st) : EnsureEffect(n, st, d)
      BY <2>1
    <2>3. /\ KeyOf(d, n) \in Key
          /\ d.pos \in Nat
          /\ Missing(n, st) \subseteq Listed
      BY MissingType DEF Listed
    <2>4. records' \subseteq [key : Key, pos : Nat, call : Call]
      BY <2>2, <2>3 DEF EnsureEffect, TypeOK
    <2>5. todo' \in [Call -> SUBSET Listed]
      BY <2>2, <2>3 DEF EnsureEffect, TypeOK, Listed
    <2>6. Keys \subseteq Key
      BY DEF Keys, TypeOK
    <2>7. existing' \in [Call -> SUBSET Key]
      BY <2>2, <2>3, <2>6 DEF EnsureEffect, TypeOK
    <2>8. stage' \in [Call -> Stage \cup {0}]
      BY <2>2 DEF EnsureEffect, TypeOK
    <2> QED
      BY <2>2, <2>4, <2>5, <2>7, <2>8 DEF EnsureEffect, TypeOK, Listed
  <1>3. ASSUME NEW n \in Call, Refuse(n) \/ Update(n) \/ Return(n) \/ Fail(n)
        PROVE  TypeOK'
    <2>1. /\ phase' \in [Call -> Phase]
          /\ stage' \in [Call -> Stage \cup {0}]
          /\ todo' \in [Call -> SUBSET Listed]
          /\ existing' \in [Call -> SUBSET Key]
      BY <1>3, EndStep DEF EndEffect, Ends, TypeOK, Phase, Listed
    <2>2. mission' \in {"open", "in_execution"}
      BY <1>3 DEF Refuse, Update, Return, Fail, TypeOK
    <2>3. UNCHANGED <<agents, enabled, gates, items, records, flow, directory, agentIds,
                      edits, beside, standing>>
      BY <1>3, EndStep DEF EndEffect
    <2> QED
      BY <2>1, <2>2, <2>3 DEF TypeOK, Listed
  <1>4. CASE CreateGatePolicy
    <2>1. PICK k \in GateKey, g \in GateInput :
            /\ gates' = [i \in DOMAIN gates \cup {k} |->
                 IF i # k THEN gates[i]
                 ELSE [gate |-> g,
                       pos |-> IF k \in DOMAIN gates THEN gates[k].pos
                               ELSE Cardinality(DOMAIN gates) + 1]]
            /\ standing' = [n \in Call |-> standing[n] \ {k}]
      BY <1>4 DEF CreateGatePolicy
    <2>2. Cardinality(DOMAIN gates) \in Nat
      BY ConstantsAssumption, FS_Subset, FS_CardinalityType DEF TypeOK
    <2>3. DOMAIN gates' \subseteq GateKey
      BY <2>1 DEF TypeOK
    <2>4. ASSUME NEW i \in DOMAIN gates'
          PROVE  gates'[i] \in [gate : Gate, pos : Nat]
      <3>1. CASE i # k
        BY <2>1, <3>1 DEF TypeOK
      <3>2. CASE i = k
        <4>1. gates'[i] = [gate |-> g,
                           pos |-> IF k \in DOMAIN gates THEN gates[k].pos
                                   ELSE Cardinality(DOMAIN gates) + 1]
          BY <2>1, <3>2
        <4>2. k \in DOMAIN gates => gates[k].pos \in Nat
          BY DEF TypeOK
        <4> QED
          BY <4>1, <4>2, <2>2, ConstantsAssumption
      <3> QED
        BY <3>1, <3>2
    <2>5. standing' \in [Call -> SUBSET GateKey]
      BY <2>1 DEF TypeOK
    <2>6. edits' \in Nat
      BY <1>4 DEF CreateGatePolicy, TypeOK
    <2> QED
      BY <1>4, <2>3, <2>4, <2>5, <2>6 DEF CreateGatePolicy, TypeOK, callVars
  <1>5. CASE Onboard
    <2>1. PICK s \in Slug, i \in (1..MaxAgentId) \ agentIds, p \in Position :
            /\ agents' = [agents EXCEPT ![s] =
                 [id |-> i, sector |-> p[1], leads |-> p[2], active |-> FALSE]]
            /\ agentIds' = agentIds \cup {i}
      BY <1>5 DEF Onboard
    <2>2. [id |-> i, sector |-> p[1], leads |-> p[2], active |-> FALSE] \in Profile
      BY ConstantsAssumption DEF Profile
    <2>3. agents' \in [Slug -> Profile]
      <3>1. agents \in [Slug -> Profile]
        BY DEF TypeOK
      <3> QED
        BY <2>1, <2>2, <3>1
    <2>4. agentIds' \subseteq Nat
      <3>1. agentIds \subseteq Nat /\ i \in Nat
        BY ConstantsAssumption DEF TypeOK
      <3> QED
        BY <2>1, <3>1
    <2> QED
      BY <1>5, <2>3, <2>4 DEF Onboard, TypeOK, callVars
  <1>6. CASE CreateCapability \/ UNCHANGED vars
    BY <1>6 DEF CreateCapability, TypeOK, vars, callVars
  <1>7. CASE Restart
    <2>1. DOMAIN gates' \subseteq GateKey
      <3>1. PICK K \in FirstDefaults : DOMAIN gates' = DOMAIN gates \cup K
        BY <1>7 DEF Restart
      <3> QED
        BY <3>1, ConstantsAssumption DEF FirstDefaults, TypeOK
    <2>2. ASSUME NEW i \in DOMAIN gates'
          PROVE  gates'[i] \in [gate : Gate, pos : Nat]
      BY <1>7, <2>2, RestartGates
    <2>3. UNCHANGED <<agents, enabled, items, records, mission, callVars, agentIds, edits,
                      beside, standing>>
      BY <1>7 DEF Restart
    <2> QED
      BY <2>1, <2>2, <2>3 DEF TypeOK, callVars
  <1> QED
    BY <1>1, <1>2, <1>3, <1>4, <1>5, <1>6, <1>7 DEF Next

\* The state is well-typed as long as the service runs.
THEOREM TypeCorrect == Spec => []TypeOK
  BY InitType, StepType, PTL DEF Spec

-----------------------------------------------------------------------------
(* One record of each, but for calls that overlap. *)

\* Which calls overlap is known from the first state on.
LEMMA StepOverlaps == TypeOK /\ OverlapsAreKnown /\ [Next]_vars => OverlapsAreKnown'
  <1> SUFFICES ASSUME TypeOK, OverlapsAreKnown, [Next]_vars
               PROVE  OverlapsAreKnown'
    OBVIOUS
  <1>1. ASSUME NEW n \in Call, Begin(n)
        PROVE  OverlapsAreKnown'
    <2> DEFINE others == {m \in Call : Running(m)}
    <2>1. \A m \in Call : Running(m)' <=> m = n \/ m \in others
      BY <1>1 DEF Begin, Running, TypeOK
    <2>2. \A m \in Call : phase'[m] = "new" => phase[m] = "new" /\ m # n /\ m \notin others
      BY <1>1 DEF Begin, Running, TypeOK
    <2>3. n \notin others /\ beside[n] = {}
      BY <1>1 DEF Begin, Running, OverlapsAreKnown
    <2>4. \A m \in Call : beside'[m] = IF m = n THEN others
                                      ELSE IF m \in others THEN beside[m] \cup {n}
                                      ELSE beside[m]
      BY <1>1 DEF Begin
    <2>5. \A m \in Call : phase'[m] = "new" => beside'[m] = {}
      BY <2>2, <2>4 DEF OverlapsAreKnown
    <2>6. \A m \in Call : n \notin beside[m]
      BY <2>3 DEF OverlapsAreKnown
    <2>7. ASSUME NEW i \in Call, NEW m \in Call, i \in beside'[m]
          PROVE  m \in beside'[i]
      <3>1. CASE i = n \/ m = n
        BY <2>3, <2>4, <2>6, <2>7, <3>1
      <3>2. CASE i # n /\ m # n
        <4>1. i \in beside[m]
          BY <2>4, <2>7, <3>2
        <4>2. m \in beside[i]
          BY <4>1 DEF OverlapsAreKnown
        <4> QED
          BY <2>4, <3>2, <4>2
      <3> QED
        BY <3>1, <3>2
    <2>8. \A i, m \in Call : i # m /\ Running(i)' /\ Running(m)' => i \in beside'[m]
      BY <2>1, <2>4 DEF OverlapsAreKnown
    <2> QED
      BY <2>5, <2>7, <2>8 DEF OverlapsAreKnown, Running
  <1>2. ASSUME NEW n \in Call, Ensure(n)
        PROVE  OverlapsAreKnown'
    BY <1>2 DEF Ensure, OverlapsAreKnown, Running
  <1>3. ASSUME NEW n \in Call, Refuse(n) \/ Update(n) \/ Return(n) \/ Fail(n)
        PROVE  OverlapsAreKnown'
    <2>1. \A m \in Call : /\ Running(m)' => Running(m)
                          /\ phase'[m] = "new" => phase[m] = "new"
      BY <1>3, EndStep DEF EndEffect, Ends, Running, TypeOK
    <2>2. beside' = beside
      BY <1>3, EndStep DEF EndEffect
    <2> QED
      BY <2>1, <2>2 DEF OverlapsAreKnown, Running
  <1>4. CASE CreateGatePolicy \/ Restart \/ Elsewhere
    BY <1>4 DEF CreateGatePolicy, Restart, Elsewhere, callVars, OverlapsAreKnown, Running
  <1> QED
    BY <1>1, <1>2, <1>3, <1>4, ElsewhereStep DEF Next

\* The list of a stage has all records but those of calls that overlap.
LEMMA StepLists ==
  TypeOK /\ OverlapsAreKnown /\ ListsAreRead /\ [Next]_vars => ListsAreRead'
  <1> SUFFICES ASSUME TypeOK, OverlapsAreKnown, ListsAreRead, [Next]_vars
               PROVE  ListsAreRead'
    OBVIOUS
  <1> USE DEF Stage, Handoffs, Memory
  <1>1. ASSUME NEW n \in Call, Begin(n)
        PROVE  ListsAreRead'
    <2>1. stage[n] = 0
      BY <1>1 DEF Begin, ListsAreRead
    <2>2. \A r \in records : r.key.stage # 0 /\ r.call \in Call
      BY DEF TypeOK, Key
    <2>3. \A m \in Call : beside[m] \subseteq beside'[m] \/ m = n
      BY <1>1 DEF Begin
    <2>4. /\ \A m \in Call : phase'[m] = IF m = n THEN "seeding" ELSE phase[m]
          /\ UNCHANGED <<records, stage, todo, existing>>
      BY <1>1 DEF Begin, TypeOK
    <2> QED
      BY <2>1, <2>2, <2>3, <2>4 DEF ListsAreRead, Keys
  <1>2. ASSUME NEW n \in Call, Ensure(n)
        PROVE  ListsAreRead'
    <2>1. PICK st \in Stage : \E d \in Missing(n, st) : EnsureEffect(n, st, d)
      BY <1>2, EnsureStep
    <2>2. PICK d \in Missing(n, st) : EnsureEffect(n, st, d)
      BY <2>1
    <2> DEFINE new == [key |-> KeyOf(d, n), pos |-> d.pos, call |-> n]
    <2>3. /\ new.call = n /\ new.key = KeyOf(d, n)
          /\ records' = records \cup {new}
      BY <2>2 DEF EnsureEffect
    <2>4. \A e \in Missing(n, st) : e.stage = st
      BY MissingStage
    <2>5. new.key.stage = st
      BY <2>3, <2>4, MissingType
    <2>6. Keys' = Keys \cup {new.key}
      BY <2>3 DEF Keys
    <2> HIDE DEF new
    <2>7. \A m \in Call :
            /\ stage'[m] = IF m = n THEN st ELSE stage[m]
            /\ todo'[m] = IF m = n THEN Missing(n, st) ELSE todo[m]
            /\ existing'[m] = IF m # n THEN existing[m]
                             ELSE (IF st = stage[n] THEN existing[n] ELSE Keys) \cup {new.key}
      BY <2>2, <2>3 DEF EnsureEffect, TypeOK
    <2>8. phase' = phase /\ beside' = beside /\ phase[n] = "seeding"
      BY <2>2 DEF EnsureEffect
    <2>9. ASSUME NEW m \in Call, NEW r \in records', phase'[m] = "seeding",
                 r.key.stage = stage'[m], r.key \notin existing'[m]
          PROVE  r.call # m /\ r.call \in beside'[m]
      <3>1. CASE r \in records /\ m # n
        BY <2>7, <2>8, <2>9, <3>1 DEF ListsAreRead
      <3>2. CASE r \in records /\ m = n
        <4>1. st = stage[n]
          BY <2>7, <2>9, <3>2 DEF Keys
        <4> QED
          BY <2>7, <2>8, <2>9, <3>2, <4>1 DEF ListsAreRead
      <3>3. CASE r = new
        <4>1. m # n
          BY <2>7, <2>9, <3>3
        <4> QED
          BY <2>3, <2>8, <2>9, <3>3, <4>1 DEF OverlapsAreKnown, Running
      <3> QED
        BY <2>3, <3>1, <3>2, <3>3
    <2>10. \A r \in records' : phase'[r.call] # "new"
      BY <2>3, <2>8 DEF ListsAreRead
    <2>11. \A m \in Call : phase'[m] # "seeding" => stage'[m] = 0
      BY <2>7, <2>8 DEF ListsAreRead
    <2>12. \A m \in Call : \A e \in todo'[m] : e.stage = stage'[m]
      BY <2>4, <2>7 DEF ListsAreRead
    <2>13. \A m \in Call : existing'[m] \subseteq Keys'
      BY <2>6, <2>7 DEF ListsAreRead
    <2> QED
      BY <2>9, <2>10, <2>11, <2>12, <2>13 DEF ListsAreRead
  <1>3. ASSUME NEW n \in Call, Refuse(n) \/ Update(n) \/ Return(n) \/ Fail(n)
        PROVE  ListsAreRead'
    <2>1. /\ phase'[n] \notin {"new", "seeding"}
          /\ stage'[n] = 0 /\ todo'[n] = {} /\ existing'[n] = {}
          /\ \A m \in Call : m # n =>
               /\ phase'[m] = phase[m] /\ stage'[m] = stage[m]
               /\ todo'[m] = todo[m] /\ existing'[m] = existing[m]
      BY <1>3, EndStep DEF EndEffect, Ends, TypeOK
    <2>2. records' = records /\ beside' = beside
      BY <1>3, EndStep DEF EndEffect
    <2>3. \A r \in records : r.call \in Call
      BY DEF TypeOK
    <2> QED
      BY <2>1, <2>2, <2>3 DEF ListsAreRead, Keys
  <1>4. CASE CreateGatePolicy \/ Restart \/ Elsewhere
    BY <1>4 DEF CreateGatePolicy, Restart, Elsewhere, callVars, ListsAreRead, Keys
  <1> QED
    BY <1>1, <1>2, <1>3, <1>4, ElsewhereStep DEF Next

\* A record that counts as another's is created only beside the other's call.
LEMMA StepOneOfEach ==
  TypeOK /\ OverlapsAreKnown /\ ListsAreRead /\ OneOfEach /\ [Next]_vars => OneOfEach'
  <1> SUFFICES ASSUME TypeOK, OverlapsAreKnown, ListsAreRead, OneOfEach, [Next]_vars
               PROVE  OneOfEach'
    OBVIOUS
  <1>1. ASSUME NEW n \in Call, Begin(n)
        PROVE  OneOfEach'
    <2>1. \A m \in Call : phase[m] # "new" => beside[m] \subseteq beside'[m]
      BY <1>1 DEF Begin
    <2>2. \A r \in records : r.call \in Call /\ phase[r.call] # "new"
      BY DEF TypeOK, ListsAreRead
    <2> QED
      BY <1>1, <2>1, <2>2 DEF Begin, OneOfEach
  <1>2. ASSUME NEW n \in Call, Ensure(n)
        PROVE  OneOfEach'
    <2>1. PICK st \in Stage : \E d \in Missing(n, st) : EnsureEffect(n, st, d)
      BY <1>2, EnsureStep
    <2>2. PICK d \in Missing(n, st) : EnsureEffect(n, st, d)
      BY <2>1
    <2> DEFINE new == [key |-> KeyOf(d, n), pos |-> d.pos, call |-> n]
    <2>3. /\ new.call = n /\ new.key = KeyOf(d, n)
          /\ records' = records \cup {new} /\ beside' = beside
      BY <2>2 DEF EnsureEffect
    <2>4. new.key.stage = st
      BY <2>3, MissingType, MissingStage
    <2>5. phase[n] = "seeding"
      BY <2>2 DEF EnsureEffect
    <2>6. new.key \notin IF st = stage[n] THEN existing[n] ELSE Keys
      BY <2>3 DEF Missing
    <2> HIDE DEF new
    <2>7. ASSUME NEW s \in records, s.key = new.key
          PROVE  s.call \in beside[n] /\ n \in beside[s.call]
      <3>1. s.key \in Keys
        BY DEF Keys
      <3>2. stage[n] = st /\ s.key \notin existing[n]
        BY <2>6, <2>7, <3>1
      <3>3. s.call \in beside[n]
        BY <2>4, <2>5, <2>7, <3>2 DEF ListsAreRead
      <3> QED
        BY <3>3 DEF OverlapsAreKnown, TypeOK
    <2> QED
      BY <2>3, <2>7 DEF OneOfEach
  <1>3. ASSUME NEW n \in Call, Refuse(n) \/ Update(n) \/ Return(n) \/ Fail(n)
        PROVE  OneOfEach'
    BY <1>3, EndStep DEF EndEffect, OneOfEach
  <1>4. CASE CreateGatePolicy \/ Restart \/ Elsewhere
    BY <1>4 DEF CreateGatePolicy, Restart, Elsewhere, OneOfEach
  <1> QED
    BY <1>1, <1>2, <1>3, <1>4, ElsewhereStep DEF Next

-----------------------------------------------------------------------------
(* What a call has seen to. *)

\* Records stay, and an identification of agents stays once a call has begun.
LEMMA RecordsAreKept ==
  ASSUME TypeOK, [Next]_vars
  PROVE  /\ records \subseteq records' /\ flow' = flow
         /\ \A n \in Call : phase[n] # "new" =>
              directory'[n] = directory[n] /\ phase'[n] # "new"
  <1>1. CASE \E n \in Call : Begin(n)
    BY <1>1 DEF Begin, TypeOK
  <1>2. CASE \E n \in Call : Ensure(n)
    BY <1>2 DEF Ensure
  <1>3. CASE \E n \in Call : Refuse(n) \/ Update(n) \/ Return(n) \/ Fail(n)
    BY <1>3, EndStep DEF EndEffect, Ends, TypeOK
  <1>4. CASE CreateGatePolicy \/ Restart \/ Elsewhere
    BY <1>4 DEF CreateGatePolicy, Restart, Elsewhere, callVars
  <1> QED
    BY <1>1, <1>2, <1>3, <1>4, ElsewhereStep DEF Next

\* What is recorded for a call stays so.
LEMMA RecordedStays ==
  ASSUME TypeOK, [Next]_vars, NEW n \in Call, phase[n] # "new", NEW d, Recorded(d, n)
  PROVE  Recorded(d, n)'
  <1>1. records \subseteq records' /\ directory'[n] = directory[n]
    BY RecordsAreKept
  <1>2. KeyOf(d, n)' = KeyOf(d, n)
    BY <1>1 DEF KeyOf, IdOf
  <1> QED
    BY <1>1, <1>2 DEF Recorded

\* A definition that a call comes across, or that was on its list.
OnTheWay(d, n) == d.stage > stage[n] => d \in Definitions(flow[n], d.stage)

\* Where nothing is missing, all that a call sees to is recorded.
LEMMA NothingMissing ==
  ASSUME TypeOK, ListsAreRead, NEW n \in Call, NEW d, d.stage \in Stage,
         SeenTo(d, n), OnTheWay(d, n),
         d.stage >= stage[n] => Missing(n, d.stage) = {}
  PROVE  Recorded(d, n)
  <1> USE DEF Stage, Handoffs, Memory
  <1>1. d.stage \in Nat /\ stage[n] \in Nat
    BY DEF TypeOK
  <1>2. CASE d.stage < stage[n]
    BY <1>2 DEF SeenTo
  <1>3. CASE d.stage = stage[n]
    BY <1>1, <1>3 DEF SeenTo, Missing, Recorded, ListsAreRead, Keys
  <1>4. CASE d.stage > stage[n]
    BY <1>1, <1>4 DEF OnTheWay, Missing, Recorded, Keys
  <1> QED
    BY <1>1, <1>2, <1>3, <1>4

\* Ensure leaves behind what is recorded, and puts on the list what is not.
LEMMA EnsureSeesTo ==
  ASSUME TypeOK, ListsAreRead, [Next]_vars, NEW n \in Call, Ensure(n),
         NEW d, d.stage \in Stage, SeenTo(d, n), OnTheWay(d, n)
  PROVE  SeenTo(d, n)'
  <1> USE DEF Stage, Handoffs, Memory
  <1>1. PICK st \in Stage : \E e \in Missing(n, st) : EnsureEffect(n, st, e)
    BY EnsureStep
  <1>2. PICK e \in Missing(n, st) : EnsureEffect(n, st, e)
    BY <1>1
  <1>3. stage'[n] = st /\ todo'[n] = Missing(n, st) /\ stage[n] <= st /\ stage[n] \in Nat
    <2>1. /\ stage' = [stage EXCEPT ![n] = st] /\ st >= stage[n]
          /\ todo' = [todo EXCEPT ![n] = Missing(n, st)]
      BY <1>2 DEF EnsureEffect
    <2>2. stage \in [Call -> Stage \cup {0}] /\ DOMAIN todo = Call
      BY DEF TypeOK
    <2> QED
      BY <2>1, <2>2
  <1>4. \A t \in Stage : stage[n] <= t /\ t < st => Missing(n, t) = {}
    BY <1>2 DEF EnsureEffect
  <1>5. phase[n] # "new"
    BY DEF Ensure
  <1>6. CASE d.stage < st
    <2>1. Recorded(d, n)
      BY <1>3, <1>4, <1>6, NothingMissing
    <2>2. Recorded(d, n)'
      BY <1>5, <2>1, RecordedStays
    <2> QED
      BY <1>3, <1>6, <2>2 DEF SeenTo
  <1>7. CASE d.stage = st
    <2>1. CASE d \in Missing(n, st)
      BY <1>3, <1>7, <2>1 DEF SeenTo
    <2>2. CASE d \notin Missing(n, st)
      <3>1. Recorded(d, n)
        <4>1. CASE st = stage[n]
          BY <1>7, <2>2, <4>1 DEF SeenTo, Missing, Recorded, ListsAreRead, Keys
        <4>2. CASE st > stage[n]
          BY <1>3, <1>7, <2>2, <4>2 DEF OnTheWay, Missing, Recorded, Keys
        <4> QED
          BY <1>3, <4>1, <4>2
      <3>2. Recorded(d, n)'
        BY <1>5, <3>1, RecordedStays
      <3> QED
        BY <1>3, <1>7, <3>2 DEF SeenTo
    <2> QED
      BY <2>1, <2>2
  <1>8. CASE d.stage > st
    BY <1>3, <1>8 DEF SeenTo
  <1> QED
    BY <1>3, <1>6, <1>7, <1>8

\* In every other step of another call, and of nobody, a call's list stays.
LEMMA ListIsTheSame ==
  ASSUME TypeOK, [Next]_vars, NEW n \in Call, phase'[n] = "seeding",
         phase[n] = "seeding", ~Ensure(n)
  PROVE  stage'[n] = stage[n] /\ todo'[n] = todo[n]
  <1>1. CASE \E m \in Call : Begin(m)
    BY <1>1 DEF Begin
  <1>2. CASE \E m \in Call : Ensure(m)
    <2>1. PICK m \in Call : Ensure(m)
      BY <1>2
    <2>2. m # n
      BY <2>1
    <2> QED
      BY <2>1, <2>2 DEF Ensure, TypeOK
  <1>3. CASE \E m \in Call : Refuse(m) \/ Update(m) \/ Return(m) \/ Fail(m)
    BY <1>3, EndStep DEF EndEffect, Ends, TypeOK
  <1>4. CASE CreateGatePolicy \/ Restart \/ Elsewhere
    BY <1>4 DEF CreateGatePolicy, Restart, Elsewhere, callVars
  <1> QED
    BY <1>1, <1>2, <1>3, <1>4, ElsewhereStep DEF Next

\* So does what it has seen to.
LEMMA ListStays ==
  ASSUME TypeOK, [Next]_vars, NEW n \in Call, phase'[n] = "seeding",
         phase[n] = "seeding", ~Ensure(n), NEW d, SeenTo(d, n)
  PROVE  SeenTo(d, n)'
  <1>1. stage'[n] = stage[n] /\ todo'[n] = todo[n]
    BY ListIsTheSame
  <1>2. Recorded(d, n) => Recorded(d, n)'
    BY RecordedStays
  <1> QED
    BY <1>1, <1>2 DEF SeenTo

\* A call begins before the first stage.
LEMMA BeginsFirst ==
  ASSUME TypeOK, ListsAreRead, [Next]_vars, NEW n \in Call, phase'[n] = "seeding",
         phase[n] # "seeding"
  PROVE  Begin(n) /\ stage'[n] = 0
  <1>1. CASE \E m \in Call : Begin(m)
    <2>1. PICK m \in Call : Begin(m)
      BY <1>1
    <2>2. m = n
      BY <2>1 DEF Begin, TypeOK
    <2>3. stage'[n] = 0
      BY <2>1, <2>2 DEF Begin, ListsAreRead
    <2> QED
      BY <2>1, <2>2, <2>3
  <1>2. CASE \E m \in Call : Ensure(m)
    BY <1>2 DEF Ensure
  <1>3. CASE \E m \in Call : Refuse(m) \/ Update(m) \/ Return(m) \/ Fail(m)
    BY <1>3, EndStep DEF EndEffect, Ends, TypeOK
  <1>4. CASE CreateGatePolicy \/ Restart \/ Elsewhere
    BY <1>4 DEF CreateGatePolicy, Restart, Elsewhere, callVars
  <1> QED
    BY <1>1, <1>2, <1>3, <1>4, ElsewhereStep DEF Next

\* A call is done when nothing is missing any more.
LEMMA DoneWhenNothingMissing ==
  ASSUME TypeOK, [Next]_vars, NEW n \in Call, phase'[n] \in {"updated", "returned"}
  PROVE  \/ phase[n] \in {"updated", "returned"}
         \/ Update(n)
  <1>1. CASE \E m \in Call : Begin(m)
    BY <1>1 DEF Begin, TypeOK
  <1>2. CASE \E m \in Call : Ensure(m)
    BY <1>2 DEF Ensure
  <1>3. CASE \E m \in Call : Refuse(m) \/ Return(m) \/ Fail(m)
    BY <1>3 DEF Refuse, Return, Fail, Ends, TypeOK
  <1>4. CASE \E m \in Call : Update(m)
    BY <1>4 DEF Update, Ends, TypeOK
  <1>5. CASE CreateGatePolicy \/ Restart \/ Elsewhere
    BY <1>5 DEF CreateGatePolicy, Restart, Elsewhere, callVars
  <1> QED
    BY <1>1, <1>2, <1>3, <1>4, <1>5, ElsewhereStep DEF Next

-----------------------------------------------------------------------------
(* Every gate in force is asked. *)

\* The gates that have stood since a call began are seen to by it.
LEMMA StepStanding ==
  ASSUME TypeOK, ListsAreRead, StandingIsSeenTo, [Next]_vars
  PROVE  StandingIsSeenTo'
  <1> USE DEF Gated, Approvals, Validations, Stage, Handoffs, Memory
  <1>1. SUFFICES ASSUME NEW n \in Call, NEW k \in standing'[n]
                 PROVE  /\ k \in DOMAIN gates'
                        /\ gates'[k].gate.active
                        /\ gates'[k].gate.flow = flow'[n]
                        /\ phase'[n] = "seeding" => SeenTo(AsDefinition(k), n)'
    BY DEF StandingIsSeenTo
  <1>2. CASE k \in standing[n]
    <2>1. gates'[k] = gates[k] /\ k \in DOMAIN gates'
      <3>1. CASE CreateGatePolicy
        BY <1>1, <1>2, <3>1 DEF CreateGatePolicy, StandingIsSeenTo
      <3>2. CASE ~CreateGatePolicy /\ ~Restart
        <4>1. gates' = gates
          BY <3>2, EndStep, ElsewhereStep
             DEF Next, Begin, Ensure, EndEffect, Elsewhere
        <4> QED
          BY <1>2, <4>1 DEF StandingIsSeenTo
      <3>3. CASE Restart
        BY <1>2, <3>3 DEF Restart, StandingIsSeenTo
      <3> QED
        BY <3>1, <3>2, <3>3
    <2>2. flow' = flow
      BY RecordsAreKept
    <2>3. /\ gates[k].gate.active /\ gates[k].gate.flow = flow[n] /\ k \in DOMAIN gates
          /\ phase[n] = "seeding" => SeenTo(AsDefinition(k), n)
      BY <1>2 DEF StandingIsSeenTo
    <2>4. PICK d : d = AsDefinition(k)
      OBVIOUS
    <2>5. AsDefinition(k)' = d
      BY <2>1, <2>4 DEF AsDefinition
    <2>6. d.stage = gates[k].gate.stage /\ d.stage \in Gated
      BY <2>3, <2>4 DEF AsDefinition, TypeOK, Gate
    <2>7. OnTheWay(d, n)
      BY <2>3, <2>4, <2>6 DEF OnTheWay, Definitions, Policies
    <2>8. ASSUME phase'[n] = "seeding"
          PROVE  SeenTo(d, n)'
      <3>1. CASE phase[n] = "seeding"
        <4>1. SeenTo(d, n)
          BY <2>3, <2>4, <3>1
        <4>2. CASE Ensure(n)
          BY <2>6, <2>7, <4>1, <4>2, EnsureSeesTo
        <4>3. CASE ~Ensure(n)
          BY <2>8, <3>1, <4>1, <4>3, ListStays
        <4> QED
          BY <4>2, <4>3
      <3>2. CASE phase[n] # "seeding"
        <4>1. stage'[n] = 0
          BY <2>8, <3>2, BeginsFirst
        <4> QED
          BY <2>6, <4>1 DEF SeenTo
      <3> QED
        BY <3>1, <3>2
    <2>9. phase'[n] = "seeding" => SeenTo(AsDefinition(k), n)'
      BY <2>5, <2>8 DEF SeenTo, Recorded, KeyOf, IdOf
    <2> QED
      BY <2>1, <2>2, <2>3, <2>9
  <1>3. CASE k \notin standing[n]
    <2>1. Begin(n)
      <3>1. CASE \E m \in Call : Begin(m)
        <4>1. PICK m \in Call : Begin(m)
          BY <3>1
        <4>2. m = n
          BY <1>1, <1>3, <4>1 DEF Begin, TypeOK
        <4> QED
          BY <4>1, <4>2
      <3>2. CASE CreateGatePolicy
        BY <1>1, <1>3, <3>2 DEF CreateGatePolicy
      <3>3. CASE ~(\E m \in Call : Begin(m)) /\ ~CreateGatePolicy
        <4>1. standing' = standing
          BY <3>3, EndStep, ElsewhereStep DEF Next, Ensure, EndEffect, Elsewhere, Restart
        <4> QED
          BY <1>1, <1>3, <4>1
      <3> QED
        BY <3>1, <3>2, <3>3
    <2>2. k \in UNION {Policies(flow[n], st) : st \in Gated}
      BY <1>1, <2>1 DEF Begin, TypeOK
    <2>3. k \in DOMAIN gates /\ gates[k].gate.active /\ gates[k].gate.flow = flow[n]
      BY <2>2 DEF Policies
    <2>4. gates' = gates /\ flow' = flow /\ stage'[n] = 0
      BY <2>1 DEF Begin, ListsAreRead
    <2>5. AsDefinition(k)'.stage \in Gated
      BY <2>3, <2>4 DEF AsDefinition, TypeOK, Gate
    <2> QED
      BY <2>3, <2>4, <2>5 DEF SeenTo
  <1> QED
    BY <1>2, <1>3

\* A call that is done has a record for every gate that has stood.
LEMMA StepGatesInForce ==
  ASSUME TypeOK, ListsAreRead, StandingIsSeenTo, GatesInForceAreAsked, [Next]_vars
  PROVE  GatesInForceAreAsked'
  <1> USE DEF Gated, Approvals, Validations, Stage, Handoffs, Memory
  <1>1. SUFFICES ASSUME NEW n \in Call, phase'[n] \in {"updated", "returned"},
                        NEW k \in standing'[n]
                 PROVE  Recorded(AsDefinition(k), n)'
    BY DEF GatesInForceAreAsked
  <1>2. phase[n] \in {"updated", "returned"} \/ Update(n)
    BY <1>1, DoneWhenNothingMissing
  <1>3. phase[n] # "new"
    BY <1>2 DEF Update
  <1>4. k \in standing[n]
    <2>1. CASE \E m \in Call : Begin(m)
      BY <1>1, <1>3, <2>1 DEF Begin, TypeOK
    <2>2. CASE CreateGatePolicy
      BY <1>1, <2>2 DEF CreateGatePolicy
    <2>3. CASE ~(\E m \in Call : Begin(m)) /\ ~CreateGatePolicy
      <3>1. standing' = standing
        BY <2>3, EndStep, ElsewhereStep DEF Next, Ensure, EndEffect, Elsewhere, Restart
      <3> QED
        BY <1>1, <3>1
    <2> QED
      BY <2>1, <2>2, <2>3
  <1>5. gates'[k] = gates[k] /\ k \in DOMAIN gates
    <2>1. CASE CreateGatePolicy
      BY <1>1, <1>4, <2>1 DEF CreateGatePolicy, StandingIsSeenTo
    <2>2. CASE ~CreateGatePolicy /\ ~Restart
      <3>1. gates' = gates
        BY <2>2, EndStep, ElsewhereStep DEF Next, Begin, Ensure, EndEffect, Elsewhere
      <3> QED
        BY <1>4, <3>1 DEF StandingIsSeenTo
    <2>3. CASE Restart
      BY <1>4, <2>3 DEF Restart, StandingIsSeenTo
    <2> QED
      BY <2>1, <2>2, <2>3
  <1>6. PICK d : d = AsDefinition(k)
    OBVIOUS
  <1>7. AsDefinition(k)' = d
    BY <1>5, <1>6 DEF AsDefinition
  <1>8. Recorded(d, n)
    <2>1. CASE phase[n] \in {"updated", "returned"}
      BY <1>4, <1>6, <2>1 DEF GatesInForceAreAsked
    <2>2. CASE Update(n)
      <3>1. phase[n] = "seeding"
        BY <2>2 DEF Update
      <3>2. SeenTo(d, n) /\ gates[k].gate.active /\ gates[k].gate.flow = flow[n]
        BY <1>4, <1>6, <3>1 DEF StandingIsSeenTo
      <3>3. d.stage = gates[k].gate.stage /\ d.stage \in Gated
        BY <1>5, <1>6 DEF AsDefinition, TypeOK, Gate
      <3>4. OnTheWay(d, n)
        BY <1>5, <1>6, <3>2, <3>3 DEF OnTheWay, Definitions, Policies
      <3>5. d.stage >= stage[n] => Missing(n, d.stage) = {}
        BY <2>2, <3>3 DEF Update
      <3> QED
        BY <3>2, <3>3, <3>4, <3>5, NothingMissing
    <2> QED
      BY <1>2, <2>1, <2>2
  <1>9. Recorded(d, n)'
    BY <1>3, <1>8, RecordedStays
  <1> QED
    BY <1>7, <1>9 DEF Recorded, KeyOf, IdOf

-----------------------------------------------------------------------------
(* The stages come in order. *)

\* What a flow needs besides gates is always on the way, whatever the policies.
LEMMA NeedsAreOnTheWay ==
  ASSUME NEW n \in Call, NEW d \in NeededBefore(flow[n], Memory + 1), flow[n] \in Flow
  PROVE  OnTheWay(d, n) /\ d.stage \in Stage
  BY ConstantsAssumption
     DEF NeededBefore, OnTheWay, Definitions, Definition, Gated, Stage

\* A call that is seeding sees to its flow's needs.
LEMMA StepNeeds ==
  ASSUME TypeOK, ListsAreRead, NeedsAreSeenTo, [Next]_vars
  PROVE  NeedsAreSeenTo'
  <1>1. flow' = flow /\ \A m \in Call : flow[m] \in Flow
    BY RecordsAreKept DEF TypeOK
  <1>2. ASSUME NEW n \in Call, phase'[n] = "seeding",
               NEW d \in NeededBefore(flow[n], Memory + 1)
        PROVE  SeenTo(d, n)'
    <2>1. OnTheWay(d, n) /\ d.stage \in Stage
      BY <1>1, NeedsAreOnTheWay
    <2>2. CASE phase[n] = "seeding"
      <3>1. SeenTo(d, n)
        BY <2>2 DEF NeedsAreSeenTo
      <3>2. CASE Ensure(n)
        BY <2>1, <3>1, <3>2, EnsureSeesTo
      <3>3. CASE ~Ensure(n)
        BY <1>2, <2>2, <3>1, <3>3, ListStays
      <3> QED
        BY <3>2, <3>3
    <2>3. CASE phase[n] # "seeding"
      <3>1. stage'[n] = 0
        BY <1>2, <2>3, BeginsFirst
      <3> QED
        BY <2>1, <3>1 DEF SeenTo, Stage, Handoffs, Memory
    <2> QED
      BY <2>2, <2>3
  <1> QED
    BY <1>1, <1>2 DEF NeedsAreSeenTo, NeededBefore

\* The gates of a flow's list are about its subjects.
LEMMA DefinitionSubjects ==
  ASSUME TypeOK, GatesAreSeenTo, NEW f \in Flow, NEW st \in Gated,
         NEW d \in Definitions(f, st)
  PROVE  d.what \in Subjects(f, st)
  <1>1. CASE d \in {e \in Built[f] : e.stage = st}
    BY <1>1 DEF Subjects
  <1>2. ASSUME NEW k \in Policies(f, st), d = AsDefinition(k)
        PROVE  d.what \in Subjects(f, st)
    <2>1. /\ k \in DOMAIN gates
          /\ gates[k].gate.flow = f /\ gates[k].gate.stage = st
          /\ d.what = gates[k].gate.what
      BY <1>2 DEF Policies, AsDefinition
    <2>2. CASE gates[k].gate \in GateInput
      BY <2>1, <2>2 DEF Subjects
    <2>3. CASE \E i \in DOMAIN SeedGates : gates[k].gate = SeedGates[i].gate
      BY <2>1, <2>3 DEF Subjects
    <2> QED
      BY <2>1, <2>2, <2>3 DEF GatesAreSeenTo
  <1> QED
    BY <1>1, <1>2 DEF Definitions

\* Every flow has a gate of each kind, built in or from a policy.
LEMMA DefinitionsExist ==
  ASSUME NEW f \in Flow, NEW st \in Gated
  PROVE  Definitions(f, st) # {}
  BY GatesAssumption DEF Definitions

\* The policies there are stay within the flow's subjects.
LEMMA StepPolicies ==
  ASSUME TypeOK, GatesAreSeenTo, [Next]_vars, NEW k \in DOMAIN gates'
  PROVE  gates'[k].gate \in GateInput \cup {SeedGates[i].gate : i \in DOMAIN SeedGates}
  <1>1. CASE CreateGatePolicy
    <2>1. PICK c \in GateKey, g \in GateInput :
            gates' = [i \in DOMAIN gates \cup {c} |->
                 IF i # c THEN gates[i]
                 ELSE [gate |-> g,
                       pos |-> IF c \in DOMAIN gates THEN gates[c].pos
                               ELSE Cardinality(DOMAIN gates) + 1]]
      BY <1>1 DEF CreateGatePolicy
    <2>2. k # c => k \in DOMAIN gates /\ gates'[k] = gates[k]
      BY <2>1
    <2>3. k = c => gates'[k].gate = g
      BY <2>1
    <2> QED
      BY <2>2, <2>3 DEF GatesAreSeenTo
  <1>2. CASE ~CreateGatePolicy /\ ~Restart
    <2>1. gates' = gates
      BY <1>2, EndStep, ElsewhereStep DEF Next, Begin, Ensure, EndEffect, Elsewhere
    <2> QED
      BY <2>1 DEF GatesAreSeenTo
  <1>3. CASE Restart
    BY <1>3, RestartGates DEF GatesAreSeenTo
  <1> QED
    BY <1>1, <1>2, <1>3

\* A call leaves no stage of gates without a record about its flow.
LEMMA StepGates ==
  ASSUME TypeOK, ListsAreRead, GatesAreSeenTo, [Next]_vars
  PROVE  GatesAreSeenTo'
  <1> USE DEF Gated, Approvals, Validations, Stage, Handoffs, Memory
  <1>1. flow' = flow /\ \A m \in Call : flow[m] \in Flow
    BY RecordsAreKept DEF TypeOK
  <1>2. ASSUME NEW n \in Call, NEW st \in Gated, phase'[n] = "seeding"
        PROVE  /\ st <= stage'[n] => GateRecorded(flow[n], st)'
               /\ st = stage'[n] => \A d \in todo'[n] : d.what \in Subjects(flow[n], st)
    <2>1. CASE phase[n] # "seeding"
      BY <1>2, <2>1, BeginsFirst
    <2>2. CASE phase[n] = "seeding" /\ ~Ensure(n)
      <3>1. stage'[n] = stage[n] /\ todo'[n] = todo[n]
        BY <1>2, <2>2, ListIsTheSame
      <3>2. st <= stage[n] => GateRecorded(flow[n], st)
        BY <2>2 DEF GatesAreSeenTo
      <3>3. GateRecorded(flow[n], st) => GateRecorded(flow[n], st)'
        BY <1>1, RecordsAreKept DEF GateRecorded
      <3> QED
        BY <2>2, <3>1, <3>2, <3>3 DEF GatesAreSeenTo
    <2>3. CASE phase[n] = "seeding" /\ Ensure(n)
      <3>1. PICK t \in Stage : \E d \in Missing(n, t) : EnsureEffect(n, t, d)
        BY <2>3, EnsureStep
      <3>2. PICK d \in Missing(n, t) : EnsureEffect(n, t, d)
        BY <3>1
      <3>3. /\ stage'[n] = t /\ todo'[n] = Missing(n, t)
            /\ stage[n] <= t /\ stage[n] \in Nat
        <4>1. /\ stage' = [stage EXCEPT ![n] = t] /\ t >= stage[n]
              /\ todo' = [todo EXCEPT ![n] = Missing(n, t)]
          BY <3>2 DEF EnsureEffect
        <4>2. /\ stage \in [Call -> Stage \cup {0}]
              /\ DOMAIN todo = Call
          BY DEF TypeOK
        <4> QED
          BY <4>1, <4>2
      <3>4. ASSUME st = t
            PROVE  \A e \in Missing(n, t) : e.what \in Subjects(flow[n], st)
        <4>1. CASE t = stage[n]
          BY <2>3, <3>4, <4>1 DEF Missing, GatesAreSeenTo
        <4>2. CASE t # stage[n]
          BY <1>1, <3>4, <4>2, DefinitionSubjects DEF Missing
        <4> QED
          BY <4>1, <4>2
      <3>5. CASE st <= stage[n]
        <4>1. GateRecorded(flow[n], st)
          BY <2>3, <3>5 DEF GatesAreSeenTo
        <4>2. GateRecorded(flow[n], st)'
          BY <1>1, <4>1, RecordsAreKept DEF GateRecorded
        <4> QED
          BY <3>3, <3>4, <4>2
      <3>6. CASE stage[n] < st /\ st < t
        <4>1. PICK e \in Definitions(flow[n], st) : TRUE
          BY <1>1, DefinitionsExist
        <4>2. Missing(n, st) = {} /\ st # stage[n]
          <5>1. \A u \in Stage : stage[n] <= u /\ u < t => Missing(n, u) = {}
            BY <3>2 DEF EnsureEffect
          <5>2. st \in Stage
            OBVIOUS
          <5>3. st # stage[n] /\ stage[n] <= st
            BY <3>3, <3>6, <5>2
          <5> QED
            BY <3>6, <5>1, <5>2, <5>3
        <4>3. KeyOf(e, n) \in Keys
          BY <4>1, <4>2 DEF Missing
        <4>4. PICK r \in records : r.key = KeyOf(e, n)
          BY <4>3 DEF Keys
        <4>5. r.key.stage = st /\ r.key.what = e.what
          BY <1>1, <4>1, <4>4, DefinitionsType DEF KeyOf
        <4>6. e.what \in Subjects(flow[n], st)
          BY <1>1, <4>1, DefinitionSubjects
        <4>7. r \in records'
          BY RecordsAreKept
        <4> QED
          BY <1>1, <3>3, <3>6, <4>5, <4>6, <4>7 DEF GateRecorded
      <3>7. CASE st = t
        <4> DEFINE new == [key |-> KeyOf(d, n), pos |-> d.pos, call |-> n]
        <4>1. new \in records' /\ new.key = KeyOf(d, n)
          BY <3>2 DEF EnsureEffect
        <4>2. KeyOf(d, n).stage = st /\ KeyOf(d, n).what = d.what
          BY <3>7, MissingStage DEF KeyOf
        <4>3. d.what \in Subjects(flow[n], st)
          BY <3>4, <3>7
        <4> HIDE DEF new
        <4>4. GateRecorded(flow[n], st)'
          BY <1>1, <4>1, <4>2, <4>3 DEF GateRecorded
        <4> QED
          BY <3>3, <3>4, <3>7, <4>4
      <3>8. CASE st > t
        BY <3>3, <3>8
      <3> QED
        BY <3>3, <3>5, <3>6, <3>7, <3>8
    <2> QED
      BY <2>1, <2>2, <2>3
  <1> QED
    BY <1>1, <1>2, StepPolicies DEF GatesAreSeenTo, GateRecorded

\* A call creates a record only where the earlier stages are seen to.
LEMMA StepOrder ==
  ASSUME TypeOK, ListsAreRead, NeedsAreSeenTo, GatesAreSeenTo, SeededInOrder, [Next]_vars
  PROVE  SeededInOrder'
  <1> USE DEF Gated, Approvals, Validations, Stage, Handoffs, Memory
  <1>1. flow' = flow /\ records \subseteq records'
    BY RecordsAreKept
  <1>2. ASSUME NEW r \in records
        PROVE  /\ \A d \in NeededBefore(flow[r.call], r.key.stage) : Recorded(d, r.call)'
               /\ \A st \in Gated : st < r.key.stage =>
                    \E s \in records' : /\ s.key.stage = st
                                        /\ s.key.what \in Subjects(flow[r.call], st)
    <2>1. r.call \in Call /\ phase[r.call] # "new"
      BY DEF TypeOK, ListsAreRead
    <2>2. PICK n \in Call : n = r.call
      BY <2>1
    <2>3. ASSUME NEW d \in NeededBefore(flow[n], r.key.stage)
          PROVE  Recorded(d, n)'
      <3>1. Recorded(d, n)
        BY <2>2, <2>3 DEF SeededInOrder
      <3> QED
        BY <2>1, <2>2, <3>1, RecordedStays
    <2> QED
      BY <1>1, <2>2, <2>3 DEF SeededInOrder
  <1>3. ASSUME NEW n \in Call, Ensure(n), NEW r \in records', r \notin records
        PROVE  /\ r.call = n
               /\ \A d \in NeededBefore(flow[n], r.key.stage) : Recorded(d, n)'
               /\ \A st \in Gated : st < r.key.stage =>
                    \E s \in records' : /\ s.key.stage = st
                                        /\ s.key.what \in Subjects(flow[n], st)
    <2>1. PICK t \in Stage : \E d \in Missing(n, t) : EnsureEffect(n, t, d)
      BY <1>3, EnsureStep
    <2>2. PICK d \in Missing(n, t) : EnsureEffect(n, t, d)
      BY <2>1
    <2>3. r = [key |-> KeyOf(d, n), pos |-> d.pos, call |-> n]
      BY <1>3, <2>2 DEF EnsureEffect
    <2>4. r.call = n /\ r.key = KeyOf(d, n)
      BY <2>3
    <2>5. r.key.stage = t
      BY <2>4, MissingStage DEF KeyOf
    <2>6. stage'[n] = t /\ phase'[n] = "seeding"
      BY <2>2 DEF EnsureEffect, TypeOK
    <2>7. NeedsAreSeenTo' /\ GatesAreSeenTo'
      BY StepNeeds, StepGates
    <2>8. \A e \in NeededBefore(flow[n], t) : Recorded(e, n)'
      <3>1. SUFFICES ASSUME NEW e \in NeededBefore(flow[n], t)
                     PROVE  Recorded(e, n)'
        OBVIOUS
      <3>2. e \in NeededBefore(flow[n], Memory + 1) /\ e.stage < t
        <4>1. flow[n] \in Flow
          BY DEF TypeOK
        <4>2. e \in Built[flow[n]] /\ e.stage \notin Gated /\ e.stage < t
          BY <3>1 DEF NeededBefore
        <4>3. e.stage \in Stage
          BY <4>1, <4>2, ConstantsAssumption DEF Definition
        <4> QED
          BY <4>2, <4>3 DEF NeededBefore
      <3>3. SeenTo(e, n)'
        BY <1>1, <2>6, <2>7, <3>2 DEF NeedsAreSeenTo, NeededBefore
      <3> QED
        BY <2>6, <3>2, <3>3 DEF SeenTo
    <2>9. \A st \in Gated : st < t =>
            \E s \in records' : s.key.stage = st /\ s.key.what \in Subjects(flow[n], st)
      BY <1>1, <2>6, <2>7 DEF GatesAreSeenTo, GateRecorded
    <2> QED
      BY <2>4, <2>5, <2>8, <2>9
  <1>4. CASE \E n \in Call : Ensure(n)
    <2>1. PICK n \in Call : Ensure(n)
      BY <1>4
    <2>2. ASSUME NEW r \in records', r \notin records
          PROVE  /\ \A d \in NeededBefore(flow[r.call], r.key.stage) : Recorded(d, r.call)'
                 /\ \A st \in Gated : st < r.key.stage =>
                      \E s \in records' : /\ s.key.stage = st
                                          /\ s.key.what \in Subjects(flow[r.call], st)
      <3>1. /\ r.call = n
            /\ \A d \in NeededBefore(flow[n], r.key.stage) : Recorded(d, n)'
            /\ \A st \in Gated : st < r.key.stage =>
                 \E s \in records' : /\ s.key.stage = st
                                     /\ s.key.what \in Subjects(flow[n], st)
        BY <1>3, <2>1, <2>2
      <3> QED
        BY <3>1 DEF Recorded, KeyOf, IdOf
    <2> QED
      BY <1>1, <1>2, <2>2 DEF SeededInOrder, NeededBefore
  <1>5. CASE ~ \E n \in Call : Ensure(n)
    <2>1. records' = records
      BY <1>5, EndStep, ElsewhereStep DEF Next, Begin, EndEffect, Elsewhere, CreateGatePolicy, Restart
    <2> QED
      BY <1>1, <1>2, <2>1 DEF SeededInOrder
  <1> QED
    BY <1>4, <1>5

\* The mission's status changes only where nothing is missing.
LEMMA StepExecution ==
  ASSUME TypeOK, ListsAreRead, NeedsAreSeenTo, ExecutionIsSeeded, [Next]_vars
  PROVE  ExecutionIsSeeded'
  <1>1. flow' = flow /\ \A m \in Call : flow[m] \in Flow
    BY RecordsAreKept DEF TypeOK
  <1>2. ASSUME NEW n \in Call, Update(n)
        PROVE  ExecutionIsSeeded'
    <2>1. phase[n] = "seeding" /\ phase'[n] = "updated"
      BY <1>2 DEF Update, Ends, TypeOK
    <2>2. ASSUME NEW d \in NeededBefore(flow[n], Memory + 1)
          PROVE  Recorded(d, n)'
      <3>1. SeenTo(d, n)
        BY <2>1 DEF NeedsAreSeenTo
      <3>2. OnTheWay(d, n) /\ d.stage \in Stage
        BY <1>1, NeedsAreOnTheWay
      <3>3. d.stage >= stage[n] => Missing(n, d.stage) = {}
        BY <1>2, <3>2 DEF Update
      <3>4. Recorded(d, n)
        BY <3>1, <3>2, <3>3, NothingMissing
      <3> QED
        BY <2>1, <3>4, RecordedStays
    <2> QED
      BY <1>1, <2>1, <2>2 DEF ExecutionIsSeeded, NeededBefore
  <1>3. ASSUME ~ \E n \in Call : Update(n), mission' = "in_execution"
        PROVE  ExecutionIsSeeded'
    <2>1. mission' = mission
      BY <1>3, ElsewhereStep
         DEF Next, Begin, Ensure, Refuse, Return, Fail, CreateGatePolicy, Restart, Elsewhere
    <2>2. PICK n \in Call : /\ phase[n] \in {"updated", "returned", "stopped"}
                           /\ \A d \in NeededBefore(flow[n], Memory + 1) : Recorded(d, n)
      BY <1>3, <2>1 DEF ExecutionIsSeeded
    <2>3. phase'[n] \in {"updated", "returned", "stopped"}
      <3>1. CASE \E m \in Call : Begin(m)
        BY <2>2, <3>1 DEF Begin, TypeOK
      <3>2. CASE \E m \in Call : Ensure(m)
        BY <2>2, <3>2 DEF Ensure
      <3>3. CASE \E m \in Call : Refuse(m) \/ Update(m) \/ Return(m) \/ Fail(m)
        BY <2>2, <3>3, EndStep DEF EndEffect, Ends, TypeOK
      <3>4. CASE CreateGatePolicy \/ Restart \/ Elsewhere
        BY <2>2, <3>4 DEF CreateGatePolicy, Restart, Elsewhere, callVars
      <3> QED
        BY <3>1, <3>2, <3>3, <3>4, ElsewhereStep DEF Next
    <2>4. ASSUME NEW d \in NeededBefore(flow[n], Memory + 1)
          PROVE  Recorded(d, n)'
      BY <2>2, RecordedStays
    <2> QED
      BY <1>1, <2>3, <2>4 DEF ExecutionIsSeeded, NeededBefore
  <1> QED
    BY <1>2, <1>3 DEF ExecutionIsSeeded

-----------------------------------------------------------------------------
(* The theorems. *)

\* The inductive invariant holds in the first state.
LEMMA InitInv == Init => IInv
  <1>1. Init => NeedsAreSeenTo /\ SeededInOrder /\ ExecutionIsSeeded
    BY DEF Init, NeedsAreSeenTo, SeededInOrder, ExecutionIsSeeded
  <1>2. Init => GatesAreSeenTo
    BY DEF Init, GatesAreSeenTo, FirstDefaults
  <1>3. Init => /\ OverlapsAreKnown /\ ListsAreRead /\ OneOfEach
                /\ StandingIsSeenTo /\ GatesInForceAreAsked
    BY DEF Init, OverlapsAreKnown, ListsAreRead, OneOfEach, Running, Keys,
           StandingIsSeenTo, GatesInForceAreAsked
  <1> QED
    BY <1>1, <1>2, <1>3, InitType DEF IInv

\* The whole inductive invariant holds as long as the service runs.
THEOREM InvariantCorrect == Spec => []IInv
  <1>1. IInv /\ [Next]_vars => IInv'
    BY StepType, StepOverlaps, StepLists, StepOneOfEach, StepStanding, StepGatesInForce,
       StepNeeds, StepGates, StepOrder, StepExecution DEF IInv
  <1> QED
    BY <1>1, InitInv, PTL DEF Spec

\* Two records that count as the same come from calls that overlapped: a flow
\* may be bootstrapped again at any other time.
THEOREM OneOfEachCorrect == Spec => []OneOfEach
  <1>1. IInv => OneOfEach
    BY DEF IInv
  <1> QED
    BY <1>1, InvariantCorrect, PTL

\* A call that returns has asked for every gate that was in force since it
\* began, whatever other calls did meanwhile.
THEOREM GatesInForceCorrect == Spec => []GatesInForceAreAsked
  <1>1. IInv => GatesInForceAreAsked
    BY DEF IInv
  <1> QED
    BY <1>1, InvariantCorrect, PTL

\* A record tells that the bootstrap came so far: the earlier stages have what
\* the flow needs there, and at least one of its gates.
THEOREM SeededInOrderCorrect == Spec => []SeededInOrder
  <1>1. IInv => SeededInOrder
    BY DEF IInv
  <1> QED
    BY <1>1, InvariantCorrect, PTL

\* A mission in execution has a flow with all its handoffs, runs and memory, whatever
\* calls were cut off, refused or repeated.
THEOREM ExecutionIsSeededCorrect == Spec => []ExecutionIsSeeded
  <1>1. IInv => ExecutionIsSeeded
    BY DEF IInv
  <1> QED
    BY <1>1, InvariantCorrect, PTL

=============================================================================
