--------------------------- MODULE HandoffsProofs ---------------------------
(***************************************************************************)
(* Proofs about Handoffs, for all agents, sectors, seeds and bounds.  The  *)
(* parts of its inductive invariant build on each other, and each has a    *)
(* lemma of its own; what a step does to the changes that are owed is      *)
(* stated first.                                                           *)
(***************************************************************************)
EXTENDS Handoffs, FiniteSetTheorems, TLAPS

-----------------------------------------------------------------------------
(* Calls and what they owe. *)

\* The members of a sequence.
Parts(q) == {q[i] : i \in DOMAIN q}

\* The sequences that calls announce have the expected members.
LEMMA PartsOfOne ==
  ASSUME NEW x
  PROVE  Parts(<<x>>) = {x}
  BY DEF Parts

\* An announced escalation has three members.
LEMMA PartsOfThree ==
  ASSUME NEW x, NEW y, NEW z
  PROVE  Parts(<<x, y, z>>) = {x, y, z}
  <1>1. DOMAIN <<x, y, z>> = {1, 2, 3}
    OBVIOUS
  <1> QED
    BY <1>1 DEF Parts

\* A non-empty sequence has its head and the members of its tail.
LEMMA PartsOfTail ==
  ASSUME NEW S, NEW q \in Seq(S), q # <<>>
  PROVE  /\ Parts(q) = {Head(q)} \cup Parts(Tail(q))
         /\ Head(q) \in S
         /\ Tail(q) \in Seq(S)
         /\ Parts(q) \subseteq S
         /\ Len(Tail(q)) = Len(q) - 1
         /\ \A i \in 1..(Len(q) - 1) : Tail(q)[i] = q[i + 1]
  <1>1. /\ Len(q) \in Nat \ {0}
        /\ DOMAIN q = 1..Len(q)
        /\ Head(q) = q[1]
        /\ \A i \in 1..Len(q) : q[i] \in S
    OBVIOUS
  <1>2. /\ Tail(q) \in Seq(S)
        /\ Len(Tail(q)) = Len(q) - 1
        /\ DOMAIN Tail(q) = 1..(Len(q) - 1)
    OBVIOUS
  <1>3. \A i \in 1..(Len(q) - 1) : Tail(q)[i] = q[i + 1]
    OBVIOUS
  <1>4. Parts(q) \subseteq {Head(q)} \cup Parts(Tail(q))
    <2> SUFFICES ASSUME NEW i \in 1..Len(q), i # 1
                 PROVE  q[i] \in Parts(Tail(q))
      BY <1>1 DEF Parts
    <2>1. i - 1 \in 1..(Len(q) - 1) /\ q[i] = Tail(q)[i - 1]
      BY <1>1, <1>3
    <2> QED
      BY <2>1, <1>2 DEF Parts
  <1>5. {Head(q)} \cup Parts(Tail(q)) \subseteq Parts(q)
    <2>1. q[1] \in Parts(q)
      BY <1>1 DEF Parts
    <2>2. ASSUME NEW i \in 1..(Len(q) - 1)
          PROVE  Tail(q)[i] \in Parts(q)
      BY <1>1, <1>3 DEF Parts
    <2> QED
      BY <2>1, <2>2, <1>1, <1>2 DEF Parts
  <1>6. Parts(q) \subseteq S
    BY <1>1 DEF Parts
  <1> QED
    BY <1>1, <1>2, <1>3, <1>4, <1>5, <1>6

\* A call that begins owes the changes it announces.
LEMMA CallBegins ==
  ASSUME call \in [Caller -> Seq(Change)],
         NEW c \in Caller, NEW q,
         Idle(c), Continues(c, q), UNCHANGED lost
  PROVE  /\ call'[c] = q
         /\ \A d \in Caller \ {c} : call'[d] = call[d] /\ Remaining(d)' = Remaining(d)
         /\ Remaining(c) = {}
         /\ Remaining(c)' = Parts(q)
         /\ Owed' = Owed \cup Parts(q)
  <1>1. /\ call'[c] = q
        /\ \A d \in Caller \ {c} : call'[d] = call[d]
    BY DEF Continues
  <1>2. Remaining(c) = {}
    BY DEF Idle, Remaining
  <1>3. Remaining(c)' = Parts(q)
    BY <1>1 DEF Remaining, Parts
  <1>4. \A d \in Caller \ {c} : Remaining(d)' = Remaining(d)
    BY <1>1 DEF Remaining
  <1>5. Owed' = lost \cup UNION {Remaining(d)' : d \in Caller}
    BY DEF Owed
  <1> QED
    BY <1>1, <1>2, <1>3, <1>4, <1>5 DEF Owed

\* A call that makes a change owes the rest.
LEMMA CallProceeds ==
  ASSUME call \in [Caller -> Seq(Change)],
         NEW c \in Caller,
         ~Idle(c), Continues(c, Tail(call[c])), UNCHANGED lost
  PROVE  /\ call'[c] = Tail(call[c])
         /\ \A d \in Caller \ {c} : call'[d] = call[d] /\ Remaining(d)' = Remaining(d)
         /\ Remaining(c) = {Head(call[c])} \cup Remaining(c)'
         /\ Owed = {Head(call[c])} \cup Owed'
         /\ Head(call[c]) \in Change
  <1>1. /\ call'[c] = Tail(call[c])
        /\ \A d \in Caller \ {c} : call'[d] = call[d]
    BY DEF Continues
  <1>2. /\ call[c] \in Seq(Change)
        /\ call[c] # <<>>
    BY DEF Idle
  <1>3. /\ Parts(call[c]) = {Head(call[c])} \cup Parts(Tail(call[c]))
        /\ Head(call[c]) \in Change
    BY <1>2, PartsOfTail
  <1>4. /\ Remaining(c) = Parts(call[c])
        /\ Remaining(c)' = Parts(Tail(call[c]))
    BY <1>1 DEF Remaining, Parts
  <1>5. \A d \in Caller \ {c} : Remaining(d)' = Remaining(d)
    BY <1>1 DEF Remaining
  <1>6. Owed' = lost \cup UNION {Remaining(d)' : d \in Caller}
    BY DEF Owed
  <1> QED
    BY <1>1, <1>3, <1>4, <1>5, <1>6 DEF Owed

\* A call that is cut off still owes what it owed.
LEMMA CallFails ==
  ASSUME call \in [Caller -> Seq(Change)],
         NEW c \in Caller,
         Continues(c, <<>>), lost' = lost \cup Remaining(c)
  PROVE  /\ call'[c] = <<>>
         /\ \A d \in Caller \ {c} : call'[d] = call[d] /\ Remaining(d)' = Remaining(d)
         /\ Remaining(c)' = {}
         /\ Owed' = Owed
  <1>1. /\ call'[c] = <<>>
        /\ \A d \in Caller \ {c} : call'[d] = call[d]
    BY DEF Continues
  <1>2. Remaining(c)' = {}
    BY <1>1 DEF Remaining
  <1>3. \A d \in Caller \ {c} : Remaining(d)' = Remaining(d)
    BY <1>1 DEF Remaining
  <1>4. Owed' = lost' \cup UNION {Remaining(d)' : d \in Caller}
    BY DEF Owed
  <1> QED
    BY <1>1, <1>2, <1>3, <1>4 DEF Owed

\* Where no call makes progress, nothing changes about what is owed.
LEMMA CallsRest ==
  ASSUME UNCHANGED <<call, lost>>
  PROVE  /\ \A c \in Caller : Remaining(c)' = Remaining(c)
         /\ Owed' = Owed
  <1>1. \A c \in Caller : Remaining(c)' = Remaining(c)
    BY DEF Remaining
  <1>2. Owed' = lost' \cup UNION {Remaining(c)' : c \in Caller}
    BY DEF Owed
  <1> QED
    BY <1>1, <1>2 DEF Owed

-----------------------------------------------------------------------------
(* Types. *)

\* What a store does to the collection.
LEMMA PutFacts ==
  ASSUME NEW f, NEW k, NEW v
  PROVE  /\ DOMAIN Put(f, k, v) = DOMAIN f \cup {k}
         /\ Put(f, k, v)[k] = v
         /\ \A i \in DOMAIN f \ {k} : Put(f, k, v)[i] = f[i]
  BY DEF Put

\* Handoffs are escalated to agents that lead, one level up unless forced.
LEMMA TargetsLead ==
  ASSUME \A a \in DOMAIN agents : agents[a] \in Profile,
         NEW a \in DOMAIN agents, NEW forced \in BOOLEAN,
         NEW b \in IF forced THEN ForcedTargets ELSE EscalationTargets(a)
  PROVE  /\ b \in DOMAIN agents
         /\ agents[b].tier \in Leaders
         /\ ~forced /\ agents[a].tier = "c_level" => agents[b].tier = "ceo"
         /\ ~forced /\ agents[a].tier = "ceo" => agents[b].tier = "founder"
         /\ ~forced => agents[a].tier # "founder"
  BY DEF ForcedTargets, EscalationTargets, Active, Leaders, Profile, Tier

\* The changes that an escalation announces.
LEMMA EscalationType ==
  ASSUME \A a \in DOMAIN agents : agents[a] \in Profile,
         NEW h \in Nat, NEW k \in Nat, NEW b \in DOMAIN agents,
         agents[b].tier \in Leaders, NEW forced \in BOOLEAN
  PROVE  Escalation(h, k, b, forced) \in Seq(Change)
  <1>1. agents[b].id \in Nat
    BY DEF Profile
  <1>2. [target |-> agents[b].id, from |-> h, status |-> "pending"] \in Handoff
    BY <1>1 DEF Handoff, Status
  <1>3. Creates(k, [target |-> agents[b].id, from |-> h, status |-> "pending"]) \in Change
    BY <1>2 DEF Creates, Change
  <1>4. Escalates([handoff |-> h, replacement |-> k,
                   level |-> agents[b].tier, forced |-> forced]) \in Change
    BY DEF Escalates, EscalationRecord, Change
  <1>5. Audits({<<"handoff.escalated", h>>,
                <<"handoff.escalation_replacement_created", k>>,
                <<"escalation.created", k>>}) \in Change
    BY DEF Audits, Change, Event
  <1> QED
    BY <1>3, <1>4, <1>5 DEF Escalation

\* The audit event of a creation, and that of an answer, is a call's rest.
LEMMA AuditType ==
  ASSUME NEW h \in Nat, NEW event \in Event
  PROVE  <<Audits({<<event, h>>})>> \in Seq(Change)
  <1>1. Audits({<<event, h>>}) \in Change
    BY DEF Audits, Change
  <1> QED
    BY <1>1

\* The state a process starts in is well-typed.
LEMMA InitType == Init => TypeOK
  BY SeedAssumption, ConstantsAssumption DEF Init, TypeOK

\* Every operation, change and failure keeps the state well-typed; the order of
\* a call is what makes the head of a call one of the three kinds of change.
LEMMA StepType == TypeOK /\ CallsAreOrderly /\ [Next]_vars => TypeOK'
  <1> SUFFICES ASSUME TypeOK, CallsAreOrderly, [Next]_vars
               PROVE  TypeOK'
    OBVIOUS
  <1> USE DEF TypeOK
  <1>1. ASSUME NEW c \in Caller, CreateHandoff(c)
        PROVE  TypeOK'
    <2>1. PICK a \in DOMAIN agents, b \in DOMAIN agents :
            handoffs' = Put(handoffs, drawn', [target |-> agents[b].id, from |-> 0,
                                               status |-> "pending"])
      BY <1>1 DEF CreateHandoff
    <2>2. drawn' = drawn + 1 /\ drawn' \in Nat
      BY <1>1 DEF CreateHandoff
    <2>3. [target |-> agents[b].id, from |-> 0, status |-> "pending"] \in Handoff
      BY DEF Profile, Handoff, Status
    <2>4. /\ DOMAIN handoffs' \subseteq 1..drawn'
          /\ \A h \in DOMAIN handoffs' : handoffs'[h] \in Handoff
          /\ DOMAIN handoffs \subseteq DOMAIN handoffs'
      BY <2>1, <2>2, <2>3 DEF Put
    <2>5. <<Audits({<<"handoff.created", drawn'>>})>> \in Seq(Change)
      BY <2>2, AuditType DEF Event
    <2>6. call' \in [Caller -> Seq(Change)]
      BY <2>5, <1>1 DEF CreateHandoff, Continues
    <2> QED
      BY <2>2, <2>4, <2>6, <1>1 DEF CreateHandoff
  <1>2. ASSUME NEW c \in Caller, Respond(c)
        PROVE  TypeOK'
    <2>1. PICK h \in DOMAIN handoffs, s \in Answer :
            /\ handoffs' = [handoffs EXCEPT ![h].status = s]
            /\ revived' = IF handoffs[h].status = "escalated" THEN revived \cup {h} ELSE revived
            /\ Continues(c, <<Audits({<<"handoff.responded", h>>})>>)
      BY <1>2 DEF Respond
    <2>2. <<Audits({<<"handoff.responded", h>>})>> \in Seq(Change)
      <3>1. h \in Nat
        OBVIOUS
      <3> QED
        BY <3>1, AuditType DEF Event
    <2>3. call' \in [Caller -> Seq(Change)]
      BY <2>1, <2>2 DEF Continues
    <2>4. /\ DOMAIN handoffs' = DOMAIN handoffs
          /\ \A i \in DOMAIN handoffs' : handoffs'[i] \in Handoff
      BY <2>1 DEF Handoff, Status
    <2>5. revived' \subseteq DOMAIN handoffs'
      BY <2>1, <2>4
    <2>6. /\ answers' = answers + 1
          /\ UNCHANGED <<agents, enabled, records, audit, agentIds, drawn, lost>>
      BY <1>2 DEF Respond
    <2> QED
      BY <2>3, <2>4, <2>5, <2>6
  <1>3. ASSUME NEW c \in Caller, Escalate(c)
        PROVE  TypeOK'
    <2>1. PICK h \in DOMAIN handoffs, forced \in BOOLEAN :
          \E a \in AgentWithId(handoffs[h].target) :
          \E b \in IF forced THEN ForcedTargets ELSE EscalationTargets(a) :
            /\ handoffs' = [handoffs EXCEPT ![h].status = "escalated"]
            /\ Continues(c, Escalation(h, drawn', b, forced))
      BY <1>3 DEF Escalate
    <2>a. PICK a \in AgentWithId(handoffs[h].target) :
          \E b \in IF forced THEN ForcedTargets ELSE EscalationTargets(a) :
            /\ handoffs' = [handoffs EXCEPT ![h].status = "escalated"]
            /\ Continues(c, Escalation(h, drawn', b, forced))
      BY <2>1
    <2>2. PICK b \in IF forced THEN ForcedTargets ELSE EscalationTargets(a) :
            /\ handoffs' = [handoffs EXCEPT ![h].status = "escalated"]
            /\ Continues(c, Escalation(h, drawn', b, forced))
      BY <2>a
    <2>3. drawn' = drawn + 1 /\ drawn' \in Nat
      BY <1>3 DEF Escalate
    <2>4. a \in DOMAIN agents
      BY DEF AgentWithId
    <2>5. b \in DOMAIN agents /\ agents[b].tier \in Leaders
      BY <2>4, TargetsLead
    <2>6. Escalation(h, drawn', b, forced) \in Seq(Change)
      BY <2>3, <2>5, EscalationType
    <2>7. call' \in [Caller -> Seq(Change)]
      BY <2>2, <2>6 DEF Continues
    <2>8. /\ DOMAIN handoffs' = DOMAIN handoffs
          /\ \A i \in DOMAIN handoffs' : handoffs'[i] \in Handoff
      BY <2>2 DEF Handoff, Status
    <2>9. UNCHANGED <<agents, enabled, records, audit, agentIds, answers, revived, lost>>
      BY <1>3 DEF Escalate
    <2> QED
      BY <2>3, <2>7, <2>8, <2>9
  <1>4. ASSUME NEW c \in Caller, Proceed(c)
        PROVE  TypeOK'
    <2>1. /\ call[c] \in Seq(Change)
          /\ call[c] # <<>>
      BY <1>4 DEF Proceed, Idle
    <2>2. /\ Head(call[c]) \in Change
          /\ Tail(call[c]) \in Seq(Change)
      BY <2>1, PartsOfTail
    <2>3. call' \in [Caller -> Seq(Change)]
      BY <2>2, <1>4 DEF Proceed, Continues
    <2>4. CASE Head(call[c]).do = "handoff"
      <3>1. /\ handoffs' = Put(handoffs, Head(call[c]).id, Head(call[c]).handoff)
            /\ UNCHANGED <<records, audit>>
        BY <2>4, <1>4 DEF Proceed
      <3>2. Head(call[c]).handoff \in Handoff
        BY <2>2, <2>4 DEF Change
      <3>3. Head(call[c]) \in Remaining(c)
        BY <2>1, PartsOfTail DEF Remaining, Parts
      <3>4. Head(call[c]).id \in 1..drawn
        BY <3>3, <2>4 DEF CallsAreOrderly, IdsAreFresh, Replacing
      <3>5. /\ DOMAIN handoffs' \subseteq 1..drawn
            /\ \A h \in DOMAIN handoffs' : handoffs'[h] \in Handoff
            /\ DOMAIN handoffs \subseteq DOMAIN handoffs'
        BY <3>1, <3>2, <3>4 DEF Put
      <3> QED
        BY <3>1, <3>5, <2>3, <1>4 DEF Proceed
    <2>5. CASE Head(call[c]).do = "record"
      <3>1. /\ records' = records \cup {Head(call[c]).record}
            /\ UNCHANGED <<handoffs, audit>>
        BY <2>5, <1>4 DEF Proceed
      <3>2. Head(call[c]).record \in EscalationRecord
        BY <2>2, <2>5 DEF Change
      <3> QED
        BY <3>1, <3>2, <2>3, <1>4 DEF Proceed
    <2>6. CASE Head(call[c]).do = "audit"
      <3>1. /\ audit' = audit \cup {Noted(e[1], e[2]) : e \in Head(call[c]).events}
            /\ UNCHANGED <<handoffs, records>>
        BY <2>6, <1>4 DEF Proceed
      <3>2. Head(call[c]).events \subseteq Event \X Nat
        BY <2>2, <2>6 DEF Change
      <3>3. Head(call[c]) \in Owed
        BY <1>4, CallProceeds DEF Proceed
      <3>4. ASSUME NEW e \in Head(call[c]).events
            PROVE  Noted(e[1], e[2]) \in Event \X Nat \X (Status \cup {"none"})
        <4>1. e[1] \in Event /\ e[2] \in Nat /\ e = <<e[1], e[2]>>
          BY <3>2
        <4>2. CASE e[1] = "handoff.responded"
          <5>1. e[2] \in DOMAIN handoffs
            BY <4>1, <4>2, <3>3, <2>6 DEF CallsAreOrderly, AnswersAreKnown
          <5>2. handoffs[e[2]].status \in Status
            BY <5>1 DEF Handoff
          <5> QED
            BY <4>1, <4>2, <5>2 DEF Noted
        <4>3. CASE e[1] # "handoff.responded"
          BY <4>1, <4>3 DEF Noted
        <4> QED
          BY <4>2, <4>3
      <3>5. audit' \subseteq Event \X Nat \X (Status \cup {"none"})
        BY <3>1, <3>4
      <3> QED
        BY <3>1, <3>5, <2>3, <1>4 DEF Proceed
    <2> QED
      BY <2>2, <2>4, <2>5, <2>6 DEF Change
  <1>5. ASSUME NEW c \in Caller, Fail(c)
        PROVE  TypeOK'
    <2>1. call' \in [Caller -> Seq(Change)]
      BY <1>5 DEF Fail, Continues
    <2>2. Remaining(c) \subseteq Change
      BY DEF Remaining
    <2> QED
      BY <2>1, <2>2, <1>5 DEF Fail
  <1>6. ASSUME Onboard
        PROVE  TypeOK'
    <2>1. PICK a \in Agent, i \in (1..MaxAgentId) \ agentIds, p \in Position :
            /\ agents' = Put(agents, a, [id |-> i, tier |-> p[1], sector |-> p[2],
                                         active |-> FALSE])
            /\ agentIds' = agentIds \cup {i}
      BY <1>6 DEF Onboard
    <2>2. [id |-> i, tier |-> p[1], sector |-> p[2], active |-> FALSE] \in Profile
      BY ConstantsAssumption DEF Profile
    <2>3. /\ DOMAIN agents' \subseteq Agent
          /\ \A b \in DOMAIN agents' : agents'[b] \in Profile
      BY <2>1, <2>2 DEF Put
    <2>4. UNCHANGED <<enabled, handoffs, records, audit, call, drawn, answers, revived, lost>>
      BY <1>6 DEF Onboard
    <2> QED
      BY <2>1, <2>3, <2>4
  <1>7. ASSUME CreateCapability
        PROVE  TypeOK'
    BY <1>7 DEF CreateCapability
  <1>8. CASE UNCHANGED vars
    BY <1>8 DEF vars
  <1> QED
    BY <1>1, <1>2, <1>3, <1>4, <1>5, <1>6, <1>7, <1>8 DEF Next

-----------------------------------------------------------------------------
(* What each action does, in terms of what is owed. *)

\* A change is the creation of a replacement, a record or audit events.
LEMMA ChangeKinds ==
  ASSUME NEW s \in Change
  PROVE  /\ s.do \in {"handoff", "record", "audit"}
         /\ s.do = "handoff" => s = Creates(s.id, s.handoff) /\ s.id \in Nat /\ s.handoff \in Handoff
         /\ s.do = "record" => s = Escalates(s.record) /\ s.record \in EscalationRecord
         /\ s.do = "audit" => s = Audits(s.events) /\ s.events \subseteq Event \X Nat
  BY DEF Change, Creates, Escalates, Audits

\* The ids of the replacements among some changes.
LEMMA ReplacingFacts ==
  /\ \A S, T : Replacing(S \cup T) = Replacing(S) \cup Replacing(T)
  /\ Replacing({}) = {}
  /\ \A k, h : Replacing({Creates(k, h)}) = {k}
  /\ \A r : Replacing({Escalates(r)}) = {}
  /\ \A e : Replacing({Audits(e)}) = {}
  <1>1. \A S, T : Replacing(S \cup T) = Replacing(S) \cup Replacing(T)
    BY DEF Replacing
  <1>2. Replacing({}) = {}
    BY DEF Replacing
  <1>3. ASSUME NEW k, NEW h
        PROVE  Replacing({Creates(k, h)}) = {k}
    <2>1. Creates(k, h).do = "handoff" /\ Creates(k, h).id = k
      BY DEF Creates
    <2>2. {t \in {Creates(k, h)} : t.do = "handoff"} = {Creates(k, h)}
      BY <2>1
    <2> QED
      BY <2>1, <2>2 DEF Replacing
  <1>4. ASSUME NEW r
        PROVE  Replacing({Escalates(r)}) = {}
    <2>1. Escalates(r).do # "handoff"
      BY DEF Escalates
    <2>2. {t \in {Escalates(r)} : t.do = "handoff"} = {}
      BY <2>1
    <2> QED
      BY <2>2 DEF Replacing
  <1>5. ASSUME NEW e
        PROVE  Replacing({Audits(e)}) = {}
    <2>1. Audits(e).do # "handoff"
      BY DEF Audits
    <2>2. {t \in {Audits(e)} : t.do = "handoff"} = {}
      BY <2>1
    <2> QED
      BY <2>2 DEF Replacing
  <1> QED
    BY <1>1, <1>2, <1>3, <1>4, <1>5

\* A new handoff that is no replacement.
CreateEffect(c, a, b, k) ==
  /\ RouteAvailable(a, b)
  /\ k = drawn + 1 /\ drawn' = k
  /\ k \in Nat /\ k \notin DOMAIN handoffs
  /\ DOMAIN handoffs' = DOMAIN handoffs \cup {k}
  /\ handoffs'[k] = [target |-> agents[b].id, from |-> 0, status |-> "pending"]
  /\ \A h \in DOMAIN handoffs : handoffs'[h] = handoffs[h]
  /\ call'[c] = <<Audits({<<"handoff.created", k>>})>>
  /\ \A d \in Caller \ {c} : call'[d] = call[d] /\ Remaining(d)' = Remaining(d)
  /\ Remaining(c)' = {Audits({<<"handoff.created", k>>})}
  /\ Owed' = Owed \cup {Audits({<<"handoff.created", k>>})}
  /\ UNCHANGED <<agents, enabled, records, audit, agentIds, answers, revived, lost>>

\* createHandoff() has the effect above for two agents and the next id.
LEMMA CreateStep ==
  ASSUME TypeOK, NEW c \in Caller, CreateHandoff(c)
  PROVE  \E a \in DOMAIN agents, b \in DOMAIN agents, k \in Nat : CreateEffect(c, a, b, k)
  <1>1. PICK a \in DOMAIN agents, b \in DOMAIN agents :
          /\ RouteAvailable(a, b)
          /\ handoffs' = Put(handoffs, drawn', [target |-> agents[b].id, from |-> 0,
                                                status |-> "pending"])
    BY DEF CreateHandoff
  <1>2. PICK k \in Nat : k = drawn + 1 /\ drawn' = k
    BY DEF CreateHandoff, TypeOK
  <1>3. k \notin DOMAIN handoffs
    BY <1>2 DEF TypeOK
  <1>4. /\ Idle(c)
        /\ Continues(c, <<Audits({<<"handoff.created", k>>})>>)
        /\ UNCHANGED <<agents, enabled, records, audit, agentIds, answers, revived, lost>>
    BY <1>2 DEF CreateHandoff
  <1>5. Parts(<<Audits({<<"handoff.created", k>>})>>) = {Audits({<<"handoff.created", k>>})}
    BY PartsOfOne
  <1>6. /\ call'[c] = <<Audits({<<"handoff.created", k>>})>>
        /\ \A d \in Caller \ {c} : call'[d] = call[d] /\ Remaining(d)' = Remaining(d)
        /\ Remaining(c)' = {Audits({<<"handoff.created", k>>})}
        /\ Owed' = Owed \cup {Audits({<<"handoff.created", k>>})}
    BY <1>4, <1>5, CallBegins DEF TypeOK
  <1>7. /\ DOMAIN handoffs' = DOMAIN handoffs \cup {k}
        /\ handoffs'[k] = [target |-> agents[b].id, from |-> 0, status |-> "pending"]
        /\ \A h \in DOMAIN handoffs : handoffs'[h] = handoffs[h]
    BY <1>1, <1>2, <1>3 DEF Put
  <1>8. CreateEffect(c, a, b, k)
    BY <1>1, <1>2, <1>3, <1>4, <1>6, <1>7 DEF CreateEffect
  <1> QED
    BY <1>8

\* An answer, whatever the handoff was before.
RespondEffect(c, h, s) ==
  /\ handoffs' = [handoffs EXCEPT ![h].status = s]
  /\ revived' = IF handoffs[h].status = "escalated" THEN revived \cup {h} ELSE revived
  /\ call'[c] = <<Audits({<<"handoff.responded", h>>})>>
  /\ \A d \in Caller \ {c} : call'[d] = call[d] /\ Remaining(d)' = Remaining(d)
  /\ Remaining(c)' = {Audits({<<"handoff.responded", h>>})}
  /\ Owed' = Owed \cup {Audits({<<"handoff.responded", h>>})}
  /\ UNCHANGED <<agents, enabled, records, audit, agentIds, drawn, lost>>

\* respondToHandoff() has the effect above for one handoff and answer.
LEMMA RespondStep ==
  ASSUME TypeOK, NEW c \in Caller, Respond(c)
  PROVE  \E h \in DOMAIN handoffs, s \in Answer : RespondEffect(c, h, s)
  <1>1. PICK h \in DOMAIN handoffs, s \in Answer :
          /\ handoffs' = [handoffs EXCEPT ![h].status = s]
          /\ revived' = IF handoffs[h].status = "escalated" THEN revived \cup {h} ELSE revived
          /\ Continues(c, <<Audits({<<"handoff.responded", h>>})>>)
    BY DEF Respond
  <1>2. /\ Idle(c)
        /\ UNCHANGED <<agents, enabled, records, audit, agentIds, drawn, lost>>
    BY DEF Respond
  <1>3. Parts(<<Audits({<<"handoff.responded", h>>})>>) = {Audits({<<"handoff.responded", h>>})}
    BY PartsOfOne
  <1>4. /\ call'[c] = <<Audits({<<"handoff.responded", h>>})>>
        /\ \A d \in Caller \ {c} : call'[d] = call[d] /\ Remaining(d)' = Remaining(d)
        /\ Remaining(c)' = {Audits({<<"handoff.responded", h>>})}
        /\ Owed' = Owed \cup {Audits({<<"handoff.responded", h>>})}
    BY <1>1, <1>2, <1>3, CallBegins DEF TypeOK
  <1>5. RespondEffect(c, h, s)
    BY <1>1, <1>2, <1>4 DEF RespondEffect
  <1> QED
    BY <1>5

\* An escalation of h to the agent b, as the handoff k.
Substitute(h, b) == [target |-> agents[b].id, from |-> h, status |-> "pending"]
Trace(h, k, b, forced) ==
  [handoff |-> h, replacement |-> k, level |-> agents[b].tier, forced |-> forced]
Events(h, k) == {<<"handoff.escalated", h>>,
                 <<"handoff.escalation_replacement_created", k>>,
                 <<"escalation.created", k>>}

\* An escalation: the handoff changes, the rest is owed.
EscalateEffect(c, h, forced, a, b, k) ==
  /\ a \in AgentWithId(handoffs[h].target)
  /\ b \in IF forced THEN ForcedTargets ELSE EscalationTargets(a)
  /\ b \in DOMAIN agents
  /\ agents[b].tier \in Leaders
  /\ handoffs[h].status \in {"pending", "rejected"}
  /\ RouteAvailable(a, b)
  /\ k = drawn + 1 /\ drawn' = k
  /\ k \in Nat /\ k \notin DOMAIN handoffs
  /\ handoffs' = [handoffs EXCEPT ![h].status = "escalated"]
  /\ call'[c] = <<Creates(k, Substitute(h, b)), Escalates(Trace(h, k, b, forced)),
                  Audits(Events(h, k))>>
  /\ \A d \in Caller \ {c} : call'[d] = call[d] /\ Remaining(d)' = Remaining(d)
  /\ Remaining(c)' = {Creates(k, Substitute(h, b)), Escalates(Trace(h, k, b, forced)),
                      Audits(Events(h, k))}
  /\ Owed' = Owed \cup {Creates(k, Substitute(h, b)), Escalates(Trace(h, k, b, forced)),
                         Audits(Events(h, k))}
  /\ UNCHANGED <<agents, enabled, records, audit, agentIds, answers, revived, lost>>

\* escalateHandoff() has the effect above for one handoff, the agent that
\* holds it, a target that leads and the next id.
LEMMA EscalateStep ==
  ASSUME TypeOK, NEW c \in Caller, Escalate(c)
  PROVE  \E h \in DOMAIN handoffs, forced \in BOOLEAN, a \in DOMAIN agents,
            b \in DOMAIN agents, k \in Nat : EscalateEffect(c, h, forced, a, b, k)
  <1>1. PICK k \in Nat : k = drawn + 1 /\ drawn' = k
    BY DEF Escalate, TypeOK
  <1>2. k \notin DOMAIN handoffs
    BY <1>1 DEF TypeOK
  <1>3. /\ Idle(c)
        /\ UNCHANGED <<agents, enabled, records, audit, agentIds, answers, revived, lost>>
    BY DEF Escalate
  <1>4. PICK h \in DOMAIN handoffs, forced \in BOOLEAN :
          \E a \in AgentWithId(handoffs[h].target) :
          \E b \in IF forced THEN ForcedTargets ELSE EscalationTargets(a) :
            /\ Escalatable(h)
            /\ RouteAvailable(a, b)
            /\ handoffs' = [handoffs EXCEPT ![h].status = "escalated"]
            /\ Continues(c, Escalation(h, drawn', b, forced))
    BY DEF Escalate
  <1>5. PICK a \in AgentWithId(handoffs[h].target) :
          \E b \in IF forced THEN ForcedTargets ELSE EscalationTargets(a) :
            /\ Escalatable(h)
            /\ RouteAvailable(a, b)
            /\ handoffs' = [handoffs EXCEPT ![h].status = "escalated"]
            /\ Continues(c, Escalation(h, drawn', b, forced))
    BY <1>4
  <1>6. PICK b \in IF forced THEN ForcedTargets ELSE EscalationTargets(a) :
            /\ Escalatable(h)
            /\ RouteAvailable(a, b)
            /\ handoffs' = [handoffs EXCEPT ![h].status = "escalated"]
            /\ Continues(c, Escalation(h, drawn', b, forced))
    BY <1>5
  <1>7. a \in DOMAIN agents
    BY DEF AgentWithId
  <1>8. b \in DOMAIN agents /\ agents[b].tier \in Leaders
    BY <1>7, TargetsLead DEF TypeOK
  <1> DEFINE x == Creates(k, Substitute(h, b))
             y == Escalates(Trace(h, k, b, forced))
             z == Audits(Events(h, k))
  <1>9. Escalation(h, drawn', b, forced) = <<x, y, z>>
    BY <1>1 DEF Escalation, Substitute, Trace, Events
  <1>10. Continues(c, <<x, y, z>>)
    BY <1>6, <1>9
  <1> HIDE DEF x, y, z
  <1>11. Parts(<<x, y, z>>) = {x, y, z}
    BY PartsOfThree
  <1>12. /\ call'[c] = <<x, y, z>>
         /\ \A d \in Caller \ {c} : call'[d] = call[d] /\ Remaining(d)' = Remaining(d)
         /\ Remaining(c)' = {x, y, z}
         /\ Owed' = Owed \cup {x, y, z}
    BY <1>3, <1>10, <1>11, CallBegins DEF TypeOK
  <1>13. EscalateEffect(c, h, forced, a, b, k)
    BY <1>1, <1>2, <1>3, <1>6, <1>8, <1>12 DEF x, y, z, EscalateEffect, Escalatable
  <1> QED
    BY <1>7, <1>8, <1>13

\* The three ways in which a call goes on.  A replacement is created ...
ReplaceEffect(c, k, hf, r, e) ==
  /\ hf \in Handoff /\ r \in EscalationRecord /\ e \subseteq Event \X Nat
  /\ k \in (1..drawn) \ DOMAIN handoffs
  /\ r.replacement = k
  /\ hf.from = r.handoff
  /\ hf.status = "pending"
  /\ <<"escalation.created", k>> \in e
  /\ <<"handoff.escalation_replacement_created", k>> \in e
  /\ DOMAIN handoffs' = DOMAIN handoffs \cup {k}
  /\ handoffs'[k] = hf
  /\ \A h \in DOMAIN handoffs : handoffs'[h] = handoffs[h]
  /\ Len(call'[c]) = 2 /\ call'[c][1] = Escalates(r) /\ call'[c][2] = Audits(e)
  /\ \A d \in Caller \ {c} : call'[d] = call[d] /\ Remaining(d)' = Remaining(d)
  /\ Remaining(c) = {Creates(k, hf), Escalates(r), Audits(e)}
  /\ Remaining(c)' = {Escalates(r), Audits(e)}
  /\ Owed = {Creates(k, hf)} \cup Owed'
  /\ k \notin Replacing(Owed')
  /\ UNCHANGED <<agents, enabled, records, audit, agentIds, drawn, answers, revived, lost>>

\* ... a record is made ...
RecordEffect(c, r, e) ==
  /\ r \in EscalationRecord /\ e \subseteq Event \X Nat
  /\ r.replacement \in Replacements(r.handoff)
  /\ <<"escalation.created", r.replacement>> \in e
  /\ records' = records \cup {r}
  /\ Len(call'[c]) = 1 /\ call'[c][1] = Audits(e)
  /\ \A d \in Caller \ {c} : call'[d] = call[d] /\ Remaining(d)' = Remaining(d)
  /\ Remaining(c) = {Escalates(r), Audits(e)}
  /\ Remaining(c)' = {Audits(e)}
  /\ Owed = {Escalates(r)} \cup Owed'
  /\ UNCHANGED <<agents, enabled, handoffs, audit, agentIds, drawn, answers, revived, lost>>

\* ... or the audit events are written.
AuditEffect(c, e) ==
  /\ e \subseteq Event \X Nat
  /\ audit' = audit \cup {Noted(x[1], x[2]) : x \in e}
  /\ Len(call'[c]) = 0
  /\ \A d \in Caller \ {c} : call'[d] = call[d] /\ Remaining(d)' = Remaining(d)
  /\ Remaining(c) = {Audits(e)}
  /\ Remaining(c)' = {}
  /\ Owed = {Audits(e)} \cup Owed'
  /\ UNCHANGED <<agents, enabled, handoffs, records, agentIds, drawn, answers, revived, lost>>

\* The members of a short sequence.
LEMMA PartsByLength ==
  ASSUME NEW S, NEW q \in Seq(S)
  PROVE  /\ Len(q) = 0 => Parts(q) = {}
         /\ Len(q) = 1 => Parts(q) = {q[1]} /\ q[1] \in S
         /\ Len(q) = 2 => Parts(q) = {q[1], q[2]} /\ {q[1], q[2]} \subseteq S
         /\ Len(q) = 3 => Parts(q) = {q[1], q[2], q[3]} /\ {q[1], q[2], q[3]} \subseteq S
  <1>1. DOMAIN q = 1..Len(q)
    OBVIOUS
  <1>2. \A i \in 1..Len(q) : q[i] \in S
    OBVIOUS
  <1>3. 1..0 = {} /\ 1..1 = {1} /\ 1..2 = {1, 2} /\ 1..3 = {1, 2, 3}
    OBVIOUS
  <1>4. Len(q) = 0 => Parts(q) = {}
    BY <1>1, <1>3 DEF Parts
  <1>5. Len(q) = 1 => Parts(q) = {q[1]} /\ q[1] \in S
    BY <1>1, <1>2, <1>3 DEF Parts
  <1>6. Len(q) = 2 => Parts(q) = {q[1], q[2]} /\ {q[1], q[2]} \subseteq S
    BY <1>1, <1>2, <1>3 DEF Parts
  <1>7. Len(q) = 3 => Parts(q) = {q[1], q[2], q[3]} /\ {q[1], q[2], q[3]} \subseteq S
    BY <1>1, <1>2, <1>3 DEF Parts
  <1> QED
    BY <1>4, <1>5, <1>6, <1>7

\* The first change of an orderly call tells how long it is.
LEMMA OrderlyLength ==
  ASSUME NEW q \in Seq(Change), q # <<>>, Orderly(q)
  PROVE  /\ Head(q) = q[1]
         /\ \/ Len(q) = 1 /\ q[1].do = "audit"
            \/ Len(q) = 2 /\ q[1].do = "record"
            \/ Len(q) = 3 /\ q[1].do = "handoff"
  <1>1. PICK n \in Nat : n = Len(q) /\ n # 0
    OBVIOUS
  <1>2. n <= 3
    BY <1>1 DEF Orderly
  <1>3. n = 1 \/ n = 2 \/ n = 3
    BY <1>1, <1>2
  <1>4. Head(q) = q[1]
    OBVIOUS
  <1> QED
    BY <1>1, <1>3, <1>4 DEF Orderly

\* A call goes on in one of those three ways.
LEMMA ProceedStep ==
  ASSUME TypeOK, CallsAreOrderly, NEW c \in Caller, Proceed(c)
  PROVE  \/ \E k \in Nat, hf \in Handoff, r \in EscalationRecord, e \in SUBSET (Event \X Nat) :
               ReplaceEffect(c, k, hf, r, e)
         \/ \E r \in EscalationRecord, e \in SUBSET (Event \X Nat) : RecordEffect(c, r, e)
         \/ \E e \in SUBSET (Event \X Nat) : AuditEffect(c, e)
  <1> DEFINE q == call[c]
  <1>1. /\ q \in Seq(Change) /\ q # <<>> /\ Orderly(q)
        /\ ~Idle(c) /\ Continues(c, Tail(q)) /\ UNCHANGED lost
        /\ UNCHANGED <<agents, enabled, agentIds, drawn, answers, revived, lost>>
    BY DEF TypeOK, CallsAreOrderly, Proceed, Idle
  <1>2. /\ call'[c] = Tail(q)
        /\ \A d \in Caller \ {c} : call'[d] = call[d] /\ Remaining(d)' = Remaining(d)
        /\ Owed = {Head(q)} \cup Owed'
        /\ Head(q) \in Change
    BY <1>1, CallProceeds DEF TypeOK
  <1>3. /\ Remaining(c) = Parts(q)
        /\ Remaining(c)' = Parts(Tail(q))
    BY <1>2 DEF Remaining, Parts
  <1> HIDE DEF q
  <1>4. /\ Tail(q) \in Seq(Change)
        /\ Len(Tail(q)) = Len(q) - 1
        /\ \A i \in 1..(Len(q) - 1) : Tail(q)[i] = q[i + 1]
    BY <1>1, PartsOfTail
  <1>5. Head(q) = q[1]
    BY <1>1, OrderlyLength
  <1>6. CASE Len(q) = 3 /\ q[1].do = "handoff"
    <2>1. /\ Parts(q) = {q[1], q[2], q[3]}
          /\ {q[1], q[2], q[3]} \subseteq Change
      BY <1>1, <1>6, PartsByLength
    <2>2. /\ Len(Tail(q)) = 2
          /\ Tail(q)[1] = q[2] /\ Tail(q)[2] = q[3]
      BY <1>4, <1>6
    <2>3. Parts(Tail(q)) = {q[2], q[3]}
      BY <1>4, <2>2, PartsByLength
    <2>4. q[2].do = "record" /\ q[3].do = "audit"
      BY <1>1, <1>6 DEF Orderly
    <2>5. PICK k \in Nat, hf \in Handoff : k = q[1].id /\ hf = q[1].handoff /\ q[1] = Creates(k, hf)
      BY <2>1, <1>6, ChangeKinds
    <2>6. PICK r \in EscalationRecord : r = q[2].record /\ q[2] = Escalates(r)
      BY <2>1, <2>4, ChangeKinds
    <2>7. PICK e \in SUBSET (Event \X Nat) : e = q[3].events /\ q[3] = Audits(e)
      BY <2>1, <2>4, ChangeKinds
    <2>8. /\ Remaining(c) = {Creates(k, hf), Escalates(r), Audits(e)}
          /\ Remaining(c)' = {Escalates(r), Audits(e)}
          /\ Len(call'[c]) = 2 /\ call'[c][1] = Escalates(r) /\ call'[c][2] = Audits(e)
      BY <1>2, <1>3, <2>1, <2>2, <2>3, <2>5, <2>6, <2>7
    <2>9. /\ r.replacement = k
          /\ hf.from = r.handoff
          /\ hf.status = "pending"
          /\ <<"escalation.created", k>> \in e
          /\ <<"handoff.escalation_replacement_created", k>> \in e
      BY <1>1, <1>6, <2>5, <2>6, <2>7 DEF Orderly
    <2>10. handoffs' = Put(handoffs, k, hf) /\ UNCHANGED <<records, audit>>
      BY <1>5, <1>6, <2>5 DEF Proceed, q
    <2>11. k \in Replacing(Remaining(c)) /\ Replacing(Remaining(c)') = {}
      <3>1. Replacing(Remaining(c)') = {}
        <4>1. Remaining(c)' = {Escalates(r)} \cup {Audits(e)}
          BY <2>8
        <4>2. Replacing({Escalates(r)} \cup {Audits(e)})
                = Replacing({Escalates(r)}) \cup Replacing({Audits(e)})
          BY ReplacingFacts
        <4> QED
          BY <4>1, <4>2, ReplacingFacts
      <3>2. Creates(k, hf) \in Remaining(c) /\ Creates(k, hf).do = "handoff"
              /\ Creates(k, hf).id = k
        BY <2>8 DEF Creates
      <3> QED
        BY <3>1, <3>2 DEF Replacing
    <2>12. k \in (1..drawn) \ DOMAIN handoffs
      BY <2>11 DEF CallsAreOrderly, IdsAreFresh
    <2>13. k \notin Replacing(Owed')
      <3>1. k \notin Replacing(lost)
        BY <2>11 DEF CallsAreOrderly, IdsAreFresh
      <3>2. \A d \in Caller : k \notin Replacing(Remaining(d)')
        BY <2>11, <1>2 DEF CallsAreOrderly, IdsAreFresh
      <3>3. Owed' = lost \cup UNION {Remaining(d)' : d \in Caller}
        BY <1>1 DEF Owed
      <3> QED
        BY <3>1, <3>2, <3>3 DEF Replacing
    <2>14. /\ DOMAIN handoffs' = DOMAIN handoffs \cup {k}
           /\ handoffs'[k] = hf
           /\ \A h \in DOMAIN handoffs : handoffs'[h] = handoffs[h]
      BY <2>10, <2>12 DEF Put
    <2>15. Owed = {Creates(k, hf)} \cup Owed'
      BY <1>2, <1>5, <2>5
    <2>16. ReplaceEffect(c, k, hf, r, e)
      BY <1>1, <1>2, <2>8, <2>9, <2>10, <2>12, <2>13, <2>14, <2>15 DEF ReplaceEffect
    <2> QED
      BY <2>16
  <1>7. CASE Len(q) = 2 /\ q[1].do = "record"
    <2>1. /\ Parts(q) = {q[1], q[2]}
          /\ {q[1], q[2]} \subseteq Change
      BY <1>1, <1>7, PartsByLength
    <2>2. /\ Len(Tail(q)) = 1
          /\ Tail(q)[1] = q[2]
      BY <1>4, <1>7
    <2>3. Parts(Tail(q)) = {q[2]}
      BY <1>4, <2>2, PartsByLength
    <2>4. q[2].do = "audit"
      BY <1>1, <1>7 DEF Orderly
    <2>5. PICK r \in EscalationRecord : r = q[1].record /\ q[1] = Escalates(r)
      BY <2>1, <1>7, ChangeKinds
    <2>6. PICK e \in SUBSET (Event \X Nat) : e = q[2].events /\ q[2] = Audits(e)
      BY <2>1, <2>4, ChangeKinds
    <2>7. /\ Remaining(c) = {Escalates(r), Audits(e)}
          /\ Remaining(c)' = {Audits(e)}
          /\ Len(call'[c]) = 1 /\ call'[c][1] = Audits(e)
      BY <1>2, <1>3, <2>1, <2>2, <2>3, <2>5, <2>6
    <2>8. /\ r.replacement \in Replacements(r.handoff)
          /\ <<"escalation.created", r.replacement>> \in e
      BY <1>1, <1>7, <2>5, <2>6 DEF Orderly
    <2>9. records' = records \cup {r} /\ UNCHANGED <<handoffs, audit>>
      BY <1>5, <1>7, <2>5 DEF Proceed, q
    <2>10. Owed = {Escalates(r)} \cup Owed'
      BY <1>2, <1>5, <2>5
    <2>11. RecordEffect(c, r, e)
      BY <1>1, <1>2, <2>7, <2>8, <2>9, <2>10 DEF RecordEffect
    <2> QED
      BY <2>11
  <1>8. CASE Len(q) = 1 /\ q[1].do = "audit"
    <2>1. Parts(q) = {q[1]} /\ q[1] \in Change
      BY <1>1, <1>8, PartsByLength
    <2>2. Len(Tail(q)) = 0
      BY <1>4, <1>8
    <2>3. Parts(Tail(q)) = {}
      BY <1>4, <2>2, PartsByLength
    <2>4. PICK e \in SUBSET (Event \X Nat) : e = q[1].events /\ q[1] = Audits(e)
      BY <2>1, <1>8, ChangeKinds
    <2>5. /\ Remaining(c) = {Audits(e)}
          /\ Remaining(c)' = {}
          /\ Len(call'[c]) = 0
      BY <1>2, <1>3, <2>1, <2>2, <2>3, <2>4
    <2>6. /\ audit' = audit \cup {Noted(x[1], x[2]) : x \in e}
          /\ UNCHANGED <<handoffs, records>>
      BY <1>5, <1>8, <2>4 DEF Proceed, q
    <2>7. Owed = {Audits(e)} \cup Owed'
      BY <1>2, <1>5, <2>4
    <2>8. AuditEffect(c, e)
      BY <1>1, <1>2, <2>5, <2>6, <2>7 DEF AuditEffect
    <2> QED
      BY <2>8
  <1> QED
    BY <1>1, <1>6, <1>7, <1>8, OrderlyLength

\* A call that is cut off.
FailEffect(c) ==
  /\ call'[c] = <<>>
  /\ \A d \in Caller \ {c} : call'[d] = call[d] /\ Remaining(d)' = Remaining(d)
  /\ lost' = lost \cup Remaining(c)
  /\ Remaining(c)' = {}
  /\ Owed' = Owed
  /\ UNCHANGED <<agents, enabled, handoffs, records, audit, agentIds, drawn, answers, revived>>

\* A persist() that rejects has the effect above.
LEMMA FailStep ==
  ASSUME TypeOK, NEW c \in Caller, Fail(c)
  PROVE  FailEffect(c)
  <1>1. /\ Continues(c, <<>>)
        /\ lost' = lost \cup Remaining(c)
        /\ UNCHANGED <<agents, enabled, handoffs, records, audit, agentIds, drawn, answers, revived>>
    BY DEF Fail
  <1> QED
    BY <1>1, CallFails DEF TypeOK, FailEffect

\* A slug gets a new profile; calls and handoffs are left alone.
OnboardEffect(a, i) ==
  /\ i \in Nat /\ i \notin agentIds
  /\ agentIds' = agentIds \cup {i}
  /\ DOMAIN agents' = DOMAIN agents \cup {a}
  /\ agents'[a].id = i /\ ~agents'[a].active
  /\ \A b \in DOMAIN agents \ {a} : agents'[b] = agents[b]
  /\ \A c \in Caller : Remaining(c)' = Remaining(c)
  /\ Owed' = Owed
  /\ UNCHANGED <<enabled, handoffs, records, audit, call, drawn, answers, revived, lost>>

\* onboardAgent() gives a slug an id that was never used, and pauses it.
LEMMA OnboardStep ==
  ASSUME TypeOK, Onboard
  PROVE  \E a \in Agent, i \in Nat : OnboardEffect(a, i)
  <1>1. PICK a \in Agent, i \in (1..MaxAgentId) \ agentIds, p \in Position :
          /\ agents' = Put(agents, a, [id |-> i, tier |-> p[1], sector |-> p[2],
                                       active |-> FALSE])
          /\ agentIds' = agentIds \cup {i}
    BY DEF Onboard
  <1>2. /\ DOMAIN agents' = DOMAIN agents \cup {a}
        /\ agents'[a].id = i /\ ~agents'[a].active
        /\ \A b \in DOMAIN agents \ {a} : agents'[b] = agents[b]
    BY <1>1 DEF Put
  <1>3. i \in Nat
    BY ConstantsAssumption
  <1>4. UNCHANGED <<enabled, handoffs, records, audit, call, drawn, answers, revived, lost>>
    BY DEF Onboard
  <1>5. OnboardEffect(a, i)
    BY <1>1, <1>2, <1>3, <1>4, CallsRest DEF OnboardEffect
  <1> QED
    BY <1>3, <1>5

-----------------------------------------------------------------------------
(* Calls stay orderly. *)

\* A call stays orderly while others store handoffs.
LEMMA OrderlyKept ==
  ASSUME NEW d \in Caller, call'[d] = call[d], Orderly(call[d]),
         DOMAIN handoffs \subseteq DOMAIN handoffs',
         \A h \in DOMAIN handoffs : handoffs'[h].from = handoffs[h].from
  PROVE  Orderly(call[d])'
  BY DEF Orderly, Replacements

\* Ids stay fresh as long as no replacement is announced, created or lost.
LEMMA FreshKept ==
  ASSUME IdsAreFresh,
         \A d \in Caller : Replacing(Remaining(d)') \subseteq Replacing(Remaining(d)),
         UNCHANGED lost,
         \A i \in (1..drawn) \ DOMAIN handoffs : i \in (1..drawn') \ DOMAIN handoffs'
  PROVE  IdsAreFresh'
  <1>1. ASSUME NEW c \in Caller
        PROVE  /\ Replacing(Remaining(c)') \subseteq (1..drawn') \ DOMAIN handoffs'
               /\ Replacing(Remaining(c)') \cap Replacing(lost') = {}
               /\ \A d \in Caller \ {c} :
                    Replacing(Remaining(c)') \cap Replacing(Remaining(d)') = {}
    BY DEF IdsAreFresh
  <1>2. Replacing(lost') \subseteq (1..drawn') \ DOMAIN handoffs'
    BY DEF IdsAreFresh
  <1> QED
    BY <1>1, <1>2 DEF IdsAreFresh

\* Audit events announce no replacement.
LEMMA NothingReplaced ==
  /\ Replacing({}) = {}
  /\ \A e : Replacing({Audits(e)}) = {}
  /\ \A r, e : Replacing({Escalates(r), Audits(e)}) = {}
  /\ \A k, hf, r, e : Replacing({Creates(k, hf), Escalates(r), Audits(e)}) = {k}
  <1>1. ASSUME NEW r, NEW e
        PROVE  Replacing({Escalates(r), Audits(e)}) = {}
    <2>1. {Escalates(r), Audits(e)} = {Escalates(r)} \cup {Audits(e)}
      OBVIOUS
    <2>2. Replacing({Escalates(r)} \cup {Audits(e)})
            = Replacing({Escalates(r)}) \cup Replacing({Audits(e)})
      BY ReplacingFacts
    <2> QED
      BY <2>1, <2>2, ReplacingFacts
  <1>2. ASSUME NEW k, NEW hf, NEW r, NEW e
        PROVE  Replacing({Creates(k, hf), Escalates(r), Audits(e)}) = {k}
    <2>1. {Creates(k, hf), Escalates(r), Audits(e)}
            = {Creates(k, hf)} \cup {Escalates(r), Audits(e)}
      OBVIOUS
    <2>2. Replacing({Creates(k, hf)} \cup {Escalates(r), Audits(e)})
            = Replacing({Creates(k, hf)}) \cup Replacing({Escalates(r), Audits(e)})
      BY ReplacingFacts
    <2> QED
      BY <2>1, <2>2, <1>1, ReplacingFacts
  <1> QED
    BY <1>1, <1>2, ReplacingFacts

\* No call is in progress at the start.
LEMMA InitOrderly == Init => CallsAreOrderly
  <1> SUFFICES ASSUME Init PROVE CallsAreOrderly
    OBVIOUS
  <1>1. \A c \in Caller : call[c] = <<>> /\ Remaining(c) = {}
    BY DEF Init, Remaining
  <1>2. lost = {} /\ Owed = {}
    BY <1>1 DEF Init, Owed
  <1>3. \A c \in Caller : Orderly(call[c])
    BY <1>1 DEF Orderly
  <1>4. IdsAreFresh
    BY <1>1, <1>2, NothingReplaced DEF IdsAreFresh
  <1>5. AnswersAreKnown
    BY <1>2 DEF AnswersAreKnown
  <1> QED
    BY <1>3, <1>4, <1>5 DEF CallsAreOrderly

\* Every step keeps the calls in the code's order: replacement, record, audit.
LEMMA StepOrderly == TypeOK /\ CallsAreOrderly /\ [Next]_vars => CallsAreOrderly'
  <1> SUFFICES ASSUME TypeOK, CallsAreOrderly, [Next]_vars
               PROVE  CallsAreOrderly'
    OBVIOUS
  <1>a. /\ \A d \in Caller : Orderly(call[d])
        /\ IdsAreFresh
        /\ AnswersAreKnown
        /\ DOMAIN handoffs \subseteq 1..drawn
        /\ drawn \in Nat
    BY DEF CallsAreOrderly, TypeOK
  <1>1. ASSUME NEW c \in Caller, CreateHandoff(c)
        PROVE  CallsAreOrderly'
    <2>1. PICK a \in DOMAIN agents, b \in DOMAIN agents, k \in Nat : CreateEffect(c, a, b, k)
      BY <1>1, CreateStep
    <2> USE <2>1 DEF CreateEffect
    <2>2. ASSUME NEW d \in Caller
          PROVE  Orderly(call[d])'
      <3>1. CASE d = c
        <4>1. Len(call'[c]) = 1 /\ call'[c][1].do = "audit"
          BY DEF Audits
        <4> QED
          BY <3>1, <4>1 DEF Orderly
      <3>2. CASE d # c
        BY <3>2, <1>a, OrderlyKept
      <3> QED
        BY <3>1, <3>2
    <2>3. IdsAreFresh'
      <3>1. \A d \in Caller : Replacing(Remaining(d)') \subseteq Replacing(Remaining(d))
        BY NothingReplaced
      <3>2. \A i \in (1..drawn) \ DOMAIN handoffs : i \in (1..drawn') \ DOMAIN handoffs'
        BY <1>a
      <3> QED
        BY <3>1, <3>2, <1>a, FreshKept
    <2>4. AnswersAreKnown'
      BY <1>a DEF AnswersAreKnown, Audits
    <2> QED
      BY <2>2, <2>3, <2>4 DEF CallsAreOrderly
  <1>2. ASSUME NEW c \in Caller, Respond(c)
        PROVE  CallsAreOrderly'
    <2>1. PICK h \in DOMAIN handoffs, s \in Answer : RespondEffect(c, h, s)
      BY <1>2, RespondStep
    <2> USE <2>1 DEF RespondEffect
    <2>2. DOMAIN handoffs' = DOMAIN handoffs
      OBVIOUS
    <2>3. \A i \in DOMAIN handoffs : handoffs'[i].from = handoffs[i].from
      BY DEF TypeOK, Handoff
    <2>4. ASSUME NEW d \in Caller
          PROVE  Orderly(call[d])'
      <3>1. CASE d = c
        <4>1. Len(call'[c]) = 1 /\ call'[c][1].do = "audit"
          BY DEF Audits
        <4> QED
          BY <3>1, <4>1 DEF Orderly
      <3>2. CASE d # c
        BY <3>2, <2>2, <2>3, <1>a, OrderlyKept
      <3> QED
        BY <3>1, <3>2
    <2>5. IdsAreFresh'
      <3>1. \A d \in Caller : Replacing(Remaining(d)') \subseteq Replacing(Remaining(d))
        BY NothingReplaced
      <3> QED
        BY <3>1, <2>2, <1>a, FreshKept
    <2>6. AnswersAreKnown'
      BY <2>2, <1>a DEF AnswersAreKnown, Audits
    <2> QED
      BY <2>4, <2>5, <2>6 DEF CallsAreOrderly
  <1>3. ASSUME NEW c \in Caller, Escalate(c)
        PROVE  CallsAreOrderly'
    <2>1. PICK h \in DOMAIN handoffs, forced \in BOOLEAN, a \in DOMAIN agents,
            b \in DOMAIN agents, k \in Nat : EscalateEffect(c, h, forced, a, b, k)
      BY <1>3, EscalateStep
    <2> DEFINE hf == Substitute(h, b)
               r == Trace(h, k, b, forced)
               e == Events(h, k)
    <2>2. /\ call'[c] = <<Creates(k, hf), Escalates(r), Audits(e)>>
          /\ \A d \in Caller \ {c} : call'[d] = call[d] /\ Remaining(d)' = Remaining(d)
          /\ Remaining(c)' = {Creates(k, hf), Escalates(r), Audits(e)}
          /\ Owed' = Owed \cup {Creates(k, hf), Escalates(r), Audits(e)}
          /\ drawn' = drawn + 1 /\ k = drawn + 1 /\ lost' = lost
          /\ handoffs' = [handoffs EXCEPT ![h].status = "escalated"]
      BY <2>1 DEF EscalateEffect
    <2>3. /\ r.replacement = k /\ hf.from = r.handoff /\ hf.status = "pending"
          /\ <<"escalation.created", k>> \in e
          /\ <<"handoff.escalation_replacement_created", k>> \in e
          /\ \A i \in Nat : <<"handoff.responded", i>> \notin e
      BY DEF Trace, Substitute, Events
    <2> HIDE DEF hf, r, e
    <2>4. DOMAIN handoffs' = DOMAIN handoffs
      BY <2>2
    <2>5. \A i \in DOMAIN handoffs : handoffs'[i].from = handoffs[i].from
      BY <2>2 DEF TypeOK, Handoff
    <2>6. ASSUME NEW d \in Caller
          PROVE  Orderly(call[d])'
      <3>1. CASE d = c
        <4>1. Len(call'[c]) = 3 /\ call'[c][1] = Creates(k, hf)
                /\ call'[c][2] = Escalates(r) /\ call'[c][3] = Audits(e)
          BY <2>2
        <4>2. /\ Creates(k, hf).do = "handoff" /\ Creates(k, hf).id = k
              /\ Creates(k, hf).handoff = hf
              /\ Escalates(r).do = "record" /\ Escalates(r).record = r
              /\ Audits(e).do = "audit" /\ Audits(e).events = e
          BY DEF Creates, Escalates, Audits
        <4> QED
          BY <3>1, <4>1, <4>2, <2>3 DEF Orderly
      <3>2. CASE d # c
        BY <3>2, <2>2, <2>4, <2>5, <1>a, OrderlyKept
      <3> QED
        BY <3>1, <3>2
    <2>7. IdsAreFresh'
      <3>1. Replacing(Remaining(c)') = {k}
        BY <2>2, NothingReplaced
      <3>2. /\ k \in (1..drawn') \ DOMAIN handoffs'
            /\ (1..drawn) \subseteq (1..drawn') \ {k}
        BY <2>2, <2>4, <1>a
      <3>3. /\ \A d \in Caller \ {c} : k \notin Replacing(Remaining(d)')
            /\ k \notin Replacing(lost')
        BY <2>2, <3>2, <1>a DEF IdsAreFresh
      <3>4. ASSUME NEW d \in Caller
            PROVE  /\ Replacing(Remaining(d)') \subseteq (1..drawn') \ DOMAIN handoffs'
                   /\ Replacing(Remaining(d)') \cap Replacing(lost') = {}
                   /\ \A g \in Caller \ {d} :
                        Replacing(Remaining(d)') \cap Replacing(Remaining(g)') = {}
        <4>1. CASE d = c
          BY <4>1, <3>1, <3>2, <3>3
        <4>2. CASE d # c
          <5>1. Remaining(d)' = Remaining(d)
            BY <4>2, <2>2
          <5>2. Replacing(Remaining(d)') \subseteq (1..drawn') \ DOMAIN handoffs'
            BY <5>1, <3>2, <2>4, <1>a DEF IdsAreFresh
          <5>3. Replacing(Remaining(d)') \cap Replacing(lost') = {}
            BY <5>1, <2>2, <1>a DEF IdsAreFresh
          <5>4. ASSUME NEW g \in Caller \ {d}
                PROVE  Replacing(Remaining(d)') \cap Replacing(Remaining(g)') = {}
            <6>1. CASE g = c
              BY <6>1, <4>2, <3>1, <3>3
            <6>2. CASE g # c
              BY <6>2, <5>1, <2>2, <1>a DEF IdsAreFresh
            <6> QED
              BY <6>1, <6>2
          <5> QED
            BY <5>2, <5>3, <5>4
        <4> QED
          BY <4>1, <4>2
      <3>5. Replacing(lost') \subseteq (1..drawn') \ DOMAIN handoffs'
        BY <2>2, <2>4, <3>2, <1>a DEF IdsAreFresh
      <3> QED
        BY <3>4, <3>5 DEF IdsAreFresh
    <2>8. AnswersAreKnown'
      <3>1. Creates(k, hf).do # "audit" /\ Escalates(r).do # "audit" /\ Audits(e).events = e
        BY DEF Creates, Escalates, Audits
      <3> QED
        BY <3>1, <2>2, <2>3, <2>4, <1>a DEF AnswersAreKnown
    <2> QED
      BY <2>6, <2>7, <2>8 DEF CallsAreOrderly
  <1>4. ASSUME NEW c \in Caller, Proceed(c)
        PROVE  CallsAreOrderly'
    <2>1. ASSUME NEW k \in Nat, NEW hf \in Handoff, NEW r \in EscalationRecord,
                 NEW e \in SUBSET (Event \X Nat), ReplaceEffect(c, k, hf, r, e)
          PROVE  CallsAreOrderly'
      <3> USE <2>1 DEF ReplaceEffect
      <3>1. \A h \in DOMAIN handoffs : handoffs'[h].from = handoffs[h].from
        OBVIOUS
      <3>2. ASSUME NEW d \in Caller
            PROVE  Orderly(call[d])'
        <4>1. CASE d = c
          <5>1. k \in Replacements(r.handoff)'
            BY DEF Replacements
          <5>2. /\ Escalates(r).do = "record" /\ Escalates(r).record = r
                /\ Audits(e).do = "audit" /\ Audits(e).events = e
            BY DEF Escalates, Audits
          <5>3. /\ Len(call'[c]) = 2
                /\ call'[c][1].do = "record" /\ call'[c][2].do = "audit"
                /\ call'[c][1].record = r /\ call'[c][2].events = e
            BY <5>2
          <5>4. /\ k \in DOMAIN handoffs' /\ handoffs'[k].from = r.handoff
                /\ r.replacement = k /\ <<"escalation.created", k>> \in e
            OBVIOUS
          <5> HIDE <2>1
          <5> QED
            BY <4>1, <5>3, <5>4 DEF Orderly, Replacements
        <4>2. CASE d # c
          BY <4>2, <3>1, <1>a, OrderlyKept
        <4> QED
          BY <4>1, <4>2
      <3>3. IdsAreFresh'
        <4>1. Replacing(Remaining(c)') = {}
          BY NothingReplaced
        <4>2. k \notin Replacing(lost') /\ \A d \in Caller : k \notin Replacing(Remaining(d)')
          <5>1. lost' \subseteq Owed' /\ \A d \in Caller : Remaining(d)' \subseteq Owed'
            BY DEF Owed
          <5> QED
            BY <5>1 DEF Replacing
        <4>3. ASSUME NEW d \in Caller
              PROVE  /\ Replacing(Remaining(d)') \subseteq (1..drawn') \ DOMAIN handoffs'
                     /\ Replacing(Remaining(d)') \cap Replacing(lost') = {}
                     /\ \A g \in Caller \ {d} :
                          Replacing(Remaining(d)') \cap Replacing(Remaining(g)') = {}
          <5>1. CASE d = c
            BY <5>1, <4>1
          <5>2. CASE d # c
            <6>1. Remaining(d)' = Remaining(d)
              BY <5>2
            <6>2. Replacing(Remaining(d)') \subseteq (1..drawn') \ DOMAIN handoffs'
              BY <6>1, <4>2, <1>a DEF IdsAreFresh
            <6>3. Replacing(Remaining(d)') \cap Replacing(lost') = {}
              BY <6>1, <1>a DEF IdsAreFresh
            <6>4. \A g \in Caller \ {d} :
                    Replacing(Remaining(d)') \cap Replacing(Remaining(g)') = {}
              BY <6>1, <4>1, <1>a DEF IdsAreFresh
            <6> QED
              BY <6>2, <6>3, <6>4
          <5> QED
            BY <5>1, <5>2
        <4>4. Replacing(lost') \subseteq (1..drawn') \ DOMAIN handoffs'
          BY <4>2, <1>a DEF IdsAreFresh
        <4> QED
          BY <4>3, <4>4 DEF IdsAreFresh
      <3>4. AnswersAreKnown'
        BY <1>a DEF AnswersAreKnown
      <3> QED
        BY <3>2, <3>3, <3>4 DEF CallsAreOrderly
    <2>2. ASSUME NEW r \in EscalationRecord, NEW e \in SUBSET (Event \X Nat),
                 RecordEffect(c, r, e)
          PROVE  CallsAreOrderly'
      <3> USE <2>2 DEF RecordEffect
      <3>1. ASSUME NEW d \in Caller
            PROVE  Orderly(call[d])'
        <4>1. CASE d = c
          <5>1. Len(call'[c]) = 1 /\ call'[c][1].do = "audit"
            BY DEF Audits
          <5> QED
            BY <4>1, <5>1 DEF Orderly
        <4>2. CASE d # c
          BY <4>2, <1>a, OrderlyKept
        <4> QED
          BY <4>1, <4>2
      <3>2. \A d \in Caller : Replacing(Remaining(d)') \subseteq Replacing(Remaining(d))
        BY NothingReplaced
      <3>3. IdsAreFresh'
        BY <3>2, <1>a, FreshKept
      <3>4. AnswersAreKnown'
        BY <1>a DEF AnswersAreKnown
      <3> QED
        BY <3>1, <3>3, <3>4 DEF CallsAreOrderly
    <2>3. ASSUME NEW e \in SUBSET (Event \X Nat), AuditEffect(c, e)
          PROVE  CallsAreOrderly'
      <3> USE <2>3 DEF AuditEffect
      <3>1. ASSUME NEW d \in Caller
            PROVE  Orderly(call[d])'
        <4>1. CASE d = c
          BY <4>1 DEF Orderly
        <4>2. CASE d # c
          BY <4>2, <1>a, OrderlyKept
        <4> QED
          BY <4>1, <4>2
      <3>2. \A d \in Caller : Replacing(Remaining(d)') \subseteq Replacing(Remaining(d))
        BY NothingReplaced
      <3>3. IdsAreFresh'
        BY <3>2, <1>a, FreshKept
      <3>4. AnswersAreKnown'
        BY <1>a DEF AnswersAreKnown
      <3> QED
        BY <3>1, <3>3, <3>4 DEF CallsAreOrderly
    <2> QED
      BY <1>4, <2>1, <2>2, <2>3, ProceedStep
  <1>5. ASSUME NEW c \in Caller, Fail(c)
        PROVE  CallsAreOrderly'
    <2> USE <1>5, FailStep DEF FailEffect
    <2>1. ASSUME NEW d \in Caller
          PROVE  Orderly(call[d])'
      <3>1. CASE d = c
        <4>1. Len(call'[c]) = 0
          OBVIOUS
        <4> QED
          BY <3>1, <4>1 DEF Orderly
      <3>2. CASE d # c
        BY <3>2, <1>a, OrderlyKept
      <3> QED
        BY <3>1, <3>2
    <2>2. IdsAreFresh'
      <3>1. Replacing(Remaining(c)') = {}
        BY NothingReplaced
      <3>2. Replacing(lost') = Replacing(lost) \cup Replacing(Remaining(c))
        BY ReplacingFacts
      <3>3. ASSUME NEW d \in Caller
            PROVE  /\ Replacing(Remaining(d)') \subseteq (1..drawn') \ DOMAIN handoffs'
                   /\ Replacing(Remaining(d)') \cap Replacing(lost') = {}
                   /\ \A g \in Caller \ {d} :
                        Replacing(Remaining(d)') \cap Replacing(Remaining(g)') = {}
        <4>1. CASE d = c
          BY <4>1, <3>1
        <4>2. CASE d # c
          <5>1. Remaining(d)' = Remaining(d)
            BY <4>2
          <5>2. Replacing(Remaining(d)') \cap Replacing(lost') = {}
            BY <4>2, <5>1, <3>2, <1>a DEF IdsAreFresh
          <5>3. \A g \in Caller \ {d} :
                  Replacing(Remaining(d)') \cap Replacing(Remaining(g)') = {}
            BY <5>1, <3>1, <1>a DEF IdsAreFresh
          <5> QED
            BY <5>1, <5>2, <5>3, <1>a DEF IdsAreFresh
        <4> QED
          BY <4>1, <4>2
      <3>4. Replacing(lost') \subseteq (1..drawn') \ DOMAIN handoffs'
        BY <3>2, <1>a DEF IdsAreFresh
      <3> QED
        BY <3>3, <3>4 DEF IdsAreFresh
    <2>3. AnswersAreKnown'
      BY <1>a DEF AnswersAreKnown
    <2> QED
      BY <2>1, <2>2, <2>3 DEF CallsAreOrderly
  <1>6. CASE Onboard \/ CreateCapability \/ UNCHANGED vars
    <2>1. UNCHANGED <<handoffs, call, drawn, lost>>
      BY <1>6 DEF Onboard, CreateCapability, vars
    <2>2. (\A d \in Caller : Remaining(d)' = Remaining(d)) /\ Owed' = Owed
      BY <2>1, CallsRest
    <2>3. \A d \in Caller : Orderly(call[d])'
      BY <2>1, <1>a DEF Orderly, Replacements
    <2>4. IdsAreFresh'
      BY <2>1, <2>2, <1>a, FreshKept
    <2>5. AnswersAreKnown'
      BY <2>1, <2>2, <1>a DEF AnswersAreKnown
    <2> QED
      BY <2>3, <2>4, <2>5 DEF CallsAreOrderly
  <1> QED
    BY <1>1, <1>2, <1>3, <1>4, <1>5, <1>6 DEF Next

\* The types of the variables of Handoffs.
THEOREM TypeCorrect == Spec => []TypeOK
  <1>1. Init => TypeOK /\ CallsAreOrderly
    BY InitType, InitOrderly
  <1>2. TypeOK /\ CallsAreOrderly /\ [Next]_vars => TypeOK' /\ CallsAreOrderly'
    BY StepType, StepOrderly
  <1> QED
    BY <1>1, <1>2, PTL DEF Spec

-----------------------------------------------------------------------------
(* Routing: who may be addressed. *)

\* The target of an available route may be addressed by its id.
LEMMA RouteIsAddressable ==
  ASSUME TypeOK, TargetsAreKnown,
         NEW a \in DOMAIN agents, NEW b \in DOMAIN agents, RouteAvailable(a, b)
  PROVE  Addressable(agents[b].id)
  BY DEF TargetsAreKnown, Addressable, RouteAvailable, AgentWithId

\* At the start there is no handoff and the ids of the seed differ.
LEMMA InitTargets == Init => TargetsAreKnown
  <1> SUFFICES ASSUME Init PROVE TargetsAreKnown
    OBVIOUS
  <1>1. \A c \in Caller : Remaining(c) = {}
    BY DEF Init, Remaining
  <1>2. Owed = {}
    BY <1>1 DEF Init, Owed
  <1> QED
    BY <1>2, SeedAssumption DEF Init, TargetsAreKnown

\* Every step keeps targets addressable: an agent that is onboarded anew leaves
\* its old id to nobody, and capabilities are never taken back.
LEMMA StepTargets ==
  TypeOK /\ CallsAreOrderly /\ TargetsAreKnown /\ [Next]_vars => TargetsAreKnown'
  <1> SUFFICES ASSUME TypeOK, CallsAreOrderly, TargetsAreKnown, [Next]_vars
               PROVE  TargetsAreKnown'
    OBVIOUS
  <1>1. ASSUME NEW c \in Caller, CreateHandoff(c)
        PROVE  TargetsAreKnown'
    <2>1. PICK a \in DOMAIN agents, b \in DOMAIN agents, k \in Nat : CreateEffect(c, a, b, k)
      BY <1>1, CreateStep
    <2>2. Addressable(agents[b].id)
      BY <2>1, RouteIsAddressable DEF CreateEffect
    <2>3. Audits({<<"handoff.created", k>>}).do # "handoff"
      BY DEF Audits
    <2> QED
      BY <2>1, <2>2, <2>3 DEF CreateEffect, TargetsAreKnown, Addressable, AgentWithId
  <1>2. ASSUME NEW c \in Caller, Respond(c)
        PROVE  TargetsAreKnown'
    <2>1. PICK h \in DOMAIN handoffs, s \in Answer : RespondEffect(c, h, s)
      BY <1>2, RespondStep
    <2>2. Audits({<<"handoff.responded", h>>}).do # "handoff"
      BY DEF Audits
    <2>3. /\ DOMAIN handoffs' = DOMAIN handoffs
          /\ \A i \in DOMAIN handoffs : handoffs'[i].target = handoffs[i].target
      BY <2>1 DEF RespondEffect, TypeOK, Handoff
    <2> QED
      BY <2>1, <2>2, <2>3 DEF RespondEffect, TargetsAreKnown, Addressable, AgentWithId
  <1>3. ASSUME NEW c \in Caller, Escalate(c)
        PROVE  TargetsAreKnown'
    <2>1. PICK h \in DOMAIN handoffs, forced \in BOOLEAN, a \in DOMAIN agents,
            b \in DOMAIN agents, k \in Nat : EscalateEffect(c, h, forced, a, b, k)
      BY <1>3, EscalateStep
    <2>2. Addressable(agents[b].id)
      BY <2>1, RouteIsAddressable DEF EscalateEffect
    <2>3. PICK x, y, z :
            /\ Owed' = Owed \cup {x, y, z}
            /\ x.handoff.target = agents[b].id
            /\ y.do # "handoff" /\ z.do # "handoff"
      BY <2>1 DEF EscalateEffect, Creates, Substitute, Escalates, Audits
    <2>4. /\ DOMAIN handoffs' = DOMAIN handoffs
          /\ \A i \in DOMAIN handoffs : handoffs'[i].target = handoffs[i].target
      BY <2>1 DEF EscalateEffect, TypeOK, Handoff
    <2>5. UNCHANGED <<agents, enabled, agentIds>>
      BY <2>1 DEF EscalateEffect
    <2> QED
      BY <2>2, <2>3, <2>4, <2>5 DEF TargetsAreKnown, Addressable, AgentWithId
  <1>4. ASSUME NEW c \in Caller, Proceed(c)
        PROVE  TargetsAreKnown'
    <2>1. ASSUME NEW k \in Nat, NEW hf \in Handoff, NEW r \in EscalationRecord,
                 NEW e \in SUBSET (Event \X Nat), ReplaceEffect(c, k, hf, r, e)
          PROVE  TargetsAreKnown'
      <3>1. Addressable(hf.target)
        <4>1. /\ Creates(k, hf) \in Owed
              /\ Creates(k, hf).do = "handoff" /\ Creates(k, hf).handoff = hf
          BY <2>1 DEF ReplaceEffect, Creates
        <4> QED
          BY <4>1 DEF TargetsAreKnown
      <3> QED
        BY <2>1, <3>1 DEF ReplaceEffect, TargetsAreKnown, Addressable, AgentWithId
    <2>2. ASSUME UNCHANGED <<agents, enabled, handoffs, agentIds>>, Owed' \subseteq Owed
          PROVE  TargetsAreKnown'
      BY <2>2 DEF TargetsAreKnown, Addressable, AgentWithId
    <2>3. ASSUME NEW r \in EscalationRecord, NEW e \in SUBSET (Event \X Nat),
                 RecordEffect(c, r, e)
          PROVE  TargetsAreKnown'
      BY <2>2, <2>3 DEF RecordEffect
    <2>4. ASSUME NEW e \in SUBSET (Event \X Nat), AuditEffect(c, e)
          PROVE  TargetsAreKnown'
      BY <2>2, <2>4 DEF AuditEffect
    <2> QED
      BY <1>4, <2>1, <2>3, <2>4, ProceedStep
  <1>5. ASSUME NEW c \in Caller, Fail(c)
        PROVE  TargetsAreKnown'
    <2>1. FailEffect(c)
      BY <1>5, FailStep
    <2> QED
      BY <2>1 DEF FailEffect, TargetsAreKnown, Addressable, AgentWithId
  <1>6. ASSUME Onboard
        PROVE  TargetsAreKnown'
    <2>1. PICK a \in Agent, i \in Nat : OnboardEffect(a, i)
      BY <1>6, OnboardStep
    <2>2. \A b \in DOMAIN agents' : agents'[b].id \in agentIds =>
            b \in DOMAIN agents /\ agents'[b] = agents[b]
      BY <2>1 DEF OnboardEffect
    <2>3. /\ \A b \in DOMAIN agents' : agents'[b].id \in agentIds'
          /\ \A b, d \in DOMAIN agents' : agents'[b].id = agents'[d].id => b = d
      BY <2>1 DEF OnboardEffect, TargetsAreKnown
    <2>4. ASSUME NEW j, Addressable(j)
          PROVE  /\ j \in agentIds'
                 /\ \A b \in DOMAIN agents' : agents'[b].id = j =>
                      /\ agents'[b].active
                      /\ agents'[b].tier \in {"ceo", "founder"} \/ agents'[b].sector \in enabled'
      BY <2>1, <2>2, <2>4 DEF OnboardEffect, Addressable, AgentWithId
    <2>5. handoffs' = handoffs /\ Owed' = Owed
      BY <2>1 DEF OnboardEffect
    <2>6. \A h \in DOMAIN handoffs : Addressable(handoffs[h].target)
      BY DEF TargetsAreKnown
    <2>7. \A s \in Owed : s.do = "handoff" => Addressable(s.handoff.target)
      BY DEF TargetsAreKnown
    <2>8. \A h \in DOMAIN handoffs' : Addressable(handoffs[h].target)'
      BY <2>4, <2>5, <2>6 DEF Addressable, AgentWithId
    <2>9. \A s \in Owed' : s.do = "handoff" => Addressable(s.handoff.target)'
      BY <2>4, <2>5, <2>7 DEF Addressable, AgentWithId
    <2> QED
      BY <2>3, <2>8, <2>9 DEF TargetsAreKnown
  <1>7. ASSUME CreateCapability
        PROVE  TargetsAreKnown'
    <2>1. /\ enabled \subseteq enabled'
          /\ UNCHANGED <<agents, handoffs, call, agentIds, lost>>
      BY <1>7 DEF CreateCapability
    <2>2. Owed' = Owed
      BY <2>1, CallsRest
    <2> QED
      BY <2>1, <2>2 DEF TargetsAreKnown, Addressable, AgentWithId
  <1>8. CASE UNCHANGED vars
    <2>1. UNCHANGED <<agents, enabled, handoffs, agentIds, call, lost>>
      BY <1>8 DEF vars
    <2>2. Owed' = Owed
      BY <2>1, CallsRest
    <2> QED
      BY <2>1, <2>2 DEF TargetsAreKnown, Addressable, AgentWithId
  <1> QED
    BY <1>1, <1>2, <1>3, <1>4, <1>5, <1>6, <1>7, <1>8 DEF Next

\* A paused agent, or one in a sector without an active capability, holds no
\* handoff unless it leads the company, however routes were changed while
\* escalations were in progress.
THEOREM Routing == Spec => []NobodyPausedIsAddressed
  <1>1. Init => TypeOK /\ CallsAreOrderly /\ TargetsAreKnown
    BY InitType, InitOrderly, InitTargets
  <1>2. TypeOK /\ CallsAreOrderly /\ TargetsAreKnown /\ [Next]_vars
          => TypeOK' /\ CallsAreOrderly' /\ TargetsAreKnown'
    BY StepType, StepOrderly, StepTargets
  <1>3. TargetsAreKnown => NobodyPausedIsAddressed
    BY DEF TargetsAreKnown, Addressable, NobodyPausedIsAddressed
  <1> QED
    BY <1>1, <1>2, <1>3, PTL DEF Spec

-----------------------------------------------------------------------------
(* Escalations are whole. *)

\* At the start nothing is escalated.
LEMMA InitWhole == Init => EscalationsAreWhole
  BY DEF Init, EscalationsAreWhole

\* Every step keeps escalations whole: what it does not do, some call owes.
LEMMA StepWhole ==
  TypeOK /\ CallsAreOrderly /\ EscalationsAreWhole /\ [Next]_vars => EscalationsAreWhole'
  <1> SUFFICES ASSUME TypeOK, CallsAreOrderly, EscalationsAreWhole, [Next]_vars
               PROVE  EscalationsAreWhole'
    OBVIOUS
  <1> USE DEF EscalationsAreWhole, Replacements, OwedReplacements
  <1>1. ASSUME NEW c \in Caller, CreateHandoff(c)
        PROVE  EscalationsAreWhole'
    <2>1. PICK a \in DOMAIN agents, b \in DOMAIN agents, k \in Nat : CreateEffect(c, a, b, k)
      BY <1>1, CreateStep
    <2>2. /\ DOMAIN handoffs' = DOMAIN handoffs \cup {k}
          /\ k \notin DOMAIN handoffs
          /\ handoffs'[k].status = "pending" /\ handoffs'[k].from = 0
          /\ \A h \in DOMAIN handoffs : handoffs'[h] = handoffs[h]
          /\ Owed \subseteq Owed' /\ records' = records
      BY <2>1 DEF CreateEffect
    <2> QED
      BY <2>2
  <1>2. ASSUME NEW c \in Caller, Respond(c)
        PROVE  EscalationsAreWhole'
    <2>1. PICK h \in DOMAIN handoffs, s \in Answer : RespondEffect(c, h, s)
      BY <1>2, RespondStep
    <2>2. /\ DOMAIN handoffs' = DOMAIN handoffs
          /\ \A i \in DOMAIN handoffs : handoffs'[i].from = handoffs[i].from
          /\ handoffs'[h].status # "escalated"
          /\ \A i \in DOMAIN handoffs \ {h} : handoffs'[i].status = handoffs[i].status
          /\ Owed \subseteq Owed' /\ records' = records
      BY <2>1 DEF RespondEffect, TypeOK, Handoff, Answer
    <2> QED
      BY <2>2
  <1>3. ASSUME NEW c \in Caller, Escalate(c)
        PROVE  EscalationsAreWhole'
    <2>1. PICK h \in DOMAIN handoffs, forced \in BOOLEAN, a \in DOMAIN agents,
            b \in DOMAIN agents, k \in Nat : EscalateEffect(c, h, forced, a, b, k)
      BY <1>3, EscalateStep
    <2>2. /\ DOMAIN handoffs' = DOMAIN handoffs
          /\ \A i \in DOMAIN handoffs : handoffs'[i].from = handoffs[i].from
          /\ \A i \in DOMAIN handoffs \ {h} : handoffs'[i].status = handoffs[i].status
          /\ Owed \subseteq Owed' /\ records' = records
      BY <2>1 DEF EscalateEffect, TypeOK, Handoff
    <2>3. PICK x \in Owed' : x.do = "handoff" /\ x.handoff.from = h
      BY <2>1 DEF EscalateEffect, Creates, Substitute
    <2> QED
      BY <2>2, <2>3
  <1>4. ASSUME NEW c \in Caller, Proceed(c)
        PROVE  EscalationsAreWhole'
    <2>1. ASSUME NEW k \in Nat, NEW hf \in Handoff, NEW r \in EscalationRecord,
                 NEW e \in SUBSET (Event \X Nat), ReplaceEffect(c, k, hf, r, e)
          PROVE  EscalationsAreWhole'
      <3>1. /\ DOMAIN handoffs' = DOMAIN handoffs \cup {k}
            /\ k \notin DOMAIN handoffs
            /\ handoffs'[k].status = "pending" /\ handoffs'[k].from = hf.from
            /\ \A h \in DOMAIN handoffs : handoffs'[h] = handoffs[h]
            /\ records' = records
        BY <2>1 DEF ReplaceEffect
      <3>2. /\ \A s \in Owed : s \in Owed' \/ (s.do = "handoff" /\ s.handoff.from = hf.from)
            /\ Owed' \subseteq Owed
        BY <2>1 DEF ReplaceEffect, Creates
      <3>3. PICK w \in Owed' : w.do = "record" /\ w.record.replacement = k
        <4>1. Escalates(r) \in Remaining(c)'
          BY <2>1 DEF ReplaceEffect
        <4>2. Escalates(r) \in Owed'
          BY <4>1 DEF Owed
        <4> QED
          BY <4>2, <2>1 DEF Escalates, ReplaceEffect
      <3>4. ASSUME NEW h \in DOMAIN handoffs', handoffs'[h].status = "escalated"
            PROVE  Replacements(h)' # {} \/ OwedReplacements(h)' # {}
        <4>1. h \in DOMAIN handoffs /\ handoffs[h].status = "escalated"
          BY <3>1, <3>4
        <4>2. Replacements(h) # {} \/ OwedReplacements(h) # {}
          BY <4>1
        <4>3. CASE Replacements(h) # {}
          BY <4>3, <3>1
        <4>4. CASE OwedReplacements(h) # {}
          <5>1. PICK s \in Owed : s.do = "handoff" /\ s.handoff.from = h
            BY <4>4
          <5>2. CASE s \in Owed'
            BY <5>1, <5>2
          <5>3. CASE s \notin Owed'
            BY <5>1, <5>3, <3>1, <3>2
          <5> QED
            BY <5>2, <5>3
        <4> QED
          BY <4>2, <4>3, <4>4
      <3>5. ASSUME NEW j \in DOMAIN handoffs', handoffs'[j].from # 0
            PROVE  \/ \E x \in records' : x.handoff = handoffs'[j].from /\ x.replacement = j
                   \/ \E s \in Owed' : s.do = "record" /\ s.record.replacement = j
        <4>1. CASE j = k
          BY <4>1, <3>3
        <4>2. CASE j # k
          BY <4>2, <3>1, <3>2, <3>5
        <4> QED
          BY <4>1, <4>2
      <3>6. \A x \in records' : x.replacement \in Replacements(x.handoff)'
        BY <3>1
      <3> QED
        BY <3>4, <3>5, <3>6
    <2>2. ASSUME NEW r \in EscalationRecord, NEW e \in SUBSET (Event \X Nat),
                 RecordEffect(c, r, e)
          PROVE  EscalationsAreWhole'
      <3>1. /\ handoffs' = handoffs
            /\ records' = records \cup {r}
            /\ r.replacement \in DOMAIN handoffs
            /\ handoffs[r.replacement].from = r.handoff
        BY <2>2 DEF RecordEffect
      <3>2. /\ \A s \in Owed : s \in Owed' \/ (s.do = "record" /\ s.record = r)
            /\ Owed' \subseteq Owed
        BY <2>2 DEF RecordEffect, Escalates
      <3> QED
        BY <3>1, <3>2
    <2>3. ASSUME NEW e \in SUBSET (Event \X Nat), AuditEffect(c, e)
          PROVE  EscalationsAreWhole'
      <3>1. /\ UNCHANGED <<handoffs, records>>
            /\ \A s \in Owed : s \in Owed' \/ s.do = "audit"
        BY <2>3 DEF AuditEffect, Audits
      <3> QED
        BY <3>1
    <2> QED
      BY <1>4, <2>1, <2>2, <2>3, ProceedStep
  <1>5. ASSUME NEW c \in Caller, Fail(c)
        PROVE  EscalationsAreWhole'
    <2>1. UNCHANGED <<handoffs, records>> /\ Owed' = Owed
      BY <1>5, FailStep DEF FailEffect
    <2> QED
      BY <2>1
  <1>6. CASE Onboard \/ CreateCapability \/ UNCHANGED vars
    <2>1. UNCHANGED <<handoffs, records, call, lost>>
      BY <1>6 DEF Onboard, CreateCapability, vars
    <2>2. Owed' = Owed
      BY <2>1, CallsRest
    <2> QED
      BY <2>1, <2>2
  <1> QED
    BY <1>1, <1>2, <1>3, <1>4, <1>5, <1>6 DEF Next

\* An escalated handoff, its replacement and their record exist together, or
\* the call that makes them is in progress or was cut off.
THEOREM Wholeness == Spec => []EscalationsAreWhole
  <1>1. Init => TypeOK /\ CallsAreOrderly /\ EscalationsAreWhole
    BY InitType, InitOrderly, InitWhole
  <1>2. TypeOK /\ CallsAreOrderly /\ EscalationsAreWhole /\ [Next]_vars
          => TypeOK' /\ CallsAreOrderly' /\ EscalationsAreWhole'
    BY StepType, StepOrderly, StepWhole
  <1> QED
    BY <1>1, <1>2, PTL DEF Spec

-----------------------------------------------------------------------------
(* Escalations climb. *)

\* At the start there is no record.
LEMMA InitLevels == Init => LevelsAreKnown
  <1> SUFFICES ASSUME Init PROVE LevelsAreKnown
    OBVIOUS
  <1>1. \A c \in Caller : Remaining(c) = {}
    BY DEF Init, Remaining
  <1>2. Owed = {} /\ records = {}
    BY <1>1 DEF Init, Owed
  <1>3. Announced = {}
    BY <1>2 DEF Announced
  <1> QED
    BY <1>2, <1>3 DEF LevelsAreKnown

\* The levels stay known while nothing is announced and ids keep their agents.
LEMMA LevelsKept ==
  ASSUME LevelsAreKnown, TargetsAreKnown,
         Announced' = Announced, Owed' \subseteq Owed, drawn' = drawn,
         DOMAIN handoffs' = DOMAIN handoffs,
         \A h \in DOMAIN handoffs : handoffs'[h].target = handoffs[h].target,
         \A b \in DOMAIN agents' : agents'[b].id \in agentIds =>
            b \in DOMAIN agents /\ agents'[b] = agents[b]
  PROVE  LevelsAreKnown'
  <1>1. ASSUME NEW r \in Announced
        PROVE  /\ r.handoff \in DOMAIN handoffs'
               /\ r.replacement \in 1..drawn'
               /\ r.replacement \in DOMAIN handoffs' =>
                    \A a \in AgentWithId(handoffs[r.replacement].target)' :
                      agents'[a].tier = r.level
    <2>1. r.handoff \in DOMAIN handoffs /\ r.replacement \in 1..drawn
      BY DEF LevelsAreKnown
    <2>2. ASSUME r.replacement \in DOMAIN handoffs,
                 NEW a \in DOMAIN agents', agents'[a].id = handoffs'[r.replacement].target
          PROVE  agents'[a].tier = r.level
      <3>1. agents'[a].id \in agentIds
        BY <2>2 DEF TargetsAreKnown, Addressable
      <3>2. a \in AgentWithId(handoffs[r.replacement].target)
        BY <2>2, <3>1 DEF AgentWithId
      <3> QED
        BY <2>2, <3>1, <3>2 DEF LevelsAreKnown
    <2> QED
      BY <2>1, <2>2 DEF AgentWithId
  <1>2. ASSUME NEW s \in Owed', NEW r \in Announced, s.do = "handoff", s.id = r.replacement,
               NEW a \in DOMAIN agents', agents'[a].id = s.handoff.target
        PROVE  agents'[a].tier = r.level
    <2>1. agents'[a].id \in agentIds
      BY <1>2 DEF TargetsAreKnown, Addressable
    <2>2. a \in AgentWithId(s.handoff.target)
      BY <1>2, <2>1 DEF AgentWithId
    <2> QED
      BY <1>2, <2>1, <2>2 DEF LevelsAreKnown
  <1>3. \A r, s \in Announced :
          s.handoff = r.replacement /\ ~s.forced => Rank[s.level] > Rank[r.level]
    BY DEF LevelsAreKnown
  <1> QED
    BY <1>1, <1>2, <1>3 DEF LevelsAreKnown, AgentWithId

\* Every step keeps the levels of records those of the agents that hold the
\* replacements, and a new record above the one before it.
LEMMA StepLevels ==
  TypeOK /\ CallsAreOrderly /\ TargetsAreKnown /\ LevelsAreKnown /\ [Next]_vars
    => LevelsAreKnown'
  <1> SUFFICES ASSUME TypeOK, CallsAreOrderly, TargetsAreKnown, LevelsAreKnown, [Next]_vars
               PROVE  LevelsAreKnown'
    OBVIOUS
  <1>1. ASSUME NEW c \in Caller, CreateHandoff(c)
        PROVE  LevelsAreKnown'
    <2>1. PICK a \in DOMAIN agents, b \in DOMAIN agents, k \in Nat : CreateEffect(c, a, b, k)
      BY <1>1, CreateStep
    <2>2. /\ k \notin 1..drawn /\ drawn' = drawn + 1 /\ drawn \in Nat
          /\ DOMAIN handoffs' = DOMAIN handoffs \cup {k}
          /\ \A h \in DOMAIN handoffs : handoffs'[h] = handoffs[h]
          /\ UNCHANGED <<agents, records>>
      BY <2>1 DEF CreateEffect, TypeOK
    <2>3. PICK x : x.do = "audit" /\ Owed' = Owed \cup {x}
      BY <2>1 DEF CreateEffect, Audits
    <2>4. Announced' = Announced
      BY <2>2, <2>3 DEF Announced
    <2>5. ASSUME NEW r \in Announced
          PROVE  /\ r.handoff \in DOMAIN handoffs'
                 /\ r.replacement \in 1..drawn'
                 /\ r.replacement \in DOMAIN handoffs' =>
                      \A a1 \in AgentWithId(handoffs[r.replacement].target)' :
                        agents'[a1].tier = r.level
      BY <2>2 DEF LevelsAreKnown, AgentWithId
    <2>6. \A s \in Owed', r \in Announced :
            s.do = "handoff" /\ s.id = r.replacement =>
              \A a1 \in AgentWithId(s.handoff.target)' : agents'[a1].tier = r.level
      BY <2>2, <2>3 DEF LevelsAreKnown, AgentWithId
    <2>7. \A r, s \in Announced :
            s.handoff = r.replacement /\ ~s.forced => Rank[s.level] > Rank[r.level]
      BY DEF LevelsAreKnown
    <2> QED
      BY <2>4, <2>5, <2>6, <2>7 DEF LevelsAreKnown
  <1>2. ASSUME NEW c \in Caller, Respond(c)
        PROVE  LevelsAreKnown'
    <2>1. PICK h \in DOMAIN handoffs, s \in Answer : RespondEffect(c, h, s)
      BY <1>2, RespondStep
    <2>2. /\ DOMAIN handoffs' = DOMAIN handoffs
          /\ \A i \in DOMAIN handoffs : handoffs'[i].target = handoffs[i].target
          /\ UNCHANGED <<agents, records, drawn>>
      BY <2>1 DEF RespondEffect, TypeOK, Handoff
    <2>3. PICK x : x.do = "audit" /\ Owed' = Owed \cup {x}
      BY <2>1 DEF RespondEffect, Audits
    <2>4. Announced' = Announced
      BY <2>2, <2>3 DEF Announced
    <2> QED
      BY <2>2, <2>3, <2>4 DEF LevelsAreKnown, AgentWithId
  <1>3. ASSUME NEW c \in Caller, Escalate(c)
        PROVE  LevelsAreKnown'
    <2>1. PICK h \in DOMAIN handoffs, forced \in BOOLEAN, a \in DOMAIN agents,
            b \in DOMAIN agents, k \in Nat : EscalateEffect(c, h, forced, a, b, k)
      BY <1>3, EscalateStep
    <2> DEFINE x == Creates(k, Substitute(h, b))
               r0 == Trace(h, k, b, forced)
    <2>2. /\ k \notin 1..drawn /\ drawn' = drawn + 1 /\ drawn \in Nat /\ k = drawn'
          /\ DOMAIN handoffs' = DOMAIN handoffs
          /\ \A i \in DOMAIN handoffs : handoffs'[i].target = handoffs[i].target
          /\ UNCHANGED <<agents, records>>
          /\ DOMAIN handoffs \subseteq 1..drawn
      BY <2>1 DEF EscalateEffect, TypeOK, Handoff
    <2>3. /\ x.do = "handoff" /\ x.id = k /\ x.handoff.target = agents[b].id
          /\ r0.handoff = h /\ r0.replacement = k /\ r0.level = agents[b].tier
          /\ r0.forced = forced
      BY DEF Creates, Substitute, Trace
    <2>4. PICK y, z : /\ Owed' = Owed \cup {x, y, z}
                      /\ y.do = "record" /\ y.record = r0 /\ z.do = "audit"
      BY <2>1 DEF EscalateEffect, Escalates, Audits
    <2> HIDE DEF x, r0
    <2>5. Announced' = Announced \cup {r0}
      BY <2>2, <2>3, <2>4 DEF Announced
    <2>6. AgentWithId(agents[b].id) = {b}
      BY DEF TargetsAreKnown, AgentWithId
    <2>7. ASSUME NEW r \in Announced \cup {r0}
          PROVE  /\ r.handoff \in DOMAIN handoffs'
                 /\ r.replacement \in 1..drawn'
                 /\ r.replacement \in DOMAIN handoffs' =>
                      \A a1 \in AgentWithId(handoffs[r.replacement].target)' :
                        agents'[a1].tier = r.level
      <3>1. CASE r = r0
        BY <3>1, <2>2, <2>3
      <3>2. CASE r \in Announced
        BY <3>2, <2>2 DEF LevelsAreKnown, AgentWithId
      <3> QED
        BY <3>1, <3>2
    <2>8. ASSUME NEW s \in Owed', NEW r \in Announced \cup {r0},
                 s.do = "handoff", s.id = r.replacement,
                 NEW a1 \in AgentWithId(s.handoff.target)
          PROVE  agents[a1].tier = r.level
      <3>1. CASE s = x /\ r = r0
        BY <3>1, <2>3, <2>6, <2>8
      <3>2. CASE s = x /\ r \in Announced
        BY <3>2, <2>2, <2>3, <2>8 DEF LevelsAreKnown
      <3>3. CASE s \in Owed /\ r = r0
        <4>1. s.id \in Replacing(Owed)
          BY <3>3, <2>8 DEF Replacing
        <4>2. Replacing(Owed) \subseteq 1..drawn
          BY DEF CallsAreOrderly, IdsAreFresh, Owed, Replacing
        <4> QED
          BY <3>3, <4>1, <4>2, <2>2, <2>3, <2>8
      <3>4. CASE s \in Owed /\ r \in Announced
        BY <3>4, <2>8 DEF LevelsAreKnown
      <3> QED
        BY <3>1, <3>2, <3>3, <3>4, <2>4, <2>8
    <2>9. ASSUME NEW r \in Announced \cup {r0}, NEW s \in Announced \cup {r0},
                 s.handoff = r.replacement, ~s.forced
          PROVE  Rank[s.level] > Rank[r.level]
      <3>1. r # r0
        BY <2>2, <2>3, <2>9 DEF LevelsAreKnown
      <3>2. CASE s \in Announced
        BY <3>1, <3>2, <2>9 DEF LevelsAreKnown
      <3>3. CASE s = r0
        <4>1. r.replacement = h /\ ~forced
          BY <3>3, <2>3, <2>9
        <4>2. agents[a].tier = r.level
          BY <4>1, <3>1, <2>1 DEF LevelsAreKnown, EscalateEffect
        <4>3. b \in EscalationTargets(a)
          BY <4>1, <2>1 DEF EscalateEffect
        <4>4. /\ agents[a].tier = "c_level" => agents[b].tier = "ceo"
              /\ agents[a].tier = "ceo" => agents[b].tier = "founder"
              /\ agents[a].tier # "founder"
          BY <4>3, <4>1, TargetsLead DEF TypeOK
        <4>5. r.level \in Leaders
          <5>1. r \in EscalationRecord
            <6>1. \A t \in Owed : t \in Change
              BY DEF TypeOK, Owed, Remaining
            <6> QED
              BY <6>1, <3>1, ChangeKinds DEF Announced, TypeOK
          <5> QED
            BY <5>1 DEF EscalationRecord
        <4> QED
          BY <3>3, <4>2, <4>4, <4>5, <2>3 DEF Leaders, Rank
      <3> QED
        BY <3>2, <3>3
    <2> QED
      BY <2>2, <2>5, <2>7, <2>8, <2>9 DEF LevelsAreKnown, AgentWithId
  <1>4. ASSUME NEW c \in Caller, Proceed(c)
        PROVE  LevelsAreKnown'
    <2>a. \A b \in DOMAIN agents : agents[b].id \in agentIds
      BY DEF TargetsAreKnown
    <2>1. ASSUME NEW k \in Nat, NEW hf \in Handoff, NEW r \in EscalationRecord,
                 NEW e \in SUBSET (Event \X Nat), ReplaceEffect(c, k, hf, r, e)
          PROVE  LevelsAreKnown'
      <3> DEFINE x == Creates(k, hf)
      <3>1. /\ DOMAIN handoffs' = DOMAIN handoffs \cup {k}
            /\ handoffs'[k] = hf
            /\ \A h \in DOMAIN handoffs : handoffs'[h] = handoffs[h]
            /\ UNCHANGED <<agents, records, drawn>>
            /\ Owed = {x} \cup Owed'
            /\ k \notin DOMAIN handoffs
        BY <2>1 DEF ReplaceEffect
      <3>2. x.do = "handoff" /\ x.id = k /\ x.handoff = hf
        BY DEF Creates
      <3> HIDE DEF x
      <3>3. Announced' = Announced
        BY <3>1, <3>2 DEF Announced
      <3>4. ASSUME NEW q \in Announced
            PROVE  /\ q.handoff \in DOMAIN handoffs'
                   /\ q.replacement \in 1..drawn'
                   /\ q.replacement \in DOMAIN handoffs' =>
                        \A a \in AgentWithId(handoffs[q.replacement].target)' :
                          agents'[a].tier = q.level
        <4>1. CASE q.replacement = k
          BY <4>1, <3>1, <3>2 DEF LevelsAreKnown, AgentWithId
        <4>2. CASE q.replacement # k
          BY <4>2, <3>1 DEF LevelsAreKnown, AgentWithId
        <4> QED
          BY <4>1, <4>2
      <3>5. \A s \in Owed', q \in Announced :
              s.do = "handoff" /\ s.id = q.replacement =>
                \A a \in AgentWithId(s.handoff.target)' : agents'[a].tier = q.level
        BY <3>1 DEF LevelsAreKnown, AgentWithId
      <3>6. \A q, s \in Announced :
              s.handoff = q.replacement /\ ~s.forced => Rank[s.level] > Rank[q.level]
        BY DEF LevelsAreKnown
      <3> QED
        BY <3>3, <3>4, <3>5, <3>6 DEF LevelsAreKnown
    <2>2. ASSUME NEW r \in EscalationRecord, NEW e \in SUBSET (Event \X Nat),
                 RecordEffect(c, r, e)
          PROVE  LevelsAreKnown'
      <3>1. /\ UNCHANGED <<agents, handoffs, drawn>>
            /\ records' = records \cup {r}
            /\ Owed = {Escalates(r)} \cup Owed'
            /\ Escalates(r).do = "record" /\ Escalates(r).record = r
        BY <2>2 DEF RecordEffect, Escalates
      <3>2. Announced' = Announced
        BY <3>1 DEF Announced
      <3> QED
        BY <3>1, <3>2, <2>a, LevelsKept
    <2>3. ASSUME NEW e \in SUBSET (Event \X Nat), AuditEffect(c, e)
          PROVE  LevelsAreKnown'
      <3>1. /\ UNCHANGED <<agents, handoffs, drawn, records>>
            /\ Owed = {Audits(e)} \cup Owed'
            /\ Audits(e).do = "audit"
        BY <2>3 DEF AuditEffect, Audits
      <3>2. Announced' = Announced
        BY <3>1 DEF Announced
      <3> QED
        BY <3>1, <3>2, <2>a, LevelsKept
    <2> QED
      BY <1>4, <2>1, <2>2, <2>3, ProceedStep
  <1>5. ASSUME NEW c \in Caller, Fail(c)
        PROVE  LevelsAreKnown'
    <2>1. UNCHANGED <<agents, handoffs, records, drawn>> /\ Owed' = Owed
      BY <1>5, FailStep DEF FailEffect
    <2>2. Announced' = Announced
      BY <2>1 DEF Announced
    <2> QED
      BY <2>1, <2>2, LevelsKept
  <1>6. ASSUME Onboard
        PROVE  LevelsAreKnown'
    <2>1. PICK a \in Agent, i \in Nat : OnboardEffect(a, i)
      BY <1>6, OnboardStep
    <2>2. /\ UNCHANGED <<handoffs, records, drawn>> /\ Owed' = Owed
          /\ \A b \in DOMAIN agents' : agents'[b].id \in agentIds =>
               b \in DOMAIN agents /\ agents'[b] = agents[b]
      BY <2>1 DEF OnboardEffect
    <2>3. Announced' = Announced
      BY <2>2 DEF Announced
    <2> QED
      BY <2>2, <2>3, LevelsKept
  <1>7. CASE CreateCapability \/ UNCHANGED vars
    <2>1. UNCHANGED <<agents, handoffs, records, call, drawn, lost>>
      BY <1>7 DEF CreateCapability, vars
    <2>2. Owed' = Owed
      BY <2>1, CallsRest
    <2>3. Announced' = Announced
      BY <2>1, <2>2 DEF Announced
    <2> QED
      BY <2>1, <2>2, <2>3, LevelsKept
  <1> QED
    BY <1>1, <1>2, <1>3, <1>4, <1>5, <1>6, <1>7 DEF Next

\* Escalating a replacement takes it to a higher level than it came to, unless
\* the target is forced, whatever agents are onboarded in between.
THEOREM Climbing == Spec => []EscalationsClimb
  <1>1. Init => TypeOK /\ CallsAreOrderly /\ TargetsAreKnown /\ LevelsAreKnown
    BY InitType, InitOrderly, InitTargets, InitLevels
  <1>2. TypeOK /\ CallsAreOrderly /\ TargetsAreKnown /\ LevelsAreKnown /\ [Next]_vars
          => TypeOK' /\ CallsAreOrderly' /\ TargetsAreKnown' /\ LevelsAreKnown'
    BY StepType, StepOrderly, StepTargets, StepLevels
  <1>3. LevelsAreKnown => EscalationsClimb
    BY DEF LevelsAreKnown, Announced, EscalationsClimb
  <1> QED
    BY <1>1, <1>2, <1>3, PTL DEF Spec

-----------------------------------------------------------------------------
(* An escalation replaces a handoff once. *)

\* At the start there is no replacement.
LEMMA InitReplaced == Init => OriginsAreKnown /\ ReplacedOnce
  <1> SUFFICES ASSUME Init PROVE OriginsAreKnown /\ ReplacedOnce
    OBVIOUS
  <1>1. \A c \in Caller : Remaining(c) = {}
    BY DEF Init, Remaining
  <1>2. Owed = {}
    BY <1>1 DEF Init, Owed
  <1> QED
    BY <1>2 DEF Init, OriginsAreKnown, ReplacedOnce

\* Every step keeps replacements unique: only a handoff that is not escalated,
\* and so has none unless it was answered after its escalation, gets one.
LEMMA StepReplaced ==
  TypeOK /\ CallsAreOrderly /\ OriginsAreKnown /\ ReplacedOnce /\ [Next]_vars
    => OriginsAreKnown' /\ ReplacedOnce'
  <1> SUFFICES ASSUME TypeOK, CallsAreOrderly, OriginsAreKnown, ReplacedOnce, [Next]_vars
               PROVE  OriginsAreKnown' /\ ReplacedOnce'
    OBVIOUS
  <1> USE DEF OriginsAreKnown, ReplacedOnce, Replacements, OwedReplacements
  <1>a. ASSUME DOMAIN handoffs' = DOMAIN handoffs,
               \A h \in DOMAIN handoffs :
                 handoffs'[h].from = handoffs[h].from /\ handoffs'[h].status = handoffs[h].status,
               \A s \in Owed' : s.do = "handoff" => s \in Owed,
               revived' = revived
        PROVE  OriginsAreKnown' /\ ReplacedOnce'
    BY <1>a
  <1>1. ASSUME NEW c \in Caller, CreateHandoff(c)
        PROVE  OriginsAreKnown' /\ ReplacedOnce'
    <2>1. PICK a \in DOMAIN agents, b \in DOMAIN agents, k \in Nat : CreateEffect(c, a, b, k)
      BY <1>1, CreateStep
    <2>2. /\ DOMAIN handoffs' = DOMAIN handoffs \cup {k}
          /\ k \notin DOMAIN handoffs /\ k # 0
          /\ handoffs'[k].from = 0
          /\ \A h \in DOMAIN handoffs : handoffs'[h] = handoffs[h]
          /\ revived' = revived
          /\ 0 \notin DOMAIN handoffs
      BY <2>1 DEF CreateEffect, TypeOK
    <2>3. \A s \in Owed' : s.do = "handoff" => s \in Owed
      BY <2>1 DEF CreateEffect, Audits
    <2> QED
      BY <2>2, <2>3
  <1>2. ASSUME NEW c \in Caller, Respond(c)
        PROVE  OriginsAreKnown' /\ ReplacedOnce'
    <2>1. PICK h \in DOMAIN handoffs, s \in Answer : RespondEffect(c, h, s)
      BY <1>2, RespondStep
    <2>2. /\ DOMAIN handoffs' = DOMAIN handoffs
          /\ \A i \in DOMAIN handoffs : handoffs'[i].from = handoffs[i].from
          /\ \A i \in DOMAIN handoffs \ {h} : handoffs'[i].status = handoffs[i].status
          /\ revived' = IF handoffs[h].status = "escalated" THEN revived \cup {h} ELSE revived
      BY <2>1 DEF RespondEffect, TypeOK, Handoff
    <2>3. \A t \in Owed' : t.do = "handoff" => t \in Owed
      BY <2>1 DEF RespondEffect, Audits
    <2>4. OriginsAreKnown'
      BY <2>2, <2>3
    <2>5. ASSUME NEW i \in DOMAIN handoffs' \ revived'
          PROVE  /\ Replacements(i)' # {} \/ OwedReplacements(i)' # {}
                      => handoffs'[i].status = "escalated"
                 /\ \A j, k \in Replacements(i)' : j = k
                 /\ \A t, u \in OwedReplacements(i)' : t = u
                 /\ Replacements(i)' = {} \/ OwedReplacements(i)' = {}
      <3>1. i \in DOMAIN handoffs \ revived
        BY <2>2
      <3>2. Replacements(i)' = Replacements(i) /\ OwedReplacements(i)' \subseteq OwedReplacements(i)
        BY <2>2, <2>3
      <3>3. CASE i = h
        <4>1. handoffs[h].status # "escalated"
          BY <3>3, <2>2, <2>5
        <4>2. Replacements(i) = {} /\ OwedReplacements(i) = {}
          BY <3>1, <3>3, <4>1
        <4>3. Replacements(i)' = {} /\ OwedReplacements(i)' = {}
          BY <3>2, <4>2
        <4> QED
          BY <4>3
      <3>4. CASE i # h
        <4>1. handoffs'[i].status = handoffs[i].status
          BY <3>1, <3>4, <2>2
        <4> HIDE DEF Replacements, OwedReplacements
        <4>2. /\ Replacements(i) # {} \/ OwedReplacements(i) # {}
                   => handoffs[i].status = "escalated"
              /\ \A j, k \in Replacements(i) : j = k
              /\ \A t, u \in OwedReplacements(i) : t = u
              /\ Replacements(i) = {} \/ OwedReplacements(i) = {}
          BY <3>1
        <4> QED
          BY <3>2, <4>1, <4>2
      <3> QED
        BY <3>3, <3>4
    <2> HIDE DEF Replacements, OwedReplacements
    <2> QED
      BY <2>4, <2>5
  <1>3. ASSUME NEW c \in Caller, Escalate(c)
        PROVE  OriginsAreKnown' /\ ReplacedOnce'
    <2>1. PICK h \in DOMAIN handoffs, forced \in BOOLEAN, a \in DOMAIN agents,
            b \in DOMAIN agents, k \in Nat : EscalateEffect(c, h, forced, a, b, k)
      BY <1>3, EscalateStep
    <2>2. /\ DOMAIN handoffs' = DOMAIN handoffs
          /\ \A i \in DOMAIN handoffs : handoffs'[i].from = handoffs[i].from
          /\ \A i \in DOMAIN handoffs \ {h} : handoffs'[i].status = handoffs[i].status
          /\ handoffs'[h].status = "escalated"
          /\ handoffs[h].status # "escalated"
          /\ revived' = revived
      BY <2>1 DEF EscalateEffect, TypeOK, Handoff
    <2>3. PICK x, y, z : /\ Owed' = Owed \cup {x, y, z}
                         /\ x.do = "handoff" /\ x.handoff.from = h
                         /\ y.do = "record" /\ z.do = "audit"
      <3>1. Owed' = Owed \cup {Creates(k, Substitute(h, b)), Escalates(Trace(h, k, b, forced)),
                               Audits(Events(h, k))}
        BY <2>1 DEF EscalateEffect
      <3>2. /\ Creates(k, Substitute(h, b)).do = "handoff"
            /\ Creates(k, Substitute(h, b)).handoff.from = h
        BY DEF Creates, Substitute
      <3>3. Escalates(Trace(h, k, b, forced)).do = "record" /\ Audits(Events(h, k)).do = "audit"
        BY DEF Escalates, Audits
      <3> QED
        BY <3>1, <3>2, <3>3
    <2>4. OriginsAreKnown'
      BY <2>2, <2>3
    <2>5. ASSUME NEW i \in DOMAIN handoffs' \ revived'
          PROVE  /\ Replacements(i)' # {} \/ OwedReplacements(i)' # {}
                      => handoffs'[i].status = "escalated"
                 /\ \A j, l \in Replacements(i)' : j = l
                 /\ \A t, u \in OwedReplacements(i)' : t = u
                 /\ Replacements(i)' = {} \/ OwedReplacements(i)' = {}
      <3>1. i \in DOMAIN handoffs \ revived
        BY <2>2
      <3>2. Replacements(i)' = Replacements(i)
        BY <2>2
      <3>3. CASE i = h
        <4>1. Replacements(i) = {} /\ OwedReplacements(i) = {}
          BY <3>1, <3>3, <2>2
        <4>2. Replacements(i)' = {}
          BY <3>2, <4>1
        <4>3. OwedReplacements(i)' \subseteq {x}
          BY <4>1, <2>3
        <4> HIDE DEF Replacements, OwedReplacements
        <4> QED
          BY <4>2, <4>3, <3>3, <2>2
      <3>4. CASE i # h
        <4>1. handoffs'[i].status = handoffs[i].status
          BY <3>1, <3>4, <2>2
        <4>2. OwedReplacements(i)' = OwedReplacements(i)
          BY <3>4, <2>3
        <4> HIDE DEF Replacements, OwedReplacements
        <4> QED
          BY <3>1, <3>2, <4>1, <4>2
      <3> QED
        BY <3>3, <3>4
    <2> HIDE DEF Replacements, OwedReplacements
    <2> QED
      BY <2>4, <2>5
  <1>4. ASSUME NEW c \in Caller, Proceed(c)
        PROVE  OriginsAreKnown' /\ ReplacedOnce'
    <2>1. ASSUME NEW k \in Nat, NEW hf \in Handoff, NEW r \in EscalationRecord,
                 NEW e \in SUBSET (Event \X Nat), ReplaceEffect(c, k, hf, r, e)
          PROVE  OriginsAreKnown' /\ ReplacedOnce'
      <3> DEFINE x == Creates(k, hf)
      <3>1. /\ DOMAIN handoffs' = DOMAIN handoffs \cup {k}
            /\ k \notin DOMAIN handoffs
            /\ handoffs'[k].from = hf.from
            /\ \A h \in DOMAIN handoffs : handoffs'[h] = handoffs[h]
            /\ Owed = {x} \cup Owed'
            /\ revived' = revived /\ revived \subseteq DOMAIN handoffs
        BY <2>1 DEF ReplaceEffect, TypeOK
      <3>2. x.do = "handoff" /\ x.id = k /\ x.handoff = hf
        BY DEF Creates
      <3>3. x \notin Owed'
        BY <2>1, <3>2 DEF ReplaceEffect, Replacing
      <3> HIDE DEF x
      <3>4. hf.from \in DOMAIN handoffs
        BY <3>1, <3>2
      <3>5. OriginsAreKnown'
        BY <3>1, <3>4
      <3>6. ASSUME NEW i \in DOMAIN handoffs' \ revived'
            PROVE  /\ Replacements(i)' # {} \/ OwedReplacements(i)' # {}
                        => handoffs'[i].status = "escalated"
                   /\ \A j, l \in Replacements(i)' : j = l
                   /\ \A t, u \in OwedReplacements(i)' : t = u
                   /\ Replacements(i)' = {} \/ OwedReplacements(i)' = {}
        <4>1. CASE i = k
          <5>1. Replacements(i)' = {}
            BY <4>1, <3>1, <3>4, <2>1 DEF ReplaceEffect
          <5>2. OwedReplacements(i)' = {}
            BY <4>1, <3>1
          <5> HIDE DEF Replacements, OwedReplacements
          <5> QED
            BY <5>1, <5>2
        <4>2. CASE i = hf.from
          <5>1. i \in DOMAIN handoffs \ revived
            BY <4>2, <3>1, <3>4
          <5>2. x \in OwedReplacements(i)
            BY <4>2, <3>1, <3>2
          <5>3. Replacements(i) = {} /\ handoffs[i].status = "escalated"
            BY <5>1, <5>2
          <5>4. \A t \in OwedReplacements(i) : t = x
            BY <5>1, <5>2
          <5>5. Replacements(i)' = {k}
            BY <5>3, <4>2, <3>1
          <5>6. OwedReplacements(i)' = {}
            BY <5>4, <3>1, <3>3
          <5>7. handoffs'[i].status = "escalated"
            BY <5>1, <5>3, <3>1
          <5> HIDE DEF Replacements, OwedReplacements
          <5> QED
            BY <5>5, <5>6, <5>7
        <4>3. CASE i # k /\ i # hf.from
          <5>1. i \in DOMAIN handoffs \ revived /\ handoffs'[i] = handoffs[i]
            BY <4>3, <3>1
          <5>2. Replacements(i)' = Replacements(i)
            BY <4>3, <3>1
          <5>3. OwedReplacements(i)' = OwedReplacements(i)
            BY <4>3, <3>1, <3>2
          <5> HIDE DEF Replacements, OwedReplacements
          <5> QED
            BY <5>1, <5>2, <5>3
        <4> QED
          BY <4>1, <4>2, <4>3
      <3> HIDE DEF Replacements, OwedReplacements
      <3> QED
        BY <3>5, <3>6
    <2>2. ASSUME NEW r \in EscalationRecord, NEW e \in SUBSET (Event \X Nat),
                 RecordEffect(c, r, e)
          PROVE  OriginsAreKnown' /\ ReplacedOnce'
      <3>1. UNCHANGED <<handoffs, revived>> /\ Owed' \subseteq Owed
        BY <2>2 DEF RecordEffect
      <3> QED
        BY <3>1, <1>a
    <2>3. ASSUME NEW e \in SUBSET (Event \X Nat), AuditEffect(c, e)
          PROVE  OriginsAreKnown' /\ ReplacedOnce'
      <3>1. UNCHANGED <<handoffs, revived>> /\ Owed' \subseteq Owed
        BY <2>3 DEF AuditEffect
      <3> QED
        BY <3>1, <1>a
    <2> QED
      BY <1>4, <2>1, <2>2, <2>3, ProceedStep
  <1>5. ASSUME NEW c \in Caller, Fail(c)
        PROVE  OriginsAreKnown' /\ ReplacedOnce'
    <2>1. UNCHANGED <<handoffs, revived>> /\ Owed' = Owed
      BY <1>5, FailStep DEF FailEffect
    <2> QED
      BY <2>1, <1>a
  <1>6. CASE Onboard \/ CreateCapability \/ UNCHANGED vars
    <2>1. UNCHANGED <<handoffs, revived, call, lost>>
      BY <1>6 DEF Onboard, CreateCapability, vars
    <2>2. Owed' = Owed
      BY <2>1, CallsRest
    <2> QED
      BY <2>1, <2>2, <1>a
  <1> HIDE DEF OriginsAreKnown, ReplacedOnce
  <1> QED
    BY <1>1, <1>2, <1>3, <1>4, <1>5, <1>6 DEF Next

\* A set without two different elements has at most one.
LEMMA AtMostOne ==
  ASSUME NEW S, \A x, y \in S : x = y
  PROVE  Cardinality(S) \in {0, 1} /\ (S = {} => Cardinality(S) = 0)
  <1>1. CASE S = {}
    BY <1>1, FS_EmptySet
  <1>2. CASE S # {}
    <2>1. PICK x : S = {x}
      BY <1>2
    <2> QED
      BY <2>1, FS_Singleton
  <1> QED
    BY <1>1, <1>2

\* As long as nobody answers an escalated handoff, it has at most one
\* replacement, counting the one that a call is about to create.
THEOREM OneReplacement == Spec => []OneReplacementEach
  <1>1. Init => TypeOK /\ CallsAreOrderly /\ OriginsAreKnown /\ ReplacedOnce
    BY InitType, InitOrderly, InitReplaced
  <1>2. TypeOK /\ CallsAreOrderly /\ OriginsAreKnown /\ ReplacedOnce /\ [Next]_vars
          => TypeOK' /\ CallsAreOrderly' /\ OriginsAreKnown' /\ ReplacedOnce'
    BY StepType, StepOrderly, StepReplaced
  <1>3. ReplacedOnce => OneReplacementEach
    <2> SUFFICES ASSUME ReplacedOnce, NEW h \in DOMAIN handoffs \ revived
                 PROVE  Cardinality(Replacements(h)) + Cardinality(OwedReplacements(h)) <= 1
      BY DEF OneReplacementEach
    <2>1. /\ \A j, k \in Replacements(h) : j = k
          /\ \A s, t \in OwedReplacements(h) : s = t
          /\ Replacements(h) = {} \/ OwedReplacements(h) = {}
      BY DEF ReplacedOnce
    <2>2. /\ Cardinality(Replacements(h)) \in {0, 1}
          /\ Replacements(h) = {} => Cardinality(Replacements(h)) = 0
      BY <2>1, AtMostOne
    <2>3. /\ Cardinality(OwedReplacements(h)) \in {0, 1}
          /\ OwedReplacements(h) = {} => Cardinality(OwedReplacements(h)) = 0
      BY <2>1, AtMostOne
    <2> QED
      BY <2>1, <2>2, <2>3
  <1> QED
    BY <1>1, <1>2, <1>3, PTL DEF Spec

-----------------------------------------------------------------------------
(* The audit trail. *)

\* At the start there is nothing to note.
LEMMA InitAudit == Init => AuditTrailIsComplete
  BY DEF Init, AuditTrailIsComplete

\* Every step keeps the trail complete: each call owes its events until the
\* step that writes them, and the event of an answer shows the status of then.
LEMMA StepAudit ==
  TypeOK /\ CallsAreOrderly /\ OriginsAreKnown /\ AuditTrailIsComplete /\ [Next]_vars
    => AuditTrailIsComplete'
  <1> SUFFICES ASSUME TypeOK, CallsAreOrderly, OriginsAreKnown, AuditTrailIsComplete,
                      [Next]_vars
               PROVE  AuditTrailIsComplete'
    OBVIOUS
  <1> USE DEF AuditTrailIsComplete, OwesAudit
  <1>1. ASSUME NEW c \in Caller, CreateHandoff(c)
        PROVE  AuditTrailIsComplete'
    <2>1. PICK a \in DOMAIN agents, b \in DOMAIN agents, k \in Nat : CreateEffect(c, a, b, k)
      BY <1>1, CreateStep
    <2>2. /\ DOMAIN handoffs' = DOMAIN handoffs \cup {k}
          /\ handoffs'[k].from = 0 /\ handoffs'[k].status = "pending"
          /\ \A h \in DOMAIN handoffs : handoffs'[h] = handoffs[h]
          /\ Owed \subseteq Owed'
          /\ UNCHANGED <<records, audit>>
      BY <2>1 DEF CreateEffect
    <2>3. PICK s \in Owed' : s.do = "audit" /\ <<"handoff.created", k>> \in s.events
      BY <2>1 DEF CreateEffect, Audits
    <2> QED
      BY <2>2, <2>3 DEF Answer
  <1>2. ASSUME NEW c \in Caller, Respond(c)
        PROVE  AuditTrailIsComplete'
    <2>1. PICK h \in DOMAIN handoffs, s \in Answer : RespondEffect(c, h, s)
      BY <1>2, RespondStep
    <2>2. /\ DOMAIN handoffs' = DOMAIN handoffs
          /\ \A i \in DOMAIN handoffs : handoffs'[i].from = handoffs[i].from
          /\ \A i \in DOMAIN handoffs \ {h} : handoffs'[i].status = handoffs[i].status
          /\ Owed \subseteq Owed'
          /\ UNCHANGED <<records, audit>>
      BY <2>1 DEF RespondEffect, TypeOK, Handoff
    <2>3. PICK t \in Owed' : t.do = "audit" /\ <<"handoff.responded", h>> \in t.events
      BY <2>1 DEF RespondEffect, Audits
    <2> QED
      BY <2>2, <2>3
  <1>3. ASSUME NEW c \in Caller, Escalate(c)
        PROVE  AuditTrailIsComplete'
    <2>1. PICK h \in DOMAIN handoffs, forced \in BOOLEAN, a \in DOMAIN agents,
            b \in DOMAIN agents, k \in Nat : EscalateEffect(c, h, forced, a, b, k)
      BY <1>3, EscalateStep
    <2>2. /\ DOMAIN handoffs' = DOMAIN handoffs
          /\ \A i \in DOMAIN handoffs : handoffs'[i].from = handoffs[i].from
          /\ \A i \in DOMAIN handoffs \ {h} : handoffs'[i].status = handoffs[i].status
          /\ handoffs'[h].status \notin Answer
          /\ Owed \subseteq Owed'
          /\ UNCHANGED <<records, audit>>
      BY <2>1 DEF EscalateEffect, TypeOK, Handoff, Answer
    <2> QED
      BY <2>2
  <1>4. ASSUME NEW c \in Caller, Proceed(c)
        PROVE  AuditTrailIsComplete'
    <2>1. ASSUME NEW k \in Nat, NEW hf \in Handoff, NEW r \in EscalationRecord,
                 NEW e \in SUBSET (Event \X Nat), ReplaceEffect(c, k, hf, r, e)
          PROVE  AuditTrailIsComplete'
      <3>1. /\ DOMAIN handoffs' = DOMAIN handoffs \cup {k}
            /\ handoffs'[k] = hf /\ hf.status = "pending" /\ hf.from = r.handoff
            /\ \A h \in DOMAIN handoffs : handoffs'[h] = handoffs[h]
            /\ UNCHANGED <<records, audit>>
            /\ <<"handoff.escalation_replacement_created", k>> \in e
        BY <2>1 DEF ReplaceEffect
      <3>2. \A s \in Owed : s.do = "audit" => s \in Owed'
        BY <2>1 DEF ReplaceEffect, Creates
      <3>3. Audits(e) \in Owed' /\ Audits(e).do = "audit" /\ Audits(e).events = e
        BY <2>1 DEF ReplaceEffect, Audits, Owed
      <3>4. hf.from # 0
        <4>1. Creates(k, hf) \in Owed /\ Creates(k, hf).do = "handoff"
              /\ Creates(k, hf).handoff = hf
          BY <2>1 DEF ReplaceEffect, Creates
        <4>2. hf.from \in DOMAIN handoffs
          BY <4>1 DEF OriginsAreKnown
        <4> QED
          BY <4>2 DEF TypeOK
      <3> QED
        BY <3>1, <3>2, <3>3, <3>4 DEF Answer
    <2>2. ASSUME NEW r \in EscalationRecord, NEW e \in SUBSET (Event \X Nat),
                 RecordEffect(c, r, e)
          PROVE  AuditTrailIsComplete'
      <3>1. /\ UNCHANGED <<handoffs, audit>>
            /\ records' = records \cup {r}
            /\ <<"escalation.created", r.replacement>> \in e
        BY <2>2 DEF RecordEffect
      <3>2. \A s \in Owed : s.do = "audit" => s \in Owed'
        BY <2>2 DEF RecordEffect, Escalates
      <3>3. Audits(e) \in Owed' /\ Audits(e).do = "audit" /\ Audits(e).events = e
        BY <2>2 DEF RecordEffect, Audits, Owed
      <3> QED
        BY <3>1, <3>2, <3>3
    <2>3. ASSUME NEW e \in SUBSET (Event \X Nat), AuditEffect(c, e)
          PROVE  AuditTrailIsComplete'
      <3>1. /\ UNCHANGED <<handoffs, records>>
            /\ audit \subseteq audit'
            /\ \A x \in e : Noted(x[1], x[2]) \in audit'
        BY <2>3 DEF AuditEffect
      <3>2. \A s \in Owed : s \in Owed' \/ (s.do = "audit" /\ s.events = e)
        BY <2>3 DEF AuditEffect, Audits
      <3>3. ASSUME NEW event, NEW h, <<event, h>> \in e
            PROVE  <<event, h, IF event = "handoff.responded"
                                 THEN handoffs[h].status ELSE "none">> \in audit'
        BY <3>1, <3>3 DEF Noted
      <3> QED
        BY <3>1, <3>2, <3>3
    <2> QED
      BY <1>4, <2>1, <2>2, <2>3, ProceedStep
  <1>5. ASSUME NEW c \in Caller, Fail(c)
        PROVE  AuditTrailIsComplete'
    <2>1. UNCHANGED <<handoffs, records, audit>> /\ Owed' = Owed
      BY <1>5, FailStep DEF FailEffect
    <2> QED
      BY <2>1
  <1>6. CASE Onboard \/ CreateCapability \/ UNCHANGED vars
    <2>1. UNCHANGED <<handoffs, records, audit, call, lost>>
      BY <1>6 DEF Onboard, CreateCapability, vars
    <2>2. Owed' = Owed
      BY <2>1, CallsRest
    <2> QED
      BY <2>1, <2>2
  <1> HIDE DEF AuditTrailIsComplete
  <1> QED
    BY <1>1, <1>2, <1>3, <1>4, <1>5, <1>6 DEF Next

\* Every creation, every escalation and the latest answer of every handoff is
\* in the audit trail, or its call is in progress or was cut off.
THEOREM Auditing == Spec => []AuditTrailIsComplete
  <1>1. Init => /\ TypeOK /\ CallsAreOrderly /\ OriginsAreKnown /\ ReplacedOnce
                /\ AuditTrailIsComplete
    BY InitType, InitOrderly, InitReplaced, InitAudit
  <1>2. TypeOK /\ CallsAreOrderly /\ OriginsAreKnown /\ ReplacedOnce /\ AuditTrailIsComplete
        /\ [Next]_vars
          => TypeOK' /\ CallsAreOrderly' /\ OriginsAreKnown' /\ ReplacedOnce'
             /\ AuditTrailIsComplete'
    BY StepType, StepOrderly, StepReplaced, StepAudit
  <1> QED
    BY <1>1, <1>2, PTL DEF Spec

=============================================================================
