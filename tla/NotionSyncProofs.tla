-------------------------- MODULE NotionSyncProofs --------------------------
(***************************************************************************)
(* Proofs of the safety properties of NotionSync, for any requests, items, *)
(* pages and bounds.                                                       *)
(***************************************************************************)
EXTENDS NotionSync, FiniteSetTheorems, NaturalsInduction, WellFoundedInduction, TLAPS

-----------------------------------------------------------------------------
(* The latest approval of an item, of any list of approvals. *)

Approval == [item : Item, status : ApprovalStatus]

About(s, x) == {i \in DOMAIN s : s[i].item = x}

LatestIn(s, x) ==
  IF About(s, x) = {} THEN "none"
  ELSE s[CHOOSE i \in About(s, x) : \A k \in About(s, x) : k <= i].status

\* A set of positions that is not empty has a last one.
LEMMA LastExists ==
  ASSUME NEW n \in Nat, NEW S \in SUBSET (1 .. n), S # {}
  PROVE  \E i \in S : \A k \in S : k <= i
<1>. DEFINE T == {n - i : i \in S}
<1>1. T \in SUBSET Nat /\ T # {}
  <2>1. PICK i : i \in S
    OBVIOUS
  <2>2. n - i \in T
    BY <2>1
  <2>3. \A k \in S : k \in 1 .. n /\ n - k \in Nat
    OBVIOUS
  <2>. QED  BY <2>2, <2>3
<1>. DEFINE R == OpToRel(<, Nat)
<1>2. PICK m \in T : \A k \in T : ~ <<k, m>> \in R
  <2>1. IsWellFoundedOn(R, Nat)
    BY NatLessThanWellFounded
  <2>. HIDE DEF T, R
  <2>. QED  BY <1>1, <2>1, WFMin
<1>3. \A k \in T : ~ k < m
  BY <1>1, <1>2 DEF OpToRel
<1>4. PICK i \in S : m = n - i
  OBVIOUS
<1>5. \A k \in S : k <= i
  <2>1. TAKE k \in S
  <2>2. n - k \in T
    OBVIOUS
  <2>3. ~ n - k < n - i
    BY <1>3, <1>4, <2>2
  <2>. QED  BY <2>3
<1>. QED  BY <1>5

\* The latest approval about x is the last one in the list.
LEMMA LatestIs ==
  ASSUME NEW s \in Seq(Approval), NEW x, NEW k \in About(s, x),
         \A i \in About(s, x) : i <= k
  PROVE  LatestIn(s, x) = s[k].status
<1>1. PICK i : i = CHOOSE m \in About(s, x) : \A j \in About(s, x) : j <= m
  OBVIOUS
<1>2. i \in About(s, x) /\ \A j \in About(s, x) : j <= i
  BY <1>1
<1>3. i = k
  BY <1>2 DEF About
<1>. QED  BY <1>1, <1>3 DEF LatestIn

LEMMA LatestExists ==
  ASSUME NEW s \in Seq(Approval), NEW x, About(s, x) # {}
  PROVE  \E k \in About(s, x) : /\ \A i \in About(s, x) : i <= k
                                /\ LatestIn(s, x) = s[k].status
<1>1. About(s, x) \in SUBSET (1 .. Len(s)) /\ Len(s) \in Nat
  BY DEF About
<1>2. PICK k \in About(s, x) : \A i \in About(s, x) : i <= k
  BY <1>1, LastExists
<1>. QED  BY <1>2, LatestIs

LEMMA LatestType ==
  ASSUME NEW s \in Seq(Approval), NEW x
  PROVE  /\ LatestIn(s, x) \in ShownApproval
         /\ LatestIn(s, x) = "none" <=> About(s, x) = {}
<1>1. CASE About(s, x) = {}
  BY <1>1 DEF LatestIn, ShownApproval
<1>2. CASE About(s, x) # {}
  <2>1. PICK k \in About(s, x) : LatestIn(s, x) = s[k].status
    BY <1>2, LatestExists
  <2>2. s[k] \in Approval
    BY DEF About
  <2>3. s[k].status \in ApprovalStatus
    BY <2>2 DEF Approval
  <2>. QED  BY <1>2, <2>1, <2>3, ConstantsAssumption DEF ApprovalStatus, ShownApproval
<1>. QED  BY <1>1, <1>2

\* An approval about another item changes nothing.
LEMMA LatestAfterAppend ==
  ASSUME NEW s \in Seq(Approval), NEW a \in Approval, NEW x
  PROVE  /\ Append(s, a) \in Seq(Approval)
         /\ About(s, x) # {} \/ a.item = x => About(Append(s, a), x) # {}
         /\ a.item # x => LatestIn(Append(s, a), x) = LatestIn(s, x)
<1>. DEFINE t == Append(s, a)
<1>1. t \in Seq(Approval) /\ DOMAIN t = 1 .. Len(s) + 1 /\ t[Len(s) + 1] = a
      /\ \A i \in DOMAIN s : i \in DOMAIN t /\ t[i] = s[i]
  OBVIOUS
<1>2. DOMAIN s = 1 .. Len(s) /\ Len(s) \in Nat
  OBVIOUS
<1>. HIDE DEF t
<1>3. About(s, x) # {} \/ a.item = x => About(t, x) # {}
  BY <1>1, <1>2 DEF About
<1>4. ASSUME a.item # x PROVE LatestIn(t, x) = LatestIn(s, x)
  <2>1. About(t, x) = About(s, x)
    BY <1>1, <1>2, <1>4 DEF About
  <2>2. CASE About(s, x) = {}
    BY <2>1, <2>2 DEF LatestIn
  <2>3. CASE About(s, x) # {}
    <3>1. PICK k \in About(s, x) : /\ \A i \in About(s, x) : i <= k
                                   /\ LatestIn(s, x) = s[k].status
      BY <2>3, LatestExists
    <3>2. LatestIn(t, x) = t[k].status
      BY <1>1, <2>1, <3>1, LatestIs
    <3>. QED  BY <1>1, <3>1, <3>2 DEF About
  <2>. QED  BY <2>2, <2>3
<1>. QED  BY <1>1, <1>3, <1>4 DEF t

LEMMA LatestAfterRemove ==
  ASSUME NEW s \in Seq(Approval), NEW i \in DOMAIN s, NEW x
  PROVE  /\ RemoveAt(s, i) \in Seq(Approval)
         /\ s[i].item # x => /\ About(s, x) # {} => About(RemoveAt(s, i), x) # {}
                             /\ LatestIn(RemoveAt(s, i), x) = LatestIn(s, x)
<1>. DEFINE t == RemoveAt(s, i)
<1>1. DOMAIN s = 1 .. Len(s) /\ Len(s) \in Nat /\ i \in 1 .. Len(s)
  OBVIOUS
<1>2. /\ SubSeq(s, 1, i - 1) \in Seq(Approval) /\ Len(SubSeq(s, 1, i - 1)) = i - 1
      /\ \A j \in 1 .. i - 1 : SubSeq(s, 1, i - 1)[j] = s[j]
  BY <1>1
<1>3. /\ SubSeq(s, i + 1, Len(s)) \in Seq(Approval) /\ Len(SubSeq(s, i + 1, Len(s))) = Len(s) - i
      /\ \A j \in 1 .. Len(s) - i : SubSeq(s, i + 1, Len(s))[j] = s[i + j]
  BY <1>1
<1>4. /\ t \in Seq(Approval) /\ Len(t) = Len(s) - 1
      /\ \A j \in 1 .. i - 1 : t[j] = s[j]
      /\ \A j \in i .. Len(s) - 1 : t[j] = s[j + 1]
  <2>1. PICK a, b : a = SubSeq(s, 1, i - 1) /\ b = SubSeq(s, i + 1, Len(s))
    OBVIOUS
  <2>2. t = a \o b
    BY <2>1 DEF RemoveAt
  <2>. HIDE DEF t
  <2>3. /\ a \in Seq(Approval) /\ b \in Seq(Approval)
        /\ Len(a) = i - 1 /\ Len(b) = Len(s) - i
    BY <1>2, <1>3, <2>1
  <2>4. \A j \in 1 .. i - 1 : a[j] = s[j]
    BY <1>2, <2>1
  <2>5. t \in Seq(Approval) /\ Len(t) = Len(a) + Len(b)
    BY <2>2, <2>3
  <2>6. Len(t) = Len(s) - 1
    BY <1>1, <2>3, <2>5
  <2>7. \A j \in 1 .. Len(a) + Len(b) : t[j] = IF j <= Len(a) THEN a[j] ELSE b[j - Len(a)]
    BY <2>2, <2>3
  <2>8. /\ t \in Seq(Approval) /\ Len(t) = Len(s) - 1
        /\ \A j \in 1 .. Len(t) : t[j] = IF j <= i - 1 THEN a[j] ELSE b[j - (i - 1)]
    BY <2>3, <2>5, <2>6, <2>7
  <2>9. ASSUME NEW j \in 1 .. i - 1 PROVE t[j] = s[j]
    <3>1. j \in 1 .. Len(t) /\ j <= i - 1
      BY <1>1, <2>8
    <3>. QED  BY <2>4, <2>8, <3>1
  <2>10. ASSUME NEW j \in i .. Len(s) - 1 PROVE t[j] = s[j + 1]
    <3>1. j \in 1 .. Len(t) /\ ~ j <= i - 1 /\ j - (i - 1) \in 1 .. Len(s) - i
          /\ i + (j - (i - 1)) = j + 1
      BY <1>1, <2>8
    <3>. QED  BY <1>3, <2>1, <2>8, <3>1
  <2>. QED  BY <2>8, <2>9, <2>10
<1>. HIDE DEF t
<1>5. ASSUME s[i].item # x
      PROVE  /\ About(s, x) # {} => About(t, x) # {}
             /\ LatestIn(t, x) = LatestIn(s, x)
  <2>1. \A k \in About(s, x) : IF k < i THEN k \in About(t, x) /\ t[k] = s[k]
                                        ELSE k - 1 \in About(t, x) /\ t[k - 1] = s[k]
    <3>1. TAKE k \in About(s, x)
    <3>2. k \in 1 .. Len(s) /\ k # i /\ s[k].item = x
      BY <1>1, <1>5 DEF About
    <3>3. DOMAIN t = 1 .. Len(s) - 1
      BY <1>1, <1>4
    <3>4. CASE k < i
      <4>1. k \in 1 .. i - 1 /\ k \in 1 .. Len(s) - 1
        BY <1>1, <3>2, <3>4
      <4>. QED  BY <1>4, <3>2, <3>3, <3>4, <4>1 DEF About
    <3>5. CASE ~ k < i
      <4>1. k - 1 \in i .. Len(s) - 1 /\ k - 1 \in 1 .. Len(s) - 1 /\ (k - 1) + 1 = k
        BY <1>1, <3>2, <3>5
      <4>2. t[k - 1] = s[k]
        BY <1>4, <4>1
      <4>. QED  BY <3>2, <3>3, <3>5, <4>1, <4>2 DEF About
    <3>. QED  BY <3>4, <3>5
  <2>2. \A j \in About(t, x) : IF j < i THEN j \in About(s, x) ELSE j + 1 \in About(s, x)
    BY <1>1, <1>4 DEF About
  <2>3. CASE About(s, x) = {}
    <3>1. About(t, x) = {}
      BY <2>2, <2>3
    <3>. QED  BY <2>3, <3>1 DEF LatestIn
  <2>4. CASE About(s, x) # {}
    <3>1. PICK k \in About(s, x) : /\ \A j \in About(s, x) : j <= k
                                   /\ LatestIn(s, x) = s[k].status
      BY <2>4, LatestExists
    <3>2. PICK m : m = IF k < i THEN k ELSE k - 1
      OBVIOUS
    <3>3. m \in About(t, x) /\ t[m] = s[k]
      BY <2>1, <3>1, <3>2
    <3>4. \A j \in About(t, x) : j <= m
      <4>1. k \in 1 .. Len(s) /\ k # i
        BY <1>1, <1>5, <3>1 DEF About
      <4>2. TAKE j \in About(t, x)
      <4>3. j \in 1 .. Len(t)
        BY <1>4 DEF About
      <4>4. CASE j < i
        <5>1. j <= k
          BY <2>2, <3>1, <4>4
        <5>. QED  BY <1>1, <1>4, <3>2, <4>1, <4>3, <4>4, <5>1
      <4>5. CASE ~ j < i
        <5>1. j + 1 <= k
          BY <2>2, <3>1, <4>5
        <5>. QED  BY <1>1, <1>4, <3>2, <4>1, <4>3, <4>5, <5>1
      <4>. QED  BY <4>4, <4>5
    <3>5. LatestIn(t, x) = t[m].status
      BY <1>4, <3>3, <3>4, LatestIs
    <3>. QED  BY <3>1, <3>3, <3>5
  <2>. QED  BY <2>3, <2>4
<1>. QED  BY <1>4, <1>5 DEF t

-----------------------------------------------------------------------------
(* Types. *)

\* The writes of a push are about all items that were chosen, and no others.
LEMMA OrderCovers ==
  ASSUME NEW S, IsFiniteSet(S), NEW order \in SetToSeqs(S)
  PROVE  /\ Cardinality(S) \in Nat
         /\ S # {} => Cardinality(S) # 0
         /\ DOMAIN order = 1 .. Cardinality(S)
         /\ \A i \in DOMAIN order : order[i] \in S
         /\ \A x \in S : \E i \in DOMAIN order : order[i] = x
<1>. DEFINE D == 1 .. Cardinality(S)
<1>1. Cardinality(S) \in Nat /\ (S # {} => Cardinality(S) # 0)
  BY FS_CardinalityType, FS_EmptySet
<1>2. order \in [D -> S] /\ \A i, j \in D : i # j => order[i] # order[j]
  BY DEF SetToSeqs
<1>3. order \in Injection(D, S)
  BY <1>2 DEF Injection, IsInjective
<1>4. Cardinality(D) = Cardinality(S)
  BY <1>1, FS_Interval
<1>5. order \in Surjection(D, S)
  <2>. HIDE DEF D
  <2>. QED  BY <1>3, <1>4, FS_Injection
<1>6. \A x \in S : \E i \in D : order[i] = x
  BY <1>5 DEF Surjection
<1>. QED  BY <1>1, <1>2, <1>6

CallType == {Idle} \cup Storing \cup Pushing \cup Pulling \cup Mirroring

Stages == {"idle", "storing", "pushing", "pulling", "mirroring"}

\* What a caller has under way, by its stage.
LEMMA CallShapes ==
  TypeOK => \A c \in Caller :
    /\ call[c] \in CallType
    /\ call[c].stage \in Stages
    /\ call[c].stage = "idle" <=> call[c] = Idle
    /\ call[c].stage = "storing" =>
         /\ call[c].scope \subseteq Item /\ call[c].seeds \in Seq(Seed)
         /\ call[c].seeds # <<>> => call[c].scope = Item
    /\ call[c].stage = "pushing" => call[c].todo \in Seq(Write)
    /\ call[c].stage = "pulling" =>
         /\ call[c].next \in 1 .. 5 /\ call[c].found \subseteq Found
         /\ call[c].since \subseteq Page /\ call[c].missed \in BOOLEAN
    /\ call[c].stage = "mirroring" => call[c].todo \subseteq Item \X Nat
<1>1. ASSUME NEW v \in CallType
      PROVE  /\ v.stage \in Stages
             /\ v.stage = "idle" <=> v = Idle
             /\ v.stage = "storing" =>
                  /\ v.scope \subseteq Item /\ v.seeds \in Seq(Seed)
                  /\ v.seeds # <<>> => v.scope = Item
             /\ v.stage = "pushing" => v.todo \in Seq(Write)
             /\ v.stage = "pulling" =>
                  /\ v.next \in 1 .. 5 /\ v.found \subseteq Found
                  /\ v.since \subseteq Page /\ v.missed \in BOOLEAN
             /\ v.stage = "mirroring" => v.todo \subseteq Item \X Nat
  <2>1. CASE v = Idle
    BY <2>1 DEF Idle, Stages
  <2>2. CASE v \in Storing
    <3>1. CASE v \in [stage : {"storing"}, scope : SUBSET Item, seeds : {<<>>}]
      <4>1. v.stage = "storing" /\ v.scope \subseteq Item /\ v.seeds = <<>>
        BY <3>1
      <4>2. <<>> \in Seq(Seed)
        OBVIOUS
      <4>. QED  BY <4>1, <4>2 DEF Stages, Idle
    <3>2. CASE v \in [stage : {"storing"}, scope : {Item}, seeds : Seq(Seed)]
      <4>1. v.stage = "storing" /\ v.scope = Item /\ v.seeds \in Seq(Seed)
        BY <3>2
      <4>. QED  BY <4>1 DEF Stages, Idle
    <3>. QED  BY <2>2, <3>1, <3>2 DEF Storing
  <2>3. CASE v \in Pushing
    BY <2>3 DEF Pushing, Stages, Idle
  <2>4. CASE v \in Pulling
    BY <2>4 DEF Pulling, Stages, Idle
  <2>5. CASE v \in Mirroring
    BY <2>5 DEF Mirroring, Stages, Idle
  <2>. QED  BY <2>1, <2>2, <2>3, <2>4, <2>5 DEF CallType
<1>2. TypeOK => \A c \in Caller : call[c] \in CallType
  BY DEF TypeOK, CallType
<1>. QED  BY <1>1, <1>2

\* The approvals of the state are those of LatestIn.
LEMMA LatestNow ==
  TypeOK => /\ approvals \in Seq(Approval)
            /\ \A x : LatestApproval(x) = LatestIn(approvals, x)
BY DEF TypeOK, Approval, LatestApproval, LatestIn, About

LEMMA WriteTypes ==
  TypeOK => \A x \in Item :
    /\ WriteOf(x) \in Write
    /\ WriteOf(x).item = x /\ WriteOf(x).link = item[x].link
    /\ WriteOf(x).approval = LatestApproval(x) /\ WriteOf(x).verdict = LatestVerdict(x)
<1>. SUFFICES ASSUME TypeOK, NEW x \in Item
              PROVE  /\ WriteOf(x) \in Write
                     /\ WriteOf(x).item = x /\ WriteOf(x).link = item[x].link
                     /\ WriteOf(x).approval = LatestApproval(x)
                     /\ WriteOf(x).verdict = LatestVerdict(x)
  OBVIOUS
<1>1. LatestApproval(x) \in ShownApproval /\ Needed(x) \in BOOLEAN
  BY LatestNow, LatestType DEF Needed
<1>2. LatestVerdict(x) \in ShownVerdict
  BY DEF TypeOK, LatestVerdict, ShownVerdict
<1>3. item[x].link \in Page \cup {None} /\ item[x].plan \in Nat
  BY DEF TypeOK, ItemState
<1>. QED  BY <1>1, <1>2, <1>3 DEF WriteOf, Write

\* A read of the records: the chosen items, and the writes of the push.
ReadBy(c, scope, chosen, rivals) ==
  /\ chosen = {x \in scope : Selected(x)}
  /\ rivals = {x \in chosen : \E w \in WritesFor(c, x) : ~SameDecisions(w, WriteOf(x))}
  /\ contested' = (contested \ chosen) \cup rivals
  /\ \/ chosen = {} /\ call' = [call EXCEPT ![c] = Idle]
     \/ \E todo \in Seq(Write) :
          /\ todo # <<>>
          /\ call' = [call EXCEPT ![c] = [stage |-> "pushing", todo |-> todo]]
          /\ \A i \in DOMAIN todo : \E x \in chosen : todo[i] = WriteOf(x)
          /\ \A x \in chosen : \E i \in DOMAIN todo : todo[i] = WriteOf(x)

LEMMA ReadEffect ==
  ASSUME TypeOK, NEW c \in Caller, NEW scope \in SUBSET Item, Read(c, scope)
  PROVE  \E chosen \in SUBSET Item, rivals \in SUBSET Item : ReadBy(c, scope, chosen, rivals)
<1>1. PICK chosen : chosen = {x \in scope : Selected(x)}
  OBVIOUS
<1>2. PICK rivals : rivals = {x \in chosen : \E w \in WritesFor(c, x) : ~SameDecisions(w, WriteOf(x))}
  OBVIOUS
<1>3. chosen \in SUBSET Item /\ rivals \in SUBSET Item
  BY <1>1, <1>2
<1>4. contested' = (contested \ chosen) \cup rivals
  BY <1>1, <1>2 DEF Read
<1>5. PICK order \in SetToSeqs(chosen) :
        call' = [call EXCEPT ![c] =
                  IF chosen = {} THEN Idle
                  ELSE [stage |-> "pushing", todo |-> [i \in DOMAIN order |-> WriteOf(order[i])]]]
  BY <1>1 DEF Read
<1>6. CASE chosen = {}
  BY <1>1, <1>2, <1>3, <1>4, <1>5, <1>6 DEF ReadBy
<1>7. CASE chosen # {}
  <2>1. PICK todo : todo = [i \in DOMAIN order |-> WriteOf(order[i])]
    OBVIOUS
  <2>2. IsFiniteSet(chosen)
    BY <1>3, ConstantsAssumption, FS_Subset
  <2>3. PICK n : n = Cardinality(chosen)
    OBVIOUS
  <2>4. /\ n \in Nat /\ n # 0 /\ DOMAIN order = 1 .. n
        /\ \A i \in DOMAIN order : order[i] \in chosen
        /\ \A x \in chosen : \E i \in DOMAIN order : order[i] = x
    BY <1>7, <2>2, <2>3, OrderCovers
  <2>5. /\ DOMAIN todo = 1 .. n
        /\ \A i \in 1 .. n : todo[i] = WriteOf(order[i]) /\ todo[i] \in Write
    BY <1>3, <2>1, <2>4, WriteTypes
  <2>6. todo \in Seq(Write) /\ todo # <<>>
    <3>1. todo \in [1 .. n -> Write]
      <4>1. todo = [i \in 1 .. n |-> WriteOf(order[i])]
        BY <2>1, <2>4
      <4>2. \A i \in 1 .. n : WriteOf(order[i]) \in Write
        BY <2>5
      <4>. QED  BY <4>1, <4>2
    <3>2. todo \in Seq(Write) /\ Len(todo) = n
      BY <2>4, <3>1
    <3>. QED  BY <2>4, <3>2
  <2>7. call' = [call EXCEPT ![c] = [stage |-> "pushing", todo |-> todo]]
    BY <1>5, <1>7, <2>1
  <2>8. /\ \A i \in DOMAIN todo : \E x \in chosen : todo[i] = WriteOf(x)
        /\ \A x \in chosen : \E i \in DOMAIN todo : todo[i] = WriteOf(x)
    BY <2>4, <2>5
  <2>. QED  BY <1>1, <1>2, <1>3, <1>4, <2>6, <2>7, <2>8 DEF ReadBy
<1>. QED  BY <1>6, <1>7

\* What the types of the variables leave to be shown of a step.
LEMMA NewCall ==
  ASSUME TypeOK, NEW c \in Caller, NEW v \in CallType, call' = [call EXCEPT ![c] = v]
  PROVE  /\ call' \in [Caller -> CallType]
         /\ call'[c] = v
         /\ \A d \in Caller \ {c} : call'[d] = call[d]
BY DEF TypeOK, CallType

LEMMA IdleType == Idle \in CallType
BY DEF CallType

LEMMA StoringType ==
  /\ \A S \in SUBSET Item : [stage |-> "storing", scope |-> S, seeds |-> <<>>] \in CallType
  /\ \A s \in Seq(Seed) : [stage |-> "storing", scope |-> Item, seeds |-> s] \in CallType
BY DEF CallType, Storing

\* The rest of a push.
LEMMA RestType ==
  ASSUME NEW todo \in Seq(Write), todo # <<>>
  PROVE  /\ Head(todo) \in Write /\ Head(todo) = todo[1] /\ 1 \in DOMAIN todo
         /\ Tail(todo) \in Seq(Write)
         /\ Rest(todo) \in CallType
         /\ Rest(todo) # Idle => /\ Rest(todo) = [stage |-> "pushing", todo |-> Tail(todo)]
                                 /\ Tail(todo) # <<>>
         /\ \A i \in DOMAIN Tail(todo) : i + 1 \in DOMAIN todo /\ Tail(todo)[i] = todo[i + 1]
         /\ \A i \in DOMAIN todo : i # 1 => /\ i - 1 \in DOMAIN Tail(todo)
                                            /\ Tail(todo)[i - 1] = todo[i]
         /\ Rest(todo) = Idle <=> Tail(todo) = <<>>
<1>1. /\ Head(todo) \in Write /\ Head(todo) = todo[1] /\ 1 \in DOMAIN todo
      /\ Tail(todo) \in Seq(Write) /\ Len(Tail(todo)) = Len(todo) - 1
      /\ Len(todo) \in Nat /\ DOMAIN todo = 1 .. Len(todo)
      /\ DOMAIN Tail(todo) = 1 .. Len(todo) - 1
      /\ \A i \in 1 .. Len(todo) - 1 : Tail(todo)[i] = todo[i + 1]
  OBVIOUS
<1>2. PICK t : t = Tail(todo)
  OBVIOUS
<1>3. Rest(todo) = IF t = <<>> THEN Idle ELSE [stage |-> "pushing", todo |-> t]
  BY <1>2 DEF Rest
<1>4. /\ Rest(todo) \in CallType
      /\ Rest(todo) # Idle => Rest(todo) = [stage |-> "pushing", todo |-> t] /\ t # <<>>
      /\ Rest(todo) = Idle <=> t = <<>>
  BY <1>1, <1>2, <1>3 DEF CallType, Pushing, Idle
<1>5. /\ \A i \in DOMAIN Tail(todo) : i + 1 \in DOMAIN todo /\ Tail(todo)[i] = todo[i + 1]
      /\ \A i \in DOMAIN todo : i # 1 => /\ i - 1 \in DOMAIN Tail(todo)
                                         /\ Tail(todo)[i - 1] = todo[i]
  BY <1>1
<1>. QED  BY <1>1, <1>2, <1>4, <1>5

LEMMA InitType == Init => TypeOK
BY ConstantsAssumption
   DEF Init, TypeOK, PageState, ItemState, ShownApproval, ShownVerdict, ApprovalStatus

\* Humans create a page or edit one.
Editing(p) == CreatePage(p) \/ \E need \in BOOLEAN : EditPage(p, need)

LEMMA EditType ==
  ASSUME TypeOK, NEW p \in Page, Editing(p)
  PROVE  TypeOK'
<1>1. page[p] \in PageState /\ edits + 1 \in Nat
  BY DEF TypeOK
<1>2. /\ [page[p] EXCEPT !.there = TRUE, !.plan = edits + 1] \in PageState
      /\ \A need \in BOOLEAN :
           [page[p] EXCEPT !.plan = edits + 1, !.needed = need] \in PageState
  BY <1>1 DEF PageState
<1>3. \/ page' = [page EXCEPT ![p] = [page[p] EXCEPT !.there = TRUE, !.plan = edits + 1]]
      \/ \E need \in BOOLEAN :
           page' = [page EXCEPT ![p] = [page[p] EXCEPT !.plan = edits + 1, !.needed = need]]
  BY DEF TypeOK, Editing, CreatePage, EditPage
<1>4. \E v \in PageState : page' = [page EXCEPT ![p] = v]
  BY <1>2, <1>3
<1>5. page' \in [Page -> PageState]
  BY <1>4 DEF TypeOK
<1>6. edits' = edits + 1 /\ drifted' \subseteq Page
  BY DEF TypeOK, Editing, CreatePage, EditPage, excuses
<1>. QED  BY <1>1, <1>5, <1>6 DEF TypeOK, Editing, CreatePage, EditPage, records, excuses

LEMMA DecisionType ==
  ASSUME TypeOK, NEW c \in Caller,
         \/ \E x \in Item : RequestApproval(c, x)
         \/ \E i \in DOMAIN approvals, d \in Decision : DecideApproval(c, i, d)
         \/ \E x \in Item, v \in Verdict : RecordValidation(c, x, v)
  PROVE  TypeOK'
<1>1. CASE \E x \in Item : RequestApproval(c, x)
  <2>1. PICK x \in Item : RequestApproval(c, x)
    BY <1>1
  <2>2. call' \in [Caller -> CallType]
    BY <2>1, StoringType, NewCall DEF RequestApproval, Store, Request
  <2>3. [item |-> x, status |-> "pending"] \in Approval
    BY DEF Approval, ApprovalStatus
  <2>4. approvals' \in Seq(Approval)
    BY <2>1, <2>3, LatestNow, LatestAfterAppend DEF RequestApproval
  <2>. QED  BY <2>1, <2>2, <2>4
            DEF TypeOK, RequestApproval, Store, Request, excuses, CallType, Approval
<1>2. CASE \E i \in DOMAIN approvals, d \in Decision : DecideApproval(c, i, d)
  <2>1. PICK i \in DOMAIN approvals, d \in Decision : DecideApproval(c, i, d)
    BY <1>2
  <2>2. PICK a : a = [approvals[i] EXCEPT !.status = d]
    OBVIOUS
  <2>3. a \in Approval
    <3>1. approvals[i] \in Approval
      BY LatestNow
    <3>. QED  BY <2>2, <3>1 DEF Approval, ApprovalStatus
  <2>4. approvals' \in Seq(Approval)
    <3>1. RemoveAt(approvals, i) \in Seq(Approval)
      BY LatestNow, LatestAfterRemove
    <3>2. Append(RemoveAt(approvals, i), a) \in Seq(Approval)
      BY <2>3, <3>1, LatestAfterAppend
    <3>. QED  BY <2>1, <2>2, <3>2 DEF DecideApproval
  <2>5. call' \in [Caller -> CallType]
    <3>1. {a.item} \in SUBSET Item
      BY <2>3 DEF Approval
    <3>2. call' = [call EXCEPT ![c] = [stage |-> "storing", scope |-> {a.item}, seeds |-> <<>>]]
      BY <2>1, <2>2 DEF DecideApproval, Store, Request
    <3>. QED  BY <3>1, <3>2, StoringType, NewCall
  <2>. QED  BY <2>1, <2>4, <2>5
            DEF TypeOK, DecideApproval, Store, Request, excuses, CallType, Approval
<1>3. CASE \E x \in Item, v \in Verdict : RecordValidation(c, x, v)
  <2>1. PICK x \in Item, v \in Verdict : RecordValidation(c, x, v)
    BY <1>3
  <2>2. call' \in [Caller -> CallType]
    BY <2>1, StoringType, NewCall DEF RecordValidation, Store, Request
  <2>. QED  BY <2>1, <2>2 DEF TypeOK, RecordValidation, Store, Request, excuses, CallType
<1>. QED  BY <1>1, <1>2, <1>3

LEMMA BootstrapType ==
  ASSUME TypeOK, NEW c \in Caller, BootstrapFlow(c)
  PROVE  TypeOK'
<1>1. call' \in [Caller -> CallType]
  BY ConstantsAssumption, StoringType, NewCall DEF BootstrapFlow, Store, Request
<1>2. item' \in [Item -> ItemState]
  BY ConstantsAssumption DEF BootstrapFlow, TypeOK, ItemState
<1>3. drifted' \subseteq Page /\ unmirrored' \subseteq Item /\ contested' \subseteq Item
  BY ConstantsAssumption DEF BootstrapFlow, TypeOK, VerdictChanges
<1>. QED  BY <1>1, <1>2, <1>3 DEF TypeOK, BootstrapFlow, Store, Request, CallType

LEMMA RespondType ==
  ASSUME TypeOK, NEW x \in Item, NEW need \in BOOLEAN, RespondToHandoff(x, need)
  PROVE  TypeOK'
<1>1. review' \in [Item -> BOOLEAN] /\ requests' \in Nat /\ contested' \subseteq Item
  BY DEF RespondToHandoff, TypeOK, VerdictChanges
<1>. QED  BY <1>1 DEF TypeOK, RespondToHandoff

\* What a seed adds: a need of an item, an approval or a validation.
Added(a, x) ==
  \/ review' = [review EXCEPT ![x] = TRUE] /\ UNCHANGED <<approvals, verdict>>
  \/ a \in Approval /\ approvals' = Append(approvals, a) /\ UNCHANGED <<verdict, review>>
  \/ \E v \in Verdict : verdict' = [verdict EXCEPT ![x] = v] /\ UNCHANGED <<approvals, review>>
  \/ UNCHANGED <<approvals, verdict, review>>

LEMMA SeedEffect ==
  ASSUME TypeOK, NEW c \in Caller, SeedNext(c)
  PROVE  /\ call[c].stage = "storing" /\ call[c].scope = Item
         /\ call'[c].stage = "storing" /\ call'[c].scope = Item
         /\ call' \in [Caller -> CallType]
         /\ \A d \in Caller \ {c} : call'[d] = call[d]
         /\ UNCHANGED <<page, item, mirror, edits, requests, excuses>>
         /\ \E x \in Item, a \in Approval : Added(a, x)
<1>1. /\ call[c].stage = "storing" /\ call[c].seeds # <<>> /\ call[c].scope = Item
      /\ call[c].seeds \in Seq(Seed)
  BY CallShapes DEF SeedNext
<1>2. call[c] \in Storing
  BY <1>1, CallShapes DEF CallType, Idle, Storing, Pushing, Pulling, Mirroring
<1>3. PICK rest : rest = Tail(call[c].seeds)
  OBVIOUS
<1>4. rest \in Seq(Seed)
  BY <1>1, <1>3
<1>5. PICK v : v = [call[c] EXCEPT !.seeds = rest]
  OBVIOUS
<1>6. v \in CallType /\ v.stage = "storing" /\ v.scope = Item
  BY <1>1, <1>2, <1>4, <1>5 DEF Storing, CallType
<1>7. call' = [call EXCEPT ![c] = v]
  BY <1>3, <1>5 DEF SeedNext
<1>8. /\ call' \in [Caller -> CallType] /\ call'[c] = v
      /\ \A d \in Caller \ {c} : call'[d] = call[d]
  BY <1>6, <1>7, NewCall
<1>9. PICK seed : seed = Head(call[c].seeds)
  OBVIOUS
<1>10. seed \in Seed
  BY <1>1, <1>9
<1>11. seed.item \in Item /\ (seed.kind = "validation" => seed.status \in Verdict)
  BY <1>10, ConstantsAssumption DEF Seed
<1>12. PICK x \in Item : x = seed.item
  BY <1>11
<1>13. PICK a : a = [item |-> x, status |-> "pending"]
  OBVIOUS
<1>14. a \in Approval
  BY <1>13 DEF Approval, ApprovalStatus
<1>15. Added(a, x)
  BY <1>9, <1>11, <1>12, <1>13, <1>14 DEF SeedNext, Added
<1>16. UNCHANGED <<page, item, mirror, edits, requests, excuses>>
  BY DEF SeedNext
<1>17. call'[c].stage = "storing" /\ call'[c].scope = Item
  BY <1>6, <1>8
<1>. QED  BY <1>1, <1>8, <1>14, <1>15, <1>16, <1>17

LEMMA SeedType ==
  ASSUME TypeOK, NEW c \in Caller, SeedNext(c)
  PROVE  TypeOK'
<1>1. /\ call' \in [Caller -> CallType]
      /\ UNCHANGED <<page, item, mirror, edits, requests, excuses>>
  BY SeedEffect
<1>2. PICK x \in Item, a \in Approval : Added(a, x)
  BY SeedEffect
<1>3. /\ approvals' \in Seq(Approval) /\ verdict' \in [Item -> Verdict \cup {"none"}]
      /\ review' \in [Item -> BOOLEAN]
  <2>1. a \in Approval => Append(approvals, a) \in Seq(Approval)
    BY LatestNow, LatestAfterAppend
  <2>. QED  BY <1>2, <2>1, LatestNow DEF Added, TypeOK
<1>. QED  BY <1>1, <1>3 DEF TypeOK, excuses, CallType, Approval

LEMMA StoreType ==
  ASSUME TypeOK, NEW c \in Caller, StoreFails(c) \/ ReadAfterStore(c) \/ SyncGovernance(c)
  PROVE  TypeOK'
<1>1. CASE StoreFails(c)
  <2>1. call' \in [Caller -> CallType]
    BY <1>1, IdleType, NewCall DEF StoreFails
  <2>2. call[c].scope \subseteq Item
    BY <1>1, CallShapes DEF StoreFails
  <2>. QED  BY <1>1, <2>1, <2>2 DEF TypeOK, StoreFails, records, CallType
<1>2. ASSUME NEW scope \in SUBSET Item, Read(c, scope)
      PROVE  call' \in [Caller -> CallType] /\ contested' \subseteq Item
  <2>1. PICK chosen \in SUBSET Item, rivals \in SUBSET Item :
           /\ contested' = (contested \ chosen) \cup rivals
           /\ \/ call' = [call EXCEPT ![c] = Idle]
              \/ \E todo \in Seq(Write) :
                   call' = [call EXCEPT ![c] = [stage |-> "pushing", todo |-> todo]]
    BY <1>2, ReadEffect DEF ReadBy
  <2>2. \A todo \in Seq(Write) : [stage |-> "pushing", todo |-> todo] \in CallType
    BY DEF CallType, Pushing
  <2>3. call' \in [Caller -> CallType]
    BY <2>1, <2>2, IdleType, NewCall
  <2>. QED  BY <2>1, <2>3 DEF TypeOK
<1>3. CASE ReadAfterStore(c)
  <2>1. call[c].scope \in SUBSET Item /\ Read(c, call[c].scope)
    BY <1>3, CallShapes DEF ReadAfterStore
  <2>2. call' \in [Caller -> CallType] /\ contested' \subseteq Item
    BY <1>2, <2>1
  <2>. QED  BY <1>3, <2>2 DEF TypeOK, ReadAfterStore, records, CallType
<1>4. CASE SyncGovernance(c)
  <2>1. call' \in [Caller -> CallType] /\ contested' \subseteq Item
    BY <1>2, <1>4 DEF SyncGovernance
  <2>. QED  BY <1>4, <2>1 DEF TypeOK, SyncGovernance, records, CallType
<1>. QED  BY <1>1, <1>3, <1>4

\* The state of a push: there is something to write.
Underway(c) ==
  /\ call[c].stage = "pushing" /\ call[c].todo \in Seq(Write) /\ call[c].todo # <<>>
  /\ 1 \in DOMAIN call[c].todo /\ Head(call[c].todo) = call[c].todo[1]
  /\ call[c].todo[1] \in Write

LEMMA PushesGoOn ==
  ASSUME TypeOK, LinksAreTargets, NEW c \in Caller, call[c].stage = "pushing"
  PROVE  Underway(c)
BY CallShapes, RestType DEF LinksAreTargets, Underway

\* The lookup of a page: the first write is linked to it, or dropped.
LEMMA ResolveEffect ==
  ASSUME TypeOK, LinksAreTargets, NEW c \in Caller, Resolve(c)
  PROVE  LET todo == call[c].todo IN
         /\ todo[1].link = None
         /\ call' \in [Caller -> CallType]
         /\ \A d \in Caller \ {c} : call'[d] = call[d]
         /\ \/ \E p \in Page :
                 /\ page[p].there /\ RuntimeId[p] = todo[1].item
                 /\ call'[c].stage = "pushing" /\ call'[c].todo \in Seq(Write)
                 /\ DOMAIN call'[c].todo = DOMAIN todo
                 /\ call'[c].todo[1] = [todo[1] EXCEPT !.link = p]
                 /\ \A i \in DOMAIN todo : i # 1 => call'[c].todo[i] = todo[i]
                 /\ contested' = contested
            \/ /\ call'[c] = Rest(todo)
               /\ contested' = contested \cup {todo[1].item}
<1>. DEFINE todo == call[c].todo
<1>1. Underway(c)
  BY PushesGoOn DEF Resolve
<1>2. todo[1].link = None
  BY <1>1 DEF Resolve, Underway
<1>3. CASE \E p \in Named(Head(todo).item) :
             /\ call' = [call EXCEPT ![c].todo[1].link = p]
             /\ UNCHANGED contested
  <2>1. PICK p \in Page : /\ page[p].there /\ RuntimeId[p] = todo[1].item
                          /\ call' = [call EXCEPT ![c].todo[1].link = p]
    BY <1>1, <1>3 DEF Named, Underway
  <2>2. PICK w : w = [todo[1] EXCEPT !.link = p]
    OBVIOUS
  <2>3. w \in Write
    BY <1>1, <2>2 DEF Underway, Write
  <2>4. PICK new : new = [todo EXCEPT ![1] = w]
    OBVIOUS
  <2>5. /\ new \in Seq(Write) /\ DOMAIN new = DOMAIN todo /\ new[1] = w
        /\ \A i \in DOMAIN todo : i # 1 => new[i] = todo[i]
    BY <1>1, <2>3, <2>4 DEF Underway
  <2>6. call[c] \in Pushing
    BY <1>1, CallShapes DEF CallType, Underway, Idle, Storing, Pushing, Pulling, Mirroring
  <2>7. PICK v : v = [call[c] EXCEPT !.todo = new]
    OBVIOUS
  <2>8. call' = [call EXCEPT ![c] = v]
    BY <2>1, <2>2, <2>4, <2>7
  <2>9. v \in CallType /\ v.stage = "pushing" /\ v.todo = new
    BY <2>5, <2>6, <2>7 DEF Pushing, CallType
  <2>10. /\ call' \in [Caller -> CallType] /\ call'[c] = v
         /\ \A d \in Caller \ {c} : call'[d] = call[d]
    BY <2>8, <2>9, NewCall
  <2>. QED  BY <1>2, <1>3, <2>1, <2>2, <2>5, <2>9, <2>10
<1>4. CASE /\ call' = [call EXCEPT ![c] = Rest(@.todo)]
           /\ contested' = contested \cup {Head(todo).item}
  <2>1. Rest(todo) \in CallType /\ Head(todo) = todo[1]
    BY <1>1, RestType DEF Underway
  <2>2. call' = [call EXCEPT ![c] = Rest(todo)]
    BY <1>4
  <2>. QED  BY <1>2, <1>4, <2>1, <2>2, NewCall
<1>. QED  BY <1>3, <1>4 DEF Resolve

\* Notion's write changes one page.
LEMMA ApplyEffect ==
  ASSUME TypeOK, NEW w \in Write, w.link # None, Apply(w)
  PROVE  /\ w.link \in Page
         /\ page' \in [Page -> PageState] /\ drifted' \subseteq Page
         /\ page'[w.link] = [page[w.link] EXCEPT !.plan = w.plan, !.needed = w.needed,
                                                 !.approval = w.approval, !.verdict = w.verdict]
         /\ \A p \in Page \ {w.link} : page'[p] = page[p]
         /\ drifted' = IF page[w.link].plan = w.plan THEN drifted ELSE drifted \cup {w.link}
<1>1. w.link \in Page
  BY DEF Write
<1>2. PICK q : q = [page[w.link] EXCEPT !.plan = w.plan, !.needed = w.needed,
                                        !.approval = w.approval, !.verdict = w.verdict]
  OBVIOUS
<1>3. q \in PageState
  <2>1. page[w.link] \in PageState
    BY <1>1 DEF TypeOK
  <2>. QED  BY <1>2, <2>1 DEF PageState, Write
<1>4. page' = [page EXCEPT ![w.link] = q]
  BY <1>1, <1>2 DEF Apply, TypeOK
<1>5. drifted' = IF page[w.link].plan = w.plan THEN drifted ELSE drifted \cup {w.link}
  BY DEF Apply
<1>. QED  BY <1>1, <1>2, <1>3, <1>4, <1>5 DEF TypeOK

LEMMA PushType ==
  ASSUME TypeOK, LinksAreTargets, NEW c \in Caller, Resolve(c) \/ Update(c) \/ PushFails(c)
  PROVE  TypeOK'
<1>1. Underway(c)
  BY PushesGoOn DEF Resolve, Update, PushFails
<1>2. Rest(call[c].todo) \in CallType
  BY <1>1, RestType DEF Underway
<1>3. call[c].todo[1].item \in Item
  BY <1>1 DEF Underway, Write
<1>4. CASE Resolve(c)
  <2>1. call' \in [Caller -> CallType]
    BY <1>4, ResolveEffect
  <2>2. contested' \in {contested, contested \cup {call[c].todo[1].item}}
    BY <1>4, ResolveEffect
  <2>3. contested' \subseteq Item
    BY <1>3, <2>2 DEF TypeOK
  <2>. QED  BY <1>4, <2>1, <2>3 DEF TypeOK, Resolve, records, CallType
<1>5. CASE Update(c)
  <2>1. call' \in [Caller -> CallType]
    BY <1>2, <1>5, NewCall DEF Update
  <2>2. page' \in [Page -> PageState] /\ drifted' \subseteq Page
    BY <1>1, <1>5, ApplyEffect DEF Update, Underway
  <2>. QED  BY <1>5, <2>1, <2>2 DEF TypeOK, Update, records, CallType
<1>6. CASE PushFails(c)
  <2>1. call' \in [Caller -> CallType]
    BY <1>6, IdleType, NewCall DEF PushFails
  <2>2. page' \in [Page -> PageState] /\ drifted' \subseteq Page
    <3>1. CASE UNCHANGED <<page, drifted>>
      BY <3>1 DEF TypeOK
    <3>2. CASE Head(call[c].todo).link # None /\ Apply(Head(call[c].todo))
      BY <1>1, <3>2, ApplyEffect DEF Underway
    <3>. QED  BY <1>6, <3>1, <3>2 DEF PushFails
  <2>3. contested' \subseteq Item
    <3>1. PICK todo : todo = call[c].todo
      OBVIOUS
    <3>2. \A i \in DOMAIN todo : todo[i] \in Write
      BY <1>1, <3>1 DEF Underway
    <3>3. {todo[i].item : i \in DOMAIN todo} \subseteq Item
      BY <3>2 DEF Write
    <3>. QED  BY <1>6, <3>1, <3>3 DEF PushFails, TypeOK
  <2>. QED  BY <1>6, <2>1, <2>2, <2>3 DEF TypeOK, PushFails, records, CallType
<1>. QED  BY <1>4, <1>5, <1>6

\* What the steps of a pull do to the call.
LEMMA StartPullEffect ==
  ASSUME TypeOK, NEW c \in Caller, StartPull(c)
  PROVE  /\ call' \in [Caller -> CallType]
         /\ call'[c].stage = "pulling" /\ call'[c].next = 1 /\ call'[c].found = {}
         /\ call'[c].since = {p \in Page : page[p].there} /\ call'[c].missed = FALSE
         /\ \A d \in Caller \ {c} : call'[d] = call[d]
<1>1. PICK S : S = {p \in Page : page[p].there}
  OBVIOUS
<1>2. PICK v : v = [stage |-> "pulling", next |-> 1, found |-> {}, since |-> S, missed |-> FALSE]
  OBVIOUS
<1>3. v \in CallType
  BY <1>1, <1>2 DEF CallType, Pulling
<1>4. call' = [call EXCEPT ![c] = v]
  BY <1>1, <1>2 DEF StartPull, Request
<1>. QED  BY <1>1, <1>2, <1>3, <1>4, NewCall

LEMMA QueryEffect ==
  ASSUME TypeOK, NEW c \in Caller, Query(c)
  PROVE  \E results \in SUBSET Page :
           /\ \A p \in results : page[p].there /\ Kind[RuntimeId[p]] = call[c].next
           /\ call' \in [Caller -> CallType]
           /\ call'[c].stage = "pulling" /\ call'[c].next = call[c].next + 1
           /\ call'[c].found =
                call[c].found \cup FoundIn(results)
           /\ call'[c].since = call[c].since
           /\ call'[c].missed <=>
                \/ call[c].missed
                \/ results # {p \in Page : page[p].there /\ Kind[RuntimeId[p]] = call[c].next}
           /\ \A d \in Caller \ {c} : call'[d] = call[d]
           /\ drifted' = (drifted \ results)
                           \cup {p \in results : FoundOf(c, p) \ {page[p].plan} # {}}
<1>1. PICK there : there = {p \in Page : page[p].there /\ Kind[RuntimeId[p]] = call[c].next}
  OBVIOUS
<1>2. PICK results \in SUBSET there :
        /\ call' = [call EXCEPT
                     ![c].next = @ + 1,
                     ![c].found = @ \cup FoundIn(results),
                     ![c].missed = @ \/ results # there]
        /\ drifted' = (drifted \ results)
                        \cup {p \in results : FoundOf(c, p) \ {page[p].plan} # {}}
  BY <1>1 DEF Query
<1>3. PICK new : new = FoundIn(results)
  OBVIOUS
<1>4. new \subseteq Found
  <2>1. \A p \in results : p \in Page /\ page[p].plan \in Nat /\ page[p].needed \in BOOLEAN
    BY <1>1 DEF TypeOK, PageState
  <2>. QED  BY <1>3, <2>1 DEF Found, FoundIn
<1>5. call[c] \in Pulling /\ call[c].next \in 1 .. 4
  <2>1. call[c].stage = "pulling" /\ call[c].next <= 4
    BY DEF Query
  <2>2. call[c] \in Pulling
    BY <2>1, CallShapes DEF CallType, Idle, Storing, Pushing, Pulling, Mirroring
  <2>. QED  BY <2>1, <2>2, CallShapes DEF Pulling
<1>6. PICK v : v = [call[c] EXCEPT !.next = @ + 1, !.found = @ \cup new,
                                   !.missed = @ \/ results # there]
  OBVIOUS
<1>7. call' = [call EXCEPT ![c] = v]
  BY <1>2, <1>3, <1>6 DEF TypeOK
<1>8. /\ v.stage = "pulling" /\ v.next = call[c].next + 1 /\ v.found = call[c].found \cup new
      /\ v.since = call[c].since
      /\ v.missed = (call[c].missed \/ results # there)
  BY <1>5, <1>6 DEF Pulling
<1>9. v \in Pulling
  <2>1. call[c].next + 1 \in 1 .. 5
    BY <1>5
  <2>2. call[c].found \cup new \subseteq Found
    BY <1>4, <1>5 DEF Pulling
  <2>3. (call[c].missed \/ results # there) \in BOOLEAN
    OBVIOUS
  <2>. QED  BY <1>5, <1>6, <2>1, <2>2, <2>3 DEF Pulling
<1>10. /\ call' \in [Caller -> CallType] /\ call'[c] = v
       /\ \A d \in Caller \ {c} : call'[d] = call[d]
  BY <1>7, <1>9, NewCall DEF CallType
<1>11. results \in SUBSET Page
  BY <1>1
<1>12. \A p \in results : page[p].there /\ Kind[RuntimeId[p]] = call[c].next
  BY <1>1
<1>. QED  BY <1>1, <1>2, <1>3, <1>8, <1>10, <1>11, <1>12

LEMMA QueryType ==
  ASSUME TypeOK, NEW c \in Caller, StartPull(c) \/ Query(c)
  PROVE  TypeOK'
<1>1. CASE StartPull(c)
  <2>1. call' \in [Caller -> CallType]
    BY <1>1, StartPullEffect
  <2>. QED  BY <1>1, <2>1 DEF TypeOK, StartPull, Request, records, excuses, CallType
<1>2. CASE Query(c)
  <2>1. call' \in [Caller -> CallType] /\ drifted' \subseteq Page
    BY <1>2, QueryEffect DEF TypeOK
  <2>. QED  BY <1>2, <2>1 DEF TypeOK, Query, records, CallType
<1>. QED  BY <1>1, <1>2

\* The records a pull stores are those of the pages it found.
LEMMA UpsertEffect ==
  ASSUME TypeOK, PullsAreWhole, NEW c \in Caller, Upsert(c)
  PROVE  /\ call[c].stage = "pulling" /\ call[c].next = 5 /\ call[c].found \subseteq Found
         /\ call' \in [Caller -> CallType]
         /\ call'[c].stage = "mirroring"
         /\ call'[c].todo = {<<RuntimeId[f.page], f.plan>> : f \in call[c].found}
         /\ \A d \in Caller \ {c} : call'[d] = call[d]
         /\ item' \in [Item -> ItemState]
         /\ \A f \in call[c].found :
              /\ f.page \in Page /\ f.plan \in Nat /\ RuntimeId[f.page] \in Item
              /\ item'[RuntimeId[f.page]] =
                   [known |-> TRUE, plan |-> f.plan, needed |-> f.needed, link |-> f.page,
                    parent |-> ParentAmong(call[c].found, f.page)]
         /\ \A x \in Item :
              (\A f \in call[c].found : RuntimeId[f.page] # x) => item'[x] = item[x]
<1>1. PICK found : found = call[c].found
  OBVIOUS
<1>2. /\ call[c].stage = "pulling" /\ call[c].next = 5 /\ found \subseteq Found
      /\ \A f, g \in found : f.page = g.page => f = g
  BY <1>1, CallShapes DEF Upsert, PullsAreWhole
<1>3. PICK todo : todo = {<<RuntimeId[f.page], f.plan>> : f \in found}
  OBVIOUS
<1>4. \A f \in found : /\ f.page \in Page /\ f.plan \in Nat /\ f.needed \in BOOLEAN
                        /\ RuntimeId[f.page] \in Item
  BY <1>2, ConstantsAssumption DEF Found
<1>5. todo \subseteq Item \X Nat
  BY <1>3, <1>4
<1>6. call' = [call EXCEPT ![c] = [stage |-> "mirroring", todo |-> todo]]
  BY <1>1, <1>3 DEF Upsert
<1>7. [stage |-> "mirroring", todo |-> todo] \in CallType
  BY <1>5 DEF CallType, Mirroring
<1>8. /\ call' \in [Caller -> CallType]
      /\ call'[c].stage = "mirroring" /\ call'[c].todo = todo
      /\ \A d \in Caller \ {c} : call'[d] = call[d]
  BY <1>6, <1>7, NewCall
<1>9. item' = [x \in Item |->
               IF \E f \in found : RuntimeId[f.page] = x
                 THEN LET f == CHOOSE f \in found : RuntimeId[f.page] = x
                      IN  [known |-> TRUE, plan |-> f.plan, needed |-> f.needed, link |-> f.page,
                           parent |-> ParentAmong(found, f.page)]
                 ELSE item[x]]
  BY <1>1 DEF Upsert
<1>10. \A f \in found : ParentAmong(found, f.page) \in Item \cup {None}
  <2>1. TAKE f \in found
  <2>2. CASE ParentPage[f.page] \in PagesOf(found)
    <3>1. ParentPage[f.page] \in Page
      BY <1>4, <2>2 DEF PagesOf
    <3>. QED  BY <2>2, <3>1, ConstantsAssumption DEF ParentAmong
  <2>3. CASE ParentPage[f.page] \notin PagesOf(found)
    BY <2>3 DEF ParentAmong
  <2>. QED  BY <2>2, <2>3
<1>11. ASSUME NEW f \in found
       PROVE  item'[RuntimeId[f.page]] =
                [known |-> TRUE, plan |-> f.plan, needed |-> f.needed, link |-> f.page,
                 parent |-> ParentAmong(found, f.page)]
  <2>1. PICK x \in Item : x = RuntimeId[f.page]
    BY <1>4
  <2>2. PICK g : g = CHOOSE h \in found : RuntimeId[h.page] = x
    OBVIOUS
  <2>3. g \in found /\ RuntimeId[g.page] = x
    BY <2>1, <2>2
  <2>4. g = f
    BY <1>2, <1>4, <2>1, <2>3, RuntimeIdAssumption
  <2>5. item'[x] = [known |-> TRUE, plan |-> g.plan, needed |-> g.needed, link |-> g.page,
                    parent |-> ParentAmong(found, g.page)]
    BY <1>9, <2>1, <2>2
  <2>. QED  BY <2>1, <2>4, <2>5
<1>12. ASSUME NEW x \in Item, \A f \in found : RuntimeId[f.page] # x
       PROVE  item'[x] = item[x]
  BY <1>9, <1>12
<1>13. item' \in [Item -> ItemState]
  <2>1. ASSUME NEW x \in Item PROVE item'[x] \in ItemState
    <3>1. CASE \A f \in found : RuntimeId[f.page] # x
      BY <1>12, <3>1 DEF TypeOK
    <3>2. CASE \E f \in found : RuntimeId[f.page] = x
      <4>1. PICK f \in found : RuntimeId[f.page] = x
        BY <3>2
      <4>2. PICK a : a = ParentAmong(found, f.page)
        OBVIOUS
      <4>3. item'[x] = [known |-> TRUE, plan |-> f.plan, needed |-> f.needed, link |-> f.page, parent |-> a]
        BY <1>11, <4>1, <4>2
      <4>4. /\ f.page \in Page /\ f.plan \in Nat /\ f.needed \in BOOLEAN
            /\ a \in Item \cup {None}
        BY <1>4, <1>10, <4>2
      <4>. QED  BY <4>3, <4>4 DEF ItemState
    <3>. QED  BY <3>1, <3>2
  <2>2. DOMAIN item' = Item /\ item' = [x \in Item |-> item'[x]]
    BY <1>9
  <2>. QED  BY <2>1, <2>2
<1>. QED  BY <1>1, <1>2, <1>3, <1>4, <1>8, <1>11, <1>12, <1>13

\* Stories are written one by one.
LEMMA MirrorEffect ==
  ASSUME TypeOK, NEW c \in Caller, Mirror(c)
  PROVE  /\ call[c].stage = "mirroring" /\ call[c].todo \subseteq Item \X Nat
         /\ call' \in [Caller -> CallType]
         /\ \A d \in Caller \ {c} : call'[d] = call[d]
         /\ \/ /\ \A t \in call[c].todo : ~IsReady(t)
               /\ call'[c] = Idle
               /\ mirror' = mirror
            \/ \E t \in call[c].todo :
                 /\ IsReady(t) /\ t[1] \in Item /\ t[2] \in Nat
                 /\ call'[c].stage = "mirroring" /\ call'[c].todo = call[c].todo \ {t}
                 /\ mirror' = [mirror EXCEPT ![t[1]] = t[2]]
<1>1. /\ call[c].stage = "mirroring" /\ call[c].todo \subseteq Item \X Nat
      /\ call[c] \in Mirroring
  BY CallShapes DEF Mirror, CallType, Idle, Storing, Pushing, Pulling, Mirroring
<1>2. CASE {t \in call[c].todo : IsReady(t)} = {} /\ call' = [call EXCEPT ![c] = Idle]
             /\ UNCHANGED mirror
  BY <1>1, <1>2, IdleType, NewCall
<1>3. CASE \E t \in {t \in call[c].todo : IsReady(t)} :
             /\ mirror' = [mirror EXCEPT ![t[1]] = t[2]]
             /\ call' = [call EXCEPT ![c].todo = @ \ {t}]
  <2>1. PICK t \in call[c].todo :
          /\ IsReady(t)
          /\ mirror' = [mirror EXCEPT ![t[1]] = t[2]]
          /\ call' = [call EXCEPT ![c].todo = @ \ {t}]
    BY <1>3
  <2>2. PICK v : v = [call[c] EXCEPT !.todo = @ \ {t}]
    OBVIOUS
  <2>3. v \in Mirroring /\ v.stage = "mirroring" /\ v.todo = call[c].todo \ {t}
    BY <1>1, <2>2 DEF Mirroring
  <2>4. call' = [call EXCEPT ![c] = v]
    BY <2>1, <2>2 DEF TypeOK
  <2>5. /\ call' \in [Caller -> CallType] /\ call'[c] = v
        /\ \A d \in Caller \ {c} : call'[d] = call[d]
    BY <2>3, <2>4, NewCall DEF CallType
  <2>6. t[1] \in Item /\ t[2] \in Nat
    BY <1>1, <2>1
  <2>. QED  BY <1>1, <2>1, <2>3, <2>5, <2>6
<1>. QED  BY <1>2, <1>3 DEF Mirror

LEMMA StorePullType ==
  ASSUME TypeOK, PullsAreWhole, NEW c \in Caller, Upsert(c) \/ Mirror(c) \/ PullFails(c)
  PROVE  TypeOK'
<1>1. CASE Upsert(c)
  <2>1. call' \in [Caller -> CallType] /\ item' \in [Item -> ItemState]
    BY <1>1, UpsertEffect
  <2>2. unmirrored' \subseteq Item
    <3>1. PICK todo : todo = {<<RuntimeId[f.page], f.plan>> : f \in call[c].found}
      OBVIOUS
    <3>2. \A t \in todo : t[1] \in Item
      <4>1. \A f \in call[c].found : RuntimeId[f.page] \in Item
        BY <1>1, UpsertEffect
      <4>. QED  BY <3>1, <4>1
    <3>3. unmirrored' = (unmirrored \ {t[1] : t \in todo})
                     \cup {t[1] : t \in {t \in todo : FileWritesOf(c, t[1]) \ {t[2]} # {}}}
      BY <1>1, <3>1 DEF Upsert
    <3>. QED  BY <3>2, <3>3 DEF TypeOK
  <2>3. contested' \subseteq Item
    BY <1>1 DEF TypeOK, Upsert, VerdictChanges
  <2>. QED  BY <1>1, <2>1, <2>2, <2>3 DEF TypeOK, Upsert, CallType
<1>2. CASE Mirror(c)
  <2>1. call' \in [Caller -> CallType] /\ mirror' \in [Item -> Nat \cup {None}]
    BY <1>2, MirrorEffect DEF TypeOK
  <2>. QED  BY <1>2, <2>1 DEF TypeOK, Mirror, records, excuses, CallType
<1>3. CASE PullFails(c)
  <2>1. call' \in [Caller -> CallType]
    BY <1>3, IdleType, NewCall DEF PullFails
  <2>2. drifted' \subseteq Page /\ unmirrored' \subseteq Item
    <3>1. CASE call[c].stage = "pulling" /\ drifted' = drifted \cup PagesOf(call[c].found)
               /\ UNCHANGED unmirrored
      BY <3>1, CallShapes DEF TypeOK, PagesOf, Found
    <3>2. CASE call[c].stage = "mirroring" /\ UNCHANGED drifted
               /\ unmirrored' = unmirrored \cup {t[1] : t \in call[c].todo}
      BY <3>2, CallShapes DEF TypeOK
    <3>. QED  BY <1>3, <3>1, <3>2 DEF PullFails
  <2>. QED  BY <1>3, <2>1, <2>2 DEF TypeOK, PullFails, records, CallType
<1>. QED  BY <1>1, <1>2, <1>3

LEMMA StepType == TypeOK /\ PullsAreWhole /\ LinksAreTargets /\ [Next]_vars => TypeOK'
<1>. SUFFICES ASSUME TypeOK, PullsAreWhole, LinksAreTargets, [Next]_vars PROVE TypeOK'
  OBVIOUS
<1>1. CASE UNCHANGED vars
  BY <1>1 DEF vars, TypeOK
<1>2. CASE \E p \in Page : Editing(p)
  BY <1>2, EditType
<1>3. ASSUME NEW c \in Caller,
             \/ \E x \in Item : RequestApproval(c, x)
             \/ \E i \in DOMAIN approvals, d \in Decision : DecideApproval(c, i, d)
             \/ \E x \in Item, v \in Verdict : RecordValidation(c, x, v)
             \/ BootstrapFlow(c) \/ SeedNext(c) \/ StoreFails(c) \/ ReadAfterStore(c) \/ SyncGovernance(c)
             \/ Resolve(c) \/ Update(c) \/ PushFails(c) \/ StartPull(c) \/ Query(c)
             \/ Upsert(c) \/ Mirror(c) \/ PullFails(c)
      PROVE  TypeOK'
  BY <1>3, DecisionType, BootstrapType, SeedType, StoreType, PushType, QueryType, StorePullType
<1>4. CASE \E x \in Item, need \in BOOLEAN : RespondToHandoff(x, need)
  BY <1>4, RespondType
<1>. QED  BY <1>1, <1>2, <1>3, <1>4 DEF Next, Editing

-----------------------------------------------------------------------------
(* Steps by what they leave alone. *)

\* Requests that change records, and pushes.
Recording(c) ==
  \/ \E x \in Item : RequestApproval(c, x)
  \/ \E i \in DOMAIN approvals, d \in Decision : DecideApproval(c, i, d)
  \/ \E x \in Item, v \in Verdict : RecordValidation(c, x, v)
Reading(c) == ReadAfterStore(c) \/ SyncGovernance(c)
PushSide(c) ==
  Recording(c) \/ BootstrapFlow(c) \/ SeedNext(c) \/ StoreFails(c) \/ Reading(c)
    \/ Resolve(c) \/ Update(c) \/ PushFails(c)

Responding(x) == \E need \in BOOLEAN : RespondToHandoff(x, need)

LEMMA Steps ==
  [Next]_vars => \/ UNCHANGED vars
                 \/ \E p \in Page : Editing(p)
                 \/ \E x \in Item : Responding(x)
                 \/ \E c \in Caller : \/ PushSide(c) \/ StartPull(c) \/ Query(c) \/ Upsert(c)
                                      \/ Mirror(c) \/ PullFails(c)
BY DEF Next, PushSide, Recording, Reading, Editing, Responding

\* The answer to a handoff changes the verdict of contested items at most.
LEMMA RespondEffect ==
  ASSUME NEW x \in Item, Responding(x)
  PROVE  /\ UNCHANGED <<page, item, approvals, verdict, mirror, call, drifted, unmirrored>>
         /\ contested' = contested \cup VerdictChanges
BY DEF Responding, RespondToHandoff

Facts == TypeOK /\ PullsAreWhole /\ LinksAreTargets

LEMMA RecordingEffect ==
  ASSUME TypeOK, NEW c \in Caller, Recording(c)
  PROVE  /\ call[c] = Idle
         /\ \E x \in Item : call'[c] = [stage |-> "storing", scope |-> {x}, seeds |-> <<>>]
         /\ \A d \in Caller \ {c} : call'[d] = call[d]
         /\ UNCHANGED <<page, item, mirror, excuses>>
<1>1. CASE \E x \in Item : RequestApproval(c, x)
  BY <1>1 DEF RequestApproval, Store, Request, TypeOK
<1>2. CASE \E i \in DOMAIN approvals, d \in Decision : DecideApproval(c, i, d)
  <2>1. PICK i \in DOMAIN approvals, d \in Decision : DecideApproval(c, i, d)
    BY <1>2
  <2>2. PICK x : x = [approvals[i] EXCEPT !.status = d].item
    OBVIOUS
  <2>3. x \in Item
    <3>1. approvals[i] \in Approval
      BY LatestNow
    <3>. QED  BY <2>2, <3>1 DEF Approval
  <2>4. call' = [call EXCEPT ![c] = [stage |-> "storing", scope |-> {x}, seeds |-> <<>>]]
    BY <2>1, <2>2 DEF DecideApproval, Store, Request
  <2>. QED  BY <2>1, <2>3, <2>4 DEF DecideApproval, Store, Request, TypeOK
<1>3. CASE \E x \in Item, v \in Verdict : RecordValidation(c, x, v)
  BY <1>3 DEF RecordValidation, Store, Request, TypeOK
<1>. QED  BY <1>1, <1>2, <1>3 DEF Recording

\* The step of a push: the write at its head is given a page, made or dropped.
LEMMA PushEffect ==
  ASSUME TypeOK, LinksAreTargets, NEW c \in Caller, Resolve(c) \/ Update(c) \/ PushFails(c)
  PROVE  /\ call[c].stage = "pushing"
         /\ call'[c].stage \in {"idle", "pushing"}
         /\ \A d \in Caller \ {c} : call'[d] = call[d]
<1>1. Underway(c)
  BY PushesGoOn DEF Resolve, Update, PushFails
<1>2. Rest(call[c].todo) = Idle \/ Rest(call[c].todo).stage = "pushing"
  BY DEF Rest
<1>3. CASE Resolve(c)
  <2>1. \/ call'[c].stage = "pushing"
        \/ call'[c] = Rest(call[c].todo)
    BY <1>3, ResolveEffect
  <2>2. \A d \in Caller \ {c} : call'[d] = call[d]
    BY <1>3, ResolveEffect
  <2>. QED  BY <1>1, <1>2, <2>1, <2>2 DEF Idle, Underway
<1>4. CASE Update(c)
  BY <1>1, <1>2, <1>4 DEF Update, Idle, TypeOK, Underway
<1>5. CASE PushFails(c)
  BY <1>1, <1>5 DEF PushFails, Idle, TypeOK, Underway
<1>. QED  BY <1>1, <1>3, <1>4, <1>5 DEF Underway

LEMMA ReadingEffect ==
  ASSUME TypeOK, NEW c \in Caller, Reading(c)
  PROVE  /\ call[c].stage \in {"idle", "storing"}
         /\ call'[c].stage \in {"idle", "pushing"}
         /\ \A d \in Caller \ {c} : call'[d] = call[d]
         /\ UNCHANGED <<page, item, approvals, verdict, review, mirror, drifted, unmirrored>>
<1>1. ASSUME NEW scope \in SUBSET Item, Read(c, scope)
      PROVE  /\ call'[c].stage \in {"idle", "pushing"}
             /\ \A d \in Caller \ {c} : call'[d] = call[d]
  <2>1. \/ call' = [call EXCEPT ![c] = Idle]
        \/ \E todo \in Seq(Write) :
             call' = [call EXCEPT ![c] = [stage |-> "pushing", todo |-> todo]]
    BY <1>1, ReadEffect DEF ReadBy
  <2>. QED  BY <2>1 DEF TypeOK, Idle
<1>2. CASE ReadAfterStore(c)
  <2>1. call[c].scope \in SUBSET Item
    BY <1>2, CallShapes DEF ReadAfterStore
  <2>. QED  BY <1>1, <1>2, <2>1 DEF ReadAfterStore, records
<1>3. CASE SyncGovernance(c)
  <2>1. Item \in SUBSET Item
    OBVIOUS
  <2>. QED  BY <1>1, <1>3, <2>1 DEF SyncGovernance, records, Idle
<1>. QED  BY <1>2, <1>3 DEF Reading

\* None of these steps touches a pull.
LEMMA PushSideEffect ==
  ASSUME TypeOK, LinksAreTargets, NEW c \in Caller, PushSide(c)
  PROVE  /\ call[c].stage \in {"idle", "storing", "pushing"}
         /\ call'[c].stage \in {"idle", "storing", "pushing"}
         /\ \A d \in Caller \ {c} : call'[d] = call[d]
         /\ UNCHANGED mirror
<1>1. CASE Recording(c)
  <2>1. PICK x : call[c] = Idle /\ call'[c] = [stage |-> "storing", scope |-> {x}, seeds |-> <<>>]
    BY <1>1, RecordingEffect
  <2>. QED  BY <1>1, <2>1, RecordingEffect DEF Idle
<1>2. CASE BootstrapFlow(c)
  BY <1>2 DEF BootstrapFlow, Store, Request, Idle, TypeOK
<1>3. CASE StoreFails(c)
  BY <1>3 DEF StoreFails, Idle, TypeOK
<1>4. CASE Reading(c)
  BY <1>4, ReadingEffect
<1>5. CASE Resolve(c) \/ Update(c) \/ PushFails(c)
  <2>1. UNCHANGED mirror
    BY <1>5 DEF Resolve, Update, PushFails
  <2>. QED  BY <1>5, <2>1, PushEffect
<1>6. CASE SeedNext(c)
  BY <1>6, SeedEffect
<1>. QED  BY <1>1, <1>2, <1>3, <1>4, <1>5, <1>6 DEF PushSide

\* A step of a push on the pages: the page of one pending write, or none.
LEMMA PushOnPages ==
  ASSUME TypeOK, LinksAreTargets, NEW c \in Caller, PushSide(c)
  PROVE  \A p \in Page :
           /\ page'[p].there = page[p].there
           /\ page'[p].plan = page[p].plan \/ p \in drifted'
           /\ p \in drifted => p \in drifted'
<1>1. CASE Resolve(c)
  BY <1>1 DEF Resolve
<1>2. CASE Update(c) \/ PushFails(c)
  <2>1. Underway(c)
    BY <1>2, PushesGoOn DEF Update, PushFails
  <2>2. CASE UNCHANGED <<page, drifted>>
    BY <2>2
  <2>3. CASE Head(call[c].todo).link # None /\ Apply(Head(call[c].todo))
    <3>1. PICK w \in Write : w = Head(call[c].todo)
      BY <2>1 DEF Underway
    <3>2. w.link # None /\ Apply(w)
      BY <2>3, <3>1
    <3>3. page[w.link] \in PageState
      BY <3>2, ApplyEffect DEF TypeOK
    <3>4. page'[w.link] = [page[w.link] EXCEPT !.plan = w.plan, !.needed = w.needed,
                              !.approval = w.approval, !.verdict = w.verdict]
      BY <3>2, ApplyEffect
    <3>5. page'[w.link].there = page[w.link].there /\ page'[w.link].plan = w.plan
      BY <3>3, <3>4 DEF PageState
    <3>. QED  BY <3>2, <3>5, ApplyEffect
  <2>. QED  BY <1>2, <2>2, <2>3 DEF Update, PushFails
<1>3. CASE Recording(c)
  BY <1>3, RecordingEffect DEF excuses
<1>4. CASE BootstrapFlow(c) \/ StoreFails(c)
  BY <1>4 DEF BootstrapFlow, StoreFails
<1>5. CASE Reading(c)
  BY <1>5, ReadingEffect
<1>6. CASE SeedNext(c)
  BY <1>6, SeedEffect DEF excuses
<1>. QED  BY <1>1, <1>2, <1>3, <1>4, <1>5, <1>6 DEF PushSide

\* No page disappears.
LEMMA PagesStay ==
  ASSUME TypeOK, LinksAreTargets, [Next]_vars, NEW p \in Page, page[p].there
  PROVE  page'[p].there
<1>1. CASE UNCHANGED vars
  BY <1>1 DEF vars
<1>2. CASE \E q \in Page : Editing(q)
  <2>1. PICK q \in Page : Editing(q)
    BY <1>2
  <2>2. page[q] \in PageState /\ \A r \in Page \ {q} : page'[r] = page[r]
    BY <2>1 DEF Editing, CreatePage, EditPage, TypeOK
  <2>3. \/ page'[q] = [page[q] EXCEPT !.there = TRUE, !.plan = edits + 1]
        \/ \E need : page'[q] = [page[q] EXCEPT !.plan = edits + 1, !.needed = need]
    BY <2>1 DEF Editing, CreatePage, EditPage, TypeOK
  <2>4. page'[q].there = TRUE \/ page'[q].there = page[q].there
    BY <2>2, <2>3 DEF PageState
  <2>. QED  BY <2>2, <2>4
<1>3. CASE \E c \in Caller : PushSide(c)
  BY <1>3, PushOnPages
<1>4. CASE \E c \in Caller : StartPull(c) \/ Query(c) \/ Upsert(c) \/ Mirror(c) \/ PullFails(c)
  BY <1>4 DEF StartPull, Query, Upsert, Mirror, PullFails
<1>5. CASE \E x \in Item : Responding(x)
  BY <1>5, RespondEffect
<1>. QED  BY <1>1, <1>2, <1>3, <1>4, <1>5, Steps

-----------------------------------------------------------------------------
(* Pulls. *)

\* Callers whose call did not change keep what PullsAreWhole says of them.
Whole(d) ==
  call[d].stage = "pulling" =>
    /\ \A f \in call[d].found : page[f.page].there /\ Kind[RuntimeId[f.page]] < call[d].next
    /\ \A f, g \in call[d].found : f.page = g.page => f = g
    /\ \A p \in call[d].since : page[p].there
    /\ ~call[d].missed =>
         \A p \in call[d].since : Kind[RuntimeId[p]] < call[d].next => p \in PagesOf(call[d].found)

LEMMA WholeStays ==
  ASSUME TypeOK, PullsAreWhole, LinksAreTargets, [Next]_vars,
         NEW d \in Caller, call'[d] = call[d]
  PROVE  Whole(d)'
<1>1. Whole(d)
  BY DEF PullsAreWhole, Whole
<1>. SUFFICES ASSUME call[d].stage = "pulling"
              PROVE  /\ \A f \in call[d].found : page'[f.page].there
                     /\ \A p \in call[d].since : page'[p].there
  BY <1>1 DEF Whole, PagesOf
<1>2. call[d].found \subseteq Found /\ call[d].since \subseteq Page
  BY CallShapes
<1>3. \A f \in call[d].found : f.page \in Page
  BY <1>2 DEF Found
<1>. QED  BY <1>1, <1>2, <1>3, PagesStay DEF Whole

LEMMA StepWhole == Facts /\ [Next]_vars => PullsAreWhole'
<1>. SUFFICES ASSUME TypeOK, PullsAreWhole, LinksAreTargets, [Next]_vars, NEW d \in Caller
              PROVE  Whole(d)'
  BY DEF PullsAreWhole, Whole, Facts
<1>1. CASE UNCHANGED vars
  BY <1>1, WholeStays DEF vars
<1>2. CASE \E p \in Page : Editing(p)
  BY <1>2, WholeStays DEF Editing, CreatePage, EditPage
<1>6. CASE \E x \in Item : Responding(x)
  BY <1>6, RespondEffect, WholeStays
<1>3. ASSUME NEW c \in Caller, PushSide(c) \/ Upsert(c) \/ Mirror(c) \/ PullFails(c)
      PROVE  Whole(d)'
  <2>1. CASE call'[d] = call[d]
    BY <2>1, WholeStays
  <2>2. CASE call'[d].stage # "pulling"
    BY <2>2 DEF Whole
  <2>3. d = c => call'[d].stage # "pulling"
    <3>1. PushSide(c) => call'[c].stage # "pulling"
      BY PushSideEffect
    <3>2. Upsert(c) => call'[c].stage # "pulling"
      BY UpsertEffect
    <3>3. Mirror(c) => call'[c].stage # "pulling"
      BY MirrorEffect DEF Idle
    <3>4. PullFails(c) => call'[c].stage # "pulling"
      BY DEF PullFails, Idle, TypeOK
    <3>. QED  BY <1>3, <3>1, <3>2, <3>3, <3>4
  <2>4. d # c => call'[d] = call[d]
    BY <1>3, PushSideEffect, UpsertEffect, MirrorEffect DEF PullFails, TypeOK
  <2>. QED  BY <2>1, <2>2, <2>3, <2>4
<1>4. ASSUME NEW c \in Caller, StartPull(c) PROVE Whole(d)'
  <2>1. CASE d # c
    BY <1>4, <2>1, StartPullEffect, WholeStays
  <2>2. CASE d = c
    <3>1. page' = page
      BY <1>4 DEF StartPull
    <3>2. \A p \in Page : Kind[RuntimeId[p]] \in 1 .. 4
      BY ConstantsAssumption
    <3>3. /\ call'[c].stage = "pulling" /\ call'[c].next = 1 /\ call'[c].found = {}
          /\ call'[c].since = {p \in Page : page[p].there}
      BY <1>4, StartPullEffect
    <3>4. \A p \in call'[c].since : p \in Page /\ page[p].there /\ ~ Kind[RuntimeId[p]] < 1
      BY <3>2, <3>3
    <3>. QED  BY <2>2, <3>1, <3>3, <3>4 DEF Whole
  <2>. QED  BY <2>1, <2>2
<1>5. ASSUME NEW c \in Caller, Query(c) PROVE Whole(d)'
  <2>1. CASE d # c
    <3>1. call'[d] = call[d]
      BY <1>5, <2>1, QueryEffect
    <3>. QED  BY <3>1, WholeStays
  <2>2. CASE d = c
    <3>1. page' = page /\ call[c].stage = "pulling"
      BY <1>5 DEF Query
    <3>2. /\ Whole(c)
          /\ call[c].next \in 1 .. 5 /\ call[c].found \subseteq Found /\ call[c].since \subseteq Page
      BY <3>1, CallShapes DEF PullsAreWhole, Whole
    <3>3. PICK results \in SUBSET Page :
             /\ \A p \in results : page[p].there /\ Kind[RuntimeId[p]] = call[c].next
             /\ call'[c].stage = "pulling" /\ call'[c].next = call[c].next + 1
             /\ call'[c].found =
                  call[c].found \cup FoundIn(results)
             /\ call'[c].since = call[c].since
             /\ call'[c].missed <=>
                  \/ call[c].missed
                  \/ results # {p \in Page : page[p].there /\ Kind[RuntimeId[p]] = call[c].next}
      BY <1>5, QueryEffect
    <3>4. PICK new : new = FoundIn(results)
      OBVIOUS
    <3>5. /\ \A f \in new : f.page \in results
          /\ \A f, g \in new : f.page = g.page => f = g
          /\ \A p \in results : \E f \in new : f.page = p
      <4>1. \A f \in new : /\ f.page \in results
                           /\ f = [page |-> f.page, plan |-> page[f.page].plan,
                                   needed |-> page[f.page].needed]
        BY <3>4 DEF FoundIn
      <4>2. ASSUME NEW p \in results PROVE \E f \in new : f.page = p
        <5>1. [page |-> p, plan |-> page[p].plan, needed |-> page[p].needed] \in new
          BY <3>4 DEF FoundIn
        <5>. QED  BY <5>1
      <4>. QED  BY <4>1, <4>2
    <3>6. \A f \in call[c].found : f.page \in Page /\ Kind[RuntimeId[f.page]] < call[c].next
      BY <3>1, <3>2 DEF Whole, Found
    <3>7. \A p \in Page : Kind[RuntimeId[p]] \in 1 .. 4
      BY ConstantsAssumption
    <3>8. \A f \in call'[c].found : page[f.page].there /\ Kind[RuntimeId[f.page]] < call'[c].next
      <4>1. TAKE f \in call'[c].found
      <4>2. CASE f \in call[c].found
        BY <3>1, <3>2, <3>3, <3>6, <3>7, <4>2 DEF Whole
      <4>3. CASE f \in new
        BY <3>2, <3>3, <3>5, <4>3
      <4>. QED  BY <3>3, <3>4, <4>2, <4>3
    <3>9. \A f, g \in call'[c].found : f.page = g.page => f = g
      <4>1. \A f \in call[c].found, g \in new : f.page # g.page
        BY <3>2, <3>3, <3>5, <3>6, <3>7
      <4>2. \A f, g \in call[c].found : f.page = g.page => f = g
        BY <3>1, <3>2 DEF Whole
      <4>. QED  BY <3>3, <3>4, <3>5, <4>1, <4>2
    <3>10. \A p \in call'[c].since : page[p].there
      BY <3>1, <3>2, <3>3 DEF Whole
    <3>11. ASSUME ~call'[c].missed, NEW p \in call'[c].since, Kind[RuntimeId[p]] < call'[c].next
           PROVE  p \in PagesOf(call'[c].found)
      <4>1. ~call[c].missed /\ p \in Page /\ p \in call[c].since /\ page[p].there
            /\ results = {q \in Page : page[q].there /\ Kind[RuntimeId[q]] = call[c].next}
        BY <3>2, <3>3, <3>10, <3>11
      <4>2. CASE Kind[RuntimeId[p]] < call[c].next
        BY <3>1, <3>2, <3>3, <4>1, <4>2 DEF Whole, PagesOf
      <4>3. CASE Kind[RuntimeId[p]] = call[c].next
        BY <3>3, <3>4, <3>5, <4>1, <4>3 DEF PagesOf
      <4>. QED  BY <3>2, <3>3, <3>7, <3>11, <4>1, <4>2, <4>3
    <3>. QED  BY <2>2, <3>1, <3>8, <3>9, <3>10, <3>11 DEF Whole
  <2>. QED  BY <2>1, <2>2
<1>. QED  BY <1>1, <1>2, <1>3, <1>4, <1>5, <1>6, Steps

\* A pull that stores gives every item the parent that its page relates to.
LEMMA StepParents ==
  ASSUME TypeOK, PullsAreWhole, LinksAreTargets, [Next]_vars, NEW c \in Caller,
         call[c].stage = "pulling", call'[c].stage = "mirroring",
         NEW f \in call[c].found,
         ParentPage[f.page] \in call[c].since, ~call[c].missed
  PROVE  item'[RuntimeId[f.page]].parent = RuntimeId[ParentPage[f.page]]
<1>1. Upsert(c)
  <2>1. ~UNCHANGED vars
    BY DEF vars
  <2>2. \A p \in Page : ~Editing(p)
    BY DEF Editing, CreatePage, EditPage
  <2>3. \A d \in Caller : ~PushSide(d) /\ ~StartPull(d)
    BY PushSideEffect, StartPullEffect
  <2>4. \A d \in Caller : ~Query(d) /\ ~Mirror(d)
    <3>1. ASSUME NEW d \in Caller, Query(d) PROVE FALSE
      <4>1. call'[d].stage = "pulling" /\ \A e \in Caller \ {d} : call'[e] = call[e]
        BY <3>1, QueryEffect
      <4>. QED  BY <4>1
    <3>2. ASSUME NEW d \in Caller, Mirror(d) PROVE FALSE
      <4>1. call[d].stage = "mirroring" /\ \A e \in Caller \ {d} : call'[e] = call[e]
        BY <3>2, MirrorEffect
      <4>. QED  BY <4>1
    <3>. QED  BY <3>1, <3>2
  <2>5. \A d \in Caller : ~PullFails(d)
    BY DEF PullFails, Idle, TypeOK
  <2>6. \A d \in Caller : Upsert(d) => d = c
    BY UpsertEffect
  <2>7. \A x \in Item : ~Responding(x)
    BY RespondEffect
  <2>. QED  BY <2>1, <2>2, <2>3, <2>4, <2>5, <2>6, <2>7, Steps
<1>2. /\ call[c].next = 5
      /\ item'[RuntimeId[f.page]] =
           [known |-> TRUE, plan |-> f.plan, needed |-> f.needed, link |-> f.page,
            parent |-> ParentAmong(call[c].found, f.page)]
  BY <1>1, UpsertEffect
<1>3. ParentPage[f.page] \in Page
  BY CallShapes
<1>4. Kind[RuntimeId[ParentPage[f.page]]] < 5
  BY <1>3, ConstantsAssumption
<1>5. ParentPage[f.page] \in PagesOf(call[c].found)
  BY <1>2, <1>4 DEF PullsAreWhole
<1>. QED  BY <1>2, <1>5 DEF ParentAmong

-----------------------------------------------------------------------------
(* Links. *)

\* A call changes by a step of its own caller.
LEMMA WhoSteps ==
  ASSUME TypeOK, PullsAreWhole, LinksAreTargets, [Next]_vars,
         NEW d \in Caller, call'[d] # call[d]
  PROVE  PushSide(d) \/ StartPull(d) \/ Query(d) \/ Upsert(d) \/ Mirror(d) \/ PullFails(d)
<1>1. ~UNCHANGED vars
  BY DEF vars
<1>2. \A p \in Page : ~Editing(p)
  BY DEF Editing, CreatePage, EditPage
<1>3. \A c \in Caller : PushSide(c) => c = d
  BY PushSideEffect
<1>4. \A c \in Caller : StartPull(c) => c = d
  BY StartPullEffect
<1>5. ASSUME NEW c \in Caller, Query(c) PROVE c = d
  <2>1. \A e \in Caller \ {c} : call'[e] = call[e]
    BY <1>5, QueryEffect
  <2>. QED  BY <2>1
<1>6. \A c \in Caller : Upsert(c) => c = d
  BY UpsertEffect
<1>7. ASSUME NEW c \in Caller, Mirror(c) PROVE c = d
  <2>1. \A e \in Caller \ {c} : call'[e] = call[e]
    BY <1>7, MirrorEffect
  <2>. QED  BY <2>1
<1>8. \A c \in Caller : PullFails(c) => c = d
  BY DEF PullFails, TypeOK
<1>9. \A x \in Item : ~Responding(x)
  BY RespondEffect
<1>. QED  BY <1>1, <1>2, <1>3, <1>4, <1>5, <1>6, <1>7, <1>8, <1>9, Steps

\* What LinksAreTargets says of a record and of a push.
Linked(x) ==
  /\ item[x].link # None => IsTarget(x, item[x].link)
  /\ item[x].known /\ x \in Seeded /\ SeedPage[x] # None => item[x].link # None
Aimed(w) == item[w.item].known /\ (w.link # None => IsTarget(w.item, w.link))
AllAimed(d) ==
  call[d].stage = "pushing" =>
    call[d].todo # <<>> /\ \A i \in DOMAIN call[d].todo : Aimed(call[d].todo[i])

LEMMA LinksSplit ==
  LinksAreTargets <=> (\A x \in Item : Linked(x)) /\ (\A d \in Caller : AllAimed(d))
BY DEF LinksAreTargets, Linked, Aimed, AllAimed

LEMMA TargetStays ==
  ASSUME TypeOK, LinksAreTargets, [Next]_vars, NEW x, NEW p \in Page, IsTarget(x, p)
  PROVE  IsTarget(x, p)'
BY PagesStay DEF IsTarget

\* Records change by a bootstrap or at the end of a pull.
LEMMA RecordsStay ==
  ASSUME TypeOK, LinksAreTargets, [Next]_vars,
         \A c \in Caller : ~BootstrapFlow(c) /\ ~Upsert(c)
  PROVE  item' = item
<1>1. CASE UNCHANGED vars
  BY <1>1 DEF vars
<1>2. CASE \E p \in Page : Editing(p)
  BY <1>2 DEF Editing, CreatePage, EditPage, records
<1>3. ASSUME NEW c \in Caller, PushSide(c) PROVE item' = item
  <2>1. CASE Recording(c)
    BY <2>1, RecordingEffect
  <2>2. CASE Reading(c)
    BY <2>2, ReadingEffect
  <2>3. CASE StoreFails(c) \/ Resolve(c) \/ Update(c) \/ PushFails(c)
    BY <2>3 DEF StoreFails, Resolve, Update, PushFails, records
  <2>4. CASE SeedNext(c)
    BY <2>4, SeedEffect
  <2>. QED  BY <1>3, <2>1, <2>2, <2>3, <2>4 DEF PushSide
<1>4. ASSUME NEW c \in Caller, StartPull(c) \/ Query(c) \/ Mirror(c) \/ PullFails(c)
      PROVE  item' = item
  BY <1>4 DEF StartPull, Query, Mirror, PullFails, records
<1>5. CASE \E x \in Item : Responding(x)
  BY <1>5, RespondEffect
<1>. QED  BY <1>1, <1>2, <1>3, <1>4, <1>5, Steps

LEMMA BootstrapEffect ==
  ASSUME TypeOK, NEW c \in Caller, BootstrapFlow(c)
  PROVE  /\ call[c] = Idle /\ call'[c] = [stage |-> "storing", scope |-> Item, seeds |-> Seeds]
         /\ \A d \in Caller \ {c} : call'[d] = call[d]
         /\ \A x \in Item \ Seeded : item'[x] = item[x]
         /\ \A x \in Seeded :
              /\ item'[x].known /\ item'[x].plan = 0
              /\ item'[x].link = IF SeedPage[x] # None THEN SeedPage[x] ELSE item[x].link
         /\ drifted' = drifted \cup {p \in Page : RuntimeId[p] \in Seeded}
         /\ unmirrored' = unmirrored \cup Seeded
         /\ contested' = contested \cup VerdictChanges
         /\ UNCHANGED <<page, mirror, approvals, verdict, edits>>
<1>1. \A x \in Item :
        item'[x] = IF x \in Seeded
                     THEN [known |-> TRUE, plan |-> 0, needed |-> x \in SeedNeeds,
                           parent |-> SeedParent[x],
                           link |-> IF SeedPage[x] # None THEN SeedPage[x] ELSE item[x].link]
                     ELSE item[x]
  BY DEF BootstrapFlow
<1>2. \A x \in Seeded : x \in Item
  BY ConstantsAssumption
<1>3. /\ call[c] = Idle /\ call'[c] = [stage |-> "storing", scope |-> Item, seeds |-> Seeds]
      /\ \A d \in Caller \ {c} : call'[d] = call[d]
  BY DEF BootstrapFlow, Store, Request, TypeOK
<1>. QED  BY <1>1, <1>2, <1>3 DEF BootstrapFlow

\* A record stays, and stays linked to the page that stands for it.
LEMMA StepLinked ==
  ASSUME TypeOK, PullsAreWhole, LinksAreTargets, [Next]_vars, NEW x \in Item
  PROVE  /\ Linked(x)'
         /\ item[x].known => item'[x].known
<1>1. Linked(x) /\ item[x].link \in Page \cup {None}
  BY LinksSplit DEF TypeOK, ItemState
<1>2. CASE item'[x] = item[x]
  <2>1. PICK p : p = item[x].link
    OBVIOUS
  <2>2. p # None => IsTarget(x, p)'
    BY <1>1, <2>1, TargetStays DEF Linked
  <2>. QED  BY <1>1, <1>2, <2>1, <2>2 DEF Linked, IsTarget
<1>3. ASSUME NEW c \in Caller, BootstrapFlow(c), x \in Seeded
      PROVE  Linked(x)' /\ item'[x].known
  <2>1. /\ item'[x].known /\ page' = page
        /\ item'[x].link = IF SeedPage[x] # None THEN SeedPage[x] ELSE item[x].link
    BY <1>3, BootstrapEffect
  <2>. QED  BY <1>1, <1>3, <2>1 DEF Linked, IsTarget
<1>4. ASSUME NEW c \in Caller, Upsert(c), NEW f \in call[c].found, RuntimeId[f.page] = x
      PROVE  Linked(x)' /\ item'[x].known
  <2>1. PICK parent : parent = ParentAmong(call[c].found, f.page)
    OBVIOUS
  <2>4. /\ f.page \in Page
        /\ item'[x] = [known |-> TRUE, plan |-> f.plan, needed |-> f.needed, link |-> f.page,
                       parent |-> parent]
    BY <1>4, <2>1, UpsertEffect
  <2>2. call[c].stage = "pulling" /\ page' = page
    BY <1>4 DEF Upsert
  <2>3. page[f.page].there
    BY <1>4, <2>2 DEF PullsAreWhole
  <2>. QED  BY <1>4, <2>2, <2>3, <2>4, ConstantsAssumption DEF Linked, IsTarget
<1>5. CASE \E c \in Caller : BootstrapFlow(c)
  BY <1>2, <1>3, <1>5, BootstrapEffect
<1>6. CASE \E c \in Caller : Upsert(c)
  BY <1>2, <1>4, <1>6, UpsertEffect
<1>7. CASE \A c \in Caller : ~BootstrapFlow(c) /\ ~Upsert(c)
  BY <1>2, <1>7, RecordsStay
<1>. QED  BY <1>5, <1>6, <1>7

\* So does the aim of a pending write.
LEMMA AimedStays ==
  ASSUME TypeOK, PullsAreWhole, LinksAreTargets, [Next]_vars, NEW w \in Write, Aimed(w)
  PROVE  Aimed(w)'
<1>1. w.item \in Item /\ w.link \in Page \cup {None}
  BY DEF Write
<1>2. item'[w.item].known
  BY <1>1, StepLinked DEF Aimed
<1>3. w.link # None => IsTarget(w.item, w.link)'
  BY <1>1, TargetStays DEF Aimed
<1>. QED  BY <1>2, <1>3 DEF Aimed, IsTarget

\* What a read gives a push is aimed at the pages of the records.
LEMMA WritesAimed ==
  ASSUME TypeOK, LinksAreTargets, NEW x \in Item, Selected(x)
  PROVE  Aimed(WriteOf(x))
<1>1. Linked(x)
  BY LinksSplit
<1>2. WriteOf(x).item = x /\ WriteOf(x).link = item[x].link
  BY WriteTypes
<1>3. PICK w : w = WriteOf(x)
  OBVIOUS
<1>. QED  BY <1>1, <1>2, <1>3 DEF Aimed, Linked, Selected

LEMMA StepAimed ==
  ASSUME TypeOK, PullsAreWhole, LinksAreTargets, [Next]_vars, NEW d \in Caller
  PROVE  AllAimed(d)'
<1>. SUFFICES ASSUME call'[d].stage = "pushing"
              PROVE  /\ call'[d].todo # <<>>
                     /\ \A i \in DOMAIN call'[d].todo :
                          call'[d].todo[i] \in Write /\ Aimed(call'[d].todo[i])
  <2>1. ASSUME NEW w \in Write, Aimed(w) PROVE Aimed(w)'
    BY <2>1, AimedStays
  <2>2. ASSUME \A i \in DOMAIN call'[d].todo :
                 call'[d].todo[i] \in Write /\ Aimed(call'[d].todo[i]),
               NEW i \in DOMAIN call'[d].todo
        PROVE  item'[call'[d].todo[i].item].known /\ (call'[d].todo[i].link # None =>
                 IsTarget(call[d].todo[i].item, call[d].todo[i].link)')
    <3>1. PICK w \in Write : w = call'[d].todo[i]
      BY <2>2
    <3>2. Aimed(w)'
      BY <2>1, <2>2, <3>1
    <3>. QED  BY <3>1, <3>2 DEF Aimed, IsTarget
  <2>. QED  BY <2>2 DEF AllAimed, Aimed
<1>1. ASSUME call[d].stage = "pushing"
      PROVE  /\ call[d].todo \in Seq(Write) /\ call[d].todo # <<>> /\ call[d].todo[1] \in Write
             /\ \A i \in DOMAIN call[d].todo : call[d].todo[i] \in Write /\ Aimed(call[d].todo[i])
  <2>1. Underway(d)
    BY <1>1, PushesGoOn
  <2>2. \A i \in DOMAIN call[d].todo : Aimed(call[d].todo[i])
    BY <1>1, LinksSplit DEF AllAimed
  <2>. QED  BY <2>1, <2>2 DEF Underway
<1>2. CASE call'[d] = call[d]
  BY <1>1, <1>2
<1>3. CASE Reading(d)
  <2>1. ASSUME NEW scope \in SUBSET Item, Read(d, scope)
        PROVE  /\ call'[d].todo # <<>>
               /\ \A i \in DOMAIN call'[d].todo : \E x \in Item :
                    Selected(x) /\ call'[d].todo[i] = WriteOf(x)
    <3>1. PICK chosen \in SUBSET Item :
            /\ \A x \in chosen : Selected(x)
            /\ \/ call' = [call EXCEPT ![d] = Idle]
               \/ \E todo \in Seq(Write) :
                   /\ todo # <<>>
                   /\ call' = [call EXCEPT ![d] = [stage |-> "pushing", todo |-> todo]]
                   /\ \A i \in DOMAIN todo : \E x \in chosen : todo[i] = WriteOf(x)
      <4>1. PICK chosen \in SUBSET Item, rivals \in SUBSET Item : ReadBy(d, scope, chosen, rivals)
        BY <2>1, ReadEffect
      <4>2. \A x \in chosen : Selected(x)
        BY <4>1 DEF ReadBy
      <4>. QED  BY <4>1, <4>2 DEF ReadBy
    <3>2. call' # [call EXCEPT ![d] = Idle]
      BY DEF Idle, TypeOK
    <3>3. PICK todo \in Seq(Write) :
            /\ todo # <<>>
            /\ call' = [call EXCEPT ![d] = [stage |-> "pushing", todo |-> todo]]
            /\ \A i \in DOMAIN todo : \E x \in chosen : todo[i] = WriteOf(x)
      BY <3>1, <3>2
    <3>4. call'[d].todo = todo
      BY <3>3 DEF TypeOK
    <3>. QED  BY <3>1, <3>3, <3>4
  <2>2. /\ call'[d].todo # <<>>
        /\ \A i \in DOMAIN call'[d].todo : \E x \in Item :
             Selected(x) /\ call'[d].todo[i] = WriteOf(x)
    <3>1. CASE ReadAfterStore(d)
      BY <2>1, <3>1, CallShapes DEF ReadAfterStore
    <3>2. CASE SyncGovernance(d)
      BY <2>1, <3>2 DEF SyncGovernance
    <3>. QED  BY <1>3, <3>1, <3>2 DEF Reading
  <2>3. ASSUME NEW i \in DOMAIN call'[d].todo
        PROVE  call'[d].todo[i] \in Write /\ Aimed(call'[d].todo[i])
    <3>1. PICK x \in Item : Selected(x) /\ call'[d].todo[i] = WriteOf(x)
      BY <2>2
    <3>2. Aimed(WriteOf(x)) /\ WriteOf(x) \in Write
      BY <3>1, WritesAimed, WriteTypes
    <3>. QED  BY <3>1, <3>2
  <2>. QED  BY <2>2, <2>3
<1>4. ASSUME call[d].stage = "pushing", call'[d] = Rest(call[d].todo)
      PROVE  /\ call'[d].todo # <<>>
             /\ \A i \in DOMAIN call'[d].todo :
                  call'[d].todo[i] \in Write /\ Aimed(call'[d].todo[i])
  <2>1. PICK todo \in Seq(Write) : todo = call[d].todo /\ todo # <<>>
    BY <1>1, <1>4
  <2>2. PICK rest : rest = Rest(todo)
    OBVIOUS
  <2>3. rest # Idle
    BY <1>4, <2>1, <2>2 DEF Idle
  <2>4. rest = [stage |-> "pushing", todo |-> Tail(todo)] /\ Tail(todo) # <<>>
        /\ \A i \in DOMAIN Tail(todo) : i + 1 \in DOMAIN todo /\ Tail(todo)[i] = todo[i + 1]
    BY <2>1, <2>2, <2>3, RestType
  <2>5. call'[d].todo = Tail(todo)
    BY <1>4, <2>1, <2>2, <2>4
  <2>. QED  BY <1>1, <1>4, <2>1, <2>4, <2>5
<1>5. CASE Resolve(d)
  <2>1. PICK todo : todo = call[d].todo
    OBVIOUS
  <2>2. call[d].stage = "pushing"
    BY <1>5 DEF Resolve
  <2>3. CASE call'[d] = Rest(todo)
    BY <1>4, <2>1, <2>2, <2>3
  <2>4. CASE \E p \in Page :
              /\ page[p].there /\ RuntimeId[p] = todo[1].item
              /\ call'[d].stage = "pushing" /\ call'[d].todo \in Seq(Write)
              /\ DOMAIN call'[d].todo = DOMAIN todo
              /\ call'[d].todo[1] = [todo[1] EXCEPT !.link = p]
              /\ \A i \in DOMAIN todo : i # 1 => call'[d].todo[i] = todo[i]
    <3>1. PICK p \in Page :
              /\ page[p].there /\ RuntimeId[p] = todo[1].item
              /\ call'[d].todo \in Seq(Write)
              /\ DOMAIN call'[d].todo = DOMAIN todo
              /\ call'[d].todo[1] = [todo[1] EXCEPT !.link = p]
              /\ \A i \in DOMAIN todo : i # 1 => call'[d].todo[i] = todo[i]
      BY <2>4
    <3>2. 1 \in DOMAIN todo /\ todo[1] \in Write /\ Aimed(todo[1])
          /\ \A i \in DOMAIN todo : todo[i] \in Write /\ Aimed(todo[i])
      <4>1. Underway(d)
        BY <2>2, PushesGoOn
      <4>. QED  BY <1>1, <2>1, <2>2, <4>1 DEF Underway
    <3>3. PICK w : w = [todo[1] EXCEPT !.link = p]
      OBVIOUS
    <3>4. w \in Write /\ Aimed(w)
      BY <3>1, <3>2, <3>3 DEF Write, Aimed, IsTarget
    <3>5. call'[d].todo # <<>>
      BY <3>1, <3>2
    <3>6. \A i \in DOMAIN call'[d].todo : call'[d].todo[i] = w \/ call'[d].todo[i] = todo[i]
      BY <3>1, <3>3
    <3>. QED  BY <3>1, <3>2, <3>4, <3>5, <3>6
  <2>. QED  BY <1>5, <2>1, <2>3, <2>4, ResolveEffect
<1>6. CASE Update(d)
  <2>1. call[d].stage = "pushing" /\ call'[d] = Rest(call[d].todo)
    BY <1>6 DEF Update, TypeOK
  <2>. QED  BY <1>4, <2>1
<1>7. CASE Recording(d)
  <2>1. PICK x : call'[d] = [stage |-> "storing", scope |-> {x}, seeds |-> <<>>]
    BY <1>7, RecordingEffect
  <2>. QED  BY <2>1
<1>8. CASE BootstrapFlow(d)
  BY <1>8, BootstrapEffect
<1>9. CASE StoreFails(d) \/ PushFails(d) \/ PullFails(d)
  BY <1>9 DEF StoreFails, PushFails, PullFails, Idle, TypeOK
<1>10. CASE StartPull(d)
  BY <1>10, StartPullEffect
<1>11. CASE Query(d)
  <2>1. call'[d].stage = "pulling"
    BY <1>11, QueryEffect
  <2>. QED  BY <2>1
<1>12. CASE Upsert(d)
  BY <1>12, UpsertEffect
<1>13. CASE Mirror(d)
  BY <1>13, MirrorEffect DEF Idle
<1>14. CASE SeedNext(d)
  BY <1>14, SeedEffect
<1>. QED  BY <1>2, <1>3, <1>5, <1>6, <1>7, <1>8, <1>9, <1>10, <1>11, <1>12, <1>13, <1>14,
             WhoSteps
          DEF PushSide

LEMMA StepLinks == Facts /\ [Next]_vars => LinksAreTargets'
<1>. SUFFICES ASSUME TypeOK, PullsAreWhole, LinksAreTargets, [Next]_vars PROVE LinksAreTargets'
  BY DEF Facts
<1>1. \A x \in Item : Linked(x)'
  BY StepLinked
<1>2. \A d \in Caller : AllAimed(d)'
  BY StepAimed
<1>. QED  BY <1>1, <1>2 DEF LinksAreTargets, Linked, AllAimed, Aimed

-----------------------------------------------------------------------------
(* Revisions. *)

\* The pull of d found p with revision r, and has not stored it.
Finds(d, p, r) ==
  call[d].stage = "pulling" /\ \E f \in call[d].found : f.page = p /\ f.plan = r

LEMMA FoundIs ==
  \A c, p, r : r \in FoundOf(c, p) <=> \E d \in Caller \ {c} : Finds(d, p, r)
BY DEF FoundOf, Finds

\* What the invariant says of a page that has not drifted.
Current(p) == page[p].there /\ \A d \in Caller : \A r : Finds(d, p, r) => r = page[p].plan
Stored(p) ==
  (\A d \in Caller : \A r : ~Finds(d, p, r)) => item[RuntimeId[p]].plan = page[p].plan

AllCurrent == \A p \in Page \ drifted : Current(p)
AllStored == \A p \in Page \ drifted : Stored(p)

LEMMA CurrentSplit == FindsAreCurrent <=> AllCurrent
BY DEF FindsAreCurrent, AllCurrent, Current, Finds

LEMMA StoredSplit == PulledRevisionIsShown <=> AllStored
<1>1. ASSUME NEW p PROVE FoundOf(None, p) = {} <=> \A d \in Caller : \A r : ~Finds(d, p, r)
  <2>1. \A d \in Caller : d # None
    BY ConstantsAssumption
  <2>. QED  BY <2>1, FoundIs
<1>. QED  BY <1>1 DEF PulledRevisionIsShown, AllStored, Stored

\* A step that changes nothing of a page changes nothing of this.
LEMMA RevisionStays ==
  ASSUME NEW p \in Page, Current(p), Stored(p),
         page'[p].there = page[p].there, page'[p].plan = page[p].plan,
         item'[RuntimeId[p]].plan = item[RuntimeId[p]].plan,
         \A d \in Caller : \A r : Finds(d, p, r)' <=> Finds(d, p, r)
  PROVE  Current(p)' /\ Stored(p)'
<1>1. Current(p)'
  BY DEF Current
<1>2. Stored(p)'
  BY DEF Stored
<1>. QED  BY <1>1, <1>2

LEMMA QueryRevisions ==
  ASSUME TypeOK, PullsAreWhole, NEW c \in Caller, Query(c),
         NEW p \in Page, p \notin drifted', p \notin drifted => Current(p) /\ Stored(p)
  PROVE  Current(p)' /\ Stored(p)'
<1>1. page' = page /\ item' = item /\ call[c].stage = "pulling"
  BY DEF Query, records
<1>2. PICK results \in SUBSET Page :
         /\ \A q \in results : page[q].there /\ Kind[RuntimeId[q]] = call[c].next
         /\ call' \in [Caller -> CallType]
         /\ call'[c].stage = "pulling" /\ call'[c].next = call[c].next + 1
         /\ call'[c].found =
              call[c].found \cup FoundIn(results)
         /\ call'[c].since = call[c].since
         /\ call'[c].missed <=>
              \/ call[c].missed
              \/ results # {q \in Page : page[q].there /\ Kind[RuntimeId[q]] = call[c].next}
         /\ \A d \in Caller \ {c} : call'[d] = call[d]
         /\ drifted' = (drifted \ results)
                         \cup {q \in results : FoundOf(c, q) \ {page[q].plan} # {}}
  BY QueryEffect
<1>3. \A d \in Caller \ {c} : \A r : Finds(d, p, r)' <=> Finds(d, p, r)
  BY <1>2 DEF Finds
<1>4. ASSUME NEW r
      PROVE  Finds(c, p, r)' <=> Finds(c, p, r) \/ (p \in results /\ r = page[p].plan)
  <2>1. PICK new : new = FoundIn(results)
    OBVIOUS
  <2>2. (\E f \in new : f.page = p /\ f.plan = r) <=> p \in results /\ r = page[p].plan
    <3>1. \A f \in new : f.page \in results /\ f.plan = page[f.page].plan
      BY <2>1 DEF FoundIn
    <3>2. ASSUME p \in results PROVE \E f \in new : f.page = p /\ f.plan = page[p].plan
      <4>1. [page |-> p, plan |-> page[p].plan, needed |-> page[p].needed] \in new
        BY <2>1, <3>2 DEF FoundIn
      <4>. QED  BY <4>1
    <3>. QED  BY <3>1, <3>2
  <2>3. call'[c].found = call[c].found \cup new
    BY <1>2, <2>1
  <2>. QED  BY <1>1, <1>2, <2>2, <2>3 DEF Finds
<1>5. CASE p \notin results
  BY <1>1, <1>2, <1>3, <1>4, <1>5, RevisionStays
<1>6. CASE p \in results
  <2>1. \A r : ~Finds(c, p, r)
    <3>1. \A f \in call[c].found : Kind[RuntimeId[f.page]] < call[c].next
      BY <1>1 DEF PullsAreWhole
    <3>2. Kind[RuntimeId[p]] = call[c].next /\ call[c].next \in 1 .. 5
      BY <1>1, <1>2, <1>6, CallShapes
    <3>. QED  BY <3>1, <3>2 DEF Finds
  <2>2. \A d \in Caller \ {c} : \A r : Finds(d, p, r) => r = page[p].plan
    <3>1. FoundOf(c, p) \ {page[p].plan} = {}
      BY <1>2, <1>6
    <3>. QED  BY <3>1, FoundIs
  <2>3. Current(p)'
    <3>1. page[p].there
      BY <1>2, <1>6
    <3>. QED  BY <1>1, <1>3, <1>4, <2>1, <2>2, <3>1 DEF Current
  <2>4. Stored(p)'
    <3>1. Finds(c, p, page[p].plan)'
      BY <1>1, <1>4, <1>6
    <3>. QED  BY <3>1 DEF Stored
  <2>. QED  BY <2>3, <2>4
<1>. QED  BY <1>5, <1>6

LEMMA UpsertRevisions ==
  ASSUME TypeOK, PullsAreWhole, NEW c \in Caller, Upsert(c),
         NEW p \in Page, Current(p), Stored(p)
  PROVE  Current(p)' /\ Stored(p)'
<1>1. page' = page /\ call[c].stage = "pulling" /\ call'[c].stage = "mirroring"
  BY UpsertEffect DEF Upsert
<1>2. \A d \in Caller \ {c} : \A r : Finds(d, p, r)' <=> Finds(d, p, r)
  BY UpsertEffect DEF Finds
<1>3. \A r : ~Finds(c, p, r)'
  BY <1>1 DEF Finds
<1>4. Current(p)'
  BY <1>1, <1>2, <1>3 DEF Current
<1>5. CASE \E f \in call[c].found : f.page = p
  <2>1. PICK f \in call[c].found : f.page = p
    BY <1>5
  <2>2. PICK parent : parent = ParentAmong(call[c].found, f.page)
    OBVIOUS
  <2>3. item'[RuntimeId[p]] = [known |-> TRUE, plan |-> f.plan, needed |-> f.needed, link |-> f.page, parent |-> parent]
    BY <2>1, <2>2, UpsertEffect
  <2>4. f.plan = page[p].plan
    BY <1>1, <2>1 DEF Current, Finds
  <2>. QED  BY <1>1, <1>4, <2>3, <2>4 DEF Stored
<1>6. CASE \A f \in call[c].found : f.page # p
  <2>1. \A f \in call[c].found : f.page \in Page /\ RuntimeId[f.page] # RuntimeId[p]
    BY <1>6, UpsertEffect, RuntimeIdAssumption
  <2>2. item'[RuntimeId[p]] = item[RuntimeId[p]]
    <3>1. RuntimeId[p] \in Item
      BY ConstantsAssumption
    <3>. QED  BY <2>1, <3>1, UpsertEffect
  <2>3. \A r : ~Finds(c, p, r)
    BY <1>6 DEF Finds
  <2>. QED  BY <1>1, <1>2, <1>3, <1>4, <2>2, <2>3 DEF Stored
<1>. QED  BY <1>5, <1>6

\* Revisions that pulls found stay current, and so do those they stored.
LEMMA StepRevisions ==
  ASSUME TypeOK, PullsAreWhole, LinksAreTargets, [Next]_vars,
         FindsAreCurrent, PulledRevisionIsShown
  PROVE  FindsAreCurrent' /\ PulledRevisionIsShown'
<1>. SUFFICES ASSUME NEW p \in Page, p \notin drifted' PROVE Current(p)' /\ Stored(p)'
  <2>1. FindsAreCurrent' <=> AllCurrent'
    BY CurrentSplit, PTL
  <2>2. PulledRevisionIsShown' <=> AllStored'
    BY StoredSplit, PTL
  <2>. QED  BY <2>1, <2>2 DEF AllCurrent, AllStored
<1>1. p \notin drifted => Current(p) /\ Stored(p)
  BY CurrentSplit, StoredSplit DEF AllCurrent, AllStored
<1>2. CASE UNCHANGED vars
  BY <1>1, <1>2, RevisionStays DEF vars, Finds
<1>3. ASSUME NEW q \in Page, Editing(q) PROVE Current(p)' /\ Stored(p)'
  <2>1. p # q /\ p \notin drifted
    BY <1>1, <1>3 DEF Editing, CreatePage, EditPage, excuses, Current
  <2>2. page'[p] = page[p] /\ item' = item /\ call' = call
    BY <1>3, <2>1 DEF Editing, CreatePage, EditPage, records, TypeOK
  <2>. QED  BY <1>1, <2>1, <2>2, RevisionStays DEF Finds
<1>4. ASSUME NEW c \in Caller, PushSide(c) PROVE Current(p)' /\ Stored(p)'
  <2>1. p \notin drifted /\ page'[p].there = page[p].there /\ page'[p].plan = page[p].plan
    BY <1>4, PushOnPages
  <2>2. item'[RuntimeId[p]].plan = item[RuntimeId[p]].plan
    <3>1. RuntimeId[p] \in Item
      BY ConstantsAssumption
    <3>2. CASE BootstrapFlow(c)
      BY <3>1, <3>2, BootstrapEffect
    <3>3. CASE ~BootstrapFlow(c)
      <4>1. CASE Recording(c)
        BY <4>1, RecordingEffect
      <4>2. CASE Reading(c)
        BY <4>2, ReadingEffect
      <4>3. CASE StoreFails(c) \/ Resolve(c) \/ Update(c) \/ PushFails(c)
        BY <4>3 DEF StoreFails, Resolve, Update, PushFails, records
      <4>4. CASE SeedNext(c)
        BY <4>4, SeedEffect
      <4>. QED  BY <1>4, <3>3, <4>1, <4>2, <4>3, <4>4 DEF PushSide
    <3>. QED  BY <3>2, <3>3
  <2>3. \A d \in Caller : \A r : Finds(d, p, r)' <=> Finds(d, p, r)
    BY <1>4, PushSideEffect DEF Finds
  <2>. QED  BY <1>1, <2>1, <2>2, <2>3, RevisionStays
<1>5. ASSUME NEW c \in Caller, StartPull(c) PROVE Current(p)' /\ Stored(p)'
  <2>1. /\ call[c] = Idle /\ call'[c].found = {} /\ \A d \in Caller \ {c} : call'[d] = call[d]
        /\ page' = page /\ item' = item /\ drifted' = drifted
    BY <1>5, StartPullEffect DEF StartPull, Request, records, excuses
  <2>2. \A d \in Caller : \A r : Finds(d, p, r)' <=> Finds(d, p, r)
    BY <2>1 DEF Finds, Idle
  <2>. QED  BY <1>1, <2>1, <2>2, RevisionStays
<1>6. ASSUME NEW c \in Caller, Query(c) PROVE Current(p)' /\ Stored(p)'
  BY <1>1, <1>6, QueryRevisions
<1>7. ASSUME NEW c \in Caller, Upsert(c) PROVE Current(p)' /\ Stored(p)'
  <2>1. drifted' = drifted
    BY <1>7 DEF Upsert
  <2>. QED  BY <1>1, <1>7, <2>1, UpsertRevisions
<1>8. ASSUME NEW c \in Caller, Mirror(c) PROVE Current(p)' /\ Stored(p)'
  <2>1. page' = page /\ item' = item /\ drifted' = drifted
    BY <1>8 DEF Mirror, records, excuses
  <2>2. /\ call[c].stage = "mirroring" /\ call'[c].stage # "pulling"
        /\ \A d \in Caller \ {c} : call'[d] = call[d]
    BY <1>8, MirrorEffect DEF Idle
  <2>3. \A d \in Caller : \A r : Finds(d, p, r)' <=> Finds(d, p, r)
    BY <2>2 DEF Finds
  <2>. QED  BY <1>1, <2>1, <2>3, RevisionStays
<1>9. ASSUME NEW c \in Caller, PullFails(c) PROVE Current(p)' /\ Stored(p)'
  <2>1. /\ page' = page /\ item' = item /\ p \notin drifted
        /\ call'[c] = Idle /\ \A d \in Caller \ {c} : call'[d] = call[d]
    BY <1>9 DEF PullFails, records, TypeOK
  <2>2. \A r : ~Finds(c, p, r)
    BY <1>9 DEF PullFails, Finds, PagesOf
  <2>3. \A d \in Caller : \A r : Finds(d, p, r)' <=> Finds(d, p, r)
    BY <2>1, <2>2 DEF Finds, Idle
  <2>. QED  BY <1>1, <2>1, <2>3, RevisionStays
<1>10. CASE \E x \in Item : Responding(x)
  <2>1. page' = page /\ item' = item /\ call' = call /\ drifted' = drifted
    BY <1>10, RespondEffect
  <2>. QED  BY <1>1, <2>1, RevisionStays DEF Finds
<1>. QED  BY <1>2, <1>3, <1>4, <1>5, <1>6, <1>7, <1>8, <1>9, <1>10, Steps

-----------------------------------------------------------------------------
(* Story files. *)

\* The pull of d stored x with revision r, and has yet to look at its file.
Writes(d, x, r) ==
  call[d].stage = "mirroring" /\ \E t \in call[d].todo : t[1] = x /\ t[2] = r

LEMMA FileWritesAre ==
  \A c, x, r : r \in FileWritesOf(c, x) <=> \E d \in Caller \ {c} : Writes(d, x, r)
BY DEF FileWritesOf, Writes

\* What the invariant says of an item whose file is not excused.
FileCurrent(x) == \A d \in Caller : \A r : Writes(d, x, r) => r = item[x].plan
OnDisk(x) ==
  /\ item[x].known
  /\ Kind[x] = 3 /\ item[x].plan \in ReadyPlans
  /\ \A d \in Caller : \A r : ~Writes(d, x, r)
  => mirror[x] = item[x].plan
AllFilesCurrent == \A x \in Item \ unmirrored : FileCurrent(x)
AllOnDisk == \A x \in Item \ unmirrored : OnDisk(x)

LEMMA FilesSplit == FileWritesAreCurrent <=> AllFilesCurrent
BY DEF FileWritesAreCurrent, AllFilesCurrent, FileCurrent, Writes

LEMMA DiskSplit == ReadyStoriesAreOnDisk <=> AllOnDisk
<1>1. ASSUME NEW x
      PROVE  FileWritesOf(None, x) = {} <=> \A d \in Caller : \A r : ~Writes(d, x, r)
  <2>1. \A d \in Caller : d # None
    BY ConstantsAssumption
  <2>. QED  BY <2>1, FileWritesAre
<1>2. \A x : IsReady(<<x, item[x].plan>>) <=> Kind[x] = 3 /\ item[x].plan \in ReadyPlans
  BY DEF IsReady
<1>. QED  BY <1>1, <1>2 DEF ReadyStoriesAreOnDisk, AllOnDisk, OnDisk

LEMMA FileStays ==
  ASSUME NEW x \in Item, FileCurrent(x), OnDisk(x),
         item'[x] = item[x], mirror'[x] = mirror[x],
         \A d \in Caller : \A r : Writes(d, x, r)' <=> Writes(d, x, r)
  PROVE  FileCurrent(x)' /\ OnDisk(x)'
<1>1. FileCurrent(x)'
  BY DEF FileCurrent
<1>2. OnDisk(x)'
  BY DEF OnDisk
<1>. QED  BY <1>1, <1>2

LEMMA UpsertFiles ==
  ASSUME TypeOK, PullsAreWhole, NEW c \in Caller, Upsert(c),
         NEW x \in Item, x \notin unmirrored', x \notin unmirrored => FileCurrent(x) /\ OnDisk(x)
  PROVE  FileCurrent(x)' /\ OnDisk(x)'
<1>1. PICK todo : todo = {<<RuntimeId[f.page], f.plan>> : f \in call[c].found}
  OBVIOUS
<1>2. /\ unmirrored' = (unmirrored \ {t[1] : t \in todo})
                     \cup {t[1] : t \in {t \in todo : FileWritesOf(c, t[1]) \ {t[2]} # {}}}
      /\ mirror' = mirror
  BY <1>1 DEF Upsert
<1>3. /\ call[c].stage = "pulling" /\ call'[c].stage = "mirroring" /\ call'[c].todo = todo
      /\ \A d \in Caller \ {c} : call'[d] = call[d]
  BY <1>1, UpsertEffect
<1>4. \A d \in Caller \ {c} : \A r : Writes(d, x, r)' <=> Writes(d, x, r)
  BY <1>3 DEF Writes
<1>5. \A r : ~Writes(c, x, r)
  BY <1>3 DEF Writes
<1>6. CASE \A t \in todo : t[1] # x
  <2>1. x \notin unmirrored
    BY <1>2, <1>6
  <2>2. item'[x] = item[x]
    <3>1. ASSUME NEW f \in call[c].found PROVE RuntimeId[f.page] # x
      <4>1. <<RuntimeId[f.page], f.plan>> \in todo
        BY <1>1, <3>1
      <4>. QED  BY <1>6, <4>1
    <3>. QED  BY <3>1, UpsertEffect
  <2>3. \A r : ~Writes(c, x, r)'
    BY <1>3, <1>6 DEF Writes
  <2>. QED  BY <1>2, <1>4, <1>5, <2>1, <2>2, <2>3, FileStays
<1>7. CASE \E t \in todo : t[1] = x
  <2>1. \A t \in todo : t[1] = x => t[2] = item'[x].plan
    <3>1. SUFFICES ASSUME NEW f \in call[c].found, RuntimeId[f.page] = x
                   PROVE  f.plan = item'[x].plan
      BY <1>1
    <3>2. PICK parent : parent = ParentAmong(call[c].found, f.page)
      OBVIOUS
    <3>3. item'[x] = [known |-> TRUE, plan |-> f.plan, needed |-> f.needed, link |-> f.page, parent |-> parent]
      BY <3>1, <3>2, UpsertEffect
    <3>. QED  BY <3>3
  <2>2. PICK t \in todo : t[1] = x
    BY <1>7
  <2>3. FileWritesOf(c, x) \ {t[2]} = {}
    BY <1>2, <2>2
  <2>4. \A d \in Caller \ {c} : \A r : Writes(d, x, r) => r = item'[x].plan
    BY <2>1, <2>2, <2>3, FileWritesAre
  <2>5. \A r : Writes(c, x, r)' => r = item'[x].plan
    BY <1>3, <2>1 DEF Writes
  <2>6. FileCurrent(x)'
    BY <1>4, <2>4, <2>5 DEF FileCurrent
  <2>7. OnDisk(x)'
    <3>1. PICK r : r = t[2]
      OBVIOUS
    <3>2. Writes(c, x, r)'
      BY <1>3, <2>2, <3>1 DEF Writes
    <3>. QED  BY <3>2 DEF OnDisk
  <2>. QED  BY <2>6, <2>7
<1>. QED  BY <1>6, <1>7

LEMMA MirrorFiles ==
  ASSUME TypeOK, NEW c \in Caller, Mirror(c),
         NEW x \in Item, FileCurrent(x), OnDisk(x)
  PROVE  FileCurrent(x)' /\ OnDisk(x)'
<1>1. item' = item
  BY DEF Mirror, records
<1>2. /\ call[c].stage = "mirroring" /\ call[c].todo \subseteq Item \X Nat
      /\ \A d \in Caller \ {c} : call'[d] = call[d]
  BY MirrorEffect
<1>3. \A d \in Caller \ {c} : \A r : Writes(d, x, r)' <=> Writes(d, x, r)
  BY <1>2 DEF Writes
<1>4. CASE (\A t \in call[c].todo : ~IsReady(t)) /\ call'[c] = Idle /\ mirror' = mirror
  <2>1. \A r : ~Writes(c, x, r)'
    BY <1>4 DEF Writes, Idle
  <2>2. FileCurrent(x)'
    BY <1>1, <1>3, <2>1 DEF FileCurrent
  <2>3. CASE \A r : ~Writes(c, x, r)
    BY <1>1, <1>3, <1>4, <2>1, <2>3, FileStays
  <2>4. CASE \E r : Writes(c, x, r)
    <3>1. PICK t \in call[c].todo : t[1] = x /\ Writes(c, x, t[2])
      BY <2>4 DEF Writes
    <3>2. t[2] = item[x].plan
      BY <3>1 DEF FileCurrent
    <3>3. ~(Kind[x] = 3 /\ item[x].plan \in ReadyPlans)
      BY <1>4, <3>1, <3>2 DEF IsReady
    <3>. QED  BY <1>1, <2>2, <3>3 DEF OnDisk
  <2>. QED  BY <2>3, <2>4
<1>5. ASSUME NEW t \in call[c].todo, t[1] \in Item,
             call'[c].stage = "mirroring" /\ call'[c].todo = call[c].todo \ {t},
             mirror' = [mirror EXCEPT ![t[1]] = t[2]]
      PROVE  FileCurrent(x)' /\ OnDisk(x)'
  <2>1. \A r : Writes(c, x, r)' => Writes(c, x, r)
    BY <1>2, <1>5 DEF Writes
  <2>2. FileCurrent(x)'
    BY <1>1, <1>3, <2>1 DEF FileCurrent
  <2>3. CASE t[1] = x
    <3>1. Writes(c, x, t[2])
      BY <1>2, <2>3 DEF Writes
    <3>2. t[2] = item[x].plan
      BY <3>1 DEF FileCurrent
    <3>3. mirror'[x] = item'[x].plan
      BY <1>1, <1>5, <2>3, <3>2 DEF TypeOK
    <3>. QED  BY <2>2, <3>3 DEF OnDisk
  <2>4. CASE t[1] # x
    <3>1. \A r : Writes(c, x, r) => Writes(c, x, r)'
      BY <1>2, <1>5, <2>4 DEF Writes
    <3>2. mirror'[x] = mirror[x]
      BY <1>5, <2>4 DEF TypeOK
    <3>. QED  BY <1>1, <1>3, <2>1, <3>1, <3>2, FileStays
  <2>. QED  BY <2>3, <2>4
<1>. QED  BY <1>4, <1>5, MirrorEffect

\* Files are written with the revisions of the records.
LEMMA StepFiles ==
  ASSUME TypeOK, PullsAreWhole, LinksAreTargets, [Next]_vars,
         FileWritesAreCurrent, ReadyStoriesAreOnDisk
  PROVE  FileWritesAreCurrent' /\ ReadyStoriesAreOnDisk'
<1>. SUFFICES ASSUME NEW x \in Item, x \notin unmirrored' PROVE FileCurrent(x)' /\ OnDisk(x)'
  <2>1. FileWritesAreCurrent' <=> AllFilesCurrent'
    BY FilesSplit, PTL
  <2>2. ReadyStoriesAreOnDisk' <=> AllOnDisk'
    BY DiskSplit, PTL
  <2>. QED  BY <2>1, <2>2 DEF AllFilesCurrent, AllOnDisk
<1>1. x \notin unmirrored => FileCurrent(x) /\ OnDisk(x)
  BY FilesSplit, DiskSplit DEF AllFilesCurrent, AllOnDisk
<1>2. CASE UNCHANGED vars
  BY <1>1, <1>2, FileStays DEF vars, Writes
<1>3. ASSUME NEW q \in Page, Editing(q) PROVE FileCurrent(x)' /\ OnDisk(x)'
  <2>1. item' = item /\ mirror' = mirror /\ call' = call /\ x \notin unmirrored
    BY <1>3 DEF Editing, CreatePage, EditPage, records, excuses
  <2>. QED  BY <1>1, <2>1, FileStays DEF Writes
<1>4. ASSUME NEW c \in Caller, PushSide(c) PROVE FileCurrent(x)' /\ OnDisk(x)'
  <2>1. x \notin unmirrored /\ item'[x] = item[x]
    <3>1. CASE BootstrapFlow(c)
      BY <3>1, BootstrapEffect
    <3>2. CASE ~BootstrapFlow(c)
      <4>1. CASE Recording(c)
        BY <4>1, RecordingEffect DEF excuses
      <4>2. CASE Reading(c)
        BY <4>2, ReadingEffect
      <4>3. CASE StoreFails(c) \/ Resolve(c) \/ Update(c) \/ PushFails(c)
        BY <4>3 DEF StoreFails, Resolve, Update, PushFails, records
      <4>4. CASE SeedNext(c)
        BY <4>4, SeedEffect DEF excuses
      <4>. QED  BY <1>4, <3>2, <4>1, <4>2, <4>3, <4>4 DEF PushSide
    <3>. QED  BY <3>1, <3>2
  <2>2. \A d \in Caller : \A r : Writes(d, x, r)' <=> Writes(d, x, r)
    BY <1>4, PushSideEffect DEF Writes
  <2>3. mirror' = mirror
    BY <1>4, PushSideEffect
  <2>. QED  BY <1>1, <2>1, <2>2, <2>3, FileStays
<1>5. ASSUME NEW c \in Caller, StartPull(c) PROVE FileCurrent(x)' /\ OnDisk(x)'
  <2>1. /\ call[c] = Idle /\ call'[c].stage = "pulling"
        /\ \A d \in Caller \ {c} : call'[d] = call[d]
        /\ mirror' = mirror /\ item' = item /\ unmirrored' = unmirrored
    BY <1>5, StartPullEffect DEF StartPull, Request, records, excuses
  <2>2. \A d \in Caller : \A r : Writes(d, x, r)' <=> Writes(d, x, r)
    BY <2>1 DEF Writes, Idle
  <2>. QED  BY <1>1, <2>1, <2>2, FileStays
<1>6. ASSUME NEW c \in Caller, Query(c) PROVE FileCurrent(x)' /\ OnDisk(x)'
  <2>1. /\ call[c].stage = "pulling" /\ mirror' = mirror /\ item' = item
        /\ unmirrored' = unmirrored
    BY <1>6 DEF Query, records
  <2>2. call'[c].stage = "pulling" /\ \A d \in Caller \ {c} : call'[d] = call[d]
    BY <1>6, QueryEffect
  <2>3. \A d \in Caller : \A r : Writes(d, x, r)' <=> Writes(d, x, r)
    BY <2>1, <2>2 DEF Writes
  <2>. QED  BY <1>1, <2>1, <2>3, FileStays
<1>7. ASSUME NEW c \in Caller, Upsert(c) PROVE FileCurrent(x)' /\ OnDisk(x)'
  BY <1>1, <1>7, UpsertFiles
<1>8. ASSUME NEW c \in Caller, Mirror(c) PROVE FileCurrent(x)' /\ OnDisk(x)'
  <2>1. unmirrored' = unmirrored
    BY <1>8 DEF Mirror, excuses
  <2>. QED  BY <1>1, <1>8, <2>1, MirrorFiles
<1>9. ASSUME NEW c \in Caller, PullFails(c) PROVE FileCurrent(x)' /\ OnDisk(x)'
  <2>1. /\ mirror' = mirror /\ item' = item /\ x \notin unmirrored
        /\ call'[c] = Idle /\ \A d \in Caller \ {c} : call'[d] = call[d]
    BY <1>9 DEF PullFails, records, TypeOK
  <2>2. \A r : ~Writes(c, x, r)
    BY <1>9 DEF PullFails, Writes
  <2>3. \A d \in Caller : \A r : Writes(d, x, r)' <=> Writes(d, x, r)
    BY <2>1, <2>2 DEF Writes, Idle
  <2>. QED  BY <1>1, <2>1, <2>3, FileStays
<1>10. CASE \E y \in Item : Responding(y)
  <2>1. item' = item /\ mirror' = mirror /\ call' = call /\ unmirrored' = unmirrored
    BY <1>10, RespondEffect
  <2>. QED  BY <1>1, <2>1, FileStays DEF Writes
<1>. QED  BY <1>2, <1>3, <1>4, <1>5, <1>6, <1>7, <1>8, <1>9, <1>10, Steps

-----------------------------------------------------------------------------
(* Decisions. *)

\* The push of d still has to make the write w, which is about x.
Pending(d, x, w) ==
  call[d].stage = "pushing" /\ \E i \in DOMAIN call[d].todo : call[d].todo[i] = w /\ w.item = x

LEMMA WritesForAre ==
  \A c, x, w : w \in WritesFor(c, x) <=> \E d \in Caller \ {c} : Pending(d, x, w)
BY DEF WritesFor, Pending

\* The write or page r has the decisions about x.
Agrees(r, x) == r.approval = LatestApproval(x) /\ r.verdict = LatestVerdict(x)
Shared(x, p) == \E y \in Item \ {x} : item[y].known /\ IsTarget(y, p)
Shown(x) == \E p \in Page : IsTarget(x, p) /\ (Agrees(page[p], x) \/ Shared(x, p))
NonePending(x) == \A d \in Caller : \A w : ~Pending(d, x, w)

\* What the invariant says of an item that is not contested.
UnderWay(x) ==
  /\ Selected(x)
  /\ \/ BeingStored(x)
     \/ /\ \A d \in Caller : \A w : Pending(d, x, w) => Agrees(w, x)
        /\ NonePending(x) => Shown(x)
AllUnderWay == \A x \in Item \ contested : UnderWay(x)

LEMMA UnderWaySplit == DecisionsAreUnderWay <=> AllUnderWay
<1>1. \A r, x : SameDecisions(r, WriteOf(x)) <=> Agrees(r, x)
  BY DEF SameDecisions, WriteOf, Agrees
<1>2. \A x : AreShown(x) <=> Shown(x)
  BY <1>1 DEF AreShown, Shown, Shared
<1>3. ASSUME NEW x
      PROVE  /\ WritesFor(None, x) = {} <=> NonePending(x)
             /\ \A w : w \in WritesFor(None, x) <=> \E d \in Caller : Pending(d, x, w)
  <2>1. \A d \in Caller : d # None
    BY ConstantsAssumption
  <2>. QED  BY <2>1, WritesForAre DEF NonePending
<1>4. \A x : /\ Selected(x)
             /\ \/ BeingStored(x)
                \/ /\ \A w \in WritesFor(None, x) : SameDecisions(w, WriteOf(x))
                   /\ WritesFor(None, x) = {} => AreShown(x)
             <=> UnderWay(x)
  BY <1>1, <1>2, <1>3 DEF UnderWay
<1>. QED  BY <1>4 DEF DecisionsAreUnderWay, AllUnderWay

\* An item has one page that stands for it.
LEMMA OneTarget ==
  ASSUME NEW x, NEW p \in Page, NEW q \in Page, IsTarget(x, p), IsTarget(x, q)
  PROVE  p = q
BY ConstantsAssumption, RuntimeIdAssumption DEF IsTarget

LEMMA TargetsOfRecords ==
  ASSUME TypeOK, LinksAreTargets, NEW x \in Item, item[x].known, NEW p \in Page
  PROVE  p \in TargetOf(x) <=> IsTarget(x, p)
<1>1. Linked(x) /\ item[x].link \in Page \cup {None}
  BY LinksSplit DEF TypeOK, ItemState
<1>2. CASE item[x].link # None
  BY <1>1, <1>2, OneTarget DEF Linked, TargetOf
<1>3. CASE item[x].link = None
  <2>1. p \in TargetOf(x) <=> page[p].there /\ RuntimeId[p] = x
    BY <1>3 DEF TargetOf, Named
  <2>2. ~ (x \in Seeded /\ SeedPage[x] = p)
    BY <1>1, <1>3, ConstantsAssumption DEF Linked
  <2>. QED  BY <2>1, <2>2 DEF IsTarget
<1>. QED  BY <1>2, <1>3

\* The safety property, from the invariant.
LEMMA DecisionsShown == TypeOK /\ LinksAreTargets /\ DecisionsAreUnderWay => PagesShowDecisions
<1>. SUFFICES ASSUME TypeOK, LinksAreTargets, DecisionsAreUnderWay,
                     NEW x \in Item \ contested, NEW p \in TargetOf(x),
                     Selected(x), WritesFor(None, x) = {},
                     \A c \in Caller : call[c].stage = "storing" => x \notin call[c].scope,
                     \A y \in Item \ {x} : item[y].known => p \notin TargetOf(y)
              PROVE  SameDecisions(page[p], WriteOf(x))
  BY DEF PagesShowDecisions
<1>1. AreShown(x)
  BY DEF DecisionsAreUnderWay, BeingStored
<1>2. p \in Page /\ IsTarget(x, p)
  <2>1. p \in Page
    BY DEF TargetOf, Named, TypeOK, ItemState
  <2>2. item[x].known
    BY DEF Selected
  <2>. QED  BY <2>1, <2>2, TargetsOfRecords
<1>3. PICK q \in Page : /\ IsTarget(x, q)
                        /\ \/ SameDecisions(page[q], WriteOf(x))
                           \/ \E y \in Item \ {x} : item[y].known /\ IsTarget(y, q)
  BY <1>1 DEF AreShown
<1>4. q = p
  BY <1>2, <1>3, OneTarget
<1>5. \A y \in Item \ {x} : ~ (item[y].known /\ IsTarget(y, p))
  BY <1>2, TargetsOfRecords
<1>. QED  BY <1>3, <1>4, <1>5

\* A step that leaves the decisions about x, or their way to Notion, alone.
LEMMA SharedStays ==
  ASSUME TypeOK, PullsAreWhole, LinksAreTargets, [Next]_vars, NEW x, NEW p \in Page, Shared(x, p)
  PROVE  Shared(x, p)'
<1>1. PICK y \in Item \ {x} : item[y].known /\ IsTarget(y, p)
  BY DEF Shared
<1>2. item'[y].known /\ IsTarget(y, p)'
  BY <1>1, StepLinked, TargetStays
<1>. QED  BY <1>1, <1>2 DEF Shared

LEMMA UnderWayStays ==
  ASSUME TypeOK, PullsAreWhole, LinksAreTargets, [Next]_vars,
         NEW x \in Item, UnderWay(x),
         LatestApproval(x)' = LatestApproval(x), LatestVerdict(x)' = LatestVerdict(x),
         BeingStored(x) => BeingStored(x)',
         \A d \in Caller : \A w : Pending(d, x, w)' =>
            \E v : Pending(d, x, v) /\ v.approval = w.approval /\ v.verdict = w.verdict,
         NonePending(x)' => NonePending(x),
         \A p \in Page : \/ /\ page'[p].approval = page[p].approval
                            /\ page'[p].verdict = page[p].verdict
                         \/ Shared(x, p)
  PROVE  UnderWay(x)'
<1>1. Selected(x)'
  BY StepLinked DEF UnderWay, Selected
<1>2. CASE BeingStored(x)
  BY <1>1, <1>2 DEF UnderWay
<1>3. CASE ~BeingStored(x)
  <2>1. \A d \in Caller : \A w : Pending(d, x, w)' => Agrees(w, x)'
    BY <1>3 DEF UnderWay, Agrees
  <2>2. ASSUME NonePending(x)' PROVE Shown(x)'
    <3>1. Shown(x)
      BY <1>3, <2>2 DEF UnderWay
    <3>2. PICK p \in Page : IsTarget(x, p) /\ (Agrees(page[p], x) \/ Shared(x, p))
      BY <3>1 DEF Shown
    <3>3. IsTarget(x, p)'
      BY <3>2, TargetStays
    <3>4. CASE Shared(x, p)
      BY <3>3, <3>4, SharedStays DEF Shown
    <3>5. CASE ~Shared(x, p)
      <4>1. Agrees(page[p], x)'
        BY <3>2, <3>5 DEF Agrees
      <4>. QED  BY <3>3, <4>1 DEF Shown
    <3>. QED  BY <3>4, <3>5
  <2>. QED  BY <1>1, <2>1, <2>2 DEF UnderWay
<1>. QED  BY <1>2, <1>3

\* The verdict of an item is that of its records.
LEMMA VerdictStays ==
  ASSUME NEW x, item' = item, verdict' = verdict, review' = review
  PROVE  LatestVerdict(x)' = LatestVerdict(x)
BY DEF LatestVerdict, Needed

\* Verdicts that change without a push are contested.
LEMMA ContestedVerdicts ==
  ASSUME NEW x \in Item, contested' = contested \cup VerdictChanges, x \notin contested'
  PROVE  x \notin contested /\ LatestVerdict(x)' = LatestVerdict(x)
BY DEF VerdictChanges

\* Steps that take no decision, start or end no push and change no decision of
\* a page.
LEMMA QuietStep ==
  ASSUME TypeOK, PullsAreWhole, LinksAreTargets, [Next]_vars,
         NEW x \in Item, UnderWay(x),
         approvals' = approvals, LatestVerdict(x)' = LatestVerdict(x),
         \A d \in Caller : \/ call'[d] = call[d]
                           \/ /\ call[d].stage \notin {"storing", "pushing"}
                              /\ call'[d].stage \notin {"storing", "pushing"}
                           \/ call[d].stage = "storing" /\ x \notin call[d].scope
                              /\ call'[d].stage \notin {"storing", "pushing"},
         \A p \in Page : /\ page'[p].approval = page[p].approval
                         /\ page'[p].verdict = page[p].verdict
  PROVE  UnderWay(x)'
<1>1. LatestApproval(x)' = LatestApproval(x)
  BY DEF LatestApproval
<1>2. BeingStored(x) => BeingStored(x)'
  BY DEF BeingStored
<1>3. \A d \in Caller : \A w : Pending(d, x, w)' <=> Pending(d, x, w)
  BY DEF Pending
<1>4. NonePending(x)' => NonePending(x)
  BY <1>3 DEF NonePending
<1>. QED  BY <1>1, <1>2, <1>3, <1>4, UnderWayStays

\* A decision is about one item.
LEMMA RecordingDecides ==
  ASSUME TypeOK, NEW c \in Caller, Recording(c)
  PROVE  \E y \in Item :
           /\ call'[c] = [stage |-> "storing", scope |-> {y}, seeds |-> <<>>]
           /\ \A x \in Item \ {y} : /\ LatestApproval(x)' = LatestApproval(x)
                                    /\ LatestVerdict(x)' = LatestVerdict(x)
           /\ LatestApproval(y)' # "none" \/ LatestVerdict(y)' # "none"
<1>1. \A x : LatestApproval(x) = LatestIn(approvals, x)
  BY LatestNow
<1>2. \A x : LatestApproval(x)' = LatestIn(approvals', x)
  BY DEF LatestApproval, LatestIn, About
<1>3. approvals \in Seq(Approval)
  BY LatestNow
<1>4. ASSUME NEW x \in Item, RequestApproval(c, x)
      PROVE  /\ call'[c] = [stage |-> "storing", scope |-> {x}, seeds |-> <<>>]
             /\ \A y \in Item \ {x} : LatestApproval(y)' = LatestApproval(y)
             /\ LatestApproval(x)' # "none"
             /\ UNCHANGED <<item, verdict, review>>
  <2>1. /\ call'[c] = [stage |-> "storing", scope |-> {x}, seeds |-> <<>>]
        /\ UNCHANGED <<item, verdict, review>>
    BY <1>4 DEF RequestApproval, Store, Request, TypeOK
  <2>2. PICK a : a = [item |-> x, status |-> "pending"]
    OBVIOUS
  <2>3. a \in Approval /\ a.item = x
    BY <2>2 DEF Approval, ApprovalStatus
  <2>4. approvals' = Append(approvals, a)
    BY <1>4, <2>2 DEF RequestApproval
  <2>5. /\ approvals' \in Seq(Approval)
        /\ About(approvals', x) # {}
        /\ \A y \in Item \ {x} : LatestIn(approvals', y) = LatestIn(approvals, y)
    BY <1>3, <2>3, <2>4, LatestAfterAppend
  <2>6. LatestIn(approvals', x) # "none"
    BY <2>5, LatestType
  <2>. QED  BY <1>1, <1>2, <2>1, <2>5, <2>6
<1>5. ASSUME NEW i \in DOMAIN approvals, NEW d \in Decision, DecideApproval(c, i, d)
      PROVE  \E y \in Item :
               /\ call'[c] = [stage |-> "storing", scope |-> {y}, seeds |-> <<>>]
               /\ \A x \in Item \ {y} : LatestApproval(x)' = LatestApproval(x)
               /\ LatestApproval(y)' # "none"
               /\ UNCHANGED <<item, verdict, review>>
  <2>1. PICK a : a = [approvals[i] EXCEPT !.status = d]
    OBVIOUS
  <2>2. a \in Approval /\ a.item = approvals[i].item /\ a.item \in Item
    <3>1. approvals[i] \in Approval
      BY LatestNow
    <3>. QED  BY <2>1, <3>1 DEF Approval, ApprovalStatus
  <2>3. /\ call'[c] = [stage |-> "storing", scope |-> {a.item}, seeds |-> <<>>]
        /\ approvals' = Append(RemoveAt(approvals, i), a)
        /\ UNCHANGED <<item, verdict, review>>
    BY <1>5, <2>1 DEF DecideApproval, Store, Request, TypeOK
  <2>4. PICK s : s = RemoveAt(approvals, i)
    OBVIOUS
  <2>5. /\ s \in Seq(Approval)
        /\ \A x \in Item \ {a.item} : LatestIn(s, x) = LatestIn(approvals, x)
    BY <1>3, <2>2, <2>4, LatestAfterRemove
  <2>6. /\ approvals' \in Seq(Approval)
        /\ About(approvals', a.item) # {}
        /\ \A x \in Item \ {a.item} : LatestIn(approvals', x) = LatestIn(s, x)
    BY <2>2, <2>3, <2>4, <2>5, LatestAfterAppend
  <2>7. LatestIn(approvals', a.item) # "none"
    BY <2>6, LatestType
  <2>. QED  BY <1>1, <1>2, <2>2, <2>3, <2>5, <2>6, <2>7
<1>6. ASSUME NEW x \in Item, NEW v \in Verdict, RecordValidation(c, x, v)
      PROVE  /\ call'[c] = [stage |-> "storing", scope |-> {x}, seeds |-> <<>>]
             /\ approvals' = approvals /\ item' = item /\ review' = review
             /\ \A y \in Item \ {x} : verdict'[y] = verdict[y]
             /\ verdict'[x] # "none"
  BY <1>6, ConstantsAssumption DEF RecordValidation, Store, Request, TypeOK
<1>7. UNCHANGED <<item, verdict, review>> => \A x \in Item : LatestVerdict(x)' = LatestVerdict(x)
  BY VerdictStays
<1>8. approvals' = approvals => \A x \in Item : LatestApproval(x)' = LatestApproval(x)
  BY DEF LatestApproval
<1>9. CASE \E x \in Item : RequestApproval(c, x)
  BY <1>4, <1>7, <1>9
<1>10. CASE \E i \in DOMAIN approvals, d \in Decision : DecideApproval(c, i, d)
  BY <1>5, <1>7, <1>10
<1>11. CASE \E x \in Item, v \in Verdict : RecordValidation(c, x, v)
  <2>1. PICK x \in Item, v \in Verdict : RecordValidation(c, x, v)
    BY <1>11
  <2>2. \A y \in Item \ {x} : LatestVerdict(y)' = LatestVerdict(y)
    BY <1>6, <2>1 DEF LatestVerdict, Needed
  <2>3. LatestVerdict(x)' # "none"
    BY <1>6, <2>1 DEF LatestVerdict
  <2>. QED  BY <1>6, <1>8, <2>1, <2>2, <2>3
<1>. QED  BY <1>9, <1>10, <1>11 DEF Recording

LEMMA RecordingUnderWay ==
  ASSUME TypeOK, PullsAreWhole, LinksAreTargets, [Next]_vars,
         NEW c \in Caller, Recording(c), NEW x \in Item, UnderWay(x)
  PROVE  UnderWay(x)'
<1>1. PICK y \in Item :
         /\ call'[c] = [stage |-> "storing", scope |-> {y}, seeds |-> <<>>]
         /\ \A z \in Item \ {y} : /\ LatestApproval(z)' = LatestApproval(z)
                                  /\ LatestVerdict(z)' = LatestVerdict(z)
         /\ LatestApproval(y)' # "none" \/ LatestVerdict(y)' # "none"
  BY RecordingDecides
<1>2. /\ call[c] = Idle /\ \A d \in Caller \ {c} : call'[d] = call[d]
      /\ page' = page /\ item' = item
  BY RecordingEffect
<1>3. CASE x = y
  <2>1. BeingStored(x)'
    BY <1>1, <1>3 DEF BeingStored
  <2>2. Selected(x)'
    BY <1>1, <1>2, <1>3 DEF UnderWay, Selected
  <2>. QED  BY <2>1, <2>2 DEF UnderWay
<1>4. CASE x # y
  <2>1. LatestApproval(x)' = LatestApproval(x) /\ LatestVerdict(x)' = LatestVerdict(x)
    BY <1>1, <1>4
  <2>2. BeingStored(x) => BeingStored(x)'
    BY <1>2 DEF BeingStored, Idle
  <2>3. \A d \in Caller : \A w : Pending(d, x, w)' <=> Pending(d, x, w)
    BY <1>1, <1>2 DEF Pending, Idle
  <2>4. NonePending(x)' => NonePending(x)
    BY <2>3 DEF NonePending
  <2>. QED  BY <1>2, <2>1, <2>2, <2>3, <2>4, UnderWayStays
<1>. QED  BY <1>3, <1>4

\* What a bootstrap seeds takes no decision back, and will be read.
LEMMA SeedUnderWay ==
  ASSUME TypeOK, NEW c \in Caller, SeedNext(c), NEW x \in Item, UnderWay(x)
  PROVE  UnderWay(x)'
<1>1. /\ call'[c].stage = "storing" /\ call'[c].scope = Item /\ item' = item
  BY SeedEffect
<1>2. PICK y \in Item, a \in Approval : Added(a, y)
  BY SeedEffect
<1>3. LatestApproval(x) # "none" => LatestApproval(x)' # "none"
  <2>1. approvals \in Seq(Approval) /\ LatestApproval(x) = LatestIn(approvals, x)
    BY LatestNow
  <2>2. LatestApproval(x)' = LatestIn(approvals', x)
    BY DEF LatestApproval, LatestIn, About
  <2>3. CASE approvals' = approvals
    BY <2>1, <2>2, <2>3
  <2>4. CASE a \in Approval /\ approvals' = Append(approvals, a)
    <3>1. /\ approvals' \in Seq(Approval)
          /\ About(approvals, x) # {} => About(approvals', x) # {}
      BY <2>1, <2>4, LatestAfterAppend
    <3>. QED  BY <2>1, <2>2, <3>1, LatestType
  <2>. QED  BY <1>2, <2>3, <2>4 DEF Added
<1>4. LatestVerdict(x) # "none" => LatestVerdict(x)' # "none"
  <2>1. verdict[x] # "none" => verdict'[x] # "none"
    BY <1>2, ConstantsAssumption DEF Added, TypeOK
  <2>2. review[x] => review'[x]
    BY <1>2 DEF Added, TypeOK
  <2>. QED  BY <1>1, <2>1, <2>2 DEF LatestVerdict, Needed
<1>5. Selected(x)'
  BY <1>1, <1>3, <1>4 DEF UnderWay, Selected
<1>6. BeingStored(x)'
  BY <1>1 DEF BeingStored
<1>. QED  BY <1>5, <1>6 DEF UnderWay

\* A read puts the decisions of all chosen items on their way.
LEMMA ReadUnderWay ==
  ASSUME TypeOK, PullsAreWhole, LinksAreTargets, [Next]_vars,
         NEW c \in Caller, NEW scope \in SUBSET Item, Read(c, scope),
         call[c].stage \in {"idle", "storing"},
         call[c].stage = "storing" => call[c].scope = scope,
         UNCHANGED <<page, item, approvals, verdict, review>>,
         NEW x \in Item, x \notin contested', x \notin contested => UnderWay(x)
  PROVE  UnderWay(x)'
<1>1. PICK chosen \in SUBSET Item, rivals \in SUBSET Item : ReadBy(c, scope, chosen, rivals)
  BY ReadEffect
<1>2. /\ LatestApproval(x)' = LatestApproval(x) /\ LatestVerdict(x)' = LatestVerdict(x)
      /\ Selected(x)' <=> Selected(x)
  BY DEF LatestApproval, LatestVerdict, Needed, Selected
<1>3. \A d \in Caller \ {c} : call'[d] = call[d]
  BY <1>1 DEF TypeOK, ReadBy
<1>4. \A d \in Caller \ {c} : \A w : Pending(d, x, w)' <=> Pending(d, x, w)
  BY <1>3 DEF Pending
<1>5. \A w : ~Pending(c, x, w)
  BY DEF Pending
<1>6. ASSUME NEW w, Pending(c, x, w)' PROVE x \in chosen /\ w = WriteOf(x)
  <2>1. call' # [call EXCEPT ![c] = Idle]
    BY <1>6 DEF Pending, Idle, TypeOK
  <2>2. PICK todo \in Seq(Write) :
           /\ call' = [call EXCEPT ![c] = [stage |-> "pushing", todo |-> todo]]
           /\ \A i \in DOMAIN todo : \E y \in chosen : todo[i] = WriteOf(y)
    BY <1>1, <2>1 DEF ReadBy
  <2>3. call'[c].todo = todo
    BY <2>2 DEF TypeOK
  <2>4. PICK i \in DOMAIN todo : todo[i] = w /\ w.item = x
    BY <1>6, <2>3 DEF Pending
  <2>5. PICK y \in chosen : w = WriteOf(y)
    BY <2>2, <2>4
  <2>. QED  BY <2>4, <2>5, WriteTypes
<1>7. CASE x \in chosen
  <2>1. Selected(x)'
    BY <1>1, <1>2, <1>7 DEF ReadBy
  <2>2. \A w \in WritesFor(c, x) : Agrees(w, x)
    <3>1. \A w \in WritesFor(c, x) : SameDecisions(w, WriteOf(x))
      BY <1>1, <1>7 DEF ReadBy
    <3>. QED  BY <3>1, WriteTypes DEF SameDecisions, Agrees
  <2>3. \A d \in Caller \ {c} : \A w : Pending(d, x, w)' => Agrees(w, x)
    BY <1>4, <2>2, WritesForAre
  <2>4. Agrees(WriteOf(x), x)
    BY WriteTypes DEF Agrees
  <2>5. \A d \in Caller : \A w : Pending(d, x, w)' => Agrees(w, x)'
    BY <1>2, <1>6, <2>3, <2>4 DEF Agrees
  <2>6. Pending(c, x, WriteOf(x))'
    <3>1. PICK w : w = WriteOf(x)
      OBVIOUS
    <3>2. PICK todo \in Seq(Write) :
             /\ call' = [call EXCEPT ![c] = [stage |-> "pushing", todo |-> todo]]
             /\ \A y \in chosen : \E i \in DOMAIN todo : todo[i] = WriteOf(y)
      BY <1>1, <1>7 DEF ReadBy
    <3>3. call'[c].stage = "pushing" /\ call'[c].todo = todo
      BY <3>2 DEF TypeOK
    <3>4. (\E i \in DOMAIN todo : todo[i] = w) /\ w.item = x
      BY <1>7, <3>1, <3>2, WriteTypes
    <3>5. Pending(c, x, w)'
      BY <3>3, <3>4 DEF Pending
    <3>6. WriteOf(x)' = w
      BY <1>2, <3>1 DEF WriteOf, Needed
    <3>. QED  BY <3>5, <3>6
  <2>7. ~NonePending(x)'
    BY <2>6 DEF NonePending
  <2>. QED  BY <2>1, <2>5, <2>7 DEF UnderWay
<1>8. CASE x \notin chosen
  <2>1. UnderWay(x) /\ x \notin scope
    BY <1>1, <1>8 DEF UnderWay, ReadBy
  <2>2. BeingStored(x) => BeingStored(x)'
    BY <1>3, <2>1 DEF BeingStored
  <2>3. \A d \in Caller : \A w : Pending(d, x, w)' <=> Pending(d, x, w)
    BY <1>4, <1>5, <1>6, <1>8
  <2>4. NonePending(x)' => NonePending(x)
    BY <2>3 DEF NonePending
  <2>. QED  BY <1>2, <2>1, <2>2, <2>3, <2>4, UnderWayStays
<1>. QED  BY <1>7, <1>8

\* A write about one item changes the page of another only when they share it.
LEMMA WrittenPages ==
  ASSUME TypeOK, LinksAreTargets, NEW w \in Write, Aimed(w), w.link # None, Apply(w),
         NEW x \in Item, w.item # x
  PROVE  \A p \in Page : \/ /\ page'[p].approval = page[p].approval
                            /\ page'[p].verdict = page[p].verdict
                         \/ Shared(x, p)
<1>1. w.item \in Item \ {x} /\ item[w.item].known /\ IsTarget(w.item, w.link)
  BY DEF Aimed, Write
<1>2. Shared(x, w.link)
  BY <1>1 DEF Shared
<1>3. \A p \in Page \ {w.link} : page'[p] = page[p]
  BY ApplyEffect
<1>. QED  BY <1>2, <1>3

\* A push that fails is of no account to the items it was not about.
LEMMA PushFailsUnderWay ==
  ASSUME TypeOK, PullsAreWhole, LinksAreTargets, [Next]_vars,
         NEW c \in Caller, PushFails(c),
         NEW x \in Item, x \notin contested', x \notin contested => UnderWay(x)
  PROVE  UnderWay(x)'
<1>1. Underway(c)
  BY PushesGoOn DEF PushFails
<1>2. PICK todo \in Seq(Write) : todo = call[c].todo
  BY <1>1 DEF Underway
<1>3. /\ contested' = contested \cup {todo[i].item : i \in DOMAIN todo}
      /\ UNCHANGED <<item, approvals, verdict, review>>
      /\ call'[c] = Idle /\ \A d \in Caller \ {c} : call'[d] = call[d]
  BY <1>2 DEF PushFails, records, TypeOK
<1>4. UnderWay(x) /\ \A i \in DOMAIN todo : todo[i].item # x
  BY <1>3
<1>5. LatestApproval(x)' = LatestApproval(x) /\ LatestVerdict(x)' = LatestVerdict(x)
  BY <1>3, VerdictStays DEF LatestApproval
<1>6. BeingStored(x) => BeingStored(x)'
  BY <1>1, <1>3 DEF BeingStored, Underway
<1>7. \A d \in Caller : \A w : Pending(d, x, w)' <=> Pending(d, x, w)
  BY <1>2, <1>3, <1>4 DEF Pending, Idle
<1>8. NonePending(x)' => NonePending(x)
  BY <1>7 DEF NonePending
<1>9. \A p \in Page : \/ /\ page'[p].approval = page[p].approval
                         /\ page'[p].verdict = page[p].verdict
                      \/ Shared(x, p)
  <2>1. CASE page' = page
    BY <2>1
  <2>2. CASE Head(todo).link # None /\ Apply(Head(todo))
    <3>1. PICK w \in Write : w = Head(todo) /\ w = todo[1] /\ 1 \in DOMAIN todo
      BY <1>1, <1>2 DEF Underway
    <3>2. Aimed(w)
      BY <1>1, <1>2, <3>1, LinksSplit DEF AllAimed, Underway
    <3>3. w.link # None /\ Apply(w) /\ w.item # x
      BY <1>4, <2>2, <3>1
    <3>. QED  BY <3>2, <3>3, WrittenPages
  <2>. QED  BY <1>2, <2>1, <2>2 DEF PushFails
<1>. QED  BY <1>4, <1>5, <1>6, <1>7, <1>8, <1>9, UnderWayStays

\* What is left of a push after its first write.
LEMMA RestPending ==
  ASSUME NEW c, NEW x, Underway(c), call'[c] = Rest(call[c].todo)
  PROVE  /\ \A w : Pending(c, x, w)' => Pending(c, x, w)
         /\ call[c].todo[1].item # x => \A w : Pending(c, x, w) => Pending(c, x, w)'
<1>1. PICK todo \in Seq(Write) : todo = call[c].todo /\ todo # <<>>
  BY DEF Underway
<1>2. PICK rest : rest = Rest(todo)
  OBVIOUS
<1>3. /\ rest # Idle => rest = [stage |-> "pushing", todo |-> Tail(todo)] /\ Tail(todo) # <<>>
      /\ rest = Idle <=> Tail(todo) = <<>>
      /\ \A i \in DOMAIN Tail(todo) : i + 1 \in DOMAIN todo /\ Tail(todo)[i] = todo[i + 1]
      /\ \A i \in DOMAIN todo : i # 1 => /\ i - 1 \in DOMAIN Tail(todo)
                                         /\ Tail(todo)[i - 1] = todo[i]
  BY <1>1, <1>2, RestType
<1>4. call'[c] = rest /\ call[c].stage = "pushing"
  BY <1>1, <1>2 DEF Underway
<1>5. ASSUME NEW w, Pending(c, x, w)' PROVE Pending(c, x, w)
  <2>1. rest # Idle
    BY <1>4, <1>5 DEF Pending, Idle
  <2>2. call'[c].todo = Tail(todo)
    BY <1>3, <1>4, <2>1
  <2>3. PICK i \in DOMAIN Tail(todo) : Tail(todo)[i] = w /\ w.item = x
    BY <1>5, <2>2 DEF Pending
  <2>. QED  BY <1>1, <1>3, <1>4, <2>3 DEF Pending
<1>6. ASSUME todo[1].item # x, NEW w, Pending(c, x, w) PROVE Pending(c, x, w)'
  <2>1. PICK i \in DOMAIN todo : todo[i] = w /\ w.item = x
    BY <1>1, <1>6 DEF Pending
  <2>2. i - 1 \in DOMAIN Tail(todo) /\ Tail(todo)[i - 1] = w
    BY <1>3, <1>6, <2>1
  <2>3. Tail(todo) # <<>>
    BY <2>2
  <2>4. call'[c].stage = "pushing" /\ call'[c].todo = Tail(todo)
    BY <1>3, <1>4, <2>3
  <2>. QED  BY <2>1, <2>2, <2>4 DEF Pending
<1>. QED  BY <1>1, <1>5, <1>6

LEMMA UpdateUnderWay ==
  ASSUME TypeOK, PullsAreWhole, LinksAreTargets, [Next]_vars,
         NEW c \in Caller, Update(c), NEW x \in Item, UnderWay(x)
  PROVE  UnderWay(x)'
<1>1. Underway(c)
  BY PushesGoOn DEF Update
<1>2. PICK w \in Write : w = Head(call[c].todo) /\ w = call[c].todo[1]
  BY <1>1 DEF Underway
<1>3. /\ w.link # None /\ Apply(w)
      /\ UNCHANGED <<item, approvals, verdict, review>>
      /\ call'[c] = Rest(call[c].todo) /\ \A d \in Caller \ {c} : call'[d] = call[d]
  BY <1>2 DEF Update, records, TypeOK
<1>4. Aimed(w)
  BY <1>1, <1>2, LinksSplit DEF AllAimed, Underway
<1>5. LatestApproval(x)' = LatestApproval(x) /\ LatestVerdict(x)' = LatestVerdict(x)
  BY <1>3, VerdictStays DEF LatestApproval
<1>6. BeingStored(x) => BeingStored(x)'
  BY <1>1, <1>3 DEF BeingStored, Underway
<1>7. \A d \in Caller : \A v : Pending(d, x, v)' => Pending(d, x, v)
  <2>1. \A v : Pending(c, x, v)' => Pending(c, x, v)
    BY <1>1, <1>3, RestPending
  <2>2. \A d \in Caller \ {c} : \A v : Pending(d, x, v)' => Pending(d, x, v)
    BY <1>3 DEF Pending
  <2>. QED  BY <2>1, <2>2
<1>8. CASE w.item # x
  <2>1. \A v : Pending(c, x, v) => Pending(c, x, v)'
    BY <1>1, <1>2, <1>3, <1>8, RestPending
  <2>2. \A d \in Caller \ {c} : \A v : Pending(d, x, v) => Pending(d, x, v)'
    BY <1>3 DEF Pending
  <2>3. NonePending(x)' => NonePending(x)
    BY <2>1, <2>2 DEF NonePending
  <2>4. \A p \in Page : \/ /\ page'[p].approval = page[p].approval
                           /\ page'[p].verdict = page[p].verdict
                        \/ Shared(x, p)
    BY <1>3, <1>4, <1>8, WrittenPages
  <2>. QED  BY <1>5, <1>6, <1>7, <2>3, <2>4, UnderWayStays
<1>9. CASE w.item = x
  <2>1. Selected(x)'
    BY <1>3, <1>5 DEF UnderWay, Selected
  <2>2. CASE BeingStored(x)
    BY <1>6, <2>1, <2>2 DEF UnderWay
  <2>3. CASE ~BeingStored(x)
    <3>1. Pending(c, x, w)
      BY <1>1, <1>2, <1>9 DEF Pending, Underway
    <3>2. Agrees(w, x) /\ \A d \in Caller : \A v : Pending(d, x, v)' => Agrees(v, x)'
      BY <1>5, <1>7, <2>3, <3>1 DEF UnderWay, Agrees
    <3>3. PICK p \in Page : p = w.link
      BY <1>3, ApplyEffect
    <3>4. IsTarget(x, p)'
      BY <1>3, <1>4, <1>9, <3>3, TargetStays DEF Aimed
    <3>5. page'[p].approval = w.approval /\ page'[p].verdict = w.verdict
      <4>1. page[p] \in PageState
        BY DEF TypeOK
      <4>2. page'[p] = [page[p] EXCEPT !.plan = w.plan, !.needed = w.needed,
                                       !.approval = w.approval, !.verdict = w.verdict]
        BY <1>3, <3>3, ApplyEffect
      <4>. QED  BY <4>1, <4>2 DEF PageState
    <3>6. Agrees(page[p], x)'
      BY <1>5, <3>2, <3>5 DEF Agrees
    <3>7. Shown(x)'
      BY <3>4, <3>6 DEF Shown
    <3>. QED  BY <2>1, <3>2, <3>7 DEF UnderWay
  <2>. QED  BY <2>2, <2>3
<1>. QED  BY <1>8, <1>9

\* A page that was looked up changes nothing of what will be written.
LEMMA ResolveUnderWay ==
  ASSUME TypeOK, PullsAreWhole, LinksAreTargets, [Next]_vars,
         NEW c \in Caller, Resolve(c),
         NEW x \in Item, x \notin contested', x \notin contested => UnderWay(x)
  PROVE  UnderWay(x)'
<1>1. Underway(c) /\ UNCHANGED <<page, item, approvals, verdict, review>>
  BY PushesGoOn DEF Resolve, records
<1>2. LatestApproval(x)' = LatestApproval(x) /\ LatestVerdict(x)' = LatestVerdict(x)
  BY <1>1, VerdictStays DEF LatestApproval
<1>3. \A d \in Caller \ {c} : call'[d] = call[d]
  BY ResolveEffect
<1>4. BeingStored(x) => BeingStored(x)'
  BY <1>1, <1>3 DEF BeingStored, Underway
<1>5. \A d \in Caller \ {c} : \A w : Pending(d, x, w)' <=> Pending(d, x, w)
  BY <1>3 DEF Pending
<1>6. PICK todo : todo = call[c].todo
  OBVIOUS
<1>7. CASE call'[c] = Rest(todo) /\ contested' = contested \cup {todo[1].item}
  <2>1. \A w : Pending(c, x, w)' <=> Pending(c, x, w)
    BY <1>1, <1>6, <1>7, RestPending
  <2>2. NonePending(x)' => NonePending(x)
    BY <1>5, <2>1 DEF NonePending
  <2>. QED  BY <1>1, <1>2, <1>4, <1>5, <1>7, <2>1, <2>2, UnderWayStays
<1>8. ASSUME NEW p \in Page,
             /\ page[p].there /\ RuntimeId[p] = todo[1].item
             /\ call'[c].stage = "pushing" /\ call'[c].todo \in Seq(Write)
             /\ DOMAIN call'[c].todo = DOMAIN todo
             /\ call'[c].todo[1] = [todo[1] EXCEPT !.link = p]
             /\ \A i \in DOMAIN todo : i # 1 => call'[c].todo[i] = todo[i]
             /\ contested' = contested
      PROVE  UnderWay(x)'
  <2>1. /\ todo[1] \in Write /\ 1 \in DOMAIN todo /\ call[c].stage = "pushing"
        /\ todo \in Seq(Write)
    BY <1>1, <1>6 DEF Underway
  <2>2. PICK w : w = [todo[1] EXCEPT !.link = p]
    OBVIOUS
  <2>3. /\ w.item = todo[1].item /\ w.approval = todo[1].approval
        /\ w.verdict = todo[1].verdict
    BY <2>1, <2>2 DEF Write
  <2>4. PICK new : new = call'[c].todo
    OBVIOUS
  <2>5. /\ DOMAIN new = DOMAIN todo
        /\ \A i \in DOMAIN todo : /\ new[i].item = todo[i].item
                                  /\ new[i].approval = todo[i].approval
                                  /\ new[i].verdict = todo[i].verdict
    <3>1. DOMAIN new = DOMAIN todo /\ new[1] = w
          /\ \A i \in DOMAIN todo : i # 1 => new[i] = todo[i]
      BY <1>8, <2>2, <2>4
    <3>. QED  BY <2>3, <3>1
  <2>6. ASSUME NEW v, Pending(c, x, v)'
        PROVE  \E u : Pending(c, x, u) /\ u.approval = v.approval /\ u.verdict = v.verdict
    <3>1. PICK i \in DOMAIN new : new[i] = v /\ v.item = x
      BY <2>4, <2>6 DEF Pending
    <3>2. Pending(c, x, todo[i])
      BY <1>6, <2>1, <2>5, <3>1 DEF Pending
    <3>. QED  BY <2>5, <3>1, <3>2
  <2>7. ASSUME NonePending(x)', NEW v PROVE ~Pending(c, x, v)
    <3>. SUFFICES ASSUME Pending(c, x, v) PROVE FALSE
      OBVIOUS
    <3>1. PICK i \in DOMAIN todo : todo[i] = v /\ v.item = x
      BY <1>6 DEF Pending
    <3>2. PICK u : u = new[i]
      OBVIOUS
    <3>3. Pending(c, x, u)'
      BY <1>8, <2>4, <2>5, <3>1, <3>2 DEF Pending
    <3>. QED  BY <2>7, <3>3 DEF NonePending
  <2>8. NonePending(x)' => NonePending(x)
    BY <1>5, <2>7 DEF NonePending
  <2>. QED  BY <1>1, <1>2, <1>4, <1>5, <1>8, <2>6, <2>8, UnderWayStays
<1>. QED  BY <1>6, <1>7, <1>8, ResolveEffect

\* Decisions stay on their way, or shown.
LEMMA StepUnderWay ==
  ASSUME TypeOK, PullsAreWhole, LinksAreTargets, [Next]_vars, DecisionsAreUnderWay
  PROVE  DecisionsAreUnderWay'
<1>. SUFFICES ASSUME NEW x \in Item, x \notin contested' PROVE UnderWay(x)'
  <2>1. DecisionsAreUnderWay' <=> AllUnderWay'
    BY UnderWaySplit, PTL
  <2>. QED  BY <2>1 DEF AllUnderWay
<1>1. x \notin contested => UnderWay(x)
  BY UnderWaySplit DEF AllUnderWay
<1>2. CASE UNCHANGED vars
  BY <1>1, <1>2, VerdictStays, QuietStep DEF vars
<1>3. ASSUME NEW q \in Page, Editing(q) PROVE UnderWay(x)'
  <2>1. UNCHANGED <<item, approvals, verdict, review, call, contested>>
    BY <1>3 DEF Editing, CreatePage, EditPage, records, excuses
  <2>2. \A p \in Page : page'[p].approval = page[p].approval /\ page'[p].verdict = page[p].verdict
    <3>1. \A p \in Page : page[p] \in PageState
      BY DEF TypeOK
    <3>2. \A p \in Page \ {q} : page'[p] = page[p]
      BY <1>3 DEF Editing, CreatePage, EditPage, TypeOK
    <3>3. \/ page'[q] = [page[q] EXCEPT !.there = TRUE, !.plan = edits + 1]
          \/ \E need : page'[q] = [page[q] EXCEPT !.plan = edits + 1, !.needed = need]
      BY <1>3 DEF Editing, CreatePage, EditPage, TypeOK
    <3>. QED  BY <3>1, <3>2, <3>3 DEF PageState
  <2>. QED  BY <1>1, <2>1, <2>2, VerdictStays, QuietStep
<1>4. ASSUME NEW c \in Caller, Recording(c) PROVE UnderWay(x)'
  <2>1. contested' = contested
    BY <1>4, RecordingEffect DEF excuses
  <2>. QED  BY <1>1, <1>4, <2>1, RecordingUnderWay
<1>5. ASSUME NEW c \in Caller, BootstrapFlow(c) PROVE UnderWay(x)'
  <2>1. /\ contested' = contested \cup VerdictChanges /\ approvals' = approvals
        /\ call'[c] = [stage |-> "storing", scope |-> Item, seeds |-> Seeds]
    BY <1>5, BootstrapEffect
  <2>2. UnderWay(x) /\ LatestVerdict(x)' = LatestVerdict(x)
    BY <1>1, <2>1, ContestedVerdicts
  <2>3. Selected(x)'
    BY <2>1, <2>2, StepLinked DEF UnderWay, Selected, LatestApproval
  <2>4. BeingStored(x)'
    BY <2>1 DEF BeingStored
  <2>. QED  BY <2>3, <2>4 DEF UnderWay
<1>6. ASSUME NEW c \in Caller, StoreFails(c) PROVE UnderWay(x)'
  <2>1. /\ UNCHANGED <<page, item, approvals, verdict, review>>
        /\ contested' = contested \cup call[c].scope
        /\ call[c].stage = "storing" /\ call'[c] = Idle
        /\ \A d \in Caller \ {c} : call'[d] = call[d]
    BY <1>6 DEF StoreFails, records, TypeOK
  <2>2. call'[c].stage \notin {"storing", "pushing"}
    BY <2>1 DEF Idle
  <2>. QED  BY <1>1, <2>1, <2>2, VerdictStays, QuietStep
<1>7. ASSUME NEW c \in Caller, Reading(c) PROVE UnderWay(x)'
  <2>1. UNCHANGED <<page, item, approvals, verdict, review>>
    BY <1>7, ReadingEffect
  <2>2. CASE ReadAfterStore(c)
    <3>1. call[c].stage = "storing" /\ call[c].scope \in SUBSET Item /\ Read(c, call[c].scope)
      BY <2>2, CallShapes DEF ReadAfterStore
    <3>. QED  BY <1>1, <2>1, <3>1, ReadUnderWay
  <2>3. CASE SyncGovernance(c)
    <3>1. call[c].stage = "idle" /\ Read(c, Item)
      BY <2>3 DEF SyncGovernance, Idle
    <3>. QED  BY <1>1, <2>1, <3>1, ReadUnderWay
  <2>. QED  BY <1>7, <2>2, <2>3 DEF Reading
<1>8. ASSUME NEW c \in Caller, Resolve(c) PROVE UnderWay(x)'
  BY <1>1, <1>8, ResolveUnderWay
<1>9. ASSUME NEW c \in Caller, Update(c) PROVE UnderWay(x)'
  <2>1. contested' = contested
    BY <1>9 DEF Update
  <2>. QED  BY <1>1, <1>9, <2>1, UpdateUnderWay
<1>10. ASSUME NEW c \in Caller, PushFails(c) PROVE UnderWay(x)'
  BY <1>1, <1>10, PushFailsUnderWay
<1>11. ASSUME NEW c \in Caller,
              StartPull(c) \/ Query(c) \/ Upsert(c) \/ Mirror(c) \/ PullFails(c)
       PROVE  UnderWay(x)'
  <2>1. approvals' = approvals /\ page' = page
    BY <1>11 DEF StartPull, Query, Upsert, Mirror, PullFails, records
  <2>2. x \notin contested /\ LatestVerdict(x)' = LatestVerdict(x)
    <3>1. CASE Upsert(c)
      BY <3>1, ContestedVerdicts DEF Upsert
    <3>2. CASE ~Upsert(c)
      <4>1. UNCHANGED <<item, verdict, review, contested>>
        BY <1>11, <3>2 DEF StartPull, Query, Mirror, PullFails, records, excuses
      <4>. QED  BY <4>1, VerdictStays
    <3>. QED  BY <3>1, <3>2
  <2>3. \A d \in Caller \ {c} : call'[d] = call[d]
    <3>1. CASE Query(c)
      BY <3>1, QueryEffect
    <3>2. CASE Mirror(c)
      BY <3>2, MirrorEffect
    <3>3. CASE PullFails(c)
      BY <3>3 DEF PullFails, TypeOK
    <3>. QED  BY <1>11, <3>1, <3>2, <3>3, StartPullEffect, UpsertEffect
  <2>4. call[c].stage \notin {"storing", "pushing"} /\ call'[c].stage \notin {"storing", "pushing"}
    <3>1. CASE StartPull(c)
      BY <3>1, StartPullEffect DEF StartPull, Request, Idle
    <3>2. CASE Query(c)
      <4>1. call'[c].stage = "pulling"
        BY <3>2, QueryEffect
      <4>. QED  BY <3>2, <4>1 DEF Query
    <3>3. CASE Upsert(c)
      BY <3>3, UpsertEffect
    <3>4. CASE Mirror(c)
      BY <3>4, MirrorEffect DEF Idle
    <3>5. CASE PullFails(c)
      BY <3>5 DEF PullFails, Idle, TypeOK
    <3>. QED  BY <1>11, <3>1, <3>2, <3>3, <3>4, <3>5
  <2>. QED  BY <1>1, <2>1, <2>3, <2>4, <2>2, QuietStep
<1>12. ASSUME NEW c \in Caller, SeedNext(c) PROVE UnderWay(x)'
  <2>1. contested' = contested
    BY <1>12, SeedEffect DEF excuses
  <2>. QED  BY <1>1, <1>12, <2>1, SeedUnderWay
<1>13. CASE \E y \in Item : Responding(y)
  <2>1. /\ contested' = contested \cup VerdictChanges
        /\ page' = page /\ approvals' = approvals /\ call' = call
    BY <1>13, RespondEffect
  <2>2. x \notin contested /\ LatestVerdict(x)' = LatestVerdict(x)
    BY <2>1, ContestedVerdicts
  <2>. QED  BY <1>1, <2>1, <2>2, QuietStep
<1>. QED  BY <1>2, <1>3, <1>4, <1>5, <1>6, <1>7, <1>8, <1>9, <1>10, <1>11, <1>12, <1>13, Steps
          DEF PushSide

-----------------------------------------------------------------------------
(* The invariant and the theorems. *)

LEMMA InitIInv == Init => IInv
<1>. SUFFICES ASSUME Init PROVE IInv
  OBVIOUS
<1>1. TypeOK
  BY InitType
<1>2. \A c \in Caller : call[c].stage = "idle"
  BY DEF Init, Idle
<1>3. drifted = Page /\ contested = Item /\ unmirrored = Item
  BY DEF Init
<1>4. \A x \in Item : item[x].link = None /\ ~item[x].known
  BY DEF Init
<1>5. PullsAreWhole /\ LinksAreTargets
  BY <1>2, <1>4 DEF PullsAreWhole, LinksAreTargets
<1>6. FindsAreCurrent /\ PulledRevisionIsShown
  BY <1>3 DEF FindsAreCurrent, PulledRevisionIsShown
<1>7. FileWritesAreCurrent /\ ReadyStoriesAreOnDisk
  BY <1>3 DEF FileWritesAreCurrent, ReadyStoriesAreOnDisk
<1>8. DecisionsAreUnderWay
  BY <1>3 DEF DecisionsAreUnderWay
<1>. QED  BY <1>1, <1>5, <1>6, <1>7, <1>8 DEF IInv

LEMMA StepIInv == IInv /\ [Next]_vars => IInv'
<1>. SUFFICES ASSUME TypeOK, PullsAreWhole, FindsAreCurrent, PulledRevisionIsShown,
                     FileWritesAreCurrent, ReadyStoriesAreOnDisk, LinksAreTargets,
                     DecisionsAreUnderWay, [Next]_vars
              PROVE  IInv'
  BY DEF IInv
<1>1. TypeOK'
  BY StepType
<1>2. PullsAreWhole' /\ LinksAreTargets'
  BY StepWhole, StepLinks DEF Facts
<1>3. FindsAreCurrent' /\ PulledRevisionIsShown'
  BY StepRevisions
<1>4. FileWritesAreCurrent' /\ ReadyStoriesAreOnDisk'
  BY StepFiles
<1>5. DecisionsAreUnderWay'
  BY StepUnderWay
<1>. QED  BY <1>1, <1>2, <1>3, <1>4, <1>5 DEF IInv

LEMMA Invariance == Spec => []IInv
BY InitIInv, StepIInv, PTL DEF Spec

\* Whatever requests overlap, every variable keeps its type.
THEOREM TypeCorrect == Spec => []TypeOK
<1>1. IInv => TypeOK
  BY DEF IInv
<1>. QED  BY <1>1, Invariance, PTL

\* Notion shows the latest approval and validation of an item, or that one is
\* pending, on its page when no request about it is in progress, whatever
\* pushes, pulls, edits and bootstraps came in between; the excuses, such as a
\* need for a validation that changes without a push, are those of the property.
THEOREM Decisions == Spec => []PagesShowDecisions
<1>1. IInv => PagesShowDecisions
  BY DecisionsShown DEF IInv
<1>. QED  BY <1>1, Invariance, PTL

\* Once the pulls that found a page are stored, the record has the revision of
\* the page, however many pulls and databases there are.
THEOREM Revisions == Spec => []PulledRevisionIsShown
<1>1. IInv => PulledRevisionIsShown
  BY DEF IInv
<1>. QED  BY <1>1, Invariance, PTL

\* Ready stories are on disk with the revision of their records when the pulls
\* that write them are over.
THEOREM StoryFiles == Spec => []ReadyStoriesAreOnDisk
<1>1. IInv => ReadyStoriesAreOnDisk
  BY DEF IInv
<1>. QED  BY <1>1, Invariance, PTL

\* A pull detaches no item from a parent whose page it could have found.
THEOREM Parents == Spec => OrphansAreNew
<1>. DEFINE Kept ==
       \A c \in Caller :
         call[c].stage = "pulling" /\ call'[c].stage = "mirroring" =>
           \A f \in call[c].found :
             ParentPage[f.page] \in call[c].since /\ ~call[c].missed =>
               item'[RuntimeId[f.page]].parent = RuntimeId[ParentPage[f.page]]
<1>1. IInv /\ [Next]_vars => [Kept]_vars
  BY StepParents DEF IInv
<1>2. Spec => [][Kept]_vars
  BY <1>1, Invariance, PTL DEF Spec
<1>. QED  BY <1>2 DEF OrphansAreNew

=============================================================================
