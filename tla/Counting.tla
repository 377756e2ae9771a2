------------------------------- MODULE Counting -------------------------------
(***************************************************************************)
(* A counting argument, for the proofs that bound how often something is   *)
(* done.  What is still to come is kept in two finite sets: tokens for     *)
(* single actions, and plans, each worth a number of actions.  What was    *)
(* done and what is to come stay within an allowance.                      *)
(***************************************************************************)
EXTENDS Naturals, FiniteSets, FiniteSetTheorems, TLAPS

\* done actions were done, one is to come for each of the tokens and worth
\* ones for each of the plans, and all of them are allowed.
Covered(done, tokens, plans, worth, allowed) ==
  /\ IsFiniteSet(tokens)
  /\ IsFiniteSet(plans)
  /\ done + Cardinality(tokens) + worth * Cardinality(plans) <= allowed

-----------------------------------------------------------------------------
(* Cardinalities of sets that are only known to be within others. *)

\* A part of a finite set.
LEMMA CardPart ==
  ASSUME NEW S, IsFiniteSet(S), NEW T, T \subseteq S
  PROVE  /\ IsFiniteSet(T)
         /\ Cardinality(T) \in Nat /\ Cardinality(S) \in Nat
         /\ Cardinality(T) <= Cardinality(S)
BY FS_Subset, FS_CardinalityType

\* A part without one element.
LEMMA CardWithout ==
  ASSUME NEW S, IsFiniteSet(S), NEW e \in S, NEW T, T \subseteq S \ {e}
  PROVE  /\ IsFiniteSet(T)
         /\ Cardinality(T) \in Nat /\ Cardinality(S) \in Nat
         /\ Cardinality(T) + 1 <= Cardinality(S)
<1>1. IsFiniteSet(S \ {e}) /\ Cardinality(S \ {e}) = Cardinality(S) - 1
  BY FS_RemoveElement
<1>2. Cardinality(S) \in Nat
  BY FS_CardinalityType
<1>3. /\ IsFiniteSet(T) /\ Cardinality(T) \in Nat
      /\ Cardinality(T) <= Cardinality(S \ {e})
  BY <1>1, CardPart
<1>. QED  BY <1>1, <1>2, <1>3

\* A part of two finite sets together.
LEMMA CardBoth ==
  ASSUME NEW S, IsFiniteSet(S), NEW C, IsFiniteSet(C), NEW T, T \subseteq S \cup C
  PROVE  /\ IsFiniteSet(T)
         /\ Cardinality(T) \in Nat /\ Cardinality(S) \in Nat /\ Cardinality(C) \in Nat
         /\ Cardinality(T) <= Cardinality(S) + Cardinality(C)
<1>1. /\ IsFiniteSet(S \cup C)
      /\ Cardinality(S \cup C) = Cardinality(S) + Cardinality(C) - Cardinality(S \cap C)
  BY FS_Union
<1>2. Cardinality(S \cap C) \in Nat
  BY FS_Intersection, FS_CardinalityType
<1>3. Cardinality(S) \in Nat /\ Cardinality(C) \in Nat
  BY FS_CardinalityType
<1>4. /\ IsFiniteSet(T) /\ Cardinality(T) \in Nat
      /\ Cardinality(T) <= Cardinality(S \cup C)
  BY <1>1, CardPart
<1>. QED  BY <1>1, <1>2, <1>3, <1>4

\* The values of a function on a finite set.
LEMMA CardImage ==
  ASSUME NEW S, IsFiniteSet(S), NEW f, DOMAIN f = S
  PROVE  /\ IsFiniteSet({f[i] : i \in S})
         /\ Cardinality({f[i] : i \in S}) \in Nat /\ Cardinality(S) \in Nat
         /\ Cardinality({f[i] : i \in S}) <= Cardinality(S)
<1>. DEFINE T == {f[i] : i \in S}
            g == [i \in S |-> f[i]]
<1>1. g \in Surjection(S, T)
  BY DEF Surjection
<1>. HIDE DEF T, g
<1>2. IsFiniteSet(T) /\ Cardinality(T) <= Cardinality(S)
  BY <1>1, FS_Surjection
<1>3. Cardinality(T) \in Nat /\ Cardinality(S) \in Nat
  BY <1>2, FS_CardinalityType
<1>. QED  BY <1>2, <1>3 DEF T

\* Fewer plans are worth less.
LEMMA WorthOfFewer ==
  ASSUME NEW m \in Nat, NEW p \in Nat, NEW r \in Nat, p <= r
  PROVE  m * p \in Nat /\ m * r \in Nat /\ m * p <= m * r
OBVIOUS

\* What one plan is worth.
LEMMA WorthOfOne ==
  ASSUME NEW m \in Nat, NEW p \in Nat, NEW r \in Nat, p + 1 <= r
  PROVE  m * p \in Nat /\ m * r \in Nat /\ m * p + m <= m * r
<1>1. m * (p + 1) <= m * r /\ m * (p + 1) \in Nat /\ m * r \in Nat
  BY WorthOfFewer
<1>2. m * (p + 1) = m * p + m
  OBVIOUS
<1>3. m * p \in Nat
  OBVIOUS
<1>. QED  BY <1>1, <1>2, <1>3

-----------------------------------------------------------------------------
(* What may happen to a covered account. *)

\* What was to come is dropped.
LEMMA CoveredDrop ==
  ASSUME NEW d \in Nat, NEW m \in Nat, NEW a \in Nat, NEW S, NEW P, NEW T, NEW R,
         Covered(d, S, P, m, a), T \subseteq S, R \subseteq P
  PROVE  Covered(d, T, R, m, a)
<1>1. /\ IsFiniteSet(T) /\ Cardinality(T) \in Nat /\ Cardinality(S) \in Nat
      /\ Cardinality(T) <= Cardinality(S)
  BY CardPart DEF Covered
<1>2. /\ IsFiniteSet(R) /\ Cardinality(R) \in Nat /\ Cardinality(P) \in Nat
      /\ Cardinality(R) <= Cardinality(P)
  BY CardPart DEF Covered
<1>3. /\ m * Cardinality(R) \in Nat /\ m * Cardinality(P) \in Nat
      /\ m * Cardinality(R) <= m * Cardinality(P)
  BY <1>2, WorthOfFewer
<1>4. d + Cardinality(S) + m * Cardinality(P) <= a
  BY DEF Covered
<1>5. d + Cardinality(T) + m * Cardinality(R) <= a
  BY <1>1, <1>3, <1>4
<1>. QED  BY <1>1, <1>2, <1>5 DEF Covered

\* An action is done that a token stood for.
LEMMA CoveredSpend ==
  ASSUME NEW d \in Nat, NEW m \in Nat, NEW a \in Nat, NEW S, NEW P, NEW T, NEW R,
         Covered(d, S, P, m, a), NEW t \in S, T \subseteq S \ {t}, R \subseteq P
  PROVE  Covered(d + 1, T, R, m, a)
<1>1. /\ IsFiniteSet(T) /\ Cardinality(T) \in Nat /\ Cardinality(S) \in Nat
      /\ Cardinality(T) + 1 <= Cardinality(S)
  BY CardWithout DEF Covered
<1>2. /\ IsFiniteSet(R) /\ Cardinality(R) \in Nat /\ Cardinality(P) \in Nat
      /\ Cardinality(R) <= Cardinality(P)
  BY CardPart DEF Covered
<1>3. /\ m * Cardinality(R) \in Nat /\ m * Cardinality(P) \in Nat
      /\ m * Cardinality(R) <= m * Cardinality(P)
  BY <1>2, WorthOfFewer
<1>4. d + Cardinality(S) + m * Cardinality(P) <= a
  BY DEF Covered
<1>5. d + 1 + Cardinality(T) + m * Cardinality(R) <= a
  BY <1>1, <1>3, <1>4
<1>. QED  BY <1>1, <1>2, <1>5 DEF Covered

\* One token takes the place of another one.
LEMMA CoveredSwap ==
  ASSUME NEW d \in Nat, NEW m \in Nat, NEW a \in Nat, NEW S, NEW P, NEW T, NEW R,
         Covered(d, S, P, m, a), NEW t \in S, NEW u,
         T \subseteq (S \ {t}) \cup {u}, R \subseteq P
  PROVE  Covered(d, T, R, m, a)
<1>1. /\ IsFiniteSet(S \ {t}) /\ Cardinality(S \ {t}) \in Nat /\ Cardinality(S) \in Nat
      /\ Cardinality(S \ {t}) + 1 <= Cardinality(S)
  BY CardWithout DEF Covered
<1>2. /\ IsFiniteSet(T) /\ Cardinality(T) \in Nat
      /\ Cardinality(T) <= Cardinality(S \ {t}) + 1
  <2>1. IsFiniteSet({u}) /\ Cardinality({u}) = 1
    BY FS_Singleton
  <2>. QED  BY <1>1, <2>1, CardBoth
<1>3. /\ IsFiniteSet(R) /\ Cardinality(R) \in Nat /\ Cardinality(P) \in Nat
      /\ Cardinality(R) <= Cardinality(P)
  BY CardPart DEF Covered
<1>4. /\ m * Cardinality(R) \in Nat /\ m * Cardinality(P) \in Nat
      /\ m * Cardinality(R) <= m * Cardinality(P)
  BY <1>3, WorthOfFewer
<1>5. d + Cardinality(S) + m * Cardinality(P) <= a
  BY DEF Covered
<1>6. d + Cardinality(T) + m * Cardinality(R) <= a
  BY <1>1, <1>2, <1>4, <1>5
<1>. QED  BY <1>2, <1>3, <1>6 DEF Covered

\* Tokens are added, as many as the allowance grows.
LEMMA CoveredGrow ==
  ASSUME NEW d \in Nat, NEW m \in Nat, NEW a \in Nat, NEW S, NEW P, NEW T, NEW R,
         Covered(d, S, P, m, a), NEW C, IsFiniteSet(C),
         T \subseteq S \cup C, R \subseteq P,
         NEW b \in Nat, a + Cardinality(C) <= b
  PROVE  Covered(d, T, R, m, b)
<1>1. /\ IsFiniteSet(T) /\ Cardinality(T) \in Nat /\ Cardinality(S) \in Nat
      /\ Cardinality(C) \in Nat
      /\ Cardinality(T) <= Cardinality(S) + Cardinality(C)
  BY CardBoth DEF Covered
<1>2. /\ IsFiniteSet(R) /\ Cardinality(R) \in Nat /\ Cardinality(P) \in Nat
      /\ Cardinality(R) <= Cardinality(P)
  BY CardPart DEF Covered
<1>3. /\ m * Cardinality(R) \in Nat /\ m * Cardinality(P) \in Nat
      /\ m * Cardinality(R) <= m * Cardinality(P)
  BY <1>2, WorthOfFewer
<1>4. d + Cardinality(S) + m * Cardinality(P) <= a
  BY DEF Covered
<1>5. d + Cardinality(T) + m * Cardinality(R) <= b
  BY <1>1, <1>3, <1>4
<1>. QED  BY <1>1, <1>2, <1>5 DEF Covered

\* Plans are added, and the allowance grows by what they are worth.
LEMMA CoveredPlan ==
  ASSUME NEW d \in Nat, NEW m \in Nat, NEW a \in Nat, NEW S, NEW P, NEW T, NEW R,
         Covered(d, S, P, m, a), NEW C, IsFiniteSet(C),
         T \subseteq S, R \subseteq P \cup C,
         NEW b \in Nat, a + m * Cardinality(C) <= b
  PROVE  Covered(d, T, R, m, b)
<1>1. /\ IsFiniteSet(T) /\ Cardinality(T) \in Nat /\ Cardinality(S) \in Nat
      /\ Cardinality(T) <= Cardinality(S)
  BY CardPart DEF Covered
<1>2. /\ IsFiniteSet(R) /\ Cardinality(R) \in Nat /\ Cardinality(P) \in Nat
      /\ Cardinality(C) \in Nat
      /\ Cardinality(R) <= Cardinality(P) + Cardinality(C)
  BY CardBoth DEF Covered
<1>3. /\ m * Cardinality(R) \in Nat /\ m * (Cardinality(P) + Cardinality(C)) \in Nat
      /\ m * Cardinality(R) <= m * (Cardinality(P) + Cardinality(C))
  BY <1>2, WorthOfFewer
<1>4. /\ m * (Cardinality(P) + Cardinality(C)) = m * Cardinality(P) + m * Cardinality(C)
      /\ m * Cardinality(P) \in Nat /\ m * Cardinality(C) \in Nat
  BY <1>2
<1>5. d + Cardinality(S) + m * Cardinality(P) <= a
  BY DEF Covered
<1>6. d + Cardinality(T) + m * Cardinality(R) <= b
  BY <1>1, <1>3, <1>4, <1>5
<1>. QED  BY <1>1, <1>2, <1>6 DEF Covered

\* A plan is carried out: tokens take its place, not more than it is worth.
LEMMA CoveredCarryOut ==
  ASSUME NEW d \in Nat, NEW m \in Nat, NEW a \in Nat, NEW S, NEW P, NEW T, NEW R,
         Covered(d, S, P, m, a), NEW p \in P, R \subseteq P \ {p},
         NEW C, IsFiniteSet(C), Cardinality(C) = m, T \subseteq S \cup C
  PROVE  Covered(d, T, R, m, a)
<1>1. /\ IsFiniteSet(T) /\ Cardinality(T) \in Nat /\ Cardinality(S) \in Nat
      /\ Cardinality(T) <= Cardinality(S) + m
  BY CardBoth DEF Covered
<1>2. /\ IsFiniteSet(R) /\ Cardinality(R) \in Nat /\ Cardinality(P) \in Nat
      /\ Cardinality(R) + 1 <= Cardinality(P)
  BY CardWithout DEF Covered
<1>3. /\ m * Cardinality(R) \in Nat /\ m * Cardinality(P) \in Nat
      /\ m * Cardinality(R) + m <= m * Cardinality(P)
  BY <1>2, WorthOfOne
<1>4. d + Cardinality(S) + m * Cardinality(P) <= a
  BY DEF Covered
<1>5. d + Cardinality(T) + m * Cardinality(R) <= a
  BY <1>1, <1>3, <1>4
<1>. QED  BY <1>1, <1>2, <1>5 DEF Covered

\* A plan that is worth one action becomes a token.
LEMMA CoveredTurn ==
  ASSUME NEW d \in Nat, NEW a \in Nat, NEW S, NEW P, NEW T, NEW R,
         Covered(d, S, P, 1, a), NEW p \in P, R \subseteq P \ {p},
         NEW u, T \subseteq S \cup {u}
  PROVE  Covered(d, T, R, 1, a)
<1>1. PICK C : C = {u} /\ IsFiniteSet(C) /\ Cardinality(C) = 1
  BY FS_Singleton
<1>2. T \subseteq S \cup C
  BY <1>1
<1>. QED  BY <1>1, <1>2, CoveredCarryOut

\* The first actions and tokens.
LEMMA CoveredStart ==
  ASSUME NEW d \in Nat, NEW m \in Nat, NEW a \in Nat,
         NEW C, IsFiniteSet(C), NEW T, T \subseteq C, d + Cardinality(C) <= a
  PROVE  Covered(d, T, {}, m, a)
<1>1. /\ IsFiniteSet(T) /\ Cardinality(T) \in Nat /\ Cardinality(C) \in Nat
      /\ Cardinality(T) <= Cardinality(C)
  BY CardPart
<1>2. IsFiniteSet({}) /\ Cardinality({}) = 0 /\ m * 0 = 0
  BY FS_EmptySet
<1>3. d + Cardinality(T) + m * Cardinality({}) <= a
  BY <1>1, <1>2
<1>. QED  BY <1>1, <1>2, <1>3 DEF Covered

\* What was done is allowed.
LEMMA CoveredBound ==
  ASSUME NEW d \in Nat, NEW m \in Nat, NEW a \in Nat, NEW S, NEW P, Covered(d, S, P, m, a)
  PROVE  d <= a
<1>1. Cardinality(S) \in Nat /\ Cardinality(P) \in Nat
  BY FS_CardinalityType DEF Covered
<1>2. m * Cardinality(P) \in Nat
  BY <1>1
<1>3. d + Cardinality(S) + m * Cardinality(P) <= a
  BY DEF Covered
<1>. QED  BY <1>1, <1>2, <1>3

-----------------------------------------------------------------------------
(* Positions of a sequence that satisfy something are counted alike from    *)
(* its start and from its end.                                              *)

\* A set of positions 1 .. n read backwards.
LEMMA CardBackwards ==
  ASSUME NEW n \in Nat, NEW S, S \subseteq 1 .. n, NEW T, T \subseteq 1 .. n,
         \A k \in T : n + 1 - k \in S
  PROVE  /\ IsFiniteSet(S) /\ IsFiniteSet(T)
         /\ Cardinality(T) \in Nat /\ Cardinality(S) \in Nat
         /\ Cardinality(T) <= Cardinality(S)
<1>1. IsFiniteSet(1 .. n)
  BY FS_Interval
<1>2. /\ IsFiniteSet(S) /\ IsFiniteSet(T)
      /\ Cardinality(T) \in Nat /\ Cardinality(S) \in Nat
  BY <1>1, CardPart
<1>. DEFINE f == [k \in T |-> n + 1 - k]
<1>3. f \in [T -> S]
  OBVIOUS
<1>4. \A j, k \in T : f[j] = f[k] => j = k
  OBVIOUS
<1>5. f \in Injection(T, S)
  <2>. HIDE DEF f
  <2>1. DOMAIN f = T
    BY <1>3
  <2>. QED  BY <1>3, <1>4, <2>1 DEF Injection, IsInjective
<1>6. Cardinality(T) <= Cardinality(S)
  BY <1>2, <1>5, FS_Injection
<1>. QED  BY <1>2, <1>6

\* Pairs with the same first component are as many as their second ones.
LEMMA CardColumn ==
  ASSUME NEW c, NEW S, IsFiniteSet(S)
  PROVE  /\ IsFiniteSet({c} \X S)
         /\ Cardinality(S) \in Nat
         /\ Cardinality({c} \X S) = Cardinality(S)
<1>1. IsFiniteSet({c}) /\ Cardinality({c}) = 1
  BY FS_Singleton
<1>2. Cardinality(S) \in Nat
  BY FS_CardinalityType
<1>3. /\ IsFiniteSet({c} \X S)
      /\ Cardinality({c} \X S) = 1 * Cardinality(S)
  BY <1>1, FS_Product
<1>. QED  BY <1>2, <1>3

=============================================================================
