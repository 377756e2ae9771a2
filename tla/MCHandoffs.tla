----------------------------- MODULE MCHandoffs -----------------------------
(* Instances of Handoffs for TLC, out of the seeds of the runtime: a squad  *)
(* and its chief in marketing, the CEO and a founder in operations, a       *)
(* sector without an active capability.                                     *)
EXTENDS Handoffs, TLC

CONSTANTS squad, chief, boss, founder, marketing, operations

Seeded(i, tier, sector) ==
  [id |-> i, tier |-> tier, sector |-> sector, active |-> TRUE]

MCSeed == squad :> Seeded(1, "staff", marketing)
            @@ chief :> Seeded(2, "c_level", marketing)
            @@ boss :> Seeded(3, "ceo", operations)
            @@ founder :> Seeded(4, "founder", operations)

MCPosition == {<<"staff", operations>>}

Symmetry == Permutations(Caller)

=============================================================================
