-------------------------- MODULE MCFlowBootstrap ---------------------------
(* Instances of FlowBootstrap for TLC: two flows, the second of which needs *)
(* the first; the gate that is about the whole project is common to both.   *)
EXTENDS FlowBootstrap, TLC

CONSTANTS marketing, sales, chief, boss, demand

MCNeeds == marketing :> {} @@ sales :> {marketing}

Active(i, leads) == [id |-> i, sector |-> demand, leads |-> leads, active |-> TRUE]
MCSeed == chief :> Active(1, FALSE) @@ boss :> Active(2, TRUE)

Define(st, what, from, to, pos) ==
  [stage |-> st, what |-> what, from |-> from, to |-> to, pos |-> pos]
MCBuilt ==
  marketing :> {Define(Handoffs, "brief", boss, chief, 1),
                Define(Handoffs, "package", chief, boss, 2),
                Define(Approvals, "publication", chief, boss, 1),
                Define(Validations, "brand", Nobody, chief, 1),
                Define(Memory, "campaign", Nobody, Nobody, 1)}
  @@ sales :> {Define(Handoffs, "training", chief, boss, 1),
               Define(Approvals, "project", chief, boss, 1),
               Define(Validations, "readiness", Nobody, chief, 1)}

Policy(active, st, what, from, to) ==
  [flow |-> marketing, active |-> active, stage |-> st, what |-> what,
   from |-> from, to |-> to]
MCSeedGates ==
  "first" :> [gate |-> Policy(TRUE, Approvals, "project", chief, boss), pos |-> 1]
  @@ "second" :> [gate |-> Policy(TRUE, Validations, "asset", Nobody, chief), pos |-> 2]
MCGateInput ==
  {Policy(FALSE, Approvals, "project", chief, boss),
   Policy(TRUE, Validations, "asset", Nobody, AnId)}

\* None of the default capabilities is in the sector.
MCEnabled == <<>>

MCPosition == {<<demand, FALSE>>}

Symmetry == Permutations(Call)

=============================================================================
