------------------------- MODULE MCMissionProjection -------------------------
(* Instances of MissionProjection for TLC. *)
EXTENDS MissionProjection, TLC

\* One retry: the handler is called at most twice for each job and round.
OneRetry == [q \in Queue |-> 1]

Symmetry == Permutations(Caller) \cup Permutations(Mission)

=============================================================================
