--------------------------- MODULE MCInlineQueue ---------------------------
(* Instances of InlineQueue for TLC. *)
EXTENDS InlineQueue, TLC

CONSTANTS q1, q2

\* One attempt and one retry in q1, a single attempt in q2.
Limits == [q \in Queue |-> IF q = q1 THEN 1 ELSE 0]

Symmetry == Permutations(Caller) \cup Permutations(Payload)

=============================================================================
