--------------------------- MODULE MCPgBossQueue ---------------------------
(* Instances of PgBossQueue for TLC. *)
EXTENDS PgBossQueue

\* One attempt and one retry.
Limits == [q \in Queue |-> 1]

=============================================================================
