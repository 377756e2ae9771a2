---------------------------- MODULE MCStateFile ----------------------------
(* Instances of StateFile for TLC: who serves whom. *)
EXTENDS StateFile, TLC

CONSTANTS p1, p2, c1, c2

\* Two requests to one server; a second process has no clients of its own.
SharedServer == (c1 :> p1) @@ (c2 :> p1)

\* One request at each of two processes.
OnePerProcess == (c1 :> p1) @@ (c2 :> p2)

Symmetry == Permutations(Record)

=============================================================================
