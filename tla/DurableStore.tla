---------------------------- MODULE DurableStore ----------------------------
(***************************************************************************)
(* What a caller of the runtime repository relies on: a change that was    *)
(* acknowledged is in the store from then on, across restarts.  The        *)
(* promise is stated with its expiry: once the store has been disturbed    *)
(* nothing is promised any more.  StateFile implements this specification  *)
(* and says which events of the real program count as a disturbance.       *)
(***************************************************************************)
CONSTANT Record     \* the changes that callers may store

VARIABLES
  stored,           \* what a restart would find
  acked,            \* what callers were told is stored
  intact            \* no disturbance so far

vars == <<stored, acked, intact>>

Init ==
  /\ stored = {}
  /\ acked = {}
  /\ intact = TRUE

\* Changes reach the store in groups: a write carries every earlier change
\* whose own write failed.
Store ==
  /\ intact
  /\ \E R \in SUBSET Record : stored' = stored \cup R
  /\ UNCHANGED <<acked, intact>>

Acknowledge ==
  /\ \E R \in SUBSET Record :
       /\ intact => R \subseteq stored
       /\ acked' = acked \cup R
  /\ UNCHANGED <<stored, intact>>

Disturb ==
  /\ intact' = FALSE
  /\ stored' = {}
  /\ UNCHANGED acked

Next == Store \/ Acknowledge \/ Disturb

Spec == Init /\ [][Next]_vars

=============================================================================
