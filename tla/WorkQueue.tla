----------------------------- MODULE WorkQueue -----------------------------
(***************************************************************************)
(* What QueueDriver promises, whichever driver is configured: work that    *)
(* was accepted stays pending or listed for the operator until its handler *)
(* has succeeded.  InlineQueue and PgBossQueue implement it.               *)
(***************************************************************************)
CONSTANT Payload

VARIABLE status

Status == {"new", "pending", "listed", "done"}

\* A handler that outlives the attempt it was called for may still succeed:
\* listed work can become done without a replay.
Move == {<<"new", "pending">>, <<"pending", "listed">>, <<"pending", "done">>,
         <<"listed", "pending">>, <<"listed", "done">>}

Init == status = [x \in Payload |-> "new"]

\* One step may move several pieces of work: a retry request turns to its next
\* job in the turn in which the previous one ends.
Next ==
  \E S \in SUBSET Payload :
    /\ status' \in [Payload -> Status]
    /\ \A x \in S : <<status[x], status'[x]>> \in Move
    /\ \A x \in Payload \ S : status'[x] = status[x]

Spec == Init /\ [][Next]_status

=============================================================================
