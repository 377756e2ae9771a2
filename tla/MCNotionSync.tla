---------------------------- MODULE MCNotionSync ----------------------------
(* Instances of NotionSync for TLC. *)
EXTENDS NotionSync, TLC

CONSTANTS story, other, task, ps, po, pt

\* Two stories and a task of the first.
Names == [p \in Page |-> CASE p = ps -> story [] p = po -> other [] p = pt -> task]
Databases == [x \in Item |-> IF x = task THEN 4 ELSE 3]
Relations == [p \in Page |-> IF p = pt THEN ps ELSE None]

\* A flow seeds the task, a handoff of it that needs a validation, an approval
\* and a warning; no page is linked until a pull finds one.
NoLinks == [x \in Seeded |-> None]
Gates == << [kind |-> "handoff", item |-> task], [kind |-> "approval", item |-> task],
            [kind |-> "validation", item |-> task, status |-> "warning"] >>

Symmetry == Permutations(Caller)

=============================================================================
