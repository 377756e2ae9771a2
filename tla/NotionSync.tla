----------------------------- MODULE NotionSync -----------------------------
(***************************************************************************)
(* Planning items live twice: as pages of four Notion databases, which     *)
(* humans edit, and as records of the runtime.  PlanningService copies     *)
(* pages to records (a pull, which also writes ready stories to disk) and  *)
(* records, with their approvals and validations, to pages (a push, which  *)
(* every route that changes them makes for the item it changed).           *)
(*                                                                         *)
(* Requests overlap: each awaits Notion and the disk many times, and       *)
(* between two awaits other requests run and humans edit.                  *)
(*                                                                         *)
(* The planning and execution status of an item, the text that a push      *)
(* writes over, is one revision number: 0 for what a flow's bootstrap      *)
(* seeds, and a fresh one for each thing a human writes.                   *)
(***************************************************************************)
EXTENDS Naturals, Sequences, FiniteSets, SequencesExt

CONSTANTS
  Caller,      \* requests that can be in progress at one time
  Item,        \* planning items, pulled or seeded
  Page,        \* pages that humans create
  None,        \* no page or no item
  RuntimeId,   \* the item that each page names
  Kind,        \* the database of each item: 1 projects .. 4 tasks
  ParentPage,  \* the relation of each page
  Seeded,      \* the items a flow's bootstrap seeds
  SeedPage,    \* the page it links them to: the mission's page for its root
  SeedParent,  \* the parent it gives them
  SeedNeeds,   \* those of them that it seeds as in need of a validation
  Seeds,       \* the handoffs that need one, approvals and validations it seeds
  Decision,    \* outcomes of an approval
  Verdict,     \* outcomes of a validation
  ReadyPlans,  \* revisions that make a story ready for the mirror
  PageSize,    \* results of one query; the adapter asks for no second page
  MaxEdits,    \* bound: pages created and edited by humans
  MaxRequests  \* bound: requests made

\* What a flow seeds besides planning items.
Seed == [kind : {"handoff", "approval"}, item : Seeded]
          \cup [kind : {"validation"}, item : Seeded, status : Verdict]

ASSUME ConstantsAssumption ==
  /\ None \notin Item \cup Page \cup Caller
  /\ IsFiniteSet(Item) /\ IsFiniteSet(Page)
  /\ RuntimeId \in [Page -> Item]
  /\ Kind \in [Item -> 1 .. 4]
  /\ ParentPage \in [Page -> Page \cup {None}]
  /\ SeedPage \in [Seeded -> Page \cup {None}]
  /\ SeedParent \in [Seeded -> Item \cup {None}]
  /\ Seeded \subseteq Item /\ SeedNeeds \subseteq Seeded
  /\ {"pending", "none"} \cap (Decision \cup Verdict) = {}
  /\ Seeds \in Seq(Seed)
  /\ ReadyPlans \subseteq Nat
  /\ PageSize \in Nat \ {0} /\ MaxEdits \in Nat /\ MaxRequests \in Nat

\* The contract asks for unique Runtime IDs in a live workspace; no page has
\* the generated id of a mission's root, which is linked to the mission's page.
ASSUME RuntimeIdAssumption ==
  /\ \A p, q \in Page : RuntimeId[p] = RuntimeId[q] => p = q
  /\ \A x \in Seeded, p \in Page : SeedPage[x] # None => RuntimeId[p] # x

VARIABLES
  page,        \* what each page shows
  item,        \* planningItems
  mirror,      \* the revision in each story's file
  approvals,   \* approvals, in the order of their latest change
  verdict,     \* the status of the latest validation of each item
  review,      \* whether some handoff of the item needs a validation
  call,        \* the request each caller has in progress
  edits,       \* how often humans wrote a page
  requests,    \* how many requests were made
  contested,   \* history: items whose page may show an older decision
  drifted,     \* history: pages whose record may have another revision
  unmirrored   \* history: items whose file may have another revision

vars == <<page, item, mirror, approvals, verdict, review, call, edits, requests,
          contested, drifted, unmirrored>>
records == <<item, approvals, verdict, review>>
excuses == <<contested, drifted, unmirrored>>

-----------------------------------------------------------------------------
ApprovalStatus == Decision \cup {"pending"}
ShownApproval == ApprovalStatus \cup {"none"}
ShownVerdict == Verdict \cup {"pending", "none"}

\* "needed" is the checkbox Validation Needed of a page and of its record.
PageState == [there : BOOLEAN, plan : Nat, needed : BOOLEAN,
              approval : ShownApproval, verdict : ShownVerdict]
ItemState == [known : BOOLEAN, plan : Nat, needed : BOOLEAN,
              link : Page \cup {None}, parent : Item \cup {None}]
Found == [page : Page, plan : Nat, needed : BOOLEAN]
Write == [item : Item, link : Page \cup {None}, plan : Nat, needed : BOOLEAN,
          approval : ShownApproval, verdict : ShownVerdict]

\* A request that changed records and will push the items of its scope, a
\* bootstrap once it has seeded the rest of the flow.
Storing == [stage : {"storing"}, scope : SUBSET Item, seeds : {<<>>}]
             \cup [stage : {"storing"}, scope : {Item}, seeds : Seq(Seed)]
\* A push: the writes still to be made.
Pushing == [stage : {"pushing"}, todo : Seq(Write)]
\* A pull: the next database, the pages found, those that were there when it
\* began, and whether a query left out some.
Pulling == [stage : {"pulling"}, next : 1 .. 5, found : SUBSET Found,
            since : SUBSET Page, missed : BOOLEAN]
\* The end of a pull: the stories still to be looked at.
Mirroring == [stage : {"mirroring"}, todo : SUBSET (Item \X Nat)]
Idle == [stage |-> "idle"]

TypeOK ==
  /\ page \in [Page -> PageState]
  /\ item \in [Item -> ItemState]
  /\ mirror \in [Item -> Nat \cup {None}]
  /\ approvals \in Seq([item : Item, status : ApprovalStatus])
  /\ verdict \in [Item -> Verdict \cup {"none"}]
  /\ review \in [Item -> BOOLEAN]
  /\ call \in [Caller -> {Idle} \cup Storing \cup Pushing \cup Pulling \cup Mirroring]
  /\ edits \in Nat
  /\ requests \in Nat
  /\ contested \subseteq Item
  /\ drifted \subseteq Page
  /\ unmirrored \subseteq Item

Init ==
  /\ page = [p \in Page |->
              [there |-> FALSE, plan |-> 0, needed |-> FALSE,
               approval |-> "none", verdict |-> "none"]]
  /\ item = [x \in Item |->
              [known |-> FALSE, plan |-> 0, needed |-> FALSE, link |-> None, parent |-> None]]
  /\ mirror = [x \in Item |-> None]
  /\ approvals = <<>>
  /\ verdict = [x \in Item |-> "none"]
  /\ review = [x \in Item |-> FALSE]
  /\ call = [c \in Caller |-> Idle]
  /\ edits = 0
  /\ requests = 0
  /\ contested = Item
  /\ drifted = Page
  /\ unmirrored = Item

-----------------------------------------------------------------------------
(* What the runtime holds of an item's decisions. *)

LatestApproval(x) ==
  LET its == {i \in DOMAIN approvals : approvals[i].item = x}
  IN  IF its = {} THEN "none" ELSE approvals[CHOOSE i \in its : \A k \in its : k <= i].status

Needed(x) == item[x].needed \/ review[x]

LatestVerdict(x) ==
  IF verdict[x] = "none" /\ Needed(x) THEN "pending" ELSE verdict[x]

\* What a push is made for: what has an approval or a validation or needs one.
Selected(x) ==
  item[x].known /\ (LatestApproval(x) # "none" \/ LatestVerdict(x) # "none")

WriteOf(x) ==
  [item |-> x, link |-> item[x].link, plan |-> item[x].plan, needed |-> Needed(x),
   approval |-> LatestApproval(x), verdict |-> LatestVerdict(x)]

\* The items whose pending validation a step adds or takes back.
VerdictChanges == {x \in Item : LatestVerdict(x)' # LatestVerdict(x)}

-----------------------------------------------------------------------------
(* Who has what under way. *)

\* The writes for x that other requests than c still have to make.
WritesFor(c, x) ==
  UNION {{call[d].todo[i] : i \in {i \in DOMAIN call[d].todo : call[d].todo[i].item = x}} :
           d \in {d \in Caller \ {c} : call[d].stage = "pushing"}}

\* The revisions of p that other pulls than c's found and have not stored.
FoundOf(c, p) ==
  UNION {{f.plan : f \in {f \in call[d].found : f.page = p}} :
           d \in {d \in Caller \ {c} : call[d].stage = "pulling"}}

\* The revisions of x that other pulls than c's still write to its file.
FileWritesOf(c, x) ==
  UNION {{t[2] : t \in {t \in call[d].todo : t[1] = x}} :
           d \in {d \in Caller \ {c} : call[d].stage = "mirroring"}}

-----------------------------------------------------------------------------
(* Humans. *)

CreatePage(p) ==
  /\ ~page[p].there
  /\ edits < MaxEdits
  /\ ParentPage[p] # None => page[ParentPage[p]].there
  /\ edits' = edits + 1
  /\ page' = [page EXCEPT ![p].there = TRUE, ![p].plan = edits + 1]
  /\ UNCHANGED <<records, mirror, call, requests, excuses>>

\* Stories and tasks have the checkbox, which a new page leaves empty.
EditPage(p, need) ==
  /\ page[p].there
  /\ edits < MaxEdits
  /\ need # page[p].needed => Kind[RuntimeId[p]] \in {3, 4}
  /\ edits' = edits + 1
  /\ page' = [page EXCEPT ![p].plan = edits + 1, ![p].needed = need]
  /\ drifted' = drifted \cup {p}
  /\ UNCHANGED <<records, mirror, call, requests, contested, unmirrored>>

-----------------------------------------------------------------------------
(* Requests that change records.  The change is in memory at once; the push *)
(* follows when it is stored.                                               *)

Request(c, new) ==
  /\ call[c] = Idle
  /\ requests < MaxRequests
  /\ requests' = requests + 1
  /\ call' = [call EXCEPT ![c] = new]

\* A request that changed what a push of the scope shows.
Store(c, scope, seeds) ==
  Request(c, [stage |-> "storing", scope |-> scope, seeds |-> seeds])

RequestApproval(c, x) ==
  /\ item[x].known
  /\ Store(c, {x}, <<>>)
  /\ approvals' = Append(approvals, [item |-> x, status |-> "pending"])
  /\ UNCHANGED <<page, item, mirror, verdict, review, edits, excuses>>

\* A decision may be taken again.  decidedAt makes the approval the latest.
DecideApproval(c, i, d) ==
  LET decided == [approvals[i] EXCEPT !.status = d] IN
  /\ Store(c, {decided.item}, <<>>)
  /\ approvals' = Append(RemoveAt(approvals, i), decided)
  /\ UNCHANGED <<page, item, mirror, verdict, review, edits, excuses>>

RecordValidation(c, x, v) ==
  /\ item[x].known
  /\ Store(c, {x}, <<>>)
  /\ verdict' = [verdict EXCEPT ![x] = v]
  /\ UNCHANGED <<page, item, mirror, approvals, review, edits, excuses>>

\* The answer to a handoff of a task says whether its result needs a
\* validation; an earlier handoff of the task may need one as well.  No push
\* follows.
RespondToHandoff(x, need) ==
  /\ item[x].known
  /\ Kind[x] = 4
  /\ requests < MaxRequests
  /\ requests' = requests + 1
  /\ review' = [review EXCEPT ![x] = need]
  /\ UNCHANGED <<page, item, approvals, verdict>>
  /\ contested' = contested \cup VerdictChanges
  /\ UNCHANGED <<mirror, call, edits, drifted, unmirrored>>

\* The planning items of a flow are seeded, over the records of an earlier
\* bootstrap or a pull; a link that was pulled stays.
BootstrapFlow(c) ==
  /\ Store(c, Item, Seeds)
  /\ item' = [x \in Item |->
               IF x \in Seeded
                 THEN [known |-> TRUE, plan |-> 0, needed |-> x \in SeedNeeds,
                       parent |-> SeedParent[x],
                       link |-> IF SeedPage[x] # None THEN SeedPage[x] ELSE item[x].link]
                 ELSE item[x]]
  /\ UNCHANGED <<page, approvals, verdict, review>>
  /\ contested' = contested \cup VerdictChanges
  /\ drifted' = drifted \cup {p \in Page : RuntimeId[p] \in Seeded}
  /\ unmirrored' = unmirrored \cup Seeded
  /\ UNCHANGED <<mirror, edits>>

\* Its handoffs, approvals and validations follow, each stored before the next.
\* One that is there is not created again; a handoff may have been there before.
SeedNext(c) ==
  LET seed == Head(call[c].seeds)
      x == seed.item
  IN
  /\ call[c].stage = "storing"
  /\ call[c].seeds # <<>>
  /\ call' = [call EXCEPT ![c].seeds = Tail(@)]
  /\ \/ /\ seed.kind = "handoff"
        /\ \/ review' = [review EXCEPT ![x] = TRUE]
           \/ UNCHANGED review
        /\ UNCHANGED <<approvals, verdict>>
     \/ /\ seed.kind = "approval"
        /\ \/ approvals' = Append(approvals, [item |-> x, status |-> "pending"])
           \/ LatestApproval(x) # "none" /\ UNCHANGED approvals
        /\ UNCHANGED <<verdict, review>>
     \/ /\ seed.kind = "validation"
        /\ \/ verdict' = [verdict EXCEPT ![x] = seed.status]
           \/ verdict[x] # "none" /\ UNCHANGED verdict
        /\ UNCHANGED <<approvals, review>>
  /\ UNCHANGED <<page, item, mirror, edits, requests, excuses>>

\* persist() rejects: the change stays in memory and is not pushed.
StoreFails(c) ==
  /\ call[c].stage = "storing"
  /\ call' = [call EXCEPT ![c] = Idle]
  /\ contested' = contested \cup call[c].scope
  /\ UNCHANGED <<page, records, mirror, edits, requests, drifted, unmirrored>>

-----------------------------------------------------------------------------
(* The push: syncGovernanceState. *)

SameDecisions(w, v) == w.approval = v.approval /\ w.verdict = v.verdict

\* Records, approvals and validations are read in one turn; the order of the
\* writes is that of the records.
Read(c, scope) ==
  LET chosen == {x \in scope : Selected(x)}
      rivals == {x \in chosen : \E w \in WritesFor(c, x) : ~SameDecisions(w, WriteOf(x))}
  IN
  /\ \E order \in SetToSeqs(chosen) :
       call' = [call EXCEPT ![c] =
                 IF chosen = {} THEN Idle
                 ELSE [stage |-> "pushing", todo |-> [i \in DOMAIN order |-> WriteOf(order[i])]]]
  /\ contested' = (contested \ chosen) \cup rivals

ReadAfterStore(c) ==
  /\ call[c].stage = "storing"
  /\ call[c].seeds = <<>>
  /\ Read(c, call[c].scope)
  /\ UNCHANGED <<page, records, mirror, edits, requests, drifted, unmirrored>>

\* The route that pushes without a change.
SyncGovernance(c) ==
  /\ call[c] = Idle
  /\ requests < MaxRequests
  /\ requests' = requests + 1
  /\ Read(c, Item)
  /\ UNCHANGED <<page, records, mirror, edits, drifted, unmirrored>>

Rest(todo) ==
  IF Tail(todo) = <<>> THEN Idle ELSE [stage |-> "pushing", todo |-> Tail(todo)]

Named(x) == {p \in Page : page[p].there /\ RuntimeId[p] = x}

\* A record without a link: its page is looked up by its Runtime ID.
Resolve(c) ==
  LET x == Head(call[c].todo).item IN
  /\ call[c].stage = "pushing"
  /\ Head(call[c].todo).link = None
  /\ \/ \E p \in Named(x) :
          /\ call' = [call EXCEPT ![c].todo[1].link = p]
          /\ UNCHANGED contested
     \/ /\ Named(x) = {}
        /\ call' = [call EXCEPT ![c] = Rest(@.todo)]
        /\ contested' = contested \cup {x}
  /\ UNCHANGED <<page, records, mirror, edits, requests, drifted, unmirrored>>

\* Mutant of Apply: the validation status is no property of the update.
ApplyWithoutVerdict(w) ==
  /\ page' = [page EXCEPT ![w.link].plan = w.plan,
                          ![w.link].needed = w.needed,
                          ![w.link].approval = w.approval]
  /\ drifted' = IF page[w.link].plan = w.plan THEN drifted ELSE drifted \cup {w.link}

\* Notion writes the page.
Apply(w) ==
  /\ page' = [page EXCEPT ![w.link].plan = w.plan,
                          ![w.link].needed = w.needed,
                          ![w.link].approval = w.approval,
                          ![w.link].verdict = w.verdict]
  /\ drifted' = IF page[w.link].plan = w.plan THEN drifted ELSE drifted \cup {w.link}

Update(c) ==
  /\ call[c].stage = "pushing"
  /\ Head(call[c].todo).link # None
  /\ Apply(Head(call[c].todo))
  /\ call' = [call EXCEPT ![c] = Rest(@.todo)]
  /\ UNCHANGED <<records, mirror, edits, requests, contested, unmirrored>>

\* A query or an update fails, applied or not: nothing more is pushed.
PushFails(c) ==
  /\ call[c].stage = "pushing"
  /\ \/ UNCHANGED <<page, drifted>>
     \/ Head(call[c].todo).link # None /\ Apply(Head(call[c].todo))
  /\ call' = [call EXCEPT ![c] = Idle]
  /\ contested' = contested \cup {call[c].todo[i].item : i \in DOMAIN call[c].todo}
  /\ UNCHANGED <<records, mirror, edits, requests, unmirrored>>

-----------------------------------------------------------------------------
(* The pull: syncPlanningTree. *)

StartPull(c) ==
  /\ Request(c, [stage |-> "pulling", next |-> 1, found |-> {},
                 since |-> {p \in Page : page[p].there}, missed |-> FALSE])
  /\ UNCHANGED <<page, records, mirror, edits, excuses>>

FoundIn(results) ==
  {[page |-> p, plan |-> page[p].plan, needed |-> page[p].needed] : p \in results}

\* One database is queried: its first PageSize pages are found.
Query(c) ==
  LET there == {p \in Page : page[p].there /\ Kind[RuntimeId[p]] = call[c].next} IN
  /\ call[c].stage = "pulling"
  /\ call[c].next <= 4
  /\ \E results \in SUBSET there :
       /\ Cardinality(results) = IF Cardinality(there) <= PageSize
                                   THEN Cardinality(there) ELSE PageSize
       /\ call' = [call EXCEPT
                    ![c].next = @ + 1,
                    ![c].found = @ \cup FoundIn(results),
                    ![c].missed = @ \/ results # there]
       /\ drifted' = (drifted \ results)
                       \cup {p \in results : FoundOf(c, p) \ {page[p].plan} # {}}
  /\ UNCHANGED <<page, records, mirror, edits, requests, contested, unmirrored>>

PagesOf(found) == {f.page : f \in found}

\* Mutants of ParentAmong: the parent's page instead of its item; a parent of
\* the same database.
ParentPageAmong(found, p) ==
  IF ParentPage[p] \in PagesOf(found) THEN ParentPage[p] ELSE None
ParentAmongSiblings(found, p) ==
  IF \E f \in found : f.page = ParentPage[p] /\ Kind[RuntimeId[f.page]] = Kind[RuntimeId[p]]
    THEN RuntimeId[ParentPage[p]] ELSE None

ParentAmong(found, p) ==
  IF ParentPage[p] \in PagesOf(found) THEN RuntimeId[ParentPage[p]] ELSE None

\* Mutant of Upsert: the record that exists wins over the page.
UpsertUnderneath(c) ==
  LET found == call[c].found
      new == {f \in found : ~item[RuntimeId[f.page]].known}
      todo == {<<RuntimeId[f.page], f.plan>> : f \in found}
  IN
  /\ call[c].stage = "pulling"
  /\ call[c].next = 5
  /\ item' = [x \in Item |->
               IF \E f \in new : RuntimeId[f.page] = x
                 THEN LET f == CHOOSE f \in new : RuntimeId[f.page] = x
                      IN  [known |-> TRUE, plan |-> f.plan, needed |-> f.needed, link |-> f.page,
                           parent |-> ParentAmong(found, f.page)]
                 ELSE item[x]]
  /\ UNCHANGED <<approvals, verdict, review>>
  /\ contested' = contested \cup VerdictChanges
  /\ call' = [call EXCEPT ![c] = [stage |-> "mirroring", todo |-> todo]]
  /\ unmirrored' = (unmirrored \ {t[1] : t \in todo})
                     \cup {t[1] : t \in {t \in todo : FileWritesOf(c, t[1]) \ {t[2]} # {}}}
  /\ UNCHANGED <<page, mirror, edits, requests, drifted>>

\* All records are replaced in one turn.  Nothing removes the record of a page
\* that was not found.
Upsert(c) ==
  LET found == call[c].found
      todo == {<<RuntimeId[f.page], f.plan>> : f \in found}
  IN
  /\ call[c].stage = "pulling"
  /\ call[c].next = 5
  /\ item' = [x \in Item |->
               IF \E f \in found : RuntimeId[f.page] = x
                 THEN LET f == CHOOSE f \in found : RuntimeId[f.page] = x
                      IN  [known |-> TRUE, plan |-> f.plan, needed |-> f.needed, link |-> f.page,
                           parent |-> ParentAmong(found, f.page)]
                 ELSE item[x]]
  /\ UNCHANGED <<approvals, verdict, review>>
  /\ contested' = contested \cup VerdictChanges
  /\ call' = [call EXCEPT ![c] = [stage |-> "mirroring", todo |-> todo]]
  /\ unmirrored' = (unmirrored \ {t[1] : t \in todo})
                     \cup {t[1] : t \in {t \in todo : FileWritesOf(c, t[1]) \ {t[2]} # {}}}
  /\ UNCHANGED <<page, mirror, edits, requests, drifted>>

IsReady(t) == Kind[t[1]] = 3 /\ t[2] \in ReadyPlans

\* Mutant of Mirror: the loop ends at the first item that is no ready story.
MirrorUntilUnready(c) ==
  /\ call[c].stage = "mirroring"
  /\ \/ /\ \E t \in call[c].todo : ~IsReady(t)
        /\ call' = [call EXCEPT ![c] = Idle]
        /\ UNCHANGED mirror
     \/ \E t \in call[c].todo :
          /\ IsReady(t)
          /\ mirror' = [mirror EXCEPT ![t[1]] = t[2]]
          /\ call' = [call EXCEPT ![c].todo = @ \ {t}]
  /\ UNCHANGED <<page, records, edits, requests, excuses>>

\* The files are written one after the other; what is not a ready story is
\* passed over, and keeps the file it has.
Mirror(c) ==
  LET ready == {t \in call[c].todo : IsReady(t)} IN
  /\ call[c].stage = "mirroring"
  /\ \/ /\ ready = {}
        /\ call' = [call EXCEPT ![c] = Idle]
        /\ UNCHANGED mirror
     \/ \E t \in ready :
          /\ mirror' = [mirror EXCEPT ![t[1]] = t[2]]
          /\ call' = [call EXCEPT ![c].todo = @ \ {t}]
  /\ UNCHANGED <<page, records, edits, requests, excuses>>

\* A query, the persist or a file fails.
PullFails(c) ==
  /\ \/ /\ call[c].stage = "pulling"
        /\ drifted' = drifted \cup PagesOf(call[c].found)
        /\ UNCHANGED unmirrored
     \/ /\ call[c].stage = "mirroring"
        /\ unmirrored' = unmirrored \cup {t[1] : t \in call[c].todo}
        /\ UNCHANGED drifted
  /\ call' = [call EXCEPT ![c] = Idle]
  /\ UNCHANGED <<page, records, mirror, edits, requests, contested>>

-----------------------------------------------------------------------------
Next ==
  \/ \E p \in Page : CreatePage(p) \/ \E need \in BOOLEAN : EditPage(p, need)
  \/ \E x \in Item, need \in BOOLEAN : RespondToHandoff(x, need)
  \/ \E c \in Caller :
       \/ \E x \in Item : RequestApproval(c, x)
       \/ \E i \in DOMAIN approvals, d \in Decision : DecideApproval(c, i, d)
       \/ \E x \in Item, v \in Verdict : RecordValidation(c, x, v)
       \/ BootstrapFlow(c)
       \/ SeedNext(c)
       \/ StoreFails(c)
       \/ ReadAfterStore(c)
       \/ SyncGovernance(c)
       \/ Resolve(c)
       \/ Update(c)
       \/ PushFails(c)
       \/ StartPull(c)
       \/ Query(c)
       \/ Upsert(c)
       \/ Mirror(c)
       \/ PullFails(c)

Spec == Init /\ [][Next]_vars

-----------------------------------------------------------------------------
(* Properties. *)

\* The page that a push of x writes, as far as the runtime knows.
TargetOf(x) ==
  IF item[x].link # None THEN {item[x].link} ELSE Named(x)

\* Notion shows the decisions of the runtime: the page of an item shows its
\* latest approval and validation, or that a validation is pending, once no
\* request about it is in progress, unless a request failed, the page was not
\* there, two pushes with different decisions overlapped, another item is linked
\* to the same page, or the need for a validation, where there is none yet, has
\* changed without a push since the last one about the item: by the answer to
\* a handoff, or by a page that a pull read.
PagesShowDecisions ==
  \A x \in Item \ contested : \A p \in TargetOf(x) :
    /\ Selected(x)
    /\ WritesFor(None, x) = {}
    /\ \A c \in Caller : call[c].stage = "storing" => x \notin call[c].scope
    /\ \A y \in Item \ {x} : item[y].known => p \notin TargetOf(y)
    => SameDecisions(page[p], WriteOf(x))

\* The runtime holds the revision that Notion shows, once a pull that did not
\* overlap another with a different revision is complete and as long as neither
\* side is written.
PulledRevisionIsShown ==
  \A p \in Page \ drifted :
    FoundOf(None, p) = {} => item[RuntimeId[p]].plan = page[p].plan

\* A ready story has its current revision on disk when the pulls that write it
\* are over, unless they overlapped with different revisions or failed, or a
\* bootstrap seeded the record since.
ReadyStoriesAreOnDisk ==
  \A x \in Item \ unmirrored :
    /\ item[x].known
    /\ IsReady(<<x, item[x].plan>>)
    /\ FileWritesOf(None, x) = {}
    => mirror[x] = item[x].plan

\* A pull detaches an item from its parent only when the parent's page was
\* created while the pull was in progress or a query left out some pages.
OrphansAreNew ==
  [][\A c \in Caller :
       call[c].stage = "pulling" /\ call'[c].stage = "mirroring" =>
         \A f \in call[c].found :
           ParentPage[f.page] \in call[c].since /\ ~call[c].missed =>
             item'[RuntimeId[f.page]].parent = RuntimeId[ParentPage[f.page]]]_vars

\* docs/architecture.md:87-94 makes Notion the source of truth of the planning
\* status: a push never takes a page back to an earlier revision.
ManualRefinementStays ==
  [][\A p \in Page : page[p].there => page'[p].plan >= page[p].plan]_vars

-----------------------------------------------------------------------------
(* The inductive invariant behind the safety properties. *)

\* A pull has found pages of the databases it has queried, each of them once,
\* and, unless a query left out some, all that were there when it began.
PullsAreWhole ==
  \A c \in Caller : call[c].stage = "pulling" =>
    /\ \A f \in call[c].found : page[f.page].there /\ Kind[RuntimeId[f.page]] < call[c].next
    /\ \A f, g \in call[c].found : f.page = g.page => f = g
    /\ \A p \in call[c].since : page[p].there
    /\ ~call[c].missed =>
         \A p \in call[c].since : Kind[RuntimeId[p]] < call[c].next => p \in PagesOf(call[c].found)

\* A page that has not drifted has the revision that pulls found.
FindsAreCurrent ==
  \A p \in Page \ drifted :
    /\ page[p].there
    /\ \A c \in Caller : call[c].stage = "pulling" =>
         \A f \in call[c].found : f.page = p => f.plan = page[p].plan

\* A file that is not excused is being written with the revision of the record.
FileWritesAreCurrent ==
  \A x \in Item \ unmirrored, c \in Caller : call[c].stage = "mirroring" =>
    \A t \in call[c].todo : t[1] = x => t[2] = item[x].plan

\* The one page that stands for x: the mission's page, or the page naming it.
IsTarget(x, p) ==
  \/ x \in Seeded /\ SeedPage[x] = p
  \/ RuntimeId[p] = x /\ page[p].there

\* Records and pending writes are linked to no other page, and pending writes
\* are about records.
LinksAreTargets ==
  /\ \A x \in Item :
       /\ item[x].link # None => IsTarget(x, item[x].link)
       /\ item[x].known /\ x \in Seeded /\ SeedPage[x] # None => item[x].link # None
  /\ \A c \in Caller : call[c].stage = "pushing" =>
       /\ call[c].todo # <<>>
       /\ \A i \in DOMAIN call[c].todo :
            /\ item[call[c].todo[i].item].known
            /\ call[c].todo[i].link # None => IsTarget(call[c].todo[i].item, call[c].todo[i].link)

BeingStored(x) == \E c \in Caller : call[c].stage = "storing" /\ x \in call[c].scope

\* The decisions about x are shown, or on the page that x shares with another.
AreShown(x) ==
  \E p \in Page :
    /\ IsTarget(x, p)
    /\ \/ SameDecisions(page[p], WriteOf(x))
       \/ \E y \in Item \ {x} : item[y].known /\ IsTarget(y, p)

\* Whatever is not contested has decisions that are about to be read, on their
\* way to Notion, or shown there.
DecisionsAreUnderWay ==
  \A x \in Item \ contested :
    /\ Selected(x)
    /\ \/ BeingStored(x)
       \/ /\ \A w \in WritesFor(None, x) : SameDecisions(w, WriteOf(x))
          /\ WritesFor(None, x) = {} => AreShown(x)

IInv ==
  /\ TypeOK
  /\ PullsAreWhole
  /\ FindsAreCurrent
  /\ PulledRevisionIsShown
  /\ FileWritesAreCurrent
  /\ ReadyStoriesAreOnDisk
  /\ LinksAreTargets
  /\ DecisionsAreUnderWay

=============================================================================
