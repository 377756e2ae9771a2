------------------------------ MODULE StateFile ------------------------------
(***************************************************************************)
(* The runtime's persistence: FileRuntimeRepository keeps the whole state  *)
(* of a process in memory and, after every mutation, rewrites one JSON     *)
(* file with a snapshot of it.  persist() is an unserialised               *)
(* fs.promises.writeFile: open with truncation, one write at offset 0,     *)
(* close.  Requests of one process overlap at that await; the API, the     *)
(* worker and every gmv command are processes that share the file.         *)
(*                                                                         *)
(* A mutation is a record that only it adds.  A snapshot is the set of     *)
(* records in it, its length on disk grows with the number of records.     *)
(***************************************************************************)
EXTENDS Naturals, FiniteSets

CONSTANTS
  Process,   \* operating system processes that use the file
  Client,    \* requests in progress at one time, over all processes
  Host,      \* the process that serves each client
  Record,    \* the mutations callers ever ask for
  Faults     \* which of "kill" and "io" the environment may inject

ASSUME ConstantsAssumption ==
  /\ Process \cap Client = {}
  /\ Host \in [Client -> Process]
  /\ IsFiniteSet(Record)
  /\ Faults \subseteq {"kill", "io"}

VARIABLES
  up,         \* life cycle of each process
  mem,        \* this.state: the records in the memory of each process
  phase,      \* where the persist() of each writer is
  snap,       \* the snapshot that persist() serialised when it was called
  adds,       \* the record the caller of persist() waits for, as a set
  file,       \* the content of the state file
  issued,     \* records that have been asked for; ids are never reused
  acked,      \* history: records whose caller saw the call succeed
  solo,       \* history: writers whose persist() no other one overlapped
  causes      \* history: the events that void the promise, so far

vars == <<up, mem, phase, snap, adds, file, issued, acked, solo, causes>>

\* A request persists for its client, a starting process for itself.
Writer == Client \cup Process
ProcessOf(w) == IF w \in Process THEN w ELSE Host[w]

LifeCycle == {"down", "reset", "seeding", "up"}
Phase == {"idle", "open", "write", "done"}

\* What disturbs the store: two persists overlap, a process starts beside a
\* running one, a process dies inside a persist, a write fails.
Cause == {"overlap", "shared", "kill", "io"}
Causes(cause, happened) == IF happened THEN causes \cup {cause} ELSE causes
Disturbed == causes # {}

-----------------------------------------------------------------------------
(* File contents. *)

JsonSize(s) == Cardinality(s) + 1
Json(s) == [json |-> TRUE, recs |-> s, size |-> JsonSize(s)]
Unparsable(n) == [json |-> FALSE, recs |-> {}, size |-> n]

\* Mutant of Overlay: the remains are what the new content does not cover.
OverlayByDifference(f, s) == Unparsable(f.size - JsonSize(s))

\* A write at offset 0 leaves the tail of a longer content in place, and a
\* JSON document followed by a tail of another one does not parse.
Overlay(f, s) == IF f.size <= JsonSize(s) THEN Json(s) ELSE Unparsable(f.size)

\* initialize() takes a file that cannot be read or parsed for no file at all.
Recoverable(f) == IF f.json THEN f.recs ELSE {}

InFlight(w) == phase[w] \in {"open", "write"}
SomeInFlight == \E w \in Writer : InFlight(w)
Quiet == ~SomeInFlight

-----------------------------------------------------------------------------
TypeOK ==
  /\ up \in [Process -> LifeCycle]
  /\ mem \in [Process -> SUBSET Record]
  /\ phase \in [Writer -> Phase]
  /\ snap \in [Writer -> SUBSET Record]
  /\ adds \in [Writer -> SUBSET Record]
  /\ file \in [json : BOOLEAN, recs : SUBSET Record, size : Nat]
  /\ issued \subseteq Record
  /\ acked \subseteq Record
  /\ solo \subseteq Writer
  /\ causes \subseteq Cause

Init ==
  /\ up = [p \in Process |-> "down"]
  /\ mem = [p \in Process |-> {}]
  /\ phase = [w \in Writer |-> "idle"]
  /\ snap = [w \in Writer |-> {}]
  /\ adds = [w \in Writer |-> {}]
  /\ file = Unparsable(0)
  /\ issued = {}
  /\ acked = {}
  /\ solo = {}
  /\ causes = {}

-----------------------------------------------------------------------------
\* persist() is called with s in memory: the snapshot is taken at once, the
\* file system calls follow.  It overlaps every persist() in flight.
BeginPersist(w, s) ==
  /\ phase' = [phase EXCEPT ![w] = "open"]
  /\ snap' = [snap EXCEPT ![w] = s]
  /\ solo' = IF SomeInFlight THEN {} ELSE {w}

\* Mutant of Mutate: persist() is called before the record enters memory.
MutateAfterSnapshot(c) ==
  LET p == Host[c] IN
  /\ up[p] = "up"
  /\ phase[c] = "idle"
  /\ \E r \in Record \ issued :
       /\ issued' = issued \cup {r}
       /\ mem' = [mem EXCEPT ![p] = @ \cup {r}]
       /\ adds' = [adds EXCEPT ![c] = {r}]
       /\ BeginPersist(c, mem[p])
  /\ causes' = Causes("overlap", SomeInFlight)
  /\ UNCHANGED <<up, file, acked>>

\* A repository mutation: the record enters memory and persist() is called
\* in the same turn of the event loop.
Mutate(c) ==
  LET p == Host[c] IN
  /\ up[p] = "up"
  /\ phase[c] = "idle"
  /\ \E r \in Record \ issued :
       /\ issued' = issued \cup {r}
       /\ mem' = [mem EXCEPT ![p] = @ \cup {r}]
       /\ adds' = [adds EXCEPT ![c] = {r}]
       /\ BeginPersist(c, mem[p] \cup {r})
  /\ causes' = Causes("overlap", SomeInFlight)
  /\ UNCHANGED <<up, file, acked>>

\* Mutant of Truncate: the file is opened without truncation.
OpenInPlace(w) ==
  /\ phase[w] = "open"
  /\ phase' = [phase EXCEPT ![w] = "write"]
  /\ UNCHANGED <<up, mem, snap, adds, file, issued, acked, solo, causes>>

\* open(path, "w"): the old content is gone before the new one is written.
Truncate(w) ==
  /\ phase[w] = "open"
  /\ phase' = [phase EXCEPT ![w] = "write"]
  /\ file' = Unparsable(0)
  /\ UNCHANGED <<up, mem, snap, adds, issued, acked, solo, causes>>

Write(w) ==
  /\ phase[w] = "write"
  /\ phase' = [phase EXCEPT ![w] = "done"]
  /\ file' = Overlay(file, snap[w])
  /\ UNCHANGED <<up, mem, snap, adds, issued, acked, solo, causes>>

\* The await of persist() resumes and the caller gets its result.
Return(c) ==
  /\ phase[c] = "done"
  /\ phase' = [phase EXCEPT ![c] = "idle"]
  /\ snap' = [snap EXCEPT ![c] = {}]
  /\ adds' = [adds EXCEPT ![c] = {}]
  /\ acked' = acked \cup adds[c]
  /\ solo' = solo \ {c}
  /\ UNCHANGED <<up, mem, file, issued, causes>>

\* Mutant of Start: the state is the default one although the file is intact.
StartFromDefaults(p) ==
  /\ up[p] = "down"
  /\ mem' = [mem EXCEPT ![p] = {}]
  /\ up' = [up EXCEPT ![p] = IF file.json THEN "seeding" ELSE "reset"]
  /\ BeginPersist(p, {})
  /\ causes' = Causes("shared", \E q \in Process : up[q] # "down")
                 \cup (IF SomeInFlight THEN {"overlap"} ELSE {})
  /\ UNCHANGED <<adds, file, issued, acked>>

\* initialize(): load the file, or start from the default state and persist
\* it; every start then persists the seeds.
Start(p) ==
  /\ up[p] = "down"
  /\ mem' = [mem EXCEPT ![p] = Recoverable(file)]
  /\ up' = [up EXCEPT ![p] = IF file.json THEN "seeding" ELSE "reset"]
  /\ BeginPersist(p, Recoverable(file))
  /\ causes' = Causes("shared", \E q \in Process : up[q] # "down")
                 \cup (IF SomeInFlight THEN {"overlap"} ELSE {})
  /\ UNCHANGED <<adds, file, issued, acked>>

\* After a reset the seeds are a second persist().
Seed(p) ==
  /\ up[p] = "reset"
  /\ phase[p] = "done"
  /\ up' = [up EXCEPT ![p] = "seeding"]
  /\ BeginPersist(p, mem[p])
  /\ causes' = Causes("overlap", SomeInFlight)
  /\ UNCHANGED <<mem, adds, file, issued, acked>>

Serve(p) ==
  /\ up[p] = "seeding"
  /\ phase[p] = "done"
  /\ up' = [up EXCEPT ![p] = "up"]
  /\ phase' = [phase EXCEPT ![p] = "idle"]
  /\ snap' = [snap EXCEPT ![p] = {}]
  /\ solo' = solo \ {p}
  /\ UNCHANGED <<mem, adds, file, issued, acked, causes>>

\* What ends with the process p.
Terminate(p) ==
  /\ up' = [up EXCEPT ![p] = "down"]
  /\ mem' = [mem EXCEPT ![p] = {}]
  /\ phase' = [w \in Writer |-> IF ProcessOf(w) = p THEN "idle" ELSE phase[w]]
  /\ snap' = [w \in Writer |-> IF ProcessOf(w) = p THEN {} ELSE snap[w]]
  /\ adds' = [w \in Writer |-> IF ProcessOf(w) = p THEN {} ELSE adds[w]]
  /\ solo' = {w \in solo : ProcessOf(w) # p}

\* A command ends when its work is done; a kill ends a process anywhere.
Exit(p) ==
  /\ up[p] # "down"
  /\ \/ "kill" \in Faults
     \/ \A w \in Writer : ProcessOf(w) = p => phase[w] = "idle"
  /\ Terminate(p)
  /\ causes' = Causes("kill", \E w \in Writer : ProcessOf(w) = p /\ InFlight(w))
  /\ UNCHANGED <<file, issued, acked>>

\* writeFile rejects: the open fails, or the device is full and nothing or a
\* part of the snapshot was written.  The record stays in memory although its
\* caller sees the call fail.
FileAfterError(w) ==
  IF phase[w] = "open"
    THEN {file}
    ELSE {file, Unparsable(file.size), Unparsable(JsonSize(snap[w]))}

RequestFails(c) ==
  /\ "io" \in Faults
  /\ InFlight(c)
  /\ phase' = [phase EXCEPT ![c] = "idle"]
  /\ snap' = [snap EXCEPT ![c] = {}]
  /\ adds' = [adds EXCEPT ![c] = {}]
  /\ file' \in FileAfterError(c)
  /\ solo' = solo \ {c}
  /\ causes' = Causes("io", phase[c] = "write")
  /\ UNCHANGED <<up, mem, issued, acked>>

\* The same failure during a start rejects createRuntimeContext().
StartFails(p) ==
  /\ "io" \in Faults
  /\ InFlight(p)
  /\ Terminate(p)
  /\ file' \in FileAfterError(p)
  /\ causes' = Causes("io", phase[p] = "write")
  /\ UNCHANGED <<issued, acked>>

Next ==
  \/ \E c \in Client : Mutate(c) \/ Return(c) \/ RequestFails(c)
  \/ \E w \in Writer : Truncate(w) \/ Write(w)
  \/ \E p \in Process : Start(p) \/ Seed(p) \/ Serve(p) \/ Exit(p) \/ StartFails(p)

Spec == Init /\ [][Next]_vars

-----------------------------------------------------------------------------
(* Properties. *)

\* Every acknowledged mutation survives a restart that happens between two
\* persists, unless the store was disturbed: two persists overlapped, two
\* processes were alive together, a process died inside a persist, or the
\* write of a snapshot failed.
UndisturbedStoreKeepsAcked ==
  ~Disturbed /\ Quiet => acked \subseteq Recoverable(file)

\* Whatever happened to the file before, a persist that nothing overlapped
\* leaves exactly its snapshot on disk: the truncation removes any remains.
SoloPersistHeals ==
  [][\A w \in Writer :
       w \in solo /\ phase[w] = "write" /\ phase'[w] = "done"
         => file' = Json(snap[w])]_vars

\* The unconditional promise, as the documentation states it: between two
\* persists, what callers were told is stored is in the file.
AckedSurvivesRestart == Quiet => acked \subseteq Recoverable(file)

-----------------------------------------------------------------------------
(* The inductive invariant behind the two safety properties. *)

\* A persist belongs to a live process, whose memory holds the record that
\* the caller waits for; the persists of a start have no caller.
PersistsHaveOwners ==
  /\ \A w \in Writer : phase[w] # "idle" =>
       /\ up[ProcessOf(w)] # "down"
       /\ adds[w] \subseteq mem[ProcessOf(w)]
  /\ \A p \in Process : adds[p] = {}

\* While a persist that nothing overlapped is in flight, it is the only one
\* and, once it truncated the file, the file is empty.
SoloPersistsAreAlone ==
  \A w \in solo :
    /\ InFlight(w) => \A v \in Writer : InFlight(v) => v = w
    /\ phase[w] = "write" => file = Unparsable(0)

\* In an undisturbed store one process is alive, the persist in flight is
\* alone and carries the whole memory ...
OneWriter ==
  /\ \A p, q \in Process : up[p] # "down" /\ up[q] # "down" => p = q
  /\ \A w \in Writer : InFlight(w) => w \in solo /\ snap[w] = mem[ProcessOf(w)]

\* ... the memory contains everything on disk and everything acknowledged ...
MemoryIsAhead ==
  \A p \in Process : up[p] # "down" =>
    Recoverable(file) \subseteq mem[p] /\ acked \subseteq mem[p]

\* ... and, except while the file is empty, the disk has what is or is about
\* to be acknowledged.
FileIsDurable ==
  (\A w \in Writer : phase[w] # "write") =>
    /\ acked \subseteq Recoverable(file)
    /\ \A w \in Writer : phase[w] = "done" => adds[w] \subseteq Recoverable(file)

IInv ==
  /\ TypeOK
  /\ PersistsHaveOwners
  /\ SoloPersistsAreAlone
  /\ ~Disturbed => OneWriter /\ MemoryIsAhead /\ FileIsDurable

-----------------------------------------------------------------------------
(* The file implements DurableStore.  A snapshot counts as stored from the *)
(* moment its persist() truncates the old content.                         *)

Writing == {w \in Writer : phase[w] = "write"}

Stored ==
  CASE Disturbed -> {}
    [] ~Disturbed /\ Writing # {} -> UNION {snap[w] : w \in Writing}
    [] OTHER -> Recoverable(file)

Store == INSTANCE DurableStore WITH stored <- Stored, intact <- ~Disturbed

\* The state file keeps the promise of DurableStore, up to a disturbance.
ImplementsDurableStore == Store!Spec

=============================================================================
