--------------------------- MODULE StateFileProofs ---------------------------
(***************************************************************************)
(* Proofs about StateFile, for every set of processes, clients and records *)
(* and every choice of faults: type correctness, the durability of what    *)
(* was acknowledged in an undisturbed store, the healing effect of a       *)
(* persist that runs alone, and the refinement of DurableStore.            *)
(***************************************************************************)
EXTENDS StateFile, FiniteSetTheorems, TLAPS

\* The size of a JSON document is a positive number.
LEMMA JsonSizeType ==
  ASSUME NEW s \in SUBSET Record
  PROVE  JsonSize(s) \in Nat /\ JsonSize(s) > 0
<1>1. IsFiniteSet(s)
  BY ConstantsAssumption, FS_Subset
<1>2. Cardinality(s) \in Nat
  BY <1>1, FS_CardinalityType
<1>. QED  BY <1>2 DEF JsonSize

\* What a persist writes is a file content.
LEMMA ContentType ==
  ASSUME NEW s \in SUBSET Record,
         NEW f \in [json : BOOLEAN, recs : SUBSET Record, size : Nat]
  PROVE  /\ Json(s) \in [json : BOOLEAN, recs : SUBSET Record, size : Nat]
         /\ Overlay(f, s) \in [json : BOOLEAN, recs : SUBSET Record, size : Nat]
         /\ Recoverable(f) \in SUBSET Record
         /\ Unparsable(0) \in [json : BOOLEAN, recs : SUBSET Record, size : Nat]
         /\ Unparsable(f.size) \in [json : BOOLEAN, recs : SUBSET Record, size : Nat]
         /\ Unparsable(JsonSize(s)) \in [json : BOOLEAN, recs : SUBSET Record, size : Nat]
BY JsonSizeType DEF Json, Overlay, Recoverable, Unparsable

\* So is what a failed persist leaves behind.
LEMMA FileAfterErrorType ==
  ASSUME TypeOK, NEW w \in Writer
  PROVE  FileAfterError(w) \subseteq [json : BOOLEAN, recs : SUBSET Record, size : Nat]
<1>1. snap[w] \in SUBSET Record /\ file \in [json : BOOLEAN, recs : SUBSET Record, size : Nat]
  BY DEF TypeOK
<1>2. /\ Unparsable(file.size) \in [json : BOOLEAN, recs : SUBSET Record, size : Nat]
      /\ Unparsable(JsonSize(snap[w])) \in [json : BOOLEAN, recs : SUBSET Record, size : Nat]
  BY <1>1, ContentType
<1>. QED  BY <1>1, <1>2 DEF FileAfterError

\* A write into a truncated file leaves the snapshot and nothing else.
LEMMA OverlayOnEmpty ==
  ASSUME NEW s \in SUBSET Record
  PROVE  Overlay(Unparsable(0), s) = Json(s)
BY JsonSizeType DEF Overlay, Unparsable

\* Clients and processes are writers, and never the same ones.
LEMMA WriterKinds ==
  /\ Client \subseteq Writer /\ Process \subseteq Writer
  /\ \A c \in Client : c \notin Process /\ ProcessOf(c) = Host[c]
  /\ \A p \in Process : ProcessOf(p) = p
<1>1. \A c \in Client : c \notin Process
  BY ConstantsAssumption
<1>. QED  BY <1>1 DEF Writer, ProcessOf

\* Every writer belongs to a process.
LEMMA ProcessOfType ==
  \A w \in Writer : ProcessOf(w) \in Process
BY ConstantsAssumption DEF Writer, ProcessOf

\* The state of a StateFile always has its type.
THEOREM TypeCorrect == Spec => []TypeOK
<1>1. Init => TypeOK
  BY DEF Init, TypeOK, Unparsable, LifeCycle, Phase
<1>2. TypeOK /\ [Next]_vars => TypeOK'
  <2> SUFFICES ASSUME TypeOK, [Next]_vars PROVE TypeOK'
    OBVIOUS
  <2> USE ProcessOfType DEF TypeOK, LifeCycle, Phase
  <2>0. Client \subseteq Writer /\ Process \subseteq Writer
    BY DEF Writer
  <2>1. ASSUME NEW c \in Client, Mutate(c) PROVE TypeOK'
    BY <2>0, <2>1, ConstantsAssumption DEF Mutate, BeginPersist, Causes, Cause
  <2>2. ASSUME NEW c \in Client, Return(c) PROVE TypeOK'
    BY <2>0, <2>2 DEF Return
  <2>3. ASSUME NEW c \in Client, RequestFails(c) PROVE TypeOK'
    <3>1. file' \in [json : BOOLEAN, recs : SUBSET Record, size : Nat]
      BY <2>0, <2>3, FileAfterErrorType DEF RequestFails
    <3>. QED  BY <2>0, <2>3, <3>1 DEF RequestFails, Causes, Cause
  <2>4. ASSUME NEW w \in Writer, Truncate(w) PROVE TypeOK'
    BY <2>4, ContentType DEF Truncate
  <2>5. ASSUME NEW w \in Writer, Write(w) PROVE TypeOK'
    BY <2>5, ContentType DEF Write
  <2>6. ASSUME NEW p \in Process, Start(p) PROVE TypeOK'
    <3>1. Recoverable(file) \in SUBSET Record
      BY ContentType
    <3>2. up' \in [Process -> LifeCycle]
      BY <2>6 DEF Start
    <3>3. mem' \in [Process -> SUBSET Record] /\ snap' \in [Writer -> SUBSET Record]
      BY <2>0, <2>6, <3>1 DEF Start, BeginPersist
    <3>4. causes' \subseteq Cause
      BY <2>6 DEF Start, Causes, Cause
    <3>. QED  BY <2>0, <2>6, <3>2, <3>3, <3>4 DEF Start, BeginPersist
  <2>7. ASSUME NEW p \in Process, Seed(p) PROVE TypeOK'
    BY <2>0, <2>7 DEF Seed, BeginPersist, Causes, Cause
  <2>8. ASSUME NEW p \in Process, Serve(p) PROVE TypeOK'
    BY <2>0, <2>8 DEF Serve
  <2>9. ASSUME NEW p \in Process, Exit(p) PROVE TypeOK'
    BY <2>0, <2>9 DEF Exit, Terminate, Causes, Cause
  <2>10. ASSUME NEW p \in Process, StartFails(p) PROVE TypeOK'
    <3>1. file' \in [json : BOOLEAN, recs : SUBSET Record, size : Nat]
      BY <2>0, <2>10, FileAfterErrorType DEF StartFails
    <3>. QED  BY <2>0, <2>10, <3>1 DEF StartFails, Terminate, Causes, Cause
  <2>11. CASE UNCHANGED vars
    BY <2>11 DEF vars
  <2>. QED  BY <2>1, <2>2, <2>3, <2>4, <2>5, <2>6, <2>7, <2>8, <2>9, <2>10, <2>11 DEF Next
<1>. QED  BY <1>1, <1>2, PTL DEF Spec

-----------------------------------------------------------------------------
(* The inductive invariant. *)

\* The repository starts in the invariant.
LEMMA InitIInv == Init => IInv
BY ProcessOfType, WriterKinds DEF Init, IInv, TypeOK, Unparsable, LifeCycle, Phase, PersistsHaveOwners,
   SoloPersistsAreAlone, OneWriter, MemoryIsAhead, FileIsDurable, InFlight, Recoverable

\* Every step of the repository keeps the invariant.
LEMMA StepIInv == TypeOK' /\ IInv /\ [Next]_vars => IInv'
<1> SUFFICES ASSUME TypeOK', IInv, [Next]_vars PROVE IInv'
  OBVIOUS
<1> USE ProcessOfType DEF IInv, TypeOK, InFlight
<1>1. ASSUME NEW c \in Client, Mutate(c) PROVE IInv'
  <2>1. PersistsHaveOwners'
    BY WriterKinds, <1>1 DEF Mutate, BeginPersist, PersistsHaveOwners
  <2>2. SoloPersistsAreAlone'
    BY WriterKinds, <1>1 DEF Mutate, BeginPersist, SoloPersistsAreAlone, SomeInFlight
  <2>3. ASSUME ~Disturbed' PROVE OneWriter' /\ MemoryIsAhead' /\ FileIsDurable'
    <3>1. ~Disturbed /\ OneWriter /\ MemoryIsAhead /\ FileIsDurable
      BY <1>1, <2>3 DEF Mutate, BeginPersist, Disturbed, Causes
    <3>2. OneWriter'
      <4>1. ~SomeInFlight
        BY <1>1, <2>3 DEF Mutate, Disturbed, Causes
      <4>2. /\ snap'[c] = mem'[Host[c]] /\ Host[c] \in Process
            /\ \A p \in Process : p # Host[c] => mem'[p] = mem[p]
        BY WriterKinds, <1>1, ConstantsAssumption DEF Mutate, BeginPersist
      <4>3. /\ \A w \in Writer : InFlight(w)' => w = c
            /\ c \in solo' /\ up' = up
        BY WriterKinds, <1>1, <4>1 DEF Mutate, BeginPersist, SomeInFlight
      <4>. QED  BY WriterKinds, <3>1, <4>2, <4>3 DEF OneWriter
    <3>3. MemoryIsAhead'
      BY WriterKinds, <1>1, <2>3, <3>1 DEF Mutate, BeginPersist, OneWriter, MemoryIsAhead, Disturbed, Causes, Recoverable
    <3>4. FileIsDurable'
      BY WriterKinds, <1>1, <2>3, <3>1 DEF Mutate, BeginPersist, FileIsDurable, Disturbed, Causes, Recoverable
    <3>. QED  BY <3>2, <3>3, <3>4
  <2>. QED  BY <2>1, <2>2, <2>3
<1>2. ASSUME NEW c \in Client, Return(c) PROVE IInv'
  <2>1. PersistsHaveOwners'
    BY WriterKinds, <1>2 DEF Return, PersistsHaveOwners
  <2>2. SoloPersistsAreAlone'
    BY WriterKinds, <1>2 DEF Return, SoloPersistsAreAlone, SomeInFlight
  <2>3. ASSUME ~Disturbed' PROVE OneWriter' /\ MemoryIsAhead' /\ FileIsDurable'
    <3>1. ~Disturbed /\ OneWriter /\ MemoryIsAhead /\ FileIsDurable
      BY <1>2, <2>3 DEF Return, Disturbed, Causes
    <3>2. OneWriter'
      BY WriterKinds, <1>2, <2>3, <3>1 DEF Return, OneWriter, Disturbed, Causes, SomeInFlight
    <3>3. MemoryIsAhead'
      BY WriterKinds, <1>2, <2>3, <3>1 DEF Return, OneWriter, MemoryIsAhead, Disturbed, Causes,
         Recoverable, PersistsHaveOwners
    <3>4. FileIsDurable'
      BY WriterKinds, <1>2, <2>3, <3>1 DEF Return, FileIsDurable, Disturbed, Causes, Recoverable
    <3>. QED  BY <3>2, <3>3, <3>4
  <2>. QED  BY <2>1, <2>2, <2>3
<1>3. ASSUME NEW c \in Client, RequestFails(c) PROVE IInv'
  <2>1. PersistsHaveOwners'
    BY WriterKinds, <1>3 DEF RequestFails, FileAfterError, PersistsHaveOwners
  <2>2. SoloPersistsAreAlone'
    BY WriterKinds, <1>3 DEF RequestFails, FileAfterError, SoloPersistsAreAlone, SomeInFlight
  <2>3. ASSUME ~Disturbed' PROVE OneWriter' /\ MemoryIsAhead' /\ FileIsDurable'
    <3>1. ~Disturbed /\ OneWriter /\ MemoryIsAhead /\ FileIsDurable
      BY <1>3, <2>3 DEF RequestFails, FileAfterError, Disturbed, Causes
    <3>2. OneWriter'
      BY WriterKinds, <1>3, <2>3, <3>1 DEF RequestFails, FileAfterError, OneWriter, Disturbed, Causes, SomeInFlight
    <3>3. MemoryIsAhead'
      BY WriterKinds, <1>3, <2>3, <3>1 DEF RequestFails, FileAfterError, OneWriter, MemoryIsAhead, Disturbed, Causes, Recoverable
    <3>4. FileIsDurable'
      BY WriterKinds, <1>3, <2>3, <3>1 DEF RequestFails, FileAfterError, FileIsDurable, Disturbed, Causes, Recoverable
    <3>. QED  BY <3>2, <3>3, <3>4
  <2>. QED  BY <2>1, <2>2, <2>3
<1>4. ASSUME NEW w \in Writer, Truncate(w) PROVE IInv'
  <2>1. PersistsHaveOwners'
    BY WriterKinds, <1>4 DEF Truncate, PersistsHaveOwners
  <2>2. SoloPersistsAreAlone'
    BY WriterKinds, <1>4 DEF Truncate, SoloPersistsAreAlone, SomeInFlight
  <2>3. ASSUME ~Disturbed' PROVE OneWriter' /\ MemoryIsAhead' /\ FileIsDurable'
    <3>1. ~Disturbed /\ OneWriter /\ MemoryIsAhead /\ FileIsDurable
      BY <1>4, <2>3 DEF Truncate, Disturbed, Causes
    <3>2. OneWriter'
      BY WriterKinds, <1>4, <2>3, <3>1 DEF Truncate, OneWriter, Disturbed, Causes, SomeInFlight
    <3>3. MemoryIsAhead'
      BY WriterKinds, <1>4, <2>3, <3>1 DEF Truncate, OneWriter, MemoryIsAhead, Disturbed, Causes,
         Recoverable, Unparsable
    <3>4. FileIsDurable'
      BY WriterKinds, <1>4, <2>3, <3>1 DEF Truncate, FileIsDurable, Disturbed, Causes, Recoverable
    <3>. QED  BY <3>2, <3>3, <3>4
  <2>. QED  BY <2>1, <2>2, <2>3
<1>5. ASSUME NEW w \in Writer, Write(w) PROVE IInv'
  <2>1. PersistsHaveOwners'
    BY WriterKinds, <1>5 DEF Write, PersistsHaveOwners
  <2>2. SoloPersistsAreAlone'
    BY WriterKinds, <1>5 DEF Write, SoloPersistsAreAlone, SomeInFlight
  <2>3. ASSUME ~Disturbed' PROVE OneWriter' /\ MemoryIsAhead' /\ FileIsDurable'
    <3>1. ~Disturbed /\ OneWriter /\ MemoryIsAhead /\ FileIsDurable
      BY <1>5, <2>3 DEF Write, Disturbed, Causes
    <3>2. OneWriter'
      BY WriterKinds, <1>5, <2>3, <3>1 DEF Write, OneWriter, Disturbed, Causes, SomeInFlight
    <3>3. /\ file' = Json(mem[ProcessOf(w)])
          /\ \A p \in Process : up[p] # "down" => p = ProcessOf(w)
      BY <1>5, <3>1, OverlayOnEmpty DEF Write, OneWriter, SoloPersistsAreAlone,
         PersistsHaveOwners
    <3>4. MemoryIsAhead'
      BY <1>5, <3>1, <3>3 DEF Write, MemoryIsAhead, Recoverable, Json
    <3>5. FileIsDurable'
      BY <1>5, <3>1, <3>3 DEF Write, MemoryIsAhead, FileIsDurable, Recoverable, Json,
         PersistsHaveOwners
    <3>. QED  BY <3>2, <3>4, <3>5
  <2>. QED  BY <2>1, <2>2, <2>3
<1>6. ASSUME NEW p \in Process, Start(p) PROVE IInv'
  <2>1. PersistsHaveOwners'
    BY WriterKinds, <1>6 DEF Start, BeginPersist, PersistsHaveOwners
  <2>2. SoloPersistsAreAlone'
    BY WriterKinds, <1>6 DEF Start, BeginPersist, SoloPersistsAreAlone, SomeInFlight
  <2>3. ASSUME ~Disturbed' PROVE OneWriter' /\ MemoryIsAhead' /\ FileIsDurable'
    <3>1. /\ ~Disturbed /\ OneWriter /\ MemoryIsAhead /\ FileIsDurable
          /\ ~SomeInFlight /\ \A q \in Process : up[q] = "down"
      BY <1>6, <2>3 DEF Start, Disturbed, Causes
    <3>2. \A w \in Writer : phase[w] = "idle"
      BY <3>1 DEF PersistsHaveOwners
    <3>3. acked \subseteq Recoverable(file)
      BY <3>1, <3>2 DEF FileIsDurable
    <3>4. OneWriter'
      BY WriterKinds, <1>6, <3>1 DEF Start, BeginPersist, OneWriter, SomeInFlight
    <3>5. MemoryIsAhead'
      BY <1>6, <3>1, <3>3 DEF Start, MemoryIsAhead, Recoverable
    <3>6. FileIsDurable'
      BY WriterKinds, <1>6, <3>2, <3>3 DEF Start, BeginPersist, FileIsDurable, Recoverable
    <3>. QED  BY <3>4, <3>5, <3>6
  <2>. QED  BY <2>1, <2>2, <2>3
<1>7. ASSUME NEW p \in Process, Seed(p) PROVE IInv'
  <2>1. PersistsHaveOwners'
    BY WriterKinds, <1>7 DEF Seed, BeginPersist, PersistsHaveOwners
  <2>2. SoloPersistsAreAlone'
    BY WriterKinds, <1>7 DEF Seed, BeginPersist, SoloPersistsAreAlone, SomeInFlight
  <2>3. ASSUME ~Disturbed' PROVE OneWriter' /\ MemoryIsAhead' /\ FileIsDurable'
    <3>1. ~Disturbed /\ OneWriter /\ MemoryIsAhead /\ FileIsDurable
      BY <1>7, <2>3 DEF Seed, BeginPersist, Disturbed, Causes
    <3>2. OneWriter'
      BY WriterKinds, <1>7, <2>3, <3>1 DEF Seed, BeginPersist, OneWriter, Disturbed, Causes, SomeInFlight
    <3>3. MemoryIsAhead'
      BY WriterKinds, <1>7, <2>3, <3>1 DEF Seed, BeginPersist, OneWriter, MemoryIsAhead, Disturbed, Causes, Recoverable
    <3>4. FileIsDurable'
      BY WriterKinds, <1>7, <2>3, <3>1 DEF Seed, BeginPersist, FileIsDurable, Disturbed, Causes, Recoverable
    <3>. QED  BY <3>2, <3>3, <3>4
  <2>. QED  BY <2>1, <2>2, <2>3
<1>8. ASSUME NEW p \in Process, Serve(p) PROVE IInv'
  <2>1. PersistsHaveOwners'
    BY WriterKinds, <1>8 DEF Serve, PersistsHaveOwners
  <2>2. SoloPersistsAreAlone'
    BY WriterKinds, <1>8 DEF Serve, SoloPersistsAreAlone, SomeInFlight
  <2>3. ASSUME ~Disturbed' PROVE OneWriter' /\ MemoryIsAhead' /\ FileIsDurable'
    <3>1. ~Disturbed /\ OneWriter /\ MemoryIsAhead /\ FileIsDurable
      BY <1>8, <2>3 DEF Serve, Disturbed, Causes
    <3>2. OneWriter'
      BY WriterKinds, <1>8, <2>3, <3>1 DEF Serve, OneWriter, Disturbed, Causes, SomeInFlight
    <3>3. MemoryIsAhead'
      BY WriterKinds, <1>8, <2>3, <3>1 DEF Serve, OneWriter, MemoryIsAhead, Disturbed, Causes, Recoverable
    <3>4. FileIsDurable'
      BY WriterKinds, <1>8, <2>3, <3>1 DEF Serve, FileIsDurable, Disturbed, Causes, Recoverable
    <3>. QED  BY <3>2, <3>3, <3>4
  <2>. QED  BY <2>1, <2>2, <2>3
<1>9. ASSUME NEW p \in Process, Exit(p) PROVE IInv'
  <2>1. PersistsHaveOwners'
    BY WriterKinds, <1>9 DEF Exit, Terminate, PersistsHaveOwners
  <2>2. SoloPersistsAreAlone'
    BY WriterKinds, <1>9 DEF Exit, Terminate, SoloPersistsAreAlone, SomeInFlight
  <2>3. ASSUME ~Disturbed' PROVE OneWriter' /\ MemoryIsAhead' /\ FileIsDurable'
    <3>1. ~Disturbed /\ OneWriter /\ MemoryIsAhead /\ FileIsDurable
      BY <1>9, <2>3 DEF Exit, Terminate, Disturbed, Causes
    <3>2. OneWriter'
      BY WriterKinds, <1>9, <2>3, <3>1 DEF Exit, Terminate, OneWriter, Disturbed, Causes, SomeInFlight
    <3>3. MemoryIsAhead'
      BY WriterKinds, <1>9, <2>3, <3>1 DEF Exit, Terminate, OneWriter, MemoryIsAhead, Disturbed, Causes, Recoverable
    <3>4. FileIsDurable'
      BY WriterKinds, <1>9, <2>3, <3>1 DEF Exit, Terminate, FileIsDurable, Disturbed, Causes, Recoverable
    <3>. QED  BY <3>2, <3>3, <3>4
  <2>. QED  BY <2>1, <2>2, <2>3
<1>10. ASSUME NEW p \in Process, StartFails(p) PROVE IInv'
  <2>1. PersistsHaveOwners'
    BY WriterKinds, <1>10 DEF StartFails, Terminate, FileAfterError, PersistsHaveOwners
  <2>2. SoloPersistsAreAlone'
    BY WriterKinds, <1>10 DEF StartFails, Terminate, FileAfterError, SoloPersistsAreAlone, SomeInFlight
  <2>3. ASSUME ~Disturbed' PROVE OneWriter' /\ MemoryIsAhead' /\ FileIsDurable'
    <3>1. ~Disturbed /\ OneWriter /\ MemoryIsAhead /\ FileIsDurable
      BY <1>10, <2>3 DEF StartFails, Terminate, FileAfterError, Disturbed, Causes
    <3>2. OneWriter'
      BY WriterKinds, <1>10, <2>3, <3>1 DEF StartFails, Terminate, FileAfterError, OneWriter, Disturbed, Causes, SomeInFlight
    <3>3. MemoryIsAhead'
      BY WriterKinds, <1>10, <2>3, <3>1 DEF StartFails, Terminate, FileAfterError, OneWriter, MemoryIsAhead, Disturbed, Causes, Recoverable
    <3>4. phase[p] = "open" /\ file' = file
      BY <1>10, <2>3 DEF StartFails, FileAfterError, Disturbed, Causes
    <3>5. \A w \in Writer : phase[w] # "write"
      BY WriterKinds, <3>1, <3>4 DEF OneWriter, SoloPersistsAreAlone
    <3>6. FileIsDurable'
      BY WriterKinds, <1>10, <3>1, <3>4, <3>5 DEF StartFails, Terminate, FileIsDurable, Recoverable
    <3>. QED  BY <3>2, <3>3, <3>6
  <2>. QED  BY <2>1, <2>2, <2>3
<1>11. CASE UNCHANGED vars
  BY <1>11 DEF vars, PersistsHaveOwners, SoloPersistsAreAlone, OneWriter, MemoryIsAhead,
     FileIsDurable, Disturbed
<1>. QED  BY <1>1, <1>2, <1>3, <1>4, <1>5, <1>6, <1>7, <1>8, <1>9, <1>10, <1>11 DEF Next

\* The invariant holds in every state the repository reaches.
LEMMA Invariance == Spec => []IInv
<1>1. IInv /\ TypeOK' /\ [Next]_vars => IInv'
  BY StepIInv
<1>. QED  BY InitIInv, TypeCorrect, <1>1, PTL DEF Spec

-----------------------------------------------------------------------------
(* The theorems. *)

\* Acknowledged mutations survive a restart of an undisturbed store: one
\* process at a time, persists that do not overlap, no kill inside a persist
\* and no failed write.
THEOREM Durability == Spec => []UndisturbedStoreKeepsAcked
<1>1. IInv => UndisturbedStoreKeepsAcked
  BY DEF IInv, UndisturbedStoreKeepsAcked, FileIsDurable, Quiet, SomeInFlight, InFlight
<1>. QED  BY <1>1, Invariance, PTL

\* A persist that nothing overlaps leaves exactly its snapshot in the file,
\* whatever overlaps, kills and failed writes left there before it.
THEOREM Healing == Spec => SoloPersistHeals
<1>1. ASSUME IInv, Next, NEW w \in Writer,
             w \in solo, phase[w] = "write", phase'[w] = "done"
      PROVE  file' = Json(snap[w])
  <2> USE <1>1 DEF IInv
  <2>1. file = Unparsable(0)
    BY DEF SoloPersistsAreAlone
  <2>2. ASSUME NEW v \in Writer, Write(v) PROVE v = w
    BY <2>2 DEF Write, TypeOK
  <2>3. Write(w)
    <3>1. ASSUME NEW c \in Client, Mutate(c) \/ Return(c) \/ RequestFails(c) PROVE FALSE
      BY <3>1, WriterKinds DEF Mutate, BeginPersist, Return, RequestFails, TypeOK
    <3>2. ASSUME NEW v \in Writer, Truncate(v) PROVE FALSE
      BY <3>2 DEF Truncate, TypeOK
    <3>3. ASSUME NEW p \in Process, Start(p) \/ Seed(p) \/ Serve(p) PROVE FALSE
      BY <3>3, WriterKinds DEF Start, Seed, Serve, BeginPersist, TypeOK
    <3>4. ASSUME NEW p \in Process, Exit(p) \/ StartFails(p) PROVE FALSE
      BY <3>4, WriterKinds DEF Exit, StartFails, Terminate, TypeOK
    <3>. QED  BY <2>2, <3>1, <3>2, <3>3, <3>4 DEF Next
  <2>. QED  BY <2>1, <2>3, OverlayOnEmpty DEF Write, TypeOK
<1>2. IInv /\ [Next]_vars =>
        [\A w \in Writer :
           w \in solo /\ phase[w] = "write" /\ phase'[w] = "done"
             => file' = Json(snap[w])]_vars
  BY <1>1
<1>. QED  BY <1>2, Invariance, PTL DEF Spec, SoloPersistHeals

-----------------------------------------------------------------------------
(* The refinement. *)

\* While the store is undisturbed, what a snapshot in flight holds contains
\* everything on disk, so that its truncation adds to what is stored.
StoredIsDetermined ==
  /\ \A w \in Writer : phase[w] = "write" => Stored = snap[w]
  /\ (\A w \in Writer : phase[w] # "write") => Stored = Recoverable(file)

\* What an undisturbed store holds, by whether a write is in progress.
LEMMA StoredValue == IInv /\ ~Disturbed => StoredIsDetermined
<1> SUFFICES ASSUME IInv, ~Disturbed PROVE StoredIsDetermined
  OBVIOUS
<1>1. ASSUME NEW w \in Writer, phase[w] = "write" PROVE Stored = snap[w]
  <2>1. Writing = {w}
    BY <1>1 DEF IInv, OneWriter, SoloPersistsAreAlone, InFlight, Writing
  <2>2. UNION {snap[v] : v \in Writing} = snap[w]
    BY <2>1
  <2>. QED  BY <2>1, <2>2 DEF Stored
<1>2. ASSUME \A w \in Writer : phase[w] # "write" PROVE Stored = Recoverable(file)
  BY <1>2 DEF Stored, Writing
<1>. QED  BY <1>1, <1>2 DEF StoredIsDetermined

\* A step that leaves acked and the file alone and neither begins nor ends a
\* write leaves the store alone too, or disturbs it.
LEMMA QuietStep ==
  ASSUME IInv, IInv', acked' = acked, Disturbed => Disturbed',
         ~Disturbed' => Stored' = Stored
  PROVE  [Store!Next]_(Store!vars)
<1>1. CASE Disturbed
  BY <1>1 DEF Stored, Store!vars
<1>2. CASE ~Disturbed /\ Disturbed'
  BY <1>2 DEF Stored, Store!Next, Store!Disturb
<1>3. CASE ~Disturbed /\ ~Disturbed'
  BY <1>3 DEF Store!vars
<1>. QED  BY <1>1, <1>2, <1>3

\* A step of the repository is a step of DurableStore or a stutter.
LEMMA RefinementStep == IInv /\ IInv' /\ [Next]_vars => [Store!Next]_(Store!vars)
<1> SUFFICES ASSUME IInv, IInv', [Next]_vars PROVE [Store!Next]_(Store!vars)
  OBVIOUS
<1>a. ~Disturbed => StoredIsDetermined
  BY StoredValue
<1>b. ~Disturbed' => StoredIsDetermined'
  <2>1. (IInv /\ ~Disturbed => StoredIsDetermined)'
    BY StoredValue, PTL
  <2>. QED  BY <2>1
<1>c. Disturbed => Disturbed'
  BY DEF Next, vars, Disturbed, Causes, Mutate, Return, RequestFails, Truncate, Write, Start,
     Seed, Serve, Exit, StartFails
<1> USE WriterKinds, <1>a, <1>b, <1>c DEF IInv, TypeOK, StoredIsDetermined
<1>1. ASSUME NEW c \in Client, Mutate(c) PROVE [Store!Next]_(Store!vars)
  <2>1. ASSUME ~Disturbed' PROVE Stored' = Stored
    <3>1. ~Disturbed /\ ~SomeInFlight
      BY <1>1, <2>1 DEF Mutate, Disturbed, Causes
    <3>. QED  BY <1>1, <2>1, <3>1 DEF Mutate, BeginPersist, SomeInFlight, InFlight
  <2>. QED  BY <1>1, <2>1, QuietStep DEF Mutate
<1>2. ASSUME NEW c \in Client, Return(c) PROVE [Store!Next]_(Store!vars)
  <2>1. /\ Disturbed' <=> Disturbed
        /\ adds[c] \in SUBSET Record /\ acked' = acked \cup adds[c]
    BY <1>2 DEF Return, Disturbed
  <2>2. ASSUME ~Disturbed PROVE Stored' = Stored
    BY <1>2, <2>1, <2>2 DEF Return
  <2>3. ASSUME ~Disturbed PROVE adds[c] \subseteq Stored
    <3>1. CASE \A w \in Writer : phase[w] # "write"
      BY <1>2, <2>3, <3>1 DEF Return, FileIsDurable
    <3>2. CASE \E w \in Writer : phase[w] = "write"
      <4>1. PICK w \in Writer : phase[w] = "write"
        BY <3>2
      <4>2. /\ Stored = mem[ProcessOf(w)] /\ up[ProcessOf(w)] # "down"
            /\ adds[c] \subseteq mem[ProcessOf(c)] /\ up[ProcessOf(c)] # "down"
        BY <1>2, <2>3, <4>1 DEF Return, OneWriter, PersistsHaveOwners, InFlight
      <4>3. ProcessOf(c) = ProcessOf(w)
        BY <2>3, <4>2, ProcessOfType DEF OneWriter
      <4>. QED  BY <4>2, <4>3
    <3>. QED  BY <3>1, <3>2
  <2>4. Stored' = Stored
    BY <2>1, <2>2 DEF Stored
  <2>. QED  BY <2>1, <2>3, <2>4 DEF Store!Next, Store!Acknowledge
<1>3. ASSUME NEW c \in Client, RequestFails(c) PROVE [Store!Next]_(Store!vars)
  <2>1. ASSUME ~Disturbed' PROVE Stored' = Stored
    <3>1. ~Disturbed /\ phase[c] = "open" /\ file' = file
      BY <1>3, <2>1 DEF RequestFails, FileAfterError, InFlight, Disturbed, Causes
    <3>2. \A w \in Writer : phase[w] # "write"
      BY <3>1 DEF OneWriter, SoloPersistsAreAlone, InFlight
    <3>. QED  BY <1>3, <2>1, <3>1, <3>2 DEF RequestFails
  <2>. QED  BY <1>3, <2>1, QuietStep DEF RequestFails
<1>4. ASSUME NEW w \in Writer, Truncate(w) PROVE [Store!Next]_(Store!vars)
  <2>1. Disturbed' <=> Disturbed
    BY <1>4 DEF Truncate, Disturbed
  <2>2. CASE Disturbed
    BY <1>4, <2>1, <2>2, QuietStep DEF Truncate
  <2>3. CASE ~Disturbed
    <3>1. /\ \A v \in Writer : phase[v] # "write"
          /\ snap[w] = mem[ProcessOf(w)] /\ up[ProcessOf(w)] # "down"
      BY <1>4, <2>3 DEF Truncate, OneWriter, SoloPersistsAreAlone, PersistsHaveOwners, InFlight
    <3>2. Stored' = snap[w] /\ Stored = Recoverable(file)
      BY <1>4, <2>1, <2>3, <3>1 DEF Truncate
    <3>3. Recoverable(file) \subseteq snap[w]
      BY <2>3, <3>1, ProcessOfType DEF MemoryIsAhead
    <3>4. Stored' = Stored \cup snap[w]
      BY <3>2, <3>3
    <3>. QED  BY <1>4, <2>1, <2>3, <3>4 DEF Truncate, Store!Next, Store!Store
  <2>. QED  BY <2>2, <2>3
<1>5. ASSUME NEW w \in Writer, Write(w) PROVE [Store!Next]_(Store!vars)
  <2>1. ASSUME ~Disturbed' PROVE Stored' = Stored
    <3>1. ~Disturbed /\ \A v \in Writer : phase'[v] # "write"
      BY <1>5, <2>1 DEF Write, Disturbed, OneWriter, SoloPersistsAreAlone, InFlight
    <3>2. Stored = snap[w] /\ file' = Json(snap[w])
      BY <1>5, <3>1, OverlayOnEmpty DEF Write, OneWriter, SoloPersistsAreAlone, InFlight
    <3>. QED  BY <2>1, <3>1, <3>2 DEF Recoverable, Json
  <2>. QED  BY <1>5, <2>1, QuietStep DEF Write
<1>6. ASSUME NEW p \in Process, Start(p) PROVE [Store!Next]_(Store!vars)
  <2>1. ASSUME ~Disturbed' PROVE Stored' = Stored
    <3>1. ~Disturbed /\ ~SomeInFlight
      BY <1>6, <2>1 DEF Start, Disturbed, Causes
    <3>. QED  BY <1>6, <2>1, <3>1 DEF Start, BeginPersist, SomeInFlight, InFlight
  <2>. QED  BY <1>6, <2>1, QuietStep DEF Start
<1>7. ASSUME NEW p \in Process, Seed(p) PROVE [Store!Next]_(Store!vars)
  <2>1. ASSUME ~Disturbed' PROVE Stored' = Stored
    <3>1. ~Disturbed /\ ~SomeInFlight
      BY <1>7, <2>1 DEF Seed, Disturbed, Causes
    <3>. QED  BY <1>7, <2>1, <3>1 DEF Seed, BeginPersist, SomeInFlight, InFlight
  <2>. QED  BY <1>7, <2>1, QuietStep DEF Seed
<1>8. ASSUME NEW p \in Process, Serve(p) PROVE [Store!Next]_(Store!vars)
  <2>1. ASSUME ~Disturbed' PROVE Stored' = Stored
    BY <1>8, <2>1 DEF Serve, Disturbed
  <2>. QED  BY <1>8, <2>1, QuietStep DEF Serve
<1>9. ASSUME NEW p \in Process, Exit(p) PROVE [Store!Next]_(Store!vars)
  <2>1. ASSUME ~Disturbed' PROVE Stored' = Stored
    <3>1. ~Disturbed /\ \A w \in Writer : ProcessOf(w) = p => ~InFlight(w)
      BY <1>9, <2>1 DEF Exit, Disturbed, Causes
    <3>2. \A w \in Writer : phase[w] # "write"
      BY <1>9, <3>1, ProcessOfType DEF Exit, OneWriter, PersistsHaveOwners, InFlight
    <3>. QED  BY <1>9, <2>1, <3>1, <3>2 DEF Exit, Terminate
  <2>. QED  BY <1>9, <2>1, QuietStep DEF Exit
<1>10. ASSUME NEW p \in Process, StartFails(p) PROVE [Store!Next]_(Store!vars)
  <2>1. ASSUME ~Disturbed' PROVE Stored' = Stored
    <3>1. ~Disturbed /\ phase[p] = "open" /\ file' = file
      BY <1>10, <2>1 DEF StartFails, FileAfterError, InFlight, Disturbed, Causes
    <3>2. \A w \in Writer : phase[w] # "write"
      BY <3>1 DEF OneWriter, SoloPersistsAreAlone, InFlight
    <3>. QED  BY <1>10, <2>1, <3>1, <3>2 DEF StartFails, Terminate
  <2>. QED  BY <1>10, <2>1, QuietStep DEF StartFails
<1>11. CASE UNCHANGED vars
  BY <1>11 DEF vars, Stored, Disturbed, Writing, Recoverable, Store!vars
<1>. QED  BY <1>1, <1>2, <1>3, <1>4, <1>5, <1>6, <1>7, <1>8, <1>9, <1>10, <1>11 DEF Next

\* The state file implements the durable store: its initial states map to
\* the empty store and every step to a step of the store or to none.
THEOREM Refinement == Spec => ImplementsDurableStore
<1>1. Init => Store!Init
  BY DEF Init, Store!Init, Stored, Writing, Disturbed, Recoverable, Unparsable
<1>2. IInv /\ IInv' /\ [Next]_vars => [Store!Next]_(Store!vars)
  BY RefinementStep
<1>. QED  BY <1>1, <1>2, Invariance, PTL DEF Spec, ImplementsDurableStore, Store!Spec

=============================================================================
