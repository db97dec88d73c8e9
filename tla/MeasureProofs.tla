---------------------------- MODULE MeasureProofs ----------------------------
(***************************************************************************)
(* Theorems about Measure, for any number of workers, any contents and any *)
(* clock.  IndexFresh holds of a program that is prompt: one whose calls   *)
(* take their checkpoint early enough after their first stat for the racy  *)
(* window to reach past the last write that could share the stat's mtime.  *)
(***************************************************************************)
EXTENDS Measure, SequenceTheorems, TLAPS

Prompt == MaxLag + Granularity =< Window + 1

\* A call holds the snapshot of its first stat, before and after its checkpoint.
Stamped == {"lock", "compare", "publish", "republish"}
InFlight == Unstamped \cup Stamped

\* A reader has a file open while it reads, one that is attached to the path
\* reads what the path names, and nothing is read before the file is open.
FilesOpen ==
  \A w \in Workers :
    /\ pc[w] = "read" => fd[w] # Closed
    /\ fd[w] = Attached => IsFile(node)
    /\ pc[w] \in {"start", "index", "open", "done"} => buf[w] = << >>

\* Nothing is stamped with a time to come, and nobody lags behind by more than
\* MaxLag.
Clocks ==
  /\ IsFile(node) => node.mtime <= clock
  /\ IsIntact(index) => index.checkpoint <= clock
  /\ \A w \in Workers :
       /\ pc[w] \in InFlight => snap[w].modified <= statTime[w]
       /\ pc[w] \in Unstamped => statTime[w] <= clock /\ clock <= statTime[w] + MaxLag
       /\ pc[w] \in Stamped => /\ statTime[w] <= checkpoint[w]
                               /\ checkpoint[w] <= statTime[w] + MaxLag
                               /\ checkpoint[w] <= clock

\* No write after w's stat can have the mtime that w's stat saw.
Settled(w) == snap[w].modified + Granularity <= statTime[w]

\* The path still has the mtime that w's stat saw.
SameMtime(w) == IsFile(node) /\ node.mtime = snap[w].modified

Prefix(s, t) == Len(s) <= Len(t) /\ \A i \in 1 .. Len(s) : s[i] = t[i]

\* What a settled worker knows of the file.
WorkerAgrees(w) ==
  /\ SameMtime(w) => node.content = seen[w]
  /\ SameMtime(w) /\ pc[w] = "read" => fd[w] = Attached /\ Prefix(buf[w], seen[w])
  /\ SameMtime(w) /\ pc[w] \in {"count", "counted", "restat"} => buf[w] = seen[w]
  /\ pc[w] \in {"checkpoint"} \cup Stamped => buf[w] = seen[w]

Agreement == \A w \in Workers : pc[w] \in InFlight /\ Settled(w) => WorkerAgrees(w)

\* The entry is past the racy window.
Trusted == IsIntact(index) /\ index.modified + Window < index.checkpoint

IndexAgrees ==
  Trusted /\ IsFile(node) /\ node.mtime = index.modified => index.hash = node.content

-----------------------------------------------------------------------------
\* A write is stamped at most Granularity - 1 ticks before it happens.
LEMMA StampBounds ==
  ASSUME NEW t \in Nat
  PROVE  Stamp(t) \in Nat /\ Stamp(t) <= t /\ t < Stamp(t) + Granularity
<1>1. Granularity \in Nat \ {0}
  BY SizesAssumption
<1>2. t % Granularity \in 0 .. (Granularity - 1) /\ t % Granularity <= t
  BY <1>1
<1> QED
  BY <1>1, <1>2 DEF Stamp

\* Type correctness, with what a reader's open file needs.
TypeInv == TypeOK /\ FilesOpen

LEMMA TypeInit == Init => TypeInv
<1> SUFFICES ASSUME Init PROVE TypeInv
  OBVIOUS
<1>1. node \in Files \cup {Absent, Directory}
  BY SizesAssumption, ContentsAssumption, StampBounds DEF Init, InitialFiles, FileWith, Files
<1>2. NoSnapshot \in Snapshots /\ << >> \in Seq(STRING)
  BY DEF NoSnapshot, Snapshots
<1> QED
  BY <1>1, <1>2, SizesAssumption, SentinelsAssumption DEF Init, TypeInv, TypeOK, FilesOpen, Steps

LEMMA FaultType ==
  ASSUME TypeInv, Fault
  PROVE  faults' \in 0 .. MaxFaults
BY SizesAssumption DEF TypeInv, TypeOK, Fault

\* A call that returns leaves well-typed locals.
LEMMA ReturnType ==
  ASSUME TypeInv, NEW w \in Workers, NEW r, Return(w, r), UNCHANGED environment,
         index' \in Entries \cup {NoEntry, Damaged},
         lock' \in Workers \cup {Free},
         faults' \in 0 .. MaxFaults
  PROVE  TypeInv'
<1>1. NoSnapshot \in Snapshots /\ << >> \in Seq(STRING)
  BY DEF NoSnapshot, Snapshots
<1>2. TypeOK'
  BY <1>1 DEF TypeInv, TypeOK, Steps, Return, Goto, environment
<1>3. FilesOpen'
  BY SentinelsAssumption
     DEF TypeInv, TypeOK, FilesOpen, Return, Goto, environment
<1> QED
  BY <1>2, <1>3 DEF TypeInv

LEMMA LookingType ==
  ASSUME TypeInv, NEW w \in Workers, Looking(w)
  PROVE  TypeInv'
<1> USE DEF environment, cache, stat
<1>1. CASE StatSkips(w)
  <2>1. PICK r : Return(w, r)
    BY <1>1 DEF StatSkips
  <2>2. faults' \in 0 .. MaxFaults
    BY <1>1, FaultType DEF StatSkips, TypeInv, TypeOK
  <2> QED
    BY <1>1, <2>1, <2>2, ReturnType DEF StatSkips, TypeInv, TypeOK
<1>2. CASE Stat(w)
  <2>1. IsFile(node) /\ node \in Files
    BY <1>2 DEF Stat, StatVerdict, TypeInv, TypeOK, IsFile
  <2>2. metadata_snapshot(node) \in Snapshots
    BY <2>1 DEF metadata_snapshot, Snapshots, Files
  <2> QED
    BY <1>2, <2>1, <2>2 DEF Stat, TypeInv, TypeOK, FilesOpen, Files, Steps, Unstamped, Goto
<1>3. CASE IndexHit(w)
  BY <1>3 DEF IndexHit, is_usable, IsIntact, Entries, TypeInv, TypeOK, FilesOpen,
              Steps, Unstamped, Goto
<1>4. CASE IndexMiss(w)
  <2>1. faults' \in 0 .. MaxFaults
    BY <1>4, FaultType DEF IndexMiss, TypeInv, TypeOK
  <2> QED
    BY <1>4, <2>1 DEF IndexMiss, TypeInv, TypeOK, FilesOpen, Steps, Unstamped, Goto
<1>5. CASE FastPath(w)
  <2>1. PICK r : Return(w, r)
    BY <1>5 DEF FastPath
  <2> QED
    BY <1>5, <2>1, ReturnType DEF FastPath, TypeInv, TypeOK
<1>6. CASE FastPathMiss(w)
  <2>1. faults' \in 0 .. MaxFaults
    BY <1>6, FaultType DEF FastPathMiss, TypeInv, TypeOK
  <2> QED
    BY <1>6, <2>1 DEF FastPathMiss, TypeInv, TypeOK, FilesOpen, Steps, Unstamped, Goto
<1> QED
  BY <1>1, <1>2, <1>3, <1>4, <1>5, <1>6 DEF Looking

LEMMA ReadingType ==
  ASSUME TypeInv, NEW w \in Workers, Reading(w)
  PROVE  TypeInv'
<1> USE DEF environment, cache, stat
<1>1. CASE Open(w)
  BY <1>1, ContentsAssumption, SentinelsAssumption
     DEF Open, TypeInv, TypeOK, FilesOpen, Steps, Unstamped, Goto
<1>2. CASE ReadFails(w)
  <2>1. faults' \in 0 .. MaxFaults
    BY <1>2, FaultType DEF ReadFails, TypeInv, TypeOK
  <2> QED
    BY <1>2, <2>1, ReturnType DEF ReadFails, TypeInv, TypeOK
<1>3. CASE ReadChunk(w)
  <2>1. OpenContent(w) \in Seq(STRING)
    BY <1>3 DEF ReadChunk, OpenContent, TypeInv, TypeOK, FilesOpen, IsFile, Files
  <2>2. Len(buf[w]) + 1 \in 1 .. Len(OpenContent(w))
    BY <1>3, <2>1 DEF ReadChunk, AtEnd, TypeInv, TypeOK
  <2>3. OpenContent(w)[Len(buf[w]) + 1] \in STRING
    BY <2>1, <2>2
  <2>4. Append(buf[w], OpenContent(w)[Len(buf[w]) + 1]) \in Seq(STRING)
    BY <2>3 DEF TypeInv, TypeOK
  <2> QED
    BY <1>3, <2>4 DEF ReadChunk, TypeInv, TypeOK, FilesOpen
<1>4. CASE RejectBytes(w)
  <2>1. PICK r : Return(w, r)
    BY <1>4 DEF RejectBytes
  <2> QED
    BY <1>4, <2>1, ReturnType DEF RejectBytes, TypeInv, TypeOK
<1>5. CASE AcceptBytes(w)
  BY <1>5, ContentsAssumption, SentinelsAssumption
     DEF AcceptBytes, TypeInv, TypeOK, FilesOpen, Steps, Unstamped, Goto
<1> QED
  BY <1>1, <1>2, <1>3, <1>4, <1>5 DEF Reading

LEMMA CountingType ==
  ASSUME TypeInv, NEW w \in Workers, Counting(w)
  PROVE  TypeInv'
<1> USE DEF environment, cache, stat
<1>1. CASE CountFromCache(w)
  BY <1>1 DEF CountFromCache, TypeInv, TypeOK, FilesOpen, Steps, Unstamped, Goto
<1>2. CASE Count(w)
  <2>1. faults' \in 0 .. MaxFaults
    BY <1>2, FaultType DEF Count, TypeInv, TypeOK
  <2> QED
    BY <1>2, <2>1 DEF Count, TypeInv, TypeOK, FilesOpen, Steps, Unstamped, Goto
<1>3. CASE CountFails(w)
  <2>1. faults' \in 0 .. MaxFaults
    BY <1>3, FaultType DEF CountFails
  <2> QED
    BY <1>3, <2>1, ReturnType DEF CountFails, TypeInv, TypeOK
<1>4. CASE ReturnUncached(w)
  BY <1>4, ReturnType DEF ReturnUncached, TypeInv, TypeOK
<1>5. CASE StoreCount(w)
  <2>1. faults' \in 0 .. MaxFaults
    BY <1>5, FaultType DEF StoreCount, TypeInv, TypeOK
  <2> QED
    BY <1>5, <2>1 DEF StoreCount, TypeInv, TypeOK, FilesOpen, Steps, Unstamped, Goto
<1>6. CASE Restat(w)
  BY <1>6 DEF Restat, TypeInv, TypeOK, FilesOpen, Steps, Unstamped, Goto
<1>7. CASE RestatDiffers(w)
  <2>1. faults' \in 0 .. MaxFaults
    BY <1>7, FaultType DEF RestatDiffers, TypeInv, TypeOK
  <2> QED
    BY <1>7, <2>1, ReturnType DEF RestatDiffers, TypeInv, TypeOK
<1> QED
  BY <1>1, <1>2, <1>3, <1>4, <1>5, <1>6, <1>7 DEF Counting

LEMMA PublishingType ==
  ASSUME TypeInv, NEW w \in Workers, Publishing(w)
  PROVE  TypeInv'
<1> USE DEF environment, cache, stat
<1>1. CASE TakeCheckpoint(w)
  BY <1>1 DEF TakeCheckpoint, TypeInv, TypeOK, FilesOpen, Steps, Unstamped, Goto
<1>2. CASE AcquireLock(w)
  BY <1>2 DEF AcquireLock, TypeInv, TypeOK, FilesOpen, Steps, Unstamped, Goto
<1>3. CASE LockFails(w)
  BY <1>3, FaultType, ReturnType DEF LockFails, TypeInv, TypeOK
<1>4. CASE KeepNewer(w)
  BY <1>4, ReturnType DEF KeepNewer, Release, TypeInv, TypeOK
<1>5. CASE Compare(w)
  <2>1. faults' \in 0 .. MaxFaults
    BY <1>5, FaultType DEF Compare, TypeInv, TypeOK
  <2> QED
    BY <1>5, <2>1 DEF Compare, TypeInv, TypeOK, FilesOpen, Steps, Unstamped, Goto
<1>6. CASE Publish(w)
  <2>1. EntryOf(w) \in Entries
    BY DEF EntryOf, Entries, Snapshots, TypeInv, TypeOK
  <2> QED
    BY <1>6, <2>1, ReturnType DEF Publish, Release, TypeInv, TypeOK
<1>7. CASE PublishFails(w)
  BY <1>7, FaultType, ReturnType DEF PublishFails, Release, TypeInv, TypeOK
<1>8. CASE RemoveCurrent(w)
  BY <1>8, FaultType DEF RemoveCurrent, TypeInv, TypeOK, FilesOpen, Steps, Unstamped, Goto
<1> QED
  BY <1>1, <1>2, <1>3, <1>4, <1>5, <1>6, <1>7, <1>8 DEF Publishing

LEMMA WorldType ==
  ASSUME TypeInv, World
  PROVE  TypeInv'
<1> USE DEF environment, cache, worker, stat
<1>1. CASE Tick
  BY <1>1 DEF Tick, TypeInv, TypeOK, FilesOpen
<1>2. ASSUME NEW c \in Contents
      PROVE  FileWith(c, clock) \in Files
  BY ContentsAssumption, StampBounds DEF FileWith, Files, TypeInv, TypeOK
<1>3. ASSUME NEW n, Change(n)
      PROVE  writes' \in 0 .. MaxWrites
  BY <1>3, SizesAssumption DEF Change, TypeInv, TypeOK
<1>4. CASE Overwrite
  <2>1. PICK c \in Contents : Change(FileWith(c, clock))
    BY <1>4 DEF Overwrite
  <2>2. node' \in Files /\ writes' \in 0 .. MaxWrites
    BY <2>1, <1>2, <1>3 DEF Change
  <2>3. (\E w \in Workers : fd[w] = Attached) => IsFile(node')
    BY <2>1, <2>2, SentinelsAssumption DEF Change, IsFile, Files
  <2> QED
    BY <1>4, <2>1, <2>2, <2>3 DEF Overwrite, Change, TypeInv, TypeOK, FilesOpen
<1>5. ASSUME Unlink
      PROVE  /\ fd' \in [Workers -> Seq(STRING) \cup {Closed, Attached}]
             /\ \A w \in Workers : fd'[w] # Attached
             /\ \A w \in Workers : fd[w] # Closed => fd'[w] # Closed
  <2>1. \A w \in Workers : fd[w] = Attached => node.content \in Seq(STRING)
    BY DEF TypeInv, TypeOK, FilesOpen, IsFile, Files
  <2> QED
    BY <1>5, <2>1, ContentsAssumption DEF Unlink, TypeInv, TypeOK
<1>6. CASE Replace
  <2>1. PICK c \in Contents : Change(FileWith(c, clock))
    BY <1>6 DEF Replace
  <2>2. node' \in Files /\ writes' \in 0 .. MaxWrites
    BY <2>1, <1>2, <1>3 DEF Change
  <2> QED
    BY <1>5, <1>6, <2>1, <2>2 DEF Replace, Unlink, Change, TypeInv, TypeOK, FilesOpen
<1>7. CASE Remove
  <2>1. writes' \in 0 .. MaxWrites
    BY <1>7, <1>3 DEF Remove
  <2> QED
    BY <1>5, <1>7, <2>1 DEF Remove, Unlink, Change, TypeInv, TypeOK, FilesOpen
<1>8. CASE DamageIndex
  BY <1>8, FaultType DEF DamageIndex, TypeInv, TypeOK, FilesOpen
<1>9. CASE LoseCount
  BY <1>9, FaultType DEF LoseCount, TypeInv, TypeOK, FilesOpen
<1> QED
  BY <1>1, <1>4, <1>6, <1>7, <1>8, <1>9 DEF World

LEMMA TypeStep == TypeInv /\ [Next]_vars => TypeInv'
<1> SUFFICES ASSUME TypeInv, [Next]_vars PROVE TypeInv'
  OBVIOUS
<1>1. ASSUME NEW w \in Workers, Step(w)
      PROVE  TypeInv'
  BY <1>1, LookingType, ReadingType, CountingType, PublishingType DEF Step
<1>2. ASSUME NEW w \in Workers, Again(w)
      PROVE  TypeInv'
  <2>1. repeats' \in 0 .. MaxRepeats
    BY <1>2, SizesAssumption DEF Again, TypeInv, TypeOK
  <2> QED
    BY <1>2, <2>1 DEF Again, TypeInv, TypeOK, FilesOpen, Steps, Goto, cache, stat
<1>3. ASSUME NEW w \in Workers, Crash(w)
      PROVE  TypeInv'
  BY <1>3, FaultType, ReturnType DEF Crash, TypeInv, TypeOK
<1>4. CASE World
  BY <1>4, WorldType
<1>5. CASE Finished \/ UNCHANGED vars
  BY <1>5 DEF Finished, vars, environment, cache, worker, stat, TypeInv, TypeOK, FilesOpen
<1> QED
  BY <1>1, <1>2, <1>3, <1>4, <1>5 DEF Next

\* Every variable of a measurement keeps its type (count_file_with_cache,
\* store_content_hash), for any number of workers and any faults.
THEOREM TypeCorrect == Spec => []TypeOK
<1>1. Init => TypeInv
  BY TypeInit
<1>2. TypeInv /\ [Next]_vars => TypeInv'
  BY TypeStep
<1>3. TypeInv => TypeOK
  BY DEF TypeInv
<1> QED
  BY <1>1, <1>2, <1>3, PTL DEF Spec

-----------------------------------------------------------------------------
(* Clocks *)

LEMMA ClocksInit == Init => Clocks
<1> SUFFICES ASSUME Init PROVE Clocks
  OBVIOUS
<1>1. IsFile(node) => node.mtime <= 0
  BY StampBounds DEF Init, InitialFiles, FileWith, IsFile
<1> QED
  BY <1>1 DEF Init, Clocks, InFlight, Unstamped, Stamped, IsIntact

\* A step to l that does not move w past its stat or its checkpoint.
LEMMA MoveClocks ==
  ASSUME TypeInv, Clocks, NEW w \in Workers, NEW l, Goto(w, l),
         l \in Unstamped => pc[w] \in Unstamped,
         l \in Stamped => pc[w] \in Stamped,
         UNCHANGED <<clock, node, snap, statTime, checkpoint>>,
         IsIntact(index') => index' = index
  PROVE  Clocks'
BY DEF Clocks, TypeInv, TypeOK, Goto, InFlight, IsIntact

\* A return, with what is left in the index.
LEMMA ReturnClocks ==
  ASSUME TypeInv, Clocks, NEW w \in Workers, NEW r, Return(w, r), UNCHANGED environment,
         IsIntact(index') => index'.checkpoint <= clock
  PROVE  Clocks'
BY DEF Clocks, TypeInv, TypeOK, Return, Goto, InFlight, Unstamped, Stamped, environment

LEMMA StepClocks ==
  ASSUME TypeInv, Clocks, NEW w \in Workers, Step(w)
  PROVE  Clocks'
<1> USE DEF environment, cache, stat
<1>1. CASE Stat(w)
  <2>1. IsFile(node) /\ node \in Files
    BY <1>1 DEF Stat, StatVerdict, TypeInv, TypeOK, IsFile
  <2>2. metadata_snapshot(node).modified <= clock
    BY <2>1 DEF metadata_snapshot, Clocks
  <2>3. pc'[w] \in Unstamped /\ pc'[w] \notin Stamped
    BY <1>1 DEF Stat, Goto, Unstamped, Stamped, TypeInv, TypeOK
  <2> QED
    BY <1>1, <2>2, <2>3, SizesAssumption
       DEF Stat, Goto, Clocks, TypeInv, TypeOK, InFlight
<1>2. CASE TakeCheckpoint(w)
  BY <1>2 DEF TakeCheckpoint, Goto, Clocks, TypeInv, TypeOK, InFlight, Unstamped, Stamped
<1>3. CASE \E r : Return(w, r) /\ UNCHANGED environment /\ UNCHANGED index
  BY <1>3, ReturnClocks DEF Clocks
<1>4. CASE Publish(w)
  BY <1>4, ReturnClocks DEF Publish, Release, EntryOf, Clocks, Stamped
<1>5. CASE IndexHit(w) \/ IndexMiss(w) \/ FastPathMiss(w)
  BY <1>5, MoveClocks DEF IndexHit, IndexMiss, FastPathMiss, Unstamped, Stamped
<1>6. CASE Open(w) \/ AcceptBytes(w) \/ CountFromCache(w) \/ Count(w) \/ StoreCount(w)
           \/ Restat(w)
  BY <1>6, MoveClocks DEF Open, AcceptBytes, CountFromCache, Count, StoreCount, Restat,
                          Unstamped, Stamped
<1>7. CASE ReadChunk(w)
  BY <1>7 DEF ReadChunk, Clocks
<1>8. CASE AcquireLock(w) \/ Compare(w) \/ RemoveCurrent(w)
  <2>1. index' = index \/ index' = NoEntry
    BY <1>8 DEF AcquireLock, Compare, RemoveCurrent
  <2> QED
    BY <1>8, <2>1, MoveClocks DEF AcquireLock, Compare, RemoveCurrent, Unstamped, Stamped,
                                  IsIntact
<1>9. StatSkips(w) \/ FastPath(w) \/ ReadFails(w) \/ RejectBytes(w) \/ CountFails(w)
      \/ ReturnUncached(w) \/ RestatDiffers(w) \/ LockFails(w) \/ KeepNewer(w)
      \/ PublishFails(w)
        => \E r : Return(w, r) /\ UNCHANGED environment /\ UNCHANGED index
  BY DEF StatSkips, FastPath, ReadFails, RejectBytes, CountFails, ReturnUncached,
         RestatDiffers, LockFails, KeepNewer, PublishFails, Release
<1> QED
  BY <1>1, <1>2, <1>3, <1>4, <1>5, <1>6, <1>7, <1>8, <1>9
     DEF Step, Looking, Reading, Counting, Publishing

LEMMA WorldClocks ==
  ASSUME TypeInv, Clocks, World
  PROVE  Clocks'
<1> USE DEF environment, cache, worker, stat
<1>1. CASE Tick
  <2>1. clock \in Nat /\ clock' = clock + 1 /\ MaxLag \in Nat
    BY <1>1, SizesAssumption DEF Tick, TypeInv, TypeOK
  <2>2. UNCHANGED <<node, index, pc, snap, statTime, checkpoint>>
    BY <1>1 DEF Tick
  <2>3. IsFile(node') => node'.mtime <= clock'
    BY <2>1, <2>2 DEF Clocks, TypeInv, TypeOK, Files, IsFile
  <2>4. IsIntact(index') => index'.checkpoint <= clock'
    BY <2>1, <2>2 DEF Clocks, TypeInv, TypeOK, Entries, IsIntact
  <2>5. ASSUME NEW w \in Workers, pc[w] \in Unstamped
        PROVE  statTime[w] <= clock' /\ clock' <= statTime[w] + MaxLag
    <3>1. statTime[w] \in Nat /\ statTime[w] <= clock
      BY <2>5 DEF Clocks, TypeInv, TypeOK
    <3>2. clock < statTime[w] + MaxLag
      BY <1>1, <2>5 DEF Tick
    <3> QED
      BY <2>1, <3>1, <3>2
  <2>6. ASSUME NEW w \in Workers, pc[w] \in Stamped
        PROVE  checkpoint[w] <= clock'
    BY <2>1, <2>6 DEF Clocks, TypeInv, TypeOK
  <2> QED
    BY <2>2, <2>3, <2>4, <2>5, <2>6 DEF Clocks, IsFile, IsIntact
<1>2. ASSUME NEW n, Change(n), IsFile(n) => n.mtime <= clock,
             UNCHANGED <<pc, stat, checkpoint>>
      PROVE  Clocks'
  BY <1>2 DEF Change, Clocks
<1>3. \A c : FileWith(c, clock).mtime <= clock
  BY StampBounds DEF FileWith, TypeInv, TypeOK
<1>4. CASE Overwrite
  BY <1>2, <1>3, <1>4 DEF Overwrite
<1>5. CASE Replace
  BY <1>2, <1>3, <1>5 DEF Replace, Unlink
<1>6. CASE Remove
  BY <1>2, <1>6 DEF Remove, Unlink, IsFile
<1>7. CASE DamageIndex \/ LoseCount
  BY <1>7 DEF DamageIndex, LoseCount, Clocks, IsIntact
<1> QED
  BY <1>1, <1>4, <1>5, <1>6, <1>7 DEF World

LEMMA ClocksStep == TypeInv /\ Clocks /\ [Next]_vars => Clocks'
<1> SUFFICES ASSUME TypeInv, Clocks, [Next]_vars PROVE Clocks'
  OBVIOUS
<1>1. ASSUME NEW w \in Workers, Again(w)
      PROVE  Clocks'
  BY <1>1, MoveClocks DEF Again, Unstamped, Stamped, cache, stat
<1>2. ASSUME NEW w \in Workers, Crash(w)
      PROVE  Clocks'
  BY <1>2, ReturnClocks DEF Crash, Clocks
<1>3. CASE Finished \/ UNCHANGED vars
  BY <1>3 DEF Finished, vars, environment, cache, worker, stat, Clocks
<1> QED
  BY <1>1, <1>2, <1>3, StepClocks, WorldClocks DEF Next

-----------------------------------------------------------------------------
(* Agreement *)

\* A step of w that leaves the path and the other workers alone keeps the
\* agreement of all if it keeps w's.
LEMMA OnlyOneMoves ==
  ASSUME TypeInv, Agreement, NEW w \in Workers, node' = node,
         \A v \in Workers \ {w} :
           /\ pc'[v] = pc[v] /\ snap'[v] = snap[v] /\ seen'[v] = seen[v]
           /\ statTime'[v] = statTime[v] /\ fd'[v] = fd[v] /\ buf'[v] = buf[v],
         pc'[w] \in InFlight /\ Settled(w)' => WorkerAgrees(w)'
  PROVE  Agreement'
BY DEF Agreement, WorkerAgrees, Settled, SameMtime

LEMMA ReturnAgrees ==
  ASSUME TypeInv, Agreement, NEW w \in Workers, NEW r, Return(w, r), node' = node
  PROVE  Agreement'
<1>1. pc'[w] \notin InFlight
  BY DEF Return, Goto, InFlight, Unstamped, Stamped, TypeInv, TypeOK
<1> QED
  BY <1>1, OnlyOneMoves DEF Return, Goto, TypeInv, TypeOK

\* What w has read is all there was: it has come to the end of the file.
LEMMA WholePrefix ==
  ASSUME NEW s \in Seq(STRING), NEW t \in Seq(STRING), Prefix(s, t), Len(s) >= Len(t)
  PROVE  s = t
BY SeqEqual DEF Prefix

LEMMA StepAgrees ==
  ASSUME TypeInv, Agreement, NEW w \in Workers, Step(w)
  PROVE  Agreement'
<1> USE DEF environment, cache, stat
<1> DEFINE Agrees == pc'[w] \in InFlight /\ Settled(w)' => WorkerAgrees(w)'
<1>1. CASE Stat(w)
  <2>1. IsFile(node)
    BY <1>1 DEF Stat, StatVerdict, TypeInv, TypeOK, IsFile
  <2>2. pc'[w] \in {"index", "open"} /\ seen'[w] = node.content
    BY <1>1 DEF Stat, Goto, TypeInv, TypeOK
  <2>3. Agrees
    BY <1>1, <2>1, <2>2 DEF Stat, WorkerAgrees, SameMtime, Stamped
  <2> QED
    BY <1>1, <2>3, OnlyOneMoves DEF Stat, Goto, TypeInv, TypeOK
<1>2. CASE IndexHit(w) \/ IndexMiss(w) \/ FastPathMiss(w)
  <2>1. pc[w] \in {"index", "cached"} /\ pc'[w] \in {"cached", "open"}
    BY <1>2 DEF IndexHit, IndexMiss, FastPathMiss, Goto, TypeInv, TypeOK
  <2>2. Agrees
    BY <1>2, <2>1 DEF IndexHit, IndexMiss, FastPathMiss, Agreement, WorkerAgrees, SameMtime,
                      Settled, InFlight, Unstamped, Stamped
  <2> QED
    BY <1>2, <2>2, OnlyOneMoves DEF IndexHit, IndexMiss, FastPathMiss, Goto, TypeInv, TypeOK
<1>3. CASE Open(w)
  <2>1. pc[w] = "open" /\ pc'[w] = "read" /\ fd'[w] = Attached /\ buf'[w] = << >>
    BY <1>3 DEF Open, Goto, TypeInv, TypeOK, FilesOpen
  <2>2. Prefix(<< >>, seen[w])
    BY DEF Prefix, TypeInv, TypeOK
  <2>3. Agrees
    BY <1>3, <2>1, <2>2 DEF Open, Agreement, WorkerAgrees, SameMtime, Settled, InFlight,
                            Unstamped, Stamped
  <2> QED
    BY <1>3, <2>3, OnlyOneMoves DEF Open, Goto, TypeInv, TypeOK
<1>4. CASE ReadChunk(w)
  <2>1. pc[w] = "read" /\ pc'[w] = "read" /\ pc[w] \in InFlight
    BY <1>4 DEF ReadChunk, InFlight, Unstamped
  <2>2. ASSUME Settled(w), SameMtime(w)
        PROVE  fd[w] = Attached /\ Prefix(buf'[w], seen[w])
    <3>1. fd[w] = Attached /\ Prefix(buf[w], seen[w]) /\ node.content = seen[w]
      BY <2>1, <2>2 DEF Agreement, WorkerAgrees
    <3>2. OpenContent(w) = seen[w] /\ Len(buf[w]) < Len(seen[w])
      BY <1>4, <3>1 DEF ReadChunk, OpenContent, AtEnd, TypeInv, TypeOK
    <3>3. buf'[w] = Append(buf[w], seen[w][Len(buf[w]) + 1])
      BY <1>4, <3>2 DEF ReadChunk, TypeInv, TypeOK
    <3>4. buf[w] \in Seq(STRING) /\ seen[w] \in Seq(STRING)
      BY DEF TypeInv, TypeOK
    <3>5. Len(buf'[w]) = Len(buf[w]) + 1 /\ Len(buf'[w]) =< Len(seen[w])
      BY <3>2, <3>3, <3>4
    <3>6. ASSUME NEW i \in 1 .. Len(buf'[w])  PROVE buf'[w][i] = seen[w][i]
      BY <3>1, <3>3, <3>4, <3>5, <3>6 DEF Prefix
    <3> QED
      BY <3>1, <3>5, <3>6 DEF Prefix
  <2>3. Agrees
    BY <1>4, <2>1, <2>2 DEF ReadChunk, Agreement, WorkerAgrees, SameMtime, Settled, InFlight,
                            Unstamped, Stamped
  <2> QED
    BY <1>4, <2>3, OnlyOneMoves DEF ReadChunk, TypeInv, TypeOK
<1>5. CASE AcceptBytes(w)
  <2>1. pc[w] = "read" /\ pc'[w] = "count" /\ pc[w] \in InFlight
    BY <1>5 DEF AcceptBytes, Goto, InFlight, Unstamped, TypeInv, TypeOK
  <2>2. ASSUME Settled(w), SameMtime(w)
        PROVE  buf[w] = seen[w]
    <3>1. fd[w] = Attached /\ Prefix(buf[w], seen[w]) /\ node.content = seen[w]
      BY <2>1, <2>2 DEF Agreement, WorkerAgrees
    <3>2. Len(buf[w]) >= Len(seen[w])
      BY <1>5, <3>1, SizesAssumption
         DEF AcceptBytes, OpenContent, AtEnd, admits, TypeInv, TypeOK
    <3> QED
      BY <3>1, <3>2, WholePrefix DEF TypeInv, TypeOK
  <2>3. Agrees
    BY <1>5, <2>1, <2>2 DEF AcceptBytes, Agreement, WorkerAgrees, SameMtime, Settled, InFlight,
                            Unstamped, Stamped
  <2> QED
    BY <1>5, <2>3, OnlyOneMoves DEF AcceptBytes, Goto, TypeInv, TypeOK
<1>6. CASE CountFromCache(w) \/ Count(w) \/ StoreCount(w)
  <2>1. pc[w] \in {"count", "counted"} /\ pc'[w] \in {"counted", "restat"}
    BY <1>6 DEF CountFromCache, Count, StoreCount, Goto, TypeInv, TypeOK
  <2>2. Agrees
    BY <1>6, <2>1 DEF CountFromCache, Count, StoreCount, Agreement, WorkerAgrees, SameMtime,
                      Settled, InFlight, Unstamped, Stamped
  <2> QED
    BY <1>6, <2>2, OnlyOneMoves DEF CountFromCache, Count, StoreCount, Goto, TypeInv, TypeOK
<1>7. CASE Restat(w)
  <2>1. pc[w] = "restat" /\ pc'[w] = "checkpoint" /\ SameMtime(w)
    BY <1>7 DEF Restat, Goto, Unchanged, SameMtime, metadata_snapshot, TypeInv, TypeOK
  <2>2. Agrees
    BY <1>7, <2>1 DEF Restat, Agreement, WorkerAgrees, SameMtime, Settled, InFlight,
                      Unstamped, Stamped
  <2> QED
    BY <1>7, <2>2, OnlyOneMoves DEF Restat, Goto, TypeInv, TypeOK
<1>8. CASE TakeCheckpoint(w) \/ AcquireLock(w) \/ Compare(w) \/ RemoveCurrent(w)
  <2>1. pc[w] \in {"checkpoint"} \cup Stamped /\ pc'[w] \in Stamped
    BY <1>8 DEF TakeCheckpoint, AcquireLock, Compare, RemoveCurrent, Goto, Stamped,
                TypeInv, TypeOK
  <2>2. Agrees
    BY <1>8, <2>1 DEF TakeCheckpoint, AcquireLock, Compare, RemoveCurrent, Agreement,
                      WorkerAgrees, SameMtime, Settled, InFlight, Unstamped, Stamped
  <2> QED
    BY <1>8, <2>2, OnlyOneMoves
       DEF TakeCheckpoint, AcquireLock, Compare, RemoveCurrent, Goto, TypeInv, TypeOK
<1>9. CASE \E r : Return(w, r) /\ node' = node
  BY <1>9, ReturnAgrees
<1>10. StatSkips(w) \/ FastPath(w) \/ ReadFails(w) \/ RejectBytes(w) \/ CountFails(w)
       \/ ReturnUncached(w) \/ RestatDiffers(w) \/ LockFails(w) \/ KeepNewer(w)
       \/ PublishFails(w) \/ Publish(w)
         => \E r : Return(w, r) /\ node' = node
  BY DEF StatSkips, FastPath, ReadFails, RejectBytes, CountFails, ReturnUncached,
         RestatDiffers, LockFails, KeepNewer, PublishFails, Publish, Release
<1> QED
  BY <1>1, <1>2, <1>3, <1>4, <1>5, <1>6, <1>7, <1>8, <1>9, <1>10
     DEF Step, Looking, Reading, Counting, Publishing

\* A write gets an mtime of its own: later than any that a settled worker or a
\* trusted entry goes by.
LEMMA NewMtime ==
  ASSUME Prompt, TypeInv, Clocks, NEW c
  PROVE  /\ \A w \in Workers : pc[w] \in InFlight /\ Settled(w)
              => FileWith(c, clock).mtime # snap[w].modified
         /\ Trusted => FileWith(c, clock).mtime # index.modified
<1> USE SizesAssumption
<1>1. /\ clock \in Nat
      /\ FileWith(c, clock).mtime \in Nat
      /\ clock < FileWith(c, clock).mtime + Granularity
  BY StampBounds DEF FileWith, TypeInv, TypeOK
<1>2. ASSUME NEW w \in Workers, pc[w] \in InFlight, Settled(w)
      PROVE  FileWith(c, clock).mtime # snap[w].modified
  <2>1. snap[w].modified \in Nat /\ statTime[w] \in Nat /\ checkpoint[w] \in Nat
    BY DEF TypeInv, TypeOK, Snapshots
  <2>2. statTime[w] <= clock
    BY <1>1, <1>2, <2>1 DEF Clocks, InFlight
  <2> QED
    BY <1>1, <1>2, <2>1, <2>2 DEF Settled
<1>3. ASSUME Trusted
      PROVE  FileWith(c, clock).mtime # index.modified
  <2>1. index.modified \in Nat /\ index.checkpoint \in Nat
    BY <1>3 DEF Trusted, IsIntact, Entries, TypeInv, TypeOK
  <2>2. index.modified + Window < index.checkpoint /\ index.checkpoint <= clock
    BY <1>3 DEF Trusted, Clocks
  <2> QED
    BY <1>1, <2>1, <2>2 DEF Prompt
<1> QED
  BY <1>2, <1>3

LEMMA WorldAgrees ==
  ASSUME Prompt, TypeInv, Clocks, Agreement, IndexAgrees, World
  PROVE  Agreement' /\ IndexAgrees'
<1> USE DEF environment, cache, worker, stat
<1>1. ASSUME NEW c, Change(FileWith(c, clock)), UNCHANGED <<pc, stat, buf>>
      PROVE  Agreement' /\ IndexAgrees'
  <2>1. \A w \in Workers : pc[w] \in InFlight /\ Settled(w) => ~SameMtime(w)'
    BY <1>1, NewMtime DEF Change, SameMtime
  <2>2. Agreement'
    BY <1>1, <2>1 DEF Agreement, WorkerAgrees, Settled
  <2>3. IndexAgrees'
    BY <1>1, NewMtime DEF Change, IndexAgrees, Trusted
  <2> QED
    BY <2>2, <2>3
<1>2. CASE Overwrite
  BY <1>1, <1>2 DEF Overwrite
<1>3. CASE Replace
  BY <1>1, <1>3 DEF Replace, Unlink
<1>4. CASE Remove
  BY <1>4 DEF Remove, Change, Unlink, IsFile, Agreement, WorkerAgrees, Settled, SameMtime,
              IndexAgrees, Trusted
<1>5. CASE Tick \/ DamageIndex \/ LoseCount
  BY <1>5 DEF Tick, DamageIndex, LoseCount, IsIntact, Agreement, WorkerAgrees, Settled,
              SameMtime, IndexAgrees, Trusted
<1> QED
  BY <1>2, <1>3, <1>4, <1>5 DEF World

\* What a prompt worker publishes either agrees with the file or is not trusted:
\* an entry that reaches past the racy window is from a settled worker.
LEMMA PublishAgrees ==
  ASSUME Prompt, TypeInv, Clocks, Agreement, NEW w \in Workers, Publish(w)
  PROVE  IndexAgrees'
<1> USE SizesAssumption
<1>1. pc[w] \in Stamped /\ index' = EntryOf(w) /\ node' = node
  BY DEF Publish, Stamped, environment
<1>2. SUFFICES ASSUME Trusted'
               PROVE  Settled(w)
  BY <1>1 DEF IndexAgrees, Agreement, WorkerAgrees, SameMtime, EntryOf, InFlight
<1>3. snap[w].modified + Window < checkpoint[w]
  BY <1>1, <1>2 DEF Trusted, EntryOf
<1>4. checkpoint[w] <= statTime[w] + MaxLag
  BY <1>1 DEF Clocks
<1>5. snap[w].modified \in Nat /\ statTime[w] \in Nat /\ checkpoint[w] \in Nat
  BY DEF TypeInv, TypeOK, Snapshots
<1> QED
  BY <1>3, <1>4, <1>5 DEF Prompt, Settled

LEMMA StepIndex ==
  ASSUME Prompt, TypeInv, Clocks, Agreement, IndexAgrees, NEW w \in Workers, Step(w)
  PROVE  IndexAgrees'
<1>1. CASE Publish(w)
  BY <1>1, PublishAgrees
<1>2. CASE node' = node /\ (index' = index \/ index' = NoEntry)
  BY <1>2 DEF IndexAgrees, Trusted, IsIntact
<1>3. Looking(w) \/ Reading(w) \/ Counting(w) => node' = node /\ index' = index
  BY DEF Looking, StatSkips, Stat, IndexHit, IndexMiss, FastPath, FastPathMiss,
         Reading, Open, ReadFails, ReadChunk, RejectBytes, AcceptBytes,
         Counting, CountFromCache, Count, CountFails, ReturnUncached, StoreCount,
         Restat, RestatDiffers, environment, cache
<1>4. Publishing(w) => \/ Publish(w)
                       \/ node' = node /\ (index' = index \/ index' = NoEntry)
  BY DEF Publishing, TakeCheckpoint, AcquireLock, LockFails, KeepNewer, Compare,
         PublishFails, RemoveCurrent, environment, cache
<1> QED
  BY <1>1, <1>2, <1>3, <1>4 DEF Step

LEMMA AgreementInit == Init => Agreement /\ IndexAgrees
BY DEF Init, Agreement, InFlight, Unstamped, Stamped, IndexAgrees, Trusted, IsIntact

LEMMA AgreementStep ==
  Prompt /\ TypeInv /\ Clocks /\ Agreement /\ IndexAgrees /\ [Next]_vars
    => Agreement' /\ IndexAgrees'
<1> SUFFICES ASSUME Prompt, TypeInv, Clocks, Agreement, IndexAgrees, [Next]_vars
             PROVE  Agreement' /\ IndexAgrees'
  OBVIOUS
<1>1. ASSUME NEW w \in Workers, Again(w)
      PROVE  Agreement' /\ IndexAgrees'
  <2>1. pc'[w] \notin InFlight
    BY <1>1 DEF Again, Goto, InFlight, Unstamped, Stamped, TypeInv, TypeOK
  <2>2. Agreement'
    BY <1>1, <2>1, OnlyOneMoves DEF Again, Goto, cache, stat, TypeInv, TypeOK
  <2>3. IndexAgrees'
    BY <1>1 DEF Again, IndexAgrees, Trusted, cache
  <2> QED
    BY <2>2, <2>3
<1>2. ASSUME NEW w \in Workers, Crash(w)
      PROVE  Agreement' /\ IndexAgrees'
  BY <1>2, ReturnAgrees DEF Crash, IndexAgrees, Trusted, environment
<1>3. CASE Finished \/ UNCHANGED vars
  BY <1>3 DEF Finished, vars, environment, cache, worker, stat, Agreement, WorkerAgrees,
              Settled, SameMtime, IndexAgrees, Trusted
<1> QED
  BY <1>1, <1>2, <1>3, StepAgrees, StepIndex, WorldAgrees DEF Next

\* Of a prompt program the index never lies about the file as it is
\* (MetadataEntry::is_usable), whatever faults happen and whoever writes.
THEOREM PromptIndexFresh ==
  ASSUME Prompt
  PROVE  Spec => []IndexFresh
<1> DEFINE Inv == TypeInv /\ Clocks /\ Agreement /\ IndexAgrees
<1>1. Init => Inv
  BY TypeInit, ClocksInit, AgreementInit
<1>2. Inv /\ [Next]_vars => Inv'
  BY Prompt, TypeStep, ClocksStep, AgreementStep
<1>3. Inv => IndexFresh
  BY DEF IndexAgrees, IndexFresh, Trusted, is_usable, metadata_snapshot
<1> QED
  BY <1>1, <1>2, <1>3, PTL DEF Spec

-----------------------------------------------------------------------------
(* Measurements within the limit *)

\* The steps that follow a lookup of the index, and those that follow the read.
Looked == {"index", "cached"}
Read == {"count", "counted", "restat", "checkpoint"} \cup Stamped

\* What a call has seen so far, and what it has returned, is within the limit.
Bounded ==
  /\ DOMAIN result = Workers
  /\ \A w \in Workers :
       /\ result[w].status = "measured" => result[w].bytes <= Limit
       /\ pc[w] \in Looked => snap[w].size <= Limit
       /\ pc[w] \in Read => Len(buf[w]) <= Limit

LEMMA BoundedInit == Init => Bounded
BY DEF Init, Bounded, NoResult, Looked, Read, Stamped

\* A call that returns something within the limit.
LEMMA ReturnBounded ==
  ASSUME TypeInv, Bounded, NEW w \in Workers, NEW r, Return(w, r),
         r.status = "measured" => r.bytes <= Limit
  PROVE  Bounded'
<1>1. pc'[w] = "done" /\ result'[w] = r /\ DOMAIN result' = Workers
  BY DEF Return, Goto, TypeInv, TypeOK, Bounded
<1>2. "done" \notin Looked \cup Read
  BY DEF Looked, Read, Stamped
<1>3. \A v \in Workers \ {w} : /\ pc'[v] = pc[v] /\ result'[v] = result[v]
                               /\ snap'[v] = snap[v] /\ buf'[v] = buf[v]
  BY DEF Return, Goto, TypeInv, TypeOK, Bounded
<1> QED
  BY <1>1, <1>2, <1>3 DEF Bounded

\* A step that goes on with the same snapshot and bytes, to no lookup or read anew.
LEMMA MoveBounded ==
  ASSUME TypeInv, Bounded, NEW w \in Workers, NEW l, Goto(w, l),
         UNCHANGED <<snap, buf, result>>,
         l \in Looked => pc[w] \in Looked, l \in Read => pc[w] \in Read
  PROVE  Bounded'
BY DEF Bounded, Goto, TypeInv, TypeOK

LEMMA StepBounded ==
  ASSUME TypeInv, Bounded, NEW w \in Workers, Step(w)
  PROVE  Bounded'
<1> USE DEF environment, cache, stat
<1>1. CASE Stat(w)
  <2>1. IsFile(node) /\ node \in Files /\ Len(node.content) <= Limit
    BY <1>1 DEF Stat, StatVerdict, TypeInv, TypeOK, IsFile, admits
  <2>2. snap'[w].size <= Limit
    BY <1>1, <2>1 DEF Stat, metadata_snapshot, TypeInv, TypeOK
  <2>3. pc'[w] \in {"index", "open"} /\ pc'[w] \notin Read
    BY <1>1 DEF Stat, Goto, Read, Stamped, TypeInv, TypeOK
  <2> QED
    BY <1>1, <2>2, <2>3 DEF Stat, Goto, Bounded, TypeInv, TypeOK
<1>2. CASE IndexHit(w) \/ FastPathMiss(w)
  <2>1. pc[w] \in Looked /\ pc'[w] \in {"cached", "open"}
    BY <1>2 DEF IndexHit, FastPathMiss, Goto, Looked, TypeInv, TypeOK
  <2>2. pc'[w] \notin Read
    BY <2>1 DEF Read, Stamped
  <2> QED
    BY <1>2, <2>1, <2>2 DEF IndexHit, FastPathMiss, Goto, Bounded, TypeInv, TypeOK
<1>3. CASE FastPath(w)
  <2>1. PICK e \in counts :
          Return(w, measured(seen[w], snap[w].size, e.tokens, e.decoded_lossily))
    BY <1>3 DEF FastPath
  <2>2. snap[w].size <= Limit
    BY <1>3 DEF FastPath, Bounded, Looked
  <2> QED
    BY <2>1, <2>2, ReturnBounded DEF measured
<1>4. CASE StatSkips(w) \/ ReadFails(w) \/ RejectBytes(w) \/ CountFails(w)
  <2>1. PICK r : Return(w, r) /\ r.status # "measured"
    BY <1>4 DEF StatSkips, ReadFails, RejectBytes, CountFails, skipped, failed
  <2> QED
    BY <2>1, ReturnBounded
<1>5. CASE ReadChunk(w)
  <2>1. pc[w] \notin Read
    BY <1>5 DEF ReadChunk, Read, Stamped
  <2> QED
    BY <1>5, <2>1 DEF ReadChunk, Bounded, TypeInv, TypeOK
<1>6. CASE AcceptBytes(w)
  <2>1. Len(buf[w]) <= Limit /\ pc'[w] \notin Looked
    BY <1>6 DEF AcceptBytes, admits, Goto, Looked, TypeInv, TypeOK
  <2> QED
    BY <1>6, <2>1 DEF AcceptBytes, Goto, Bounded, TypeInv, TypeOK
<1>7. CASE IndexMiss(w) \/ Open(w) \/ CountFromCache(w) \/ Count(w) \/ StoreCount(w) \/ Restat(w)
           \/ TakeCheckpoint(w) \/ AcquireLock(w) \/ Compare(w) \/ RemoveCurrent(w)
  BY <1>7, MoveBounded
     DEF IndexMiss, Open, CountFromCache, Count, StoreCount, Restat, TakeCheckpoint,
         AcquireLock, Compare, RemoveCurrent, Looked, Read, Stamped
<1>8. CASE \/ ReturnUncached(w) \/ RestatDiffers(w) \/ LockFails(w) \/ KeepNewer(w)
           \/ Publish(w) \/ PublishFails(w)
  <2>1. pc[w] \in Read /\ Return(w, Measurement(w))
    BY <1>8 DEF ReturnUncached, RestatDiffers, LockFails, KeepNewer, Publish, PublishFails,
                Release, Read, Stamped
  <2>2. Len(buf[w]) <= Limit
    BY <2>1 DEF Bounded
  <2> QED
    BY <2>1, <2>2, ReturnBounded DEF Measurement, measured
<1> QED
  BY <1>1, <1>2, <1>3, <1>4, <1>5, <1>6, <1>7, <1>8
     DEF Step, Looking, Reading, Counting, Publishing

LEMMA BoundedStep == TypeInv /\ Bounded /\ [Next]_vars => Bounded'
<1> SUFFICES ASSUME TypeInv, Bounded, [Next]_vars PROVE Bounded'
  OBVIOUS
<1>1. ASSUME NEW w \in Workers, Again(w) PROVE Bounded'
  <2>1. pc'[w] \notin Looked \cup Read /\ result'[w].status # "measured"
    BY <1>1 DEF Again, Goto, NoResult, Looked, Read, Stamped, TypeInv, TypeOK, Bounded
  <2> QED
    BY <1>1, <2>1 DEF Again, Goto, Bounded, stat, TypeInv, TypeOK
<1>2. ASSUME NEW w \in Workers, Crash(w) PROVE Bounded'
  BY <1>2, ReturnBounded DEF Crash, failed
<1>3. CASE World \/ Finished \/ UNCHANGED vars
  BY <1>3 DEF World, Tick, Overwrite, Replace, Remove, Unlink, DamageIndex, LoseCount,
              Finished, vars, worker, stat, Bounded
<1> QED
  BY <1>1, <1>2, <1>3, StepBounded DEF Next

\* No measurement is of more than the limit, however the file grows between the
\* steps of a call and whatever the cache holds (MaxFileSize::admits, read_bounded).
THEOREM LimitHolds == Spec => []WithinLimit
<1>1. Init => TypeInv /\ Bounded
  BY TypeInit, BoundedInit
<1>2. TypeInv /\ Bounded /\ [Next]_vars => (TypeInv /\ Bounded)'
  BY TypeStep, BoundedStep
<1>3. Bounded => WithinLimit
  BY DEF Bounded, WithinLimit
<1> QED
  BY <1>1, <1>2, <1>3, PTL DEF Spec

-----------------------------------------------------------------------------
(* Order of publication *)

Critical == {"compare", "publish", "republish"}

\* Who compares and publishes holds the lock, and as long as nothing has failed an
\* entry is about to be replaced by one at least as new.
Ordered ==
  \A w \in Workers :
    /\ pc[w] \in Critical => lock = w
    /\ pc[w] = "republish" => faults > 0
    /\ pc[w] = "publish" /\ faults = 0 => ~IsNewer(index, w)

LEMMA OrderedInit == Init => Ordered
BY DEF Init, Ordered, Critical

\* A call that returns gives the lock back if it has it, and leaves the index alone
\* unless it is the one that holds the lock.
LEMMA ReturnOrdered ==
  ASSUME TypeInv, Ordered, NEW w \in Workers, NEW r, Return(w, r),
         faults' \in Nat, faults' >= faults,
         \/ lock' = lock /\ (lock = w => pc[w] \notin Critical) /\ index' = index
         \/ lock' = Free /\ lock = w
  PROVE  Ordered'
<1>1. pc'[w] = "done" /\ "done" \notin Critical
  BY DEF Return, Goto, Critical, TypeInv, TypeOK
<1>2. \A v \in Workers \ {w} : pc'[v] = pc[v] /\ checkpoint'[v] = checkpoint[v]
  BY DEF Return, Goto, TypeInv, TypeOK
<1>3. ASSUME NEW v \in Workers \ {w}, pc[v] \in Critical
      PROVE  lock' = v /\ index' = index
  BY <1>3, SentinelsAssumption DEF Ordered
<1>4. faults \in Nat
  BY SizesAssumption DEF TypeInv, TypeOK
<1> QED
  BY <1>1, <1>2, <1>3, <1>4 DEF Ordered, Critical, IsNewer

\* A step of w outside the critical section that keeps cache and checkpoints.
LEMMA OutsideOrdered ==
  ASSUME TypeInv, Ordered, NEW w \in Workers, NEW l, Goto(w, l), l \notin Critical,
         UNCHANGED <<index, lock>>, faults' \in Nat, faults' >= faults,
         \A v \in Workers \ {w} : checkpoint'[v] = checkpoint[v]
  PROVE  Ordered'
<1>1. faults \in Nat
  BY SizesAssumption DEF TypeInv, TypeOK
<1>2. ASSUME NEW v \in Workers, v # w
      PROVE  pc'[v] = pc[v] /\ (IsNewer(index, v))' = IsNewer(index, v) /\ lock' = lock
  BY <1>2 DEF Goto, IsNewer, TypeInv, TypeOK
<1>3. pc'[w] \notin Critical
  BY DEF Goto, TypeInv, TypeOK
<1>4. ASSUME NEW v \in Workers
      PROVE  /\ pc'[v] \in Critical => lock' = v
             /\ pc'[v] = "republish" => faults' > 0
             /\ pc'[v] = "publish" /\ faults' = 0 => ~(IsNewer(index, v))'
  <2>1. CASE v = w
    BY <2>1, <1>3 DEF Critical
  <2>2. CASE v # w
    BY <2>2, <1>1, <1>2 DEF Ordered
  <2> QED
    BY <2>1, <2>2
<1> QED
  BY <1>4 DEF Ordered

LEMMA StepOrdered ==
  ASSUME TypeInv, Ordered, NEW w \in Workers, Step(w)
  PROVE  Ordered'
<1> USE DEF environment, cache, stat
<1> DEFINE More == faults' \in Nat /\ faults' >= faults
<1>1. faults \in Nat
  BY SizesAssumption DEF TypeInv, TypeOK
<1>2. Fault => More /\ faults' > 0
  BY <1>1 DEF Fault
<1>3. CASE KeepNewer(w) \/ Publish(w) \/ PublishFails(w)
  <2>1. lock = w /\ lock' = Free /\ Return(w, Measurement(w)) /\ More
    BY <1>1, <1>2, <1>3 DEF KeepNewer, Publish, PublishFails, Release, Ordered, Critical
  <2> QED
    BY <2>1, ReturnOrdered
<1>4. CASE \/ StatSkips(w) \/ FastPath(w) \/ ReadFails(w) \/ RejectBytes(w) \/ CountFails(w)
           \/ ReturnUncached(w) \/ RestatDiffers(w) \/ LockFails(w)
  <2>1. pc[w] \notin Critical /\ lock' = lock /\ index' = index /\ More
    BY <1>1, <1>2, <1>4
       DEF StatSkips, FastPath, ReadFails, RejectBytes, CountFails, ReturnUncached,
           RestatDiffers, LockFails, Critical
  <2>2. PICK r : Return(w, r)
    BY <1>4 DEF StatSkips, FastPath, ReadFails, RejectBytes, CountFails, ReturnUncached,
                RestatDiffers, LockFails
  <2> QED
    BY <2>1, <2>2, ReturnOrdered
<1>5. CASE \/ Stat(w) \/ IndexHit(w) \/ IndexMiss(w) \/ FastPathMiss(w) \/ Open(w)
           \/ AcceptBytes(w) \/ CountFromCache(w) \/ Count(w) \/ StoreCount(w) \/ Restat(w)
           \/ TakeCheckpoint(w)
  <2>1. index' = index /\ lock' = lock /\ More
    BY <1>1, <1>2, <1>5
       DEF Stat, IndexHit, IndexMiss, FastPathMiss, Open, AcceptBytes, CountFromCache, Count,
           StoreCount, Restat, TakeCheckpoint
  <2>2. \A v \in Workers \ {w} : checkpoint'[v] = checkpoint[v]
    BY <1>5 DEF Stat, IndexHit, IndexMiss, FastPathMiss, Open, AcceptBytes, CountFromCache,
                Count, StoreCount, Restat, TakeCheckpoint, TypeInv, TypeOK
  <2>3. PICK l : Goto(w, l) /\ l \notin Critical
    BY <1>5 DEF Stat, IndexHit, IndexMiss, FastPathMiss, Open, AcceptBytes, CountFromCache,
                Count, StoreCount, Restat, TakeCheckpoint, Critical
  <2> QED
    BY <2>1, <2>2, <2>3, OutsideOrdered
<1>6. CASE ReadChunk(w)
  BY <1>6 DEF ReadChunk, Ordered, IsNewer
<1>7. CASE AcquireLock(w)
  <2>1. \A v \in Workers : pc[v] \notin Critical
    BY <1>7, SentinelsAssumption DEF AcquireLock, Ordered
  <2> QED
    BY <1>7, <2>1 DEF AcquireLock, Goto, Ordered, Critical, TypeInv, TypeOK
<1>8. CASE Compare(w) \/ RemoveCurrent(w)
  <2>1. lock = w /\ lock' = lock
    BY <1>8 DEF Compare, RemoveCurrent, Ordered, Critical
  <2>2. \A v \in Workers \ {w} : pc[v] \notin Critical /\ pc'[v] = pc[v]
    BY <1>8, <2>1 DEF Compare, RemoveCurrent, Goto, Ordered, TypeInv, TypeOK
  <2>3. \/ pc'[w] = "publish" /\ (faults' = 0 => ~IsNewer(index, w)') 
        \/ pc'[w] = "republish" /\ faults' > 0
    BY <1>2, <1>8 DEF Compare, RemoveCurrent, Goto, IsNewer, TypeInv, TypeOK
  <2> QED
    BY <2>1, <2>2, <2>3 DEF Ordered, Critical
<1> QED
  BY <1>3, <1>4, <1>5, <1>6, <1>7, <1>8 DEF Step, Looking, Reading, Counting, Publishing

LEMMA OrderedStep == TypeInv /\ Ordered /\ [Next]_vars => Ordered'
<1> SUFFICES ASSUME TypeInv, Ordered, [Next]_vars PROVE Ordered'
  OBVIOUS
<1>1. faults \in Nat
  BY SizesAssumption DEF TypeInv, TypeOK
<1>2. Fault => faults' \in Nat /\ faults' >= faults /\ faults' > 0
  BY <1>1 DEF Fault
<1>3. ASSUME NEW w \in Workers, Again(w) PROVE Ordered'
  BY <1>1, <1>3, OutsideOrdered DEF Again, Critical, cache
<1>4. ASSUME NEW w \in Workers, Crash(w) PROVE Ordered'
  BY <1>2, <1>4, ReturnOrdered DEF Crash
<1>5. CASE DamageIndex \/ LoseCount
  BY <1>1, <1>2, <1>5 DEF DamageIndex, LoseCount, worker, Ordered, IsNewer
<1>6. CASE Tick \/ Overwrite \/ Replace \/ Remove \/ Finished \/ UNCHANGED vars
  BY <1>6 DEF Tick, Overwrite, Replace, Remove, Unlink, Change, Finished, vars, worker, cache,
              stat, Ordered, IsNewer
<1> QED
  BY <1>3, <1>4, <1>5, <1>6, StepOrdered DEF Next, World

\* As long as nothing has failed, only a publication replaces an intact entry.
LEMMA OnlyPublications ==
  ASSUME TypeInv, Ordered, [Next]_vars, faults = 0, IsIntact(index), IsIntact(index')
  PROVE  index.checkpoint <= index'.checkpoint
<1>1. index.checkpoint \in Nat
  BY DEF TypeInv, TypeOK, IsIntact, Entries
<1>2. ASSUME NEW w \in Workers, Publish(w)
      PROVE  index.checkpoint <= index'.checkpoint
  <2>1. pc[w] = "publish" /\ ~IsNewer(index, w)
    BY <1>2 DEF Publish, Ordered
  <2>2. index'.checkpoint = checkpoint[w] /\ checkpoint[w] \in Nat
    BY <1>2 DEF Publish, EntryOf, TypeInv, TypeOK
  <2> QED
    BY <1>1, <2>1, <2>2 DEF IsNewer
<1>3. CASE index' = index
  BY <1>1, <1>3
<1>4. ASSUME NEW w \in Workers, Step(w), ~Publish(w)
      PROVE  index' = index \/ index' = NoEntry
  BY <1>4 DEF Step, Looking, StatSkips, Stat, IndexHit, IndexMiss, FastPath, FastPathMiss,
       Reading, Open, ReadFails, ReadChunk, RejectBytes, AcceptBytes,
       Counting, CountFromCache, Count, CountFails, ReturnUncached, StoreCount,
       Restat, RestatDiffers, Publishing, TakeCheckpoint, AcquireLock, LockFails, KeepNewer,
       Compare, PublishFails, RemoveCurrent, cache
<1>5. (World \/ Finished \/ UNCHANGED vars \/ \E w \in Workers : Again(w) \/ Crash(w))
        => index' = index \/ ~IsIntact(index')
  BY DEF World, Tick, Overwrite, Replace, Remove, Change, DamageIndex, LoseCount, Finished,
         Again, Crash, vars, cache, IsIntact
<1> QED
  BY <1>2, <1>3, <1>4, <1>5 DEF Next, IsIntact

\* A worker that publishes late never takes the index back to an older checkpoint,
\* as long as no read of the cache has failed (store_content_hash).
THEOREM CheckpointsAdvance == Spec => CheckpointAdvances
<1>1. Init => TypeInv /\ Ordered
  BY TypeInit, OrderedInit
<1>2. TypeInv /\ Ordered /\ [Next]_vars => (TypeInv /\ Ordered)'
  BY TypeStep, OrderedStep
<1>3. TypeInv /\ Ordered /\ [Next]_vars
        => [IsIntact(index) /\ IsIntact(index') /\ faults = 0
              => index.checkpoint <= index'.checkpoint]_<<index, faults>>
  BY OnlyPublications
<1> QED
  BY <1>1, <1>2, <1>3, PTL DEF Spec, CheckpointAdvances

-----------------------------------------------------------------------------
(* The cache is transparent to a prompt program: whatever a call returns, it  *)
(* would have returned without a cache, of bytes that the file held.  The     *)
(* argument follows the history of a call: what its first stat saw, what the  *)
(* index gave it for that, and what the count store gave it for that.         *)

Decoded(h, w) == Decode(h, Options[w].invalid_utf8)

\* Every entry of the count store is the count of some text under some options.
CountsSound ==
  \A e \in counts : \E h \in Seq(STRING), w \in Workers :
    /\ Decoded(h, w).status = "text"
    /\ e = CountEntry(count_key(h, Options[w]), CountText(h, Options[w]), Decoded(h, w).lossy)

Counted == Read \ {"count"}

\* What a call knows of its bytes.
CallsSound ==
  /\ DOMAIN result = Workers /\ DOMAIN tokens = Workers
  /\ \A w \in Workers :
       /\ pc[w] \in Read => Decoded(buf[w], w).status = "text"
       /\ pc[w] \in Counted => tokens[w] = CountText(buf[w], Options[w])
       /\ pc[w] \in InFlight => snap[w].size = Len(seen[w])
       /\ pc[w] = "cached" => buf[w] = seen[w]

\* Settled calls that saw one mtime saw one content.
SettledAgree ==
  \A v, w \in Workers :
    pc[v] \in InFlight /\ pc[w] \in InFlight /\ Settled(v) /\ Settled(w) =>
      (snap[v].modified = snap[w].modified => seen[v] = seen[w])

\* While a call may look at the index, an entry that it may use is of what it saw.
UsableAgrees ==
  \A w \in Workers :
    pc[w] \in Unstamped /\ Trusted /\ snap[w].modified = index.modified
      => seen[w] = index.hash

HistoriesAgree == SettledAgree /\ UsableAgrees

Base == TypeInv /\ Clocks /\ Agreement /\ IndexAgrees

-----------------------------------------------------------------------------
\* A key tells apart everything that a count depends on.
LEMMA KeyTells ==
  ASSUME CountsSound, NEW e \in counts, NEW w \in Workers, NEW h \in Seq(STRING),
         e.key = count_key(h, Options[w])
  PROVE  /\ Decoded(h, w).status = "text"
         /\ e.tokens = CountText(h, Options[w])
         /\ e.decoded_lossily = Decoded(h, w).lossy
<1>1. PICK g \in Seq(STRING), v \in Workers :
        /\ Decoded(g, v).status = "text"
        /\ e = CountEntry(count_key(g, Options[v]), CountText(g, Options[v]), Decoded(g, v).lossy)
  BY DEF CountsSound
<1>2. count_key(g, Options[v]) = count_key(h, Options[w])
  BY <1>1 DEF CountEntry
<1>3. g = h /\ Options[v].count = Options[w].count
      /\ Options[v].invalid_utf8 = Options[w].invalid_utf8
  BY <1>2 DEF count_key
<1> QED
  BY <1>1, <1>3 DEF CountEntry, CountText, Decoded

LEMMA HistoriesInit == Init => CountsSound /\ CallsSound /\ HistoriesAgree /\ CacheTransparent
<1> SUFFICES ASSUME Init PROVE CountsSound /\ CallsSound /\ HistoriesAgree /\ CacheTransparent
  OBVIOUS
<1>1. \A w \in Workers : /\ pc[w] = "start" /\ result[w].status # "measured"
                         /\ pc[w] \notin InFlight \cup Read \cup Unstamped
  BY DEF Init, NoResult, InFlight, Read, Unstamped, Stamped
<1>2. CountsSound
  BY DEF Init, CountsSound
<1>3. CallsSound
  BY <1>1 DEF Init, CallsSound, Counted
<1> QED
  BY <1>1, <1>2, <1>3 DEF HistoriesAgree, SettledAgree, UsableAgrees, CacheTransparent

-----------------------------------------------------------------------------
(* Histories *)

\* What a call sees now is what settled calls saw of that mtime, and what the index says.
LEMMA StatHistories ==
  ASSUME Base, HistoriesAgree, NEW w \in Workers, Stat(w)
  PROVE  HistoriesAgree'
<1> USE DEF environment, cache
<1>1. IsFile(node) /\ seen'[w] = node.content /\ snap'[w].modified = node.mtime
  BY DEF Stat, StatVerdict, IsFile, metadata_snapshot, Base, TypeInv, TypeOK
<1>2. \A v \in Workers \ {w} : /\ pc'[v] = pc[v] /\ snap'[v] = snap[v] /\ seen'[v] = seen[v]
                               /\ statTime'[v] = statTime[v]
  BY DEF Stat, Goto, Base, TypeInv, TypeOK
<1>3. ASSUME NEW v \in Workers \ {w}, pc[v] \in InFlight, Settled(v),
             snap[v].modified = node.mtime
      PROVE  seen[v] = node.content
  BY <1>1, <1>3 DEF Base, Agreement, WorkerAgrees, SameMtime
<1>4. Trusted /\ index.modified = node.mtime => index.hash = node.content
  BY <1>1 DEF Base, IndexAgrees
<1>5. index' = index
  BY DEF Stat
<1>6. SettledAgree'
  <2>1. ASSUME NEW v \in Workers \ {w}, pc'[v] \in InFlight, Settled(v)',
               snap'[v].modified = snap'[w].modified
        PROVE  seen'[v] = seen'[w]
    BY <1>1, <1>2, <1>3, <2>1 DEF Settled
  <2>2. ASSUME NEW u \in Workers \ {w}, NEW v \in Workers \ {w},
               pc'[u] \in InFlight, pc'[v] \in InFlight, Settled(u)', Settled(v)',
               snap'[u].modified = snap'[v].modified
        PROVE  seen'[u] = seen'[v]
    BY <1>2, <2>2 DEF HistoriesAgree, SettledAgree, Settled
  <2> QED
    BY <2>1, <2>2 DEF SettledAgree
<1>7. UsableAgrees'
  BY <1>1, <1>2, <1>4, <1>5 DEF HistoriesAgree, UsableAgrees, Trusted
<1> QED
  BY <1>6, <1>7 DEF HistoriesAgree

\* An entry that is published and can be used is from a settled call, and calls that
\* may still look at the index and saw the entry's mtime are settled as well.
LEMMA PublishHistories ==
  ASSUME Prompt, Base, HistoriesAgree, NEW w \in Workers, Publish(w)
  PROVE  HistoriesAgree'
<1> USE SizesAssumption DEF environment
<1>1. pc[w] \in Stamped /\ index' = EntryOf(w)
  BY DEF Publish, Stamped
<1>2. pc'[w] \notin InFlight
  BY DEF Publish, Release, Return, Goto, InFlight, Unstamped, Stamped, Base, TypeInv, TypeOK
<1>3. \A v \in Workers \ {w} : /\ pc'[v] = pc[v] /\ snap'[v] = snap[v] /\ seen'[v] = seen[v]
                               /\ statTime'[v] = statTime[v]
  BY DEF Publish, Release, Return, Goto, Base, TypeInv, TypeOK
<1>4. ASSUME NEW v \in Workers \ {w}, pc[v] \in Unstamped, Trusted',
             snap[v].modified = snap[w].modified
      PROVE  seen[v] = buf[w]
  <2>1. snap[w].modified + Window < checkpoint[w]
    BY <1>1, <1>4 DEF Trusted, EntryOf
  <2>2. checkpoint[w] <= statTime[w] + MaxLag /\ checkpoint[w] <= clock
    BY <1>1 DEF Base, Clocks
  <2>3. clock <= statTime[v] + MaxLag
    BY <1>4 DEF Base, Clocks
  <2>4. /\ snap[w].modified \in Nat /\ snap[v].modified \in Nat /\ clock \in Nat
        /\ statTime[w] \in Nat /\ statTime[v] \in Nat /\ checkpoint[w] \in Nat
    BY DEF Base, TypeInv, TypeOK, Snapshots
  <2>5. Settled(w)
    BY <2>1, <2>2, <2>4 DEF Prompt, Settled
  <2>6. Settled(v)
    BY <1>4, <2>1, <2>2, <2>3, <2>4 DEF Prompt, Settled
  <2>7. seen[v] = seen[w]
    BY <1>1, <1>4, <2>5, <2>6 DEF HistoriesAgree, SettledAgree, InFlight
  <2>8. buf[w] = seen[w]
    BY <1>1, <2>5 DEF Base, Agreement, WorkerAgrees, InFlight
  <2> QED
    BY <2>7, <2>8
<1>5. SettledAgree'
  <2>1. ASSUME NEW u \in Workers \ {w}, NEW v \in Workers \ {w},
               pc'[u] \in InFlight, pc'[v] \in InFlight, Settled(u)', Settled(v)',
               snap'[u].modified = snap'[v].modified
        PROVE  seen'[u] = seen'[v]
    BY <1>3, <2>1 DEF HistoriesAgree, SettledAgree, Settled
  <2> QED
    BY <1>2, <2>1 DEF SettledAgree
<1>6. UsableAgrees'
  BY <1>1, <1>2, <1>3, <1>4 DEF UsableAgrees, EntryOf, InFlight
<1> QED
  BY <1>5, <1>6 DEF HistoriesAgree

\* No other step concerns the histories of calls that go on.
LEMMA KeepHistories ==
  ASSUME HistoriesAgree, index' = index \/ ~IsIntact(index'),
         \A v \in Workers :
           \/ pc'[v] \notin InFlight
           \/ /\ pc[v] \in InFlight /\ (pc'[v] \in Unstamped => pc[v] \in Unstamped)
              /\ snap'[v] = snap[v] /\ seen'[v] = seen[v] /\ statTime'[v] = statTime[v]
  PROVE  HistoriesAgree'
<1>1. ASSUME NEW v \in Workers, NEW w \in Workers,
             pc'[v] \in InFlight, pc'[w] \in InFlight, Settled(v)', Settled(w)',
             snap'[v].modified = snap'[w].modified
      PROVE  seen'[v] = seen'[w]
  <2>1. /\ pc[v] \in InFlight /\ pc[w] \in InFlight /\ Settled(v) /\ Settled(w)
        /\ snap'[v] = snap[v] /\ snap'[w] = snap[w] /\ seen'[v] = seen[v] /\ seen'[w] = seen[w]
    BY <1>1 DEF Settled
  <2> QED
    BY <1>1, <2>1 DEF HistoriesAgree, SettledAgree
<1>2. ASSUME NEW w \in Workers, pc'[w] \in Unstamped, Trusted',
             snap'[w].modified = index'.modified
      PROVE  seen'[w] = index'.hash
  <2>1. index' = index /\ Trusted
    BY <1>2 DEF Trusted
  <2>2. pc[w] \in Unstamped /\ snap'[w] = snap[w] /\ seen'[w] = seen[w]
    BY <1>2 DEF InFlight
  <2> QED
    BY <1>2, <2>1, <2>2 DEF HistoriesAgree, UsableAgrees
<1> QED
  BY <1>1, <1>2 DEF HistoriesAgree, SettledAgree, UsableAgrees

\* A step that ends a call and leaves the index alone.
LEMMA ReturnHistories ==
  ASSUME Base, HistoriesAgree, NEW w \in Workers, NEW r, Return(w, r),
         index' = index \/ ~IsIntact(index')
  PROVE  HistoriesAgree'
<1>1. pc'[w] \notin InFlight
  BY DEF Return, Goto, InFlight, Unstamped, Stamped, Base, TypeInv, TypeOK
<1>2. \A v \in Workers \ {w} : /\ pc'[v] = pc[v] /\ snap'[v] = snap[v] /\ seen'[v] = seen[v]
                               /\ statTime'[v] = statTime[v]
  BY DEF Return, Goto, Base, TypeInv, TypeOK
<1> QED
  BY <1>1, <1>2, KeepHistories DEF InFlight

\* A step with which a call goes on, having done its stat.
LEMMA MoveHistories ==
  ASSUME Base, HistoriesAgree, NEW w \in Workers, NEW l, Goto(w, l), UNCHANGED stat,
         pc[w] \in InFlight, l \in Unstamped => pc[w] \in Unstamped,
         index' = index \/ ~IsIntact(index')
  PROVE  HistoriesAgree'
<1>1. pc'[w] = l /\ \A v \in Workers \ {w} : pc'[v] = pc[v]
  BY DEF Goto, Base, TypeInv, TypeOK
<1>2. \A v \in Workers : snap'[v] = snap[v] /\ seen'[v] = seen[v] /\ statTime'[v] = statTime[v]
  BY DEF stat
<1> QED
  BY <1>1, <1>2, KeepHistories DEF InFlight

LEMMA StepHistories ==
  ASSUME Prompt, Base, HistoriesAgree, NEW w \in Workers, Step(w)
  PROVE  HistoriesAgree'
<1> USE DEF environment, cache
<1>1. CASE Stat(w)
  BY <1>1, StatHistories
<1>2. CASE Publish(w)
  BY <1>2, PublishHistories
<1>3. CASE \/ StatSkips(w) \/ FastPath(w) \/ ReadFails(w) \/ RejectBytes(w) \/ CountFails(w)
           \/ ReturnUncached(w) \/ RestatDiffers(w) \/ LockFails(w) \/ KeepNewer(w)
           \/ PublishFails(w)
  <2>1. PICK r : Return(w, r) /\ index' = index
    BY <1>3 DEF StatSkips, FastPath, ReadFails, RejectBytes, CountFails, ReturnUncached,
                RestatDiffers, LockFails, KeepNewer, PublishFails, Release
  <2> QED
    BY <2>1, ReturnHistories
<1>4. CASE \/ IndexHit(w) \/ IndexMiss(w) \/ FastPathMiss(w) \/ Open(w) \/ AcceptBytes(w)
           \/ CountFromCache(w) \/ Count(w) \/ StoreCount(w) \/ Restat(w)
  <2>1. pc[w] \in Unstamped /\ UNCHANGED stat /\ index' = index
    BY <1>4 DEF IndexHit, IndexMiss, FastPathMiss, Open, AcceptBytes, CountFromCache, Count,
                StoreCount, Restat, Unstamped
  <2>2. PICK l : Goto(w, l)
    BY <1>4 DEF IndexHit, IndexMiss, FastPathMiss, Open, AcceptBytes, CountFromCache, Count,
                StoreCount, Restat
  <2> QED
    BY <2>1, <2>2, MoveHistories DEF InFlight
<1>5. CASE TakeCheckpoint(w) \/ AcquireLock(w) \/ Compare(w) \/ RemoveCurrent(w)
  <2>1. pc[w] \in InFlight /\ UNCHANGED stat /\ (index' = index \/ ~IsIntact(index'))
    BY <1>5 DEF TakeCheckpoint, AcquireLock, Compare, RemoveCurrent, InFlight, Unstamped,
                Stamped, IsIntact
  <2>2. PICK l : Goto(w, l) /\ l \notin Unstamped
    BY <1>5 DEF TakeCheckpoint, AcquireLock, Compare, RemoveCurrent, Unstamped
  <2> QED
    BY <2>1, <2>2, MoveHistories
<1>6. CASE ReadChunk(w)
  <2>1. UNCHANGED <<pc, index, stat>>
    BY <1>6 DEF ReadChunk
  <2> QED
    BY <2>1, KeepHistories DEF stat
<1> QED
  BY <1>1, <1>2, <1>3, <1>4, <1>5, <1>6 DEF Step, Looking, Reading, Counting, Publishing

LEMMA HistoriesStep == Prompt /\ Base /\ HistoriesAgree /\ [Next]_vars => HistoriesAgree'
<1> SUFFICES ASSUME Prompt, Base, HistoriesAgree, [Next]_vars PROVE HistoriesAgree'
  OBVIOUS
<1>1. ASSUME NEW w \in Workers, Again(w) PROVE HistoriesAgree'
  <2>1. pc'[w] \notin InFlight
    BY <1>1 DEF Again, Goto, InFlight, Unstamped, Stamped, Base, TypeInv, TypeOK
  <2>2. \A v \in Workers \ {w} : pc'[v] = pc[v]
    BY <1>1 DEF Again, Goto, Base, TypeInv, TypeOK
  <2>3. UNCHANGED <<index, stat>>
    BY <1>1 DEF Again, cache
  <2> QED
    BY <2>1, <2>2, <2>3, KeepHistories DEF stat, InFlight
<1>2. ASSUME NEW w \in Workers, Crash(w) PROVE HistoriesAgree'
  BY <1>2, ReturnHistories DEF Crash
<1>3. CASE World \/ Finished \/ UNCHANGED vars
  <2>1. UNCHANGED <<pc, stat>> /\ (index' = index \/ ~IsIntact(index'))
    BY <1>3 DEF World, Tick, Overwrite, Replace, Remove, Unlink, Change, DamageIndex, LoseCount,
                Finished, vars, worker, cache, stat, IsIntact
  <2> QED
    BY <2>1, KeepHistories DEF stat
<1> QED
  BY <1>1, <1>2, <1>3, StepHistories DEF Next

-----------------------------------------------------------------------------
(* Calls *)

Sound == CountsSound /\ CallsSound /\ CacheTransparent

\* What a call may return.
Transparent(w, r) ==
  r.status = "measured" =>
    /\ Decoded(r.of, w).status = "text"
    /\ r.decoded_lossily = Decoded(r.of, w).lossy
    /\ r.tokens = CountText(r.of, Options[w])
    /\ r.bytes = Len(r.of)

LEMMA FewerCounts ==
  ASSUME CountsSound, counts' \subseteq counts
  PROVE  CountsSound'
BY DEF CountsSound

\* A call that returns something transparent.
LEMMA ReturnSound ==
  ASSUME Base, Sound, NEW w \in Workers, NEW r, Return(w, r), Transparent(w, r),
         counts' \subseteq counts
  PROVE  Sound'
<1>1. pc'[w] = "done" /\ result'[w] = r /\ DOMAIN result' = Workers /\ DOMAIN tokens' = Workers
  BY DEF Return, Goto, Base, TypeInv, TypeOK, Sound, CallsSound
<1>2. "done" \notin Read \cup InFlight
  BY DEF Read, InFlight, Unstamped, Stamped
<1>3. \A v \in Workers \ {w} :
        /\ pc'[v] = pc[v] /\ result'[v] = result[v] /\ snap'[v] = snap[v] /\ buf'[v] = buf[v]
        /\ tokens'[v] = tokens[v] /\ seen'[v] = seen[v]
  BY DEF Return, Goto, Base, TypeInv, TypeOK, Sound, CallsSound
<1>4. CallsSound'
  BY <1>1, <1>2, <1>3 DEF Sound, CallsSound, Counted
<1>5. CacheTransparent'
  BY <1>1, <1>3 DEF Sound, CacheTransparent, Transparent, Decoded
<1> QED
  BY <1>4, <1>5, FewerCounts DEF Sound

\* What a call that has counted returns.
LEMMA MeasurementSound ==
  ASSUME Sound, NEW w \in Workers, pc[w] \in Counted
  PROVE  Transparent(w, Measurement(w))
BY DEF Sound, CallsSound, Counted, Transparent, Measurement, measured, DecodedLossily, Decoded

\* A step with which a call goes on, to no step that it must know more for.
LEMMA MoveSound ==
  ASSUME Base, Sound, NEW w \in Workers, NEW l, Goto(w, l),
         UNCHANGED <<stat, buf, tokens, result>>, counts' \subseteq counts,
         l \in Read => pc[w] \in Read, l \in Counted => pc[w] \in Counted,
         pc[w] \in InFlight, l # "cached"
  PROVE  Sound'
<1>1. pc'[w] = l /\ \A v \in Workers \ {w} : pc'[v] = pc[v]
  BY DEF Goto, Base, TypeInv, TypeOK
<1>2. CallsSound'
  BY <1>1 DEF Sound, CallsSound, stat
<1>3. CacheTransparent'
  BY DEF Sound, CacheTransparent
<1> QED
  BY <1>2, <1>3, FewerCounts DEF Sound

\* An entry that the index gives a call is of what the call's stat saw.
LEMMA IndexHitSound ==
  ASSUME Base, HistoriesAgree, Sound, NEW w \in Workers, IndexHit(w)
  PROVE  Sound'
<1> USE DEF environment, cache, stat
<1>1. pc[w] \in Unstamped /\ pc'[w] = "cached" /\ buf'[w] = index.hash
  BY DEF IndexHit, Goto, Unstamped, Base, TypeInv, TypeOK
<1>2. Trusted /\ snap[w].modified = index.modified
  BY DEF IndexHit, is_usable, Trusted
<1>3. buf'[w] = seen[w]
  BY <1>1, <1>2 DEF HistoriesAgree, UsableAgrees
<1>4. \A v \in Workers \ {w} : pc'[v] = pc[v] /\ buf'[v] = buf[v]
  BY DEF IndexHit, Goto, Base, TypeInv, TypeOK
<1>5. "cached" \notin Read
  BY DEF Read, Stamped
<1>6. CallsSound'
  BY <1>1, <1>3, <1>4, <1>5 DEF IndexHit, Sound, CallsSound, Counted, InFlight
<1> QED
  BY <1>6 DEF IndexHit, Sound, CountsSound, CacheTransparent

LEMMA StepSound ==
  ASSUME Base, HistoriesAgree, Sound, NEW w \in Workers, Step(w)
  PROVE  Sound'
<1> USE DEF environment, cache, stat
<1>1. CASE Stat(w)
  <2>1. snap'[w].size = Len(seen'[w])
    BY <1>1 DEF Stat, metadata_snapshot, Base, TypeInv, TypeOK
  <2>2. pc'[w] \in {"index", "open"} /\ pc'[w] \notin Read
    BY <1>1 DEF Stat, Goto, Read, Stamped, Base, TypeInv, TypeOK
  <2>3. \A v \in Workers \ {w} : pc'[v] = pc[v] /\ snap'[v] = snap[v] /\ seen'[v] = seen[v]
    BY <1>1 DEF Stat, Goto, Base, TypeInv, TypeOK
  <2>4. CallsSound'
    BY <1>1, <2>1, <2>2, <2>3 DEF Stat, Sound, CallsSound, Counted
  <2> QED
    BY <1>1, <2>4 DEF Stat, Sound, CountsSound, CacheTransparent
<1>2. CASE IndexHit(w)
  BY <1>2, IndexHitSound
<1>3. CASE FastPath(w)
  <2>1. PICK e \in counts :
          /\ e.key = count_key(buf[w], Options[w])
          /\ Return(w, measured(seen[w], snap[w].size, e.tokens, e.decoded_lossily))
    BY <1>3 DEF FastPath
  <2>2. buf[w] = seen[w] /\ snap[w].size = Len(seen[w]) /\ buf[w] \in Seq(STRING)
    BY <1>3 DEF FastPath, Sound, CallsSound, InFlight, Unstamped, Base, TypeInv, TypeOK
  <2>3. Transparent(w, measured(seen[w], snap[w].size, e.tokens, e.decoded_lossily))
    BY <2>1, <2>2, KeyTells DEF Sound, Transparent, measured
  <2> QED
    BY <1>3, <2>1, <2>3, ReturnSound DEF FastPath
<1>4. CASE StatSkips(w) \/ ReadFails(w) \/ RejectBytes(w) \/ CountFails(w)
  <2>1. PICK r : Return(w, r) /\ r.status # "measured"
    BY <1>4 DEF StatSkips, ReadFails, RejectBytes, CountFails, skipped, failed
  <2>2. counts' = counts /\ Transparent(w, r)
    BY <1>4, <2>1 DEF StatSkips, ReadFails, RejectBytes, CountFails, Transparent
  <2> QED
    BY <2>1, <2>2, ReturnSound
<1>5. CASE \/ ReturnUncached(w) \/ RestatDiffers(w) \/ LockFails(w) \/ KeepNewer(w)
           \/ Publish(w) \/ PublishFails(w)
  <2>1. pc[w] \in Counted /\ Return(w, Measurement(w)) /\ counts' = counts
    BY <1>5 DEF ReturnUncached, RestatDiffers, LockFails, KeepNewer, Publish, PublishFails,
                Release, Counted, Read, Stamped
  <2> QED
    BY <2>1, MeasurementSound, ReturnSound
<1>6. CASE \/ IndexMiss(w) \/ Open(w) \/ Restat(w) \/ TakeCheckpoint(w) \/ AcquireLock(w)
           \/ Compare(w) \/ RemoveCurrent(w)
  BY <1>6, MoveSound
     DEF IndexMiss, Open, Restat, TakeCheckpoint, AcquireLock, Compare, RemoveCurrent,
         Counted, Read, InFlight, Unstamped, Stamped
<1>7. CASE FastPathMiss(w) \/ ReadChunk(w)
  <2>1. pc'[w] \in {"open", "read"} /\ pc[w] \in InFlight
    BY <1>7 DEF FastPathMiss, ReadChunk, Goto, InFlight, Unstamped, Base, TypeInv, TypeOK
  <2>2. pc'[w] \notin Read /\ pc'[w] # "cached"
    BY <2>1 DEF Read, Stamped
  <2>3. \A v \in Workers \ {w} : pc'[v] = pc[v] /\ buf'[v] = buf[v]
    BY <1>7 DEF FastPathMiss, ReadChunk, Goto, Base, TypeInv, TypeOK
  <2>4. CallsSound'
    BY <1>7, <2>1, <2>2, <2>3 DEF FastPathMiss, ReadChunk, Sound, CallsSound, Counted
  <2> QED
    BY <1>7, <2>4 DEF FastPathMiss, ReadChunk, Sound, CountsSound, CacheTransparent
<1>8. CASE AcceptBytes(w)
  <2>1. Decoded(buf[w], w).status = "text" /\ pc'[w] = "count" /\ pc[w] \in InFlight
    BY <1>8 DEF AcceptBytes, Decoded, Goto, InFlight, Unstamped, Base, TypeInv, TypeOK
  <2>2. \A v \in Workers \ {w} : pc'[v] = pc[v]
    BY <1>8 DEF AcceptBytes, Goto, Base, TypeInv, TypeOK
  <2>3. CallsSound'
    BY <1>8, <2>1, <2>2 DEF AcceptBytes, Sound, CallsSound, Counted
  <2> QED
    BY <1>8, <2>3 DEF AcceptBytes, Sound, CountsSound, CacheTransparent
<1>9. CASE CountFromCache(w) \/ Count(w)
  <2>1. tokens' = [tokens EXCEPT ![w] = CountText(buf[w], Options[w])]
    <3>1. CASE CountFromCache(w)
      <4>1. PICK e \in Cached(w) : tokens' = [tokens EXCEPT ![w] = e.tokens]
        BY <3>1 DEF CountFromCache
      <4>2. e.tokens = CountText(buf[w], Options[w])
        BY KeyTells DEF Cached, Sound, Base, TypeInv, TypeOK
      <4> QED
        BY <4>1, <4>2
    <3>2. CASE Count(w)
      BY <3>2 DEF Count
    <3> QED
      BY <1>9, <3>1, <3>2
  <2>2. pc[w] = "count" /\ pc'[w] = "counted" /\ \A v \in Workers \ {w} : pc'[v] = pc[v]
    BY <1>9 DEF CountFromCache, Count, Goto, Base, TypeInv, TypeOK
  <2>3. pc[w] \in Read \cap InFlight
    BY <2>2 DEF Read, InFlight, Unstamped
  <2>4. CallsSound'
    BY <1>9, <2>1, <2>2, <2>3 DEF CountFromCache, Count, Sound, CallsSound
  <2> QED
    BY <1>9, <2>4 DEF CountFromCache, Count, Sound, CountsSound, CacheTransparent
<1>10. CASE StoreCount(w)
  <2>1. pc[w] = "counted" /\ pc'[w] = "restat" /\ \A v \in Workers \ {w} : pc'[v] = pc[v]
    BY <1>10 DEF StoreCount, Goto, Base, TypeInv, TypeOK
  <2>2. "counted" \in Counted /\ "restat" \in Counted /\ "counted" \in InFlight
    BY DEF Counted, Read, InFlight, Unstamped
  <2>3. CallsSound'
    BY <1>10, <2>1, <2>2 DEF StoreCount, Sound, CallsSound, Counted
  <2>4. \/ counts' = counts
        \/ counts' = counts \cup {CountEntry(count_key(buf[w], Options[w]), tokens[w],
                                             DecodedLossily(w))}
    BY <1>10 DEF StoreCount
  <2>5. /\ Decoded(buf[w], w).status = "text" /\ tokens[w] = CountText(buf[w], Options[w])
        /\ buf[w] \in Seq(STRING)
    BY <2>1, <2>2 DEF Sound, CallsSound, Counted, Base, TypeInv, TypeOK
  <2>6. CountsSound'
    BY <2>4, <2>5 DEF CountsSound, Sound, DecodedLossily, Decoded
  <2> QED
    BY <1>10, <2>3, <2>6 DEF StoreCount, Sound, CacheTransparent
<1> QED
  BY <1>1, <1>2, <1>3, <1>4, <1>5, <1>6, <1>7, <1>8, <1>9, <1>10
     DEF Step, Looking, Reading, Counting, Publishing

LEMMA SoundStep == Base /\ HistoriesAgree /\ Sound /\ [Next]_vars => Sound'
<1> SUFFICES ASSUME Base, HistoriesAgree, Sound, [Next]_vars PROVE Sound'
  OBVIOUS
<1>1. ASSUME NEW w \in Workers, Again(w) PROVE Sound'
  <2>1. pc'[w] \notin Read \cup InFlight /\ result'[w].status # "measured"
    BY <1>1 DEF Again, Goto, NoResult, Read, InFlight, Unstamped, Stamped, Base, TypeInv, TypeOK,
                Sound, CallsSound
  <2>2. \A v \in Workers \ {w} : pc'[v] = pc[v] /\ result'[v] = result[v]
    BY <1>1 DEF Again, Goto, Base, TypeInv, TypeOK, Sound, CallsSound
  <2>3. CallsSound'
    BY <1>1, <2>1, <2>2 DEF Again, stat, Sound, CallsSound, Counted, InFlight, Unstamped
  <2>4. CacheTransparent'
    BY <2>1, <2>2 DEF Sound, CacheTransparent
  <2> QED
    BY <1>1, <2>3, <2>4 DEF Again, cache, Sound, CountsSound
<1>2. ASSUME NEW w \in Workers, Crash(w) PROVE Sound'
  BY <1>2, ReturnSound DEF Crash, failed, Transparent
<1>3. CASE World \/ Finished \/ UNCHANGED vars
  <2>1. UNCHANGED <<pc, stat, buf, tokens, result>> /\ counts' \subseteq counts
    BY <1>3 DEF World, Tick, Overwrite, Replace, Remove, Unlink, Change, DamageIndex, LoseCount,
                Finished, vars, cache, worker
  <2>2. CallsSound' /\ CacheTransparent'
    BY <2>1 DEF Sound, CallsSound, CacheTransparent, stat
  <2> QED
    BY <2>1, <2>2, FewerCounts DEF Sound
<1> QED
  BY <1>1, <1>2, <1>3, StepSound DEF Next

\* Of a prompt program the cache is transparent: a measurement is the count of the
\* bytes it is of under the call's own options, and of their length, whichever calls
\* with whichever options filled the cache, and whatever fails
\* (count_file_with_cache, count_key).
THEOREM PromptTransparent ==
  ASSUME Prompt
  PROVE  Spec => []CacheTransparent
<1> DEFINE Inv == Base /\ HistoriesAgree /\ Sound
<1>1. Init => Inv
  BY TypeInit, ClocksInit, AgreementInit, HistoriesInit DEF Base, Sound
<1>2. Inv /\ [Next]_vars => Inv'
  BY Prompt, TypeStep, ClocksStep, AgreementStep, HistoriesStep, SoundStep DEF Base
<1>3. Inv => CacheTransparent
  BY DEF Sound
<1> QED
  BY <1>1, <1>2, <1>3, PTL DEF Spec
=============================================================================
