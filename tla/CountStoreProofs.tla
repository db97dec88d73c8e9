-------------------------- MODULE CountStoreProofs --------------------------
(***************************************************************************)
(* Theorems about CountStore, for any number of threads and processes,     *)
(* whether they see the same process id or not, and any number of faults:  *)
(* the store keeps the promise of CountMap, its entry is published by one  *)
(* writer at a time and never before it is written, and publishers that    *)
(* nothing disturbs converge.                                              *)
(***************************************************************************)
EXTENDS CountStore, TLAPS

\* A worker inside of with_exclusive_lock, and one that has a temporary file.
Inside == {"check", "create", "write", "rename", "again"}
Publishing == {"write", "rename", "again"}
Replacing == {"create"} \cup Publishing

\* A worker with a temporary file knows its name.
NamesKnown == \A w \in Workers : pc[w] \in Publishing => temporary[w] \in Names

TypeInv == TypeOK /\ NamesKnown

\* Who is inside has locked a lock file, which nobody else has: the present one, or
\* one of an earlier cache directory.
LockHeld ==
  /\ locked = {w \in Workers : pc[w] \in Inside}
  /\ \A w \in Workers :
       /\ pc[w] \in Inside \cup {"lock"} => lockFile[w] \in 0 .. generation
       /\ pc[w] \notin Inside \cup {"lock"} => lockFile[w] = NotOpen
  /\ \A v, w \in locked : lockFile[v] = lockFile[w] => v = w

\* A file that is still written is the temporary file of its writer and no other.
FilesOwned ==
  generation = 0 =>
    /\ entry \notin Workers
    /\ \A n \in Names, w \in Workers :
         temporaries[n] = w => pc[w] = "write" /\ temporary[w] = n

\* As long as nothing was disturbed, each temporary file is that of a publisher, which
\* has written it by the time it renames it, and the count is there when one is done.
Undisturbed ==
  faults = 0 =>
    /\ generation = 0
    /\ \A w \in Workers :
         /\ pc[w] = "write" => temporaries[temporary[w]] = w
         /\ pc[w] \in {"rename", "again"} => temporaries[temporary[w]] = Whole
         /\ pc[w] = "done" => entry = Whole
    /\ \A n \in Names : temporaries[n] # Nothing =>
         \E w \in Workers : pc[w] \in Publishing /\ temporary[w] = n

Inv == TypeInv /\ LockHeld /\ FilesOwned /\ Undisturbed

-----------------------------------------------------------------------------
(* Types *)

LEMMA TypeInit == Init => TypeInv
BY StoreAssumption DEF Init, TypeInv, TypeOK, NamesKnown, Contents, Publishing

\* The next name of a worker is one of the names.
LEMMA NextNames ==
  ASSUME TypeInv, NEW w \in Workers, TakeName(w)
  PROVE  /\ NextName(w) \in Names
         /\ sequence' \in [Processes -> 0 .. MaxSequence]
BY StoreAssumption DEF TypeInv, TypeOK, TakeName, NextName, Names

\* What a writer makes of its file is well typed.
LEMMA BecomesType ==
  ASSUME TypeInv, NEW w \in Workers, NEW content \in Contents, Becomes(w, content)
  PROVE  entry' \in Contents /\ temporaries' \in [Names -> Contents]
BY DEF TypeInv, TypeOK, Becomes

\* A call that returns leaves well-typed locals.
LEMMA ReturnType ==
  ASSUME TypeInv, NEW w \in Workers, Return(w),
         entry' \in Contents, temporaries' \in [Names -> Contents],
         generation' \in Nat, sequence' \in [Processes -> 0 .. MaxSequence],
         faults' \in 0 .. MaxFaults
  PROVE  TypeInv'
BY DEF TypeInv, TypeOK, NamesKnown, Publishing, Return, Goto

LEMMA FaultType ==
  ASSUME TypeInv, Fault
  PROVE  faults' \in 0 .. MaxFaults /\ faults' # 0
BY StoreAssumption DEF TypeInv, TypeOK, Fault

LEMMA StepType ==
  ASSUME TypeInv, NEW w \in Workers, Step(w)
  PROVE  TypeInv'
<1>1. CASE Lookup(w) \/ LookupFails(w)
  BY <1>1, FaultType
     DEF Lookup, LookupFails, IsValid, Goto, disk, TypeInv, TypeOK, NamesKnown, Publishing
<1>2. CASE OpenLock(w) \/ Lock(w) \/ Check(w)
  BY <1>2, FaultType DEF OpenLock, Lock, Check, Goto, disk, TypeInv, TypeOK, NamesKnown, Publishing
<1>3. CASE LockFails(w) \/ Keep(w) \/ RemoveFails(w)
  <2>1. faults' \in 0 .. MaxFaults
    BY <1>3, FaultType DEF LockFails, Keep, RemoveFails, TypeInv, TypeOK
  <2> QED
    BY <1>3, <2>1, ReturnType DEF LockFails, Keep, RemoveFails, disk, TypeInv, TypeOK
<1>4. CASE Create(w)
  <2>1. NextName(w) \in Names /\ sequence' \in [Processes -> 0 .. MaxSequence]
    BY <1>4, NextNames DEF Create
  <2> QED
    BY <1>4, <2>1 DEF Create, Goto, TypeInv, TypeOK, Contents, NamesKnown, Publishing
<1>5. CASE CreateFails(w)
  <2>1. sequence' \in [Processes -> 0 .. MaxSequence]
    BY <1>5, NextNames DEF CreateFails
  <2>2. faults' \in 0 .. MaxFaults
    BY <1>5, FaultType DEF CreateFails, TypeInv, TypeOK
  <2> QED
    BY <1>5, <2>1, <2>2, ReturnType DEF CreateFails, disk, TypeInv, TypeOK
<1>6. CASE Write(w)
  <2>1. entry' \in Contents /\ temporaries' \in [Names -> Contents]
    BY <1>6, BecomesType DEF Write, Contents
  <2> QED
    BY <1>6, <2>1 DEF Write, Goto, TypeInv, TypeOK, NamesKnown, Publishing
<1>7. CASE WriteFails(w)
  <2>1. entry' \in Contents /\ temporaries' \in [Names -> Contents]
    BY <1>7, BecomesType DEF WriteFails, Contents
  <2>2. faults' \in 0 .. MaxFaults
    BY <1>7, FaultType DEF WriteFails
  <2> QED
    BY <1>7, <2>1, <2>2, ReturnType DEF WriteFails, TypeInv, TypeOK
<1>8. CASE Rename(w)
  <2>1. temporary[w] \in Names
    BY <1>8 DEF Rename, TypeInv, NamesKnown, Publishing
  <2>2. entry' \in Contents /\ temporaries' \in [Names -> Contents]
    BY <1>8, <2>1 DEF Rename, TypeInv, TypeOK, Contents
  <2> QED
    BY <1>8, <2>2, ReturnType DEF Rename, TypeInv, TypeOK
<1>9. CASE RemoveEntry(w)
  <2>1. faults' \in 0 .. MaxFaults
    BY <1>9, FaultType DEF RemoveEntry, RenameFails, TypeInv, TypeOK
  <2> QED
    BY <1>9, <2>1 DEF RemoveEntry, Goto, TypeInv, TypeOK, Contents, NamesKnown, Publishing
<1>10. CASE GiveUp(w)
  <2>1. faults' \in 0 .. MaxFaults
    BY <1>10, FaultType DEF GiveUp, RenameFails, TypeInv, TypeOK
  <2>2. temporaries' \in [Names -> Contents]
    BY <1>10 DEF GiveUp, TypeInv, TypeOK, Contents
  <2> QED
    BY <1>10, <2>1, <2>2, ReturnType DEF GiveUp, TypeInv, TypeOK
<1> QED
  BY <1>1, <1>2, <1>3, <1>4, <1>5, <1>6, <1>7, <1>8, <1>9, <1>10 DEF Step

LEMMA WorldType ==
  ASSUME TypeInv, Damage \/ Evict \/ Finished \/ UNCHANGED vars \/ \E p \in Processes : Crash(p)
  PROVE  TypeInv'
<1>1. ASSUME NEW p \in Processes, Crash(p)
      PROVE  TypeInv'
  <2>1. faults' \in 0 .. MaxFaults
    BY <1>1, FaultType DEF Crash
  <2>2. entry' \in Contents /\ temporaries' \in [Names -> Contents]
    BY <1>1 DEF Crash, TypeInv, TypeOK, Contents
  <2>3. /\ pc' \in [Workers -> {"start", "open", "lock", "check", "create", "write",
                                "rename", "again", "done"}]
        /\ lockFile' \in [Workers -> Nat \cup {NotOpen}]
        /\ locked' \subseteq Workers
        /\ temporary' \in [Workers -> Names \cup {NoName}]
        /\ answer' \in [Workers -> {NoAnswer, Miss, Whole}]
    BY <1>1 DEF Crash, TypeInv, TypeOK
  <2>4. sequence' \in [Processes -> 0 .. MaxSequence]
    BY <1>1, StoreAssumption DEF Crash, TypeInv, TypeOK
  <2>5. NamesKnown'
    BY <1>1 DEF Crash, TypeInv, TypeOK, NamesKnown, Publishing
  <2> QED
    BY <1>1, <2>1, <2>2, <2>3, <2>4, <2>5 DEF Crash, TypeInv, TypeOK
<1>2. CASE Damage \/ Evict
  BY <1>2, FaultType DEF Damage, Evict, worker, TypeInv, TypeOK, Contents, NamesKnown
<1>3. CASE Finished \/ UNCHANGED vars
  BY <1>3 DEF Finished, vars, disk, worker, TypeInv, TypeOK, NamesKnown
<1> QED
  BY <1>1, <1>2, <1>3

LEMMA TypeStep == TypeInv /\ [Next]_vars => TypeInv'
BY StepType, WorldType DEF Next

\* Files hold what files may hold, and workers are where they may be, for any threads,
\* processes and faults (lookup_count, store_count, write_json_atomic).
THEOREM StoreTypeCorrect == Spec => []TypeOK
<1>1. Init => TypeInv
  BY TypeInit
<1>2. TypeInv /\ [Next]_vars => TypeInv'
  BY TypeStep
<1>3. TypeInv => TypeOK
  BY DEF TypeInv
<1> QED
  BY <1>1, <1>2, <1>3, PTL DEF Spec

-----------------------------------------------------------------------------
(* The lock *)

\* What others hold does not change when w takes a step of its own.
LEMMA OthersStay ==
  ASSUME TypeInv, NEW w \in Workers, Step(w), NEW v \in Workers, v # w
  PROVE  /\ pc'[v] = pc[v] /\ lockFile'[v] = lockFile[v] /\ temporary'[v] = temporary[v]
         /\ v \in locked' <=> v \in locked
BY DEF TypeInv, TypeOK, Step, Lookup, LookupFails, OpenLock, Lock, LockFails, Keep, Check, Create,
       CreateFails, Write, WriteFails, Rename, RemoveEntry, RemoveFails, GiveUp, Return, Goto

LEMMA ReturnLock ==
  ASSUME TypeInv, LockHeld, NEW w \in Workers, Return(w), UNCHANGED generation
  PROVE  LockHeld'
BY DEF TypeInv, TypeOK, LockHeld, Return, Goto, Inside

LEMMA LockInit == Init => LockHeld
BY StoreAssumption DEF Init, LockHeld, Inside

LEMMA StepLock ==
  ASSUME TypeInv, LockHeld, NEW w \in Workers, Step(w)
  PROVE  LockHeld'
<1>1. CASE Lookup(w) \/ LookupFails(w)
  BY <1>1 DEF Lookup, LookupFails, IsValid, Goto, disk, TypeInv, TypeOK, LockHeld, Inside
<1>2. CASE OpenLock(w)
  BY <1>2 DEF OpenLock, Goto, disk, TypeInv, TypeOK, LockHeld, Inside
<1>3. CASE Lock(w)
  BY <1>3 DEF Lock, Goto, disk, TypeInv, TypeOK, LockHeld, Inside
<1>4. CASE Check(w) \/ Create(w) \/ Write(w) \/ RemoveEntry(w)
  BY <1>4 DEF Check, Create, Write, RemoveEntry, Goto, disk, TypeInv, TypeOK, LockHeld, Inside
<1>5. CASE LockFails(w) \/ Keep(w) \/ CreateFails(w) \/ WriteFails(w) \/ Rename(w)
             \/ RemoveFails(w) \/ GiveUp(w)
  BY <1>5, ReturnLock
     DEF LockFails, Keep, CreateFails, WriteFails, Rename, RemoveFails, GiveUp, disk
<1> QED
  BY <1>1, <1>2, <1>3, <1>4, <1>5 DEF Step

LEMMA WorldLock ==
  ASSUME TypeInv, LockHeld,
         Damage \/ Evict \/ Finished \/ UNCHANGED vars \/ \E p \in Processes : Crash(p)
  PROVE  LockHeld'
<1>1. ASSUME NEW p \in Processes, Crash(p)
      PROVE  LockHeld'
  BY <1>1 DEF Crash, TypeInv, TypeOK, LockHeld, Inside
<1>2. CASE Evict
  BY <1>2 DEF Evict, worker, TypeInv, TypeOK, LockHeld, Inside
<1>3. CASE Damage \/ Finished \/ UNCHANGED vars
  BY <1>3 DEF Damage, Finished, vars, disk, worker, LockHeld
<1> QED
  BY <1>1, <1>2, <1>3

LEMMA LockStep == TypeInv /\ LockHeld /\ [Next]_vars => LockHeld'
BY StepLock, WorldLock DEF Next

\* In the first cache directory at most one worker is inside.
LEMMA OneInside ==
  ASSUME TypeInv, LockHeld, generation = 0,
         NEW v \in Workers, NEW w \in Workers, pc[v] \in Inside, pc[w] \in Inside
  PROVE  v = w
BY DEF LockHeld

\* Only one worker at a time replaces the entry, whatever fails and whoever dies, until
\* the cache directory is removed with the lock file in it (with_exclusive_lock).
THEOREM OnlyOneWriter == Spec => []OneWriter
<1>1. Init => TypeInv /\ LockHeld
  BY TypeInit, LockInit
<1>2. TypeInv /\ LockHeld /\ [Next]_vars => (TypeInv /\ LockHeld)'
  BY TypeStep, LockStep
<1>3. TypeInv /\ LockHeld => OneWriter
  BY OneInside DEF OneWriter, Inside
<1> QED
  BY <1>1, <1>2, <1>3, PTL DEF Spec

-----------------------------------------------------------------------------
(* Publication *)

LEMMA FilesInit == Init => FilesOwned
BY StoreAssumption DEF Init, FilesOwned

\* Who is inside is alone, so that the temporary file it renames is nobody's work in hand.
LEMMA StepFiles ==
  ASSUME TypeInv, LockHeld, FilesOwned, NEW w \in Workers, Step(w), generation = 0
  PROVE  FilesOwned'
<1> USE StoreAssumption DEF FilesOwned
<1>1. CASE Lookup(w) \/ LookupFails(w) \/ OpenLock(w) \/ Lock(w) \/ Check(w)
  BY <1>1 DEF Lookup, LookupFails, IsValid, OpenLock, Lock, Check, Goto, disk, TypeInv, TypeOK
<1>2. CASE LockFails(w) \/ Keep(w) \/ CreateFails(w) \/ RemoveFails(w)
  BY <1>2 DEF LockFails, Keep, CreateFails, RemoveFails, Return, Goto, disk, TypeInv, TypeOK
<1>3. CASE Create(w)
  BY <1>3, NextNames DEF Create, Goto, TypeInv, TypeOK
<1>4. CASE Write(w)
  BY <1>4 DEF Write, Becomes, Goto, TypeInv, TypeOK
<1>5. CASE WriteFails(w)
  BY <1>5 DEF WriteFails, Becomes, Return, Goto, TypeInv, TypeOK
<1>6. CASE Rename(w)
  <2>1. temporary[w] \in Names
    BY <1>6 DEF Rename, TypeInv, NamesKnown, Publishing
  <2>2. temporaries[temporary[w]] \notin Workers
    BY <1>6, <2>1, OneInside DEF Rename, Inside
  <2> QED
    BY <1>6, <2>1, <2>2 DEF Rename, Return, Goto, TypeInv, TypeOK
<1>7. CASE RemoveEntry(w)
  BY <1>7 DEF RemoveEntry, Goto, TypeInv, TypeOK
<1>8. CASE GiveUp(w)
  BY <1>8 DEF GiveUp, Return, Goto, TypeInv, TypeOK
<1> QED
  BY <1>1, <1>2, <1>3, <1>4, <1>5, <1>6, <1>7, <1>8 DEF Step

LEMMA WorldFiles ==
  ASSUME TypeInv, FilesOwned,
         Damage \/ Evict \/ Finished \/ UNCHANGED vars \/ \E p \in Processes : Crash(p)
  PROVE  FilesOwned'
<1>1. ASSUME NEW p \in Processes, Crash(p)
      PROVE  FilesOwned'
  BY <1>1, StoreAssumption DEF Crash, TypeInv, TypeOK, FilesOwned
<1>2. CASE Evict
  BY <1>2 DEF Evict, TypeInv, TypeOK, FilesOwned
<1>3. CASE Damage \/ Finished \/ UNCHANGED vars
  BY <1>3, StoreAssumption DEF Damage, Finished, vars, disk, worker, FilesOwned
<1> QED
  BY <1>1, <1>2, <1>3

LEMMA FilesStep == TypeInv /\ LockHeld /\ FilesOwned /\ [Next]_vars => FilesOwned'
<1> SUFFICES ASSUME TypeInv, LockHeld, FilesOwned, [Next]_vars PROVE FilesOwned'
  OBVIOUS
<1>1. ASSUME NEW w \in Workers, Step(w)
      PROVE  generation' = generation
  BY <1>1 DEF Step, Lookup, LookupFails, OpenLock, Lock, LockFails, Keep, Check, Create,
              CreateFails, Write, WriteFails, Rename, RemoveEntry, RemoveFails, GiveUp, disk
<1> QED
  BY <1>1, StepFiles, WorldFiles DEF Next, FilesOwned

\* The entry is never a file that somebody still writes, whatever fails and whoever dies,
\* even if processes share their temporary names, until the cache directory is removed
\* (write_json_atomic).
THEOREM PublicationAtomic == Spec => []AtomicPublication
<1>1. Init => TypeInv /\ LockHeld /\ FilesOwned
  BY TypeInit, LockInit, FilesInit
<1>2. TypeInv /\ LockHeld /\ FilesOwned /\ [Next]_vars => (TypeInv /\ LockHeld /\ FilesOwned)'
  BY TypeStep, LockStep, FilesStep
<1>3. FilesOwned => AtomicPublication
  BY DEF FilesOwned, AtomicPublication
<1> QED
  BY <1>1, <1>2, <1>3, PTL DEF Spec

-----------------------------------------------------------------------------
(* Without disturbances *)

LEMMA UndisturbedInit == Init => Undisturbed
BY StoreAssumption DEF Init, Undisturbed

\* As long as nothing was disturbed, a name that is next is free and the file that is
\* renamed is there: neither creation nor renaming fails.
LEMMA NothingFails ==
  ASSUME Inv, faults = 0, NEW w \in Workers, pc[w] \in Replacing
  PROVE  /\ pc[w] = "create" => \A n \in Names : temporaries[n] = Nothing
         /\ pc[w] \in {"rename", "again"} => temporary[w] \in Names /\ IsThere(w)
         /\ \A n \in Names : temporaries[n] # Nothing => temporary[w] = n
<1>1. generation = 0
  BY DEF Inv, Undisturbed
<1>2. ASSUME NEW v \in Workers, pc[v] \in Publishing
      PROVE  v = w
  BY <1>1, <1>2, OneInside DEF Inv, Replacing, Publishing, Inside
<1> QED
  BY <1>2, StoreAssumption DEF Inv, Undisturbed, TypeInv, NamesKnown, Publishing, IsThere

LEMMA StepUndisturbed ==
  ASSUME Inv, NEW w \in Workers, Step(w), faults' = 0
  PROVE  Undisturbed'
<1>1. /\ faults = 0
      /\ ~Fault
  BY StoreAssumption
     DEF Inv, TypeInv, TypeOK, Fault, Step, Lookup, LookupFails, OpenLock, Lock, LockFails, Keep,
         Check, Create, CreateFails, Write, WriteFails, Rename, RemoveEntry, RenameFails,
         RemoveFails, GiveUp
<1> USE <1>1, StoreAssumption DEF Inv, Undisturbed, TypeInv, TypeOK, Publishing
<1>2. CASE Lookup(w) \/ OpenLock(w) \/ Lock(w) \/ Check(w) \/ Keep(w)
  BY <1>2 DEF Lookup, IsValid, OpenLock, Lock, Check, Keep, Return, Goto, disk
<1>3. CASE Create(w)
  <2>1. NextName(w) \in Names
    BY <1>3, NextNames DEF Create
  <2>2. \A n \in Names : temporaries[n] = Nothing
    BY <1>3, NothingFails DEF Create, Replacing
  <2> QED
    BY <1>3, <2>1, <2>2 DEF Create, Goto
<1>4. CASE CreateFails(w)
  <2>1. NextName(w) \in Names
    BY <1>4, NextNames DEF CreateFails
  <2> QED
    BY <1>4, <2>1, NothingFails DEF CreateFails, Replacing
<1>5. CASE Write(w)
  <2>1. temporary[w] \in Names /\ temporaries[temporary[w]] = w
    BY <1>5 DEF Write, NamesKnown
  <2>2. entry # w
    BY DEF FilesOwned
  <2>3. \A v \in Workers : pc[v] \in Publishing => v = w
    BY <1>5, OneInside DEF Write, Inside
  <2> QED
    BY <1>5, <2>1, <2>2, <2>3 DEF Write, Becomes, Goto
<1>6. CASE Rename(w)
  <2>1. temporary[w] \in Names /\ temporaries[temporary[w]] = Whole
    BY <1>6 DEF Rename, NamesKnown
  <2>2. \A v \in Workers : pc[v] \in Publishing => v = w
    BY <1>6, OneInside DEF Rename, Inside
  <2> QED
    BY <1>6, <2>1, <2>2 DEF Rename, Return, Goto
<1>7. CASE RemoveEntry(w) \/ GiveUp(w)
  BY <1>7, NothingFails DEF RemoveEntry, GiveUp, RenameFails, Replacing
<1> QED
  BY <1>2, <1>3, <1>4, <1>5, <1>6, <1>7
     DEF Step, LookupFails, LockFails, WriteFails, RemoveFails

LEMMA UndisturbedStep == Inv /\ [Next]_vars => Undisturbed'
<1> SUFFICES ASSUME Inv, [Next]_vars, faults' = 0 PROVE Undisturbed'
  BY DEF Undisturbed
<1>1. CASE Damage \/ Evict \/ \E p \in Processes : Crash(p)
  BY <1>1, FaultType DEF Inv, Damage, Evict, Crash
<1>2. CASE Finished \/ UNCHANGED vars
  BY <1>2 DEF Finished, vars, disk, worker, Inv, Undisturbed
<1> QED
  BY <1>1, <1>2, StepUndisturbed DEF Next

LEMMA InvInit == Init => Inv
BY TypeInit, LockInit, FilesInit, UndisturbedInit DEF Inv

LEMMA InvStep == Inv /\ [Next]_vars => Inv'
BY TypeStep, LockStep, FilesStep, UndisturbedStep DEF Inv

\* Publishers that nothing disturbs converge: when one has returned the count is there,
\* and when all have there are no temporary files (store_count, write_json_atomic).
THEOREM PublishersConverge == Spec => []Converges
<1>1. Inv => Converges
  BY DEF Inv, Undisturbed, Converges, Publishing
<1> QED
  BY <1>1, InvInit, InvStep, PTL DEF Spec

-----------------------------------------------------------------------------
(* The promise.  The store of CountMap is the entry if it is whole, and nothing *)
(* otherwise.                                                                     *)

LEMMA PromiseInit == Init => Promise!MapInit
BY StoreAssumption DEF Init, Promise!MapInit

\* Whatever happens to the entry, callers are told nothing new of it: the store stays, it
\* gets its count, or it forgets it when something has been disturbed.
LEMMA EntryKeepsPromise ==
  ASSUME TypeInv, UNCHANGED answer,
         faults' = faults \/ Fault,
         entry' = Whole => entry = Whole \/ faults' = faults,
         entry = Whole /\ entry' # Whole => faults' > 0
  PROVE  [Promise!MapNext]_(Promise!mapVars)
<1> USE StoreAssumption DEF TypeInv, TypeOK, Promise!mapVars, Promise!MapNext
<1>1. CASE (entry' = Whole) = (entry = Whole) /\ faults' = faults
  BY <1>1
<1>2. CASE (entry' = Whole) = (entry = Whole) /\ Fault
  <2>1. answer' = [w \in Workers |-> IF w \in {} THEN NoAnswer ELSE answer[w]]
    OBVIOUS
  <2>2. Promise!Disturb
    BY <1>2, <2>1 DEF Promise!Disturb, Fault
  <2> QED
    BY <2>2
<1>3. CASE entry' = Whole /\ entry # Whole
  BY <1>3 DEF Promise!Put
<1>4. CASE entry = Whole /\ entry' # Whole
  <2>1. faults' >= faults
    BY DEF Fault
  <2> QED
    BY <1>4, <2>1 DEF Promise!Forget
<1> QED
  BY <1>1, <1>2, <1>3, <1>4

LEMMA StepPromise ==
  ASSUME Inv, NEW w \in Workers, Step(w)
  PROVE  [Promise!MapNext]_(Promise!mapVars)
<1> USE StoreAssumption DEF Inv, TypeInv, TypeOK
<1>1. CASE Lookup(w)
  <2>1. Promise!Get(w)
    BY <1>1 DEF Lookup, IsValid, disk, Promise!Get
  <2> QED
    BY <2>1 DEF Promise!MapNext
<1>2. CASE LookupFails(w)
  <2>1. Promise!GetFails(w)
    BY <1>2 DEF LookupFails, Fault, disk, Promise!GetFails
  <2> QED
    BY <2>1 DEF Promise!MapNext
<1>3. CASE OpenLock(w) \/ Lock(w) \/ LockFails(w) \/ Keep(w) \/ Check(w) \/ Create(w)
             \/ CreateFails(w) \/ RemoveFails(w) \/ GiveUp(w)
  BY <1>3, EntryKeepsPromise
     DEF OpenLock, Lock, LockFails, Keep, Check, Create, CreateFails, RemoveFails, GiveUp,
         RenameFails, Return, disk
<1>4. CASE Write(w)
  BY <1>4, EntryKeepsPromise DEF Write, Becomes
<1>5. CASE WriteFails(w)
  BY <1>5, EntryKeepsPromise DEF WriteFails, Becomes, Return
<1>6. CASE Rename(w)
  <2>1. faults = 0 => entry' = Whole
    BY <1>6 DEF Rename, Undisturbed
  <2> QED
    BY <1>6, <2>1, EntryKeepsPromise DEF Rename, Return
<1>7. CASE RemoveEntry(w)
  <2>1. faults' > 0
    <3>1. CASE Fault
      BY <3>1, FaultType
    <3>2. CASE ~Fault
      <4>1. ~IsThere(w) /\ faults' = faults
        BY <1>7, <3>2 DEF RemoveEntry, RenameFails
      <4> QED
        BY <1>7, <4>1, NothingFails DEF RemoveEntry, Replacing, Publishing
    <3> QED
      BY <3>1, <3>2
  <2> QED
    BY <1>7, <2>1, EntryKeepsPromise DEF RemoveEntry, RenameFails
<1> QED
  BY <1>1, <1>2, <1>3, <1>4, <1>5, <1>6, <1>7 DEF Step

\* The callers that a crash stops ask anew.
LEMMA CrashPromise ==
  ASSUME Inv, NEW p \in Processes, Crash(p)
  PROVE  Promise!Disturb
<1> DEFINE dead == {w \in Workers : ProcessOf[w] = p}
<1>1. answer' = [w \in Workers |-> IF w \in dead THEN NoAnswer ELSE answer[w]]
  BY DEF Crash
<1>2. (entry' = Whole) = (entry = Whole)
  BY StoreAssumption DEF Crash
<1>3. dead \in SUBSET Workers
  OBVIOUS
<1> HIDE DEF dead
<1> QED
  BY <1>1, <1>2, <1>3 DEF Crash, Fault, Promise!Disturb

LEMMA PromiseStep == Inv /\ [Next]_vars => [Promise!MapNext]_(Promise!mapVars)
<1> SUFFICES ASSUME Inv, [Next]_vars PROVE [Promise!MapNext]_(Promise!mapVars)
  OBVIOUS
<1>1. CASE Damage \/ Evict
  <2>1. Fault /\ entry' # Whole /\ UNCHANGED answer
    BY <1>1, StoreAssumption DEF Damage, Evict, worker
  <2>2. faults' > 0
    BY <2>1, FaultType DEF Inv
  <2> QED
    BY <2>1, <2>2, EntryKeepsPromise DEF Inv
<1>2. ASSUME NEW p \in Processes, Crash(p)
      PROVE  Promise!MapNext
  BY <1>2, CrashPromise DEF Promise!MapNext
<1>3. CASE Finished \/ UNCHANGED vars
  BY <1>3 DEF Finished, vars, disk, worker, Promise!mapVars
<1> QED
  BY <1>1, <1>2, <1>3, StepPromise DEF Next

\* The files implement the promise of CountMap: a caller is told a count only while a
\* whole entry holds it, and a store forgets only when something was disturbed
\* (lookup_count, store_count: "Cache corruption is a miss, never scan data").
THEOREM StoreKeepsPromise == Spec => KeepsPromise
<1> QED
  BY InvInit, InvStep, PromiseInit, PromiseStep, PTL DEF Spec, KeepsPromise, Promise!MapSpec
=============================================================================
