----------------------------- MODULE CountStore -----------------------------
(***************************************************************************)
(* One key of the content-addressed count store, file by file:             *)
(* lookup_count, store_count, with_exclusive_lock and write_json_atomic of *)
(* tokm-core/src/cache.rs.  The workers are threads of several processes   *)
(* that share the cache directory, where the key has an entry file, a lock *)
(* file and temporary files.  Processes may see the same process id when   *)
(* they run in different containers, or one after the other.               *)
(*                                                                         *)
(* A file holds the key's count (Whole), something that fails to parse or  *)
(* its integrity check (Broken), or w while w is still writing it.         *)
(***************************************************************************)
EXTENDS Naturals

CONSTANTS
  Workers,                  \* threads that look up and store the count
  Processes,                \* the processes they run in
  ProcessOf,                \* ProcessOf[w]: the process of w
  Pid,                      \* Pid[p]: what std::process::id() is in p
  MaxSequence,              \* bound on TEMPORARY_FILE_SEQUENCE
  MaxFaults,                \* bound on disturbances
  Nothing, Broken, Whole,   \* no file, a useless one, the count of the key
  NoAnswer, Miss,           \* not asked yet, told that there is no count
  NotOpen                   \* the worker has no lock file open

ASSUME StoreAssumption ==
  /\ ProcessOf \in [Workers -> Processes]
  /\ MaxSequence \in Nat /\ MaxFaults \in Nat
  /\ {Nothing, Broken, Whole} \cap Workers = {}
  /\ Nothing # Broken /\ Nothing # Whole /\ Broken # Whole
  /\ NotOpen \notin Nat

VARIABLES
  entry,       \* the entry file
  temporaries, \* temporaries[n]: the temporary file of name n
  generation,  \* the lock file of the present cache directory
  sequence,    \* sequence[p]: TEMPORARY_FILE_SEQUENCE of p
  faults,      \* disturbances so far
  pc,          \* pc[w]: the step w takes next
  lockFile,    \* lockFile[w]: the lock file w has open
  locked,      \* the workers whose open lock file is locked
  temporary,   \* temporary[w]: the name of w's temporary file
  answer       \* answer[w]: what lookup_count told w

disk   == <<entry, temporaries, generation>>
worker == <<pc, lockFile, locked, temporary, answer>>
vars   == <<disk, sequence, faults, worker>>

Names == {Pid[p] : p \in Processes} \X (0 .. MaxSequence)
NoName == <<Nothing, 0>>

Init ==
  /\ entry \in {Nothing, Broken}
  /\ temporaries = [n \in Names |-> Nothing]
  /\ generation = 0
  /\ sequence = [p \in Processes |-> 0]
  /\ faults = 0
  /\ pc = [w \in Workers |-> "start"]
  /\ lockFile = [w \in Workers |-> NotOpen]
  /\ locked = {}
  /\ temporary = [w \in Workers |-> NoName]
  /\ answer = [w \in Workers |-> NoAnswer]

Goto(w, l) == pc' = [pc EXCEPT ![w] = l]

Fault == faults < MaxFaults /\ faults' = faults + 1

-----------------------------------------------------------------------------
(* lookup_count *)

\* Mutant of IsValid: no integrity check.
IsValid_if_there(file) == file # Nothing

\* CountEntry::is_valid_for: a file that parses and passes its integrity check.
IsValid(file) == file = Whole

\* The entry is read and its count returned, or there is none of use.
Lookup(w) ==
  /\ pc[w] = "start"
  /\ IF IsValid(entry)
     THEN answer' = [answer EXCEPT ![w] = entry] /\ Goto(w, "done")
     ELSE answer' = [answer EXCEPT ![w] = Miss] /\ Goto(w, "open")
  /\ UNCHANGED <<disk, sequence, faults, lockFile, locked, temporary>>

\* The entry cannot be read.
LookupFails(w) ==
  /\ pc[w] = "start"
  /\ Fault
  /\ answer' = [answer EXCEPT ![w] = Miss]
  /\ Goto(w, "open")
  /\ UNCHANGED <<disk, sequence, lockFile, locked, temporary>>

-----------------------------------------------------------------------------
(* store_count, with_exclusive_lock *)

\* store_count returns, and the lock file it may have open is closed.
Return(w) ==
  /\ Goto(w, "done")
  /\ lockFile' = [lockFile EXCEPT ![w] = NotOpen]
  /\ locked' = locked \ {w}
  /\ temporary' = [temporary EXCEPT ![w] = NoName]
  /\ UNCHANGED answer

\* The lock file is opened, and created if it is not there.
OpenLock(w) ==
  /\ pc[w] = "open"
  /\ lockFile' = [lockFile EXCEPT ![w] = generation]
  /\ Goto(w, "lock")
  /\ UNCHANGED <<disk, sequence, faults, locked, temporary, answer>>

\* Mutant of Lock: a shared lock.
Lock_shared(w) ==
  /\ pc[w] = "lock"
  /\ locked' = locked \cup {w}
  /\ Goto(w, "check")
  /\ UNCHANGED <<disk, sequence, faults, lockFile, temporary, answer>>

\* lock_exclusive: nobody else has locked the same file.
Lock(w) ==
  /\ pc[w] = "lock"
  /\ \A v \in locked : lockFile[v] # lockFile[w]
  /\ locked' = locked \cup {w}
  /\ Goto(w, "check")
  /\ UNCHANGED <<disk, sequence, faults, lockFile, temporary, answer>>

\* The lock file cannot be opened or locked: the error is dropped.
LockFails(w) ==
  /\ pc[w] \in {"open", "lock"}
  /\ Fault
  /\ Return(w)
  /\ UNCHANGED <<disk, sequence>>

\* The key has its count already.
Keep(w) ==
  /\ pc[w] = "check"
  /\ IsValid(entry)
  /\ Return(w)
  /\ UNCHANGED <<disk, sequence, faults>>

\* There is no valid entry, or it cannot be read.
Check(w) ==
  /\ pc[w] = "check"
  /\ \/ ~IsValid(entry) /\ UNCHANGED faults
     \/ Fault
  /\ Goto(w, "create")
  /\ UNCHANGED <<disk, sequence, lockFile, locked, temporary, answer>>

-----------------------------------------------------------------------------
(* write_json_atomic *)

\* The next name of a temporary file in w's process.
NextName(w) == <<Pid[ProcessOf[w]], sequence[ProcessOf[w]]>>

\* TEMPORARY_FILE_SEQUENCE.fetch_add(1); the model stops at MaxSequence.
TakeName(w) ==
  /\ sequence[ProcessOf[w]] < MaxSequence
  /\ sequence' = [sequence EXCEPT ![ProcessOf[w]] = @ + 1]

\* Mutant of Create: the file is renamed before it is written.
Create_and_rename(w) ==
  /\ pc[w] = "create"
  /\ TakeName(w)
  /\ temporaries[NextName(w)] = Nothing
  /\ temporaries' = [temporaries EXCEPT ![NextName(w)] = w]
  /\ temporary' = [temporary EXCEPT ![w] = NextName(w)]
  /\ Goto(w, "rename")
  /\ UNCHANGED <<entry, generation, faults, lockFile, locked, answer>>

\* create_new creates the temporary file.
Create(w) ==
  /\ pc[w] = "create"
  /\ TakeName(w)
  /\ temporaries[NextName(w)] = Nothing
  /\ temporaries' = [temporaries EXCEPT ![NextName(w)] = w]
  /\ temporary' = [temporary EXCEPT ![w] = NextName(w)]
  /\ Goto(w, "write")
  /\ UNCHANGED <<entry, generation, faults, lockFile, locked, answer>>

\* create_new fails: the name is taken, or an I/O error.
CreateFails(w) ==
  /\ pc[w] = "create"
  /\ TakeName(w)
  /\ \/ temporaries[NextName(w)] # Nothing /\ UNCHANGED faults
     \/ Fault
  /\ Return(w)
  /\ UNCHANGED disk

\* The file that w writes, wherever it is by now, becomes content.
Becomes(w, content) ==
  /\ entry' = IF entry = w THEN content ELSE entry
  /\ temporaries' =
       [n \in Names |-> IF temporaries[n] = w THEN content ELSE temporaries[n]]

\* The entry is written and synced.
Write(w) ==
  /\ pc[w] = "write"
  /\ Becomes(w, Whole)
  /\ Goto(w, "rename")
  /\ UNCHANGED <<generation, sequence, faults, lockFile, locked, temporary, answer>>

\* Writing fails, which leaves the temporary file behind.
WriteFails(w) ==
  /\ pc[w] = "write"
  /\ Fault
  /\ Becomes(w, Broken)
  /\ Return(w)
  /\ UNCHANGED <<generation, sequence>>

\* A rename can only succeed while the temporary file is there.
IsThere(w) == temporaries[temporary[w]] # Nothing

\* Mutant of Rename: the entry is copied and the temporary file left.
Rename_by_copy(w) ==
  /\ pc[w] \in {"rename", "again"}
  /\ IsThere(w)
  /\ entry' = temporaries[temporary[w]]
  /\ Return(w)
  /\ UNCHANGED <<temporaries, generation, sequence, faults>>

\* The temporary file takes the place of the entry.
Rename(w) ==
  /\ pc[w] \in {"rename", "again"}
  /\ IsThere(w)
  /\ entry' = temporaries[temporary[w]]
  /\ temporaries' = [temporaries EXCEPT ![temporary[w]] = Nothing]
  /\ Return(w)
  /\ UNCHANGED <<generation, sequence, faults>>

\* A rename fails: the temporary file is gone, or the system refuses.
RenameFails(w) ==
  \/ ~IsThere(w) /\ UNCHANGED faults
  \/ Fault

\* The first rename fails over an entry, which is removed to try again.
RemoveEntry(w) ==
  /\ pc[w] = "rename"
  /\ entry # Nothing
  /\ RenameFails(w)
  /\ entry' = Nothing
  /\ Goto(w, "again")
  /\ UNCHANGED <<temporaries, generation, sequence, lockFile, locked, temporary, answer>>

\* The entry cannot be removed: the temporary file is left behind.
RemoveFails(w) ==
  /\ pc[w] = "rename"
  /\ entry # Nothing
  /\ Fault
  /\ Return(w)
  /\ UNCHANGED <<disk, sequence>>

\* Mutant of GiveUp: it renames until it succeeds.
GiveUp_never(w) ==
  /\ \/ pc[w] = "rename" /\ entry = Nothing
     \/ pc[w] = "again"
  /\ RenameFails(w)
  /\ Goto(w, "again")
  /\ UNCHANGED <<disk, sequence, lockFile, locked, temporary, answer>>

\* The last rename fails, and the temporary file is removed.
GiveUp(w) ==
  /\ \/ pc[w] = "rename" /\ entry = Nothing
     \/ pc[w] = "again"
  /\ RenameFails(w)
  /\ temporaries' = [temporaries EXCEPT ![temporary[w]] = Nothing]
  /\ Return(w)
  /\ UNCHANGED <<entry, generation, sequence>>

-----------------------------------------------------------------------------
(* The rest of the world *)

\* A process dies and another is started in its place, with the same pid.
Crash(p) ==
  LET dead == {w \in Workers : ProcessOf[w] = p}
      left(file) == IF file \in dead THEN Broken ELSE file
      reset(f, value) == [w \in Workers |-> IF w \in dead THEN value ELSE f[w]]
  IN  /\ Fault
      /\ \E w \in dead : pc[w] # "start"
      /\ entry' = left(entry)
      /\ temporaries' = [n \in Names |-> left(temporaries[n])]
      /\ sequence' = [sequence EXCEPT ![p] = 0]
      /\ pc' = reset(pc, "start")
      /\ lockFile' = reset(lockFile, NotOpen)
      /\ locked' = locked \ dead
      /\ temporary' = reset(temporary, NoName)
      /\ answer' = reset(answer, NoAnswer)
      /\ UNCHANGED generation

\* The entry is damaged.
Damage ==
  /\ entry # Nothing
  /\ Fault
  /\ entry' = Broken
  /\ UNCHANGED <<temporaries, generation, sequence, worker>>

\* The cache directory is removed under the workers' feet, lock file and all.
Evict ==
  /\ Fault
  /\ entry' = Nothing
  /\ temporaries' = [n \in Names |-> Nothing]
  /\ generation' = generation + 1
  /\ UNCHANGED <<sequence, worker>>

\* Every worker has its answer.
Finished == (\A w \in Workers : pc[w] = "done") /\ UNCHANGED vars

Step(w) ==
  \/ Lookup(w) \/ LookupFails(w)
  \/ OpenLock(w) \/ Lock(w) \/ LockFails(w) \/ Keep(w) \/ Check(w)
  \/ Create(w) \/ CreateFails(w) \/ Write(w) \/ WriteFails(w)
  \/ Rename(w) \/ RemoveEntry(w) \/ RemoveFails(w) \/ GiveUp(w)

Next ==
  \/ \E w \in Workers : Step(w)
  \/ \E p \in Processes : Crash(p)
  \/ Damage \/ Evict \/ Finished

Spec == Init /\ [][Next]_vars

\* Threads keep running.  No lock is fair: who waits for one gets it when nobody else
\* is left to take it first.
Fairness == \A w \in Workers : WF_vars(Step(w))

FairSpec == Spec /\ Fairness

-----------------------------------------------------------------------------
(* Properties *)

Contents == {Nothing, Broken, Whole} \cup Workers

\* The type invariant: what files may hold, and where workers may be.
TypeOK ==
  /\ entry \in Contents
  /\ temporaries \in [Names -> Contents]
  /\ generation \in Nat
  /\ sequence \in [Processes -> 0 .. MaxSequence]
  /\ faults \in 0 .. MaxFaults
  /\ pc \in [Workers -> {"start", "open", "lock", "check", "create", "write",
                         "rename", "again", "done"}]
  /\ lockFile \in [Workers -> Nat \cup {NotOpen}]
  /\ locked \subseteq Workers
  /\ temporary \in [Workers -> Names \cup {NoName}]
  /\ answer \in [Workers -> {NoAnswer, Miss, Whole}]

\* What the store promises its callers, with an entry file that is of no use
\* standing for no count.
Promise == INSTANCE CountMap WITH store <- IF entry = Whole THEN Whole ELSE Nothing

\* The files implement the promise: a caller is told a count only while a whole
\* entry holds it, and only a disturbed cache forgets (lookup_count, store_count,
\* "Cache corruption is a miss, never scan data").
KeepsPromise == Promise!MapSpec

\* Publication is atomic: the entry is never a file that somebody still writes,
\* unless the cache directory was removed meanwhile (write_json_atomic).
AtomicPublication == generation = 0 => entry \notin Workers

\* Only one worker at a time replaces the entry, whatever else fails, unless the
\* lock file itself was removed with the cache directory (with_exclusive_lock).
OneWriter ==
  generation = 0 =>
    \A v, w \in Workers :
      {pc[v], pc[w]} \subseteq {"create", "write", "rename", "again"} => v = w

\* Undisturbed publishers converge on one count and clean up after themselves:
\* when one has returned the count is there, and when all have, no temporary
\* file is (store_count, write_json_atomic).
Converges ==
  faults = 0 =>
    /\ (\E w \in Workers : pc[w] = "done") => entry = Whole
    /\ (\A w \in Workers : pc[w] = "done") => \A n \in Names : temporaries[n] = Nothing

\* Every worker gets done, though lock holders fail or die and files of dead
\* processes keep names taken (with_exclusive_lock).
StoresReturn == \A w \in Workers : pc[w] # "done" ~> pc[w] = "done"
=============================================================================
