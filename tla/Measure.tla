------------------------------- MODULE Measure -------------------------------
(***************************************************************************)
(* One path measured by several workers through the persistent cache:      *)
(* count_file_with_cache of tokm-core/src/file.rs and the metadata index   *)
(* of tokm-core/src/cache.rs.  A worker is a scan thread or another tokm   *)
(* process; all of them share the file system, the clock and the cache     *)
(* directory.  Other programs write the file while it is being measured.   *)
(*                                                                         *)
(* A file's content is a sequence of chunks, the unit of one read(2) call. *)
(* The content hash (BLAKE3) of some bytes is modelled by the bytes, the   *)
(* count of a text by the text and the counting options.  The count store  *)
(* is here a set of entries that appear and vanish atomically; module      *)
(* CountStore models it file by file and justifies that.                   *)
(***************************************************************************)
EXTENDS Integers, Sequences, FiniteSets

CONSTANTS
  Workers,      \* scan threads and processes measuring the path
  Options,      \* Options[w]: the ScanOptions of the call w makes
  Contents,     \* what other programs may leave in the file
  Inspected,    \* BINARY_INSPECTION_BYTES, in chunks
  Limit,        \* max_file_size, in chunks
  Window,       \* RACY_MTIME_WINDOW_NANOS, in clock ticks
  Granularity,  \* mtimes are multiples of this many clock ticks
  MaxLag,       \* ticks that may pass between a call's stat and its checkpoint
  Linked,       \* the path is a symbolic link to what it names
  MaxClock,     \* bound on the clock
  MaxWrites,    \* bound on what other programs do to the file
  MaxRepeats,   \* bound on further calls of a worker that is done
  MaxFaults,    \* bound on crashes, I/O errors and damaged entries
  Absent, Directory,  \* the path names nothing, or no regular file
  NoEntry, Damaged,   \* no index entry, or one that fails its integrity check
  Closed, Attached,   \* no open file, or one that the path still names
  Free, NoTokens      \* nobody holds the lock, nothing is counted

ASSUME SizesAssumption ==
  /\ Window \in Nat /\ MaxLag \in Nat /\ MaxClock \in Nat /\ MaxFaults \in Nat
  /\ MaxWrites \in Nat /\ MaxRepeats \in Nat
  /\ Limit \in Nat /\ Inspected \in Nat /\ Linked \in BOOLEAN
  /\ Granularity \in Nat \ {0}

ASSUME OptionsAssumption ==
  \A w \in Workers : /\ Options[w].cache \in BOOLEAN
                     /\ Options[w].follow_symlinks \in BOOLEAN
                     /\ Options[w].invalid_utf8 \in {"skip", "lossy"}

ASSUME ContentsAssumption ==
  /\ Contents \subseteq Seq(STRING)
  /\ Attached \notin Seq(STRING) /\ Closed \notin Seq(STRING)

ASSUME SentinelsAssumption ==
  /\ Free \notin Workers
  /\ Attached # Closed
  /\ {Absent, Directory} \cap [content : Seq(STRING), mtime : Nat] = {}

VARIABLES
  clock,        \* SystemTime::now()
  node,         \* what the path names: a file, Directory or Absent
  index,        \* the path's metadata entry: an entry, NoEntry or Damaged
  lock,         \* holder of the entry's lock file, or Free
  counts,       \* the count store
  faults,       \* faults that have happened
  writes,       \* changes that other programs have made to the file
  repeats,      \* calls begun by workers that had been done
  pc,           \* pc[w]: the step of its call w takes next
  snap,         \* snap[w]: the MetadataSnapshot of the first stat
  fd,           \* fd[w]: Closed, Attached to node, or an unlinked file
  buf,          \* buf[w]: the bytes read so far; their content hash
  tokens,       \* tokens[w]: the count of buf[w]
  checkpoint,   \* checkpoint[w]: the checkpoint_nanos of the entry w stores
  result,       \* result[w]: what w's call returns
  seen,         \* history: seen[w], the content at w's first stat
  statTime      \* history: statTime[w], the clock at w's first stat

environment == <<clock, node, writes, repeats>>
cache       == <<index, lock, counts, faults>>
stat        == <<snap, seen, statTime>>
worker      == <<pc, stat, fd, buf, tokens, checkpoint, result>>
vars        == <<environment, cache, worker>>

-----------------------------------------------------------------------------
(* Files, entries and measurements *)

\* The timestamp the file system gives a write made at time t.
Stamp(t) == t - (t % Granularity)

FileWith(content, t) == [content |-> content, mtime |-> Stamp(t)]

IsFile(n) == n \notin {Directory, Absent}

\* Cache::metadata_snapshot
metadata_snapshot(n) == [size |-> Len(n.content), modified |-> n.mtime]

\* max_file_size.admits
admits(size) == size <= Limit

IsIntact(e) == e \notin {NoEntry, Damaged}

\* Mutant of is_usable: without the racy window.
is_usable_at_once(e, s) ==
  IsIntact(e) /\ e.size = s.size /\ e.modified = s.modified

\* MetadataEntry::is_usable
is_usable(e, s) ==
  /\ IsIntact(e)
  /\ e.size = s.size
  /\ e.modified = s.modified
  /\ s.modified + Window < e.checkpoint

\* decode: the text of some bytes, or why they have none
Decode(bytes, invalid_utf8) ==
  LET has(chunk, prefix) == \E i \in DOMAIN bytes : i <= prefix /\ bytes[i] = chunk
      text(lossy) == [status |-> "text", lossy |-> lossy]
      skip(reason) == [status |-> "skipped", reason |-> reason]
  IN  IF has("bom", 1) THEN skip("unsupported_encoding")
      ELSE IF has("nul", Inspected) THEN skip("binary")
      ELSE IF ~has("bad", Len(bytes)) THEN text(FALSE)
      ELSE IF invalid_utf8 = "skip" THEN skip("invalid_utf8")
      ELSE text(TRUE)

\* count_text: the count is told apart by the text and the counting options
CountText(bytes, opts) == [text |-> bytes, count |-> opts.count]

\* Mutant of count_key: one count for every decoding policy.
count_key_of_any_policy(hash, opts) ==
  [hash |-> hash, count |-> opts.count, invalid_utf8 |-> "any"]

\* count_key: the key of a count in the store
count_key(hash, opts) ==
  [hash |-> hash, count |-> opts.count, invalid_utf8 |-> opts.invalid_utf8]

CountEntry(key, toks, lossy) ==
  [key |-> key, tokens |-> toks, decoded_lossily |-> lossy]

NoResult == [status |-> "none"]
skipped(reason) == [status |-> "skipped", reason |-> reason]
failed == [status |-> "error"]
\* A measurement, and as a history the bytes it is of: those the stat saw when
\* the cache answers, those that were read otherwise.
measured(of, bytes, toks, lossy) ==
  [status |-> "measured", of |-> of, bytes |-> bytes,
   tokens |-> toks, decoded_lossily |-> lossy]

-----------------------------------------------------------------------------
\* What a call knows before its stat, and forgets when it returns.
NoSnapshot == [size |-> 0, modified |-> 0]

InitialFiles == {FileWith(c, 0) : c \in Contents}

Init ==
  /\ clock = 0
  /\ node \in InitialFiles \cup {Directory, Absent}
  /\ index = NoEntry
  /\ lock = Free
  /\ counts = {}
  /\ faults = 0
  /\ writes = 0
  /\ repeats = 0
  /\ pc = [w \in Workers |-> "start"]
  /\ snap = [w \in Workers |-> NoSnapshot]
  /\ fd = [w \in Workers |-> Closed]
  /\ buf = [w \in Workers |-> << >>]
  /\ tokens = [w \in Workers |-> NoTokens]
  /\ checkpoint = [w \in Workers |-> 0]
  /\ result = [w \in Workers |-> NoResult]
  /\ seen = [w \in Workers |-> << >>]
  /\ statTime = [w \in Workers |-> 0]

\* w's call goes on at step l
Goto(w, l) == pc' = [pc EXCEPT ![w] = l]

\* w's call returns r; its locals go with it.
Return(w, r) ==
  /\ Goto(w, "done")
  /\ result' = [result EXCEPT ![w] = r]
  /\ snap' = [snap EXCEPT ![w] = NoSnapshot]
  /\ fd' = [fd EXCEPT ![w] = Closed]
  /\ buf' = [buf EXCEPT ![w] = << >>]
  /\ tokens' = [tokens EXCEPT ![w] = NoTokens]
  /\ checkpoint' = [checkpoint EXCEPT ![w] = 0]
  /\ seen' = [seen EXCEPT ![w] = << >>]
  /\ statTime' = [statTime EXCEPT ![w] = 0]

Fault == faults < MaxFaults /\ faults' = faults + 1

-----------------------------------------------------------------------------
(* The steps of count_file_with_cache *)

\* What symlink_metadata and, for a link that is followed, metadata show.
StatVerdict(w) ==
  IF Linked /\ ~Options[w].follow_symlinks THEN "symlink"
  ELSE IF node = Absent THEN "unreadable"
  ELSE IF node = Directory THEN "unsupported"
  ELSE IF ~admits(Len(node.content)) THEN "oversized"
  ELSE "measure"

\* The first stat finds nothing to measure, or fails.
StatSkips(w) ==
  /\ pc[w] = "start"
  /\ \/ StatVerdict(w) # "measure" /\ Return(w, skipped(StatVerdict(w))) /\ UNCHANGED faults
     \/ Fault /\ Return(w, skipped("unreadable"))
  /\ UNCHANGED <<environment, index, lock, counts>>

\* The first stat finds a regular file within the limit.
Stat(w) ==
  /\ pc[w] = "start"
  /\ StatVerdict(w) = "measure"
  /\ snap' = [snap EXCEPT ![w] = metadata_snapshot(node)]
  /\ seen' = [seen EXCEPT ![w] = node.content]
  /\ statTime' = [statTime EXCEPT ![w] = clock]
  /\ Goto(w, IF Options[w].cache THEN "index" ELSE "open")
  /\ UNCHANGED <<environment, cache, fd, buf, tokens, checkpoint, result>>

\* lookup_content_hash finds a usable entry, and its hash stands for the bytes.
IndexHit(w) ==
  /\ pc[w] = "index"
  /\ is_usable(index, snap[w])
  /\ buf' = [buf EXCEPT ![w] = index.hash]
  /\ Goto(w, "cached")
  /\ UNCHANGED <<environment, cache, stat, fd, tokens, checkpoint, result>>

\* lookup_content_hash finds nothing it may use, or cannot read the entry.
IndexMiss(w) ==
  /\ pc[w] = "index"
  /\ \/ ~is_usable(index, snap[w]) /\ UNCHANGED faults
     \/ Fault
  /\ Goto(w, "open")
  /\ UNCHANGED <<environment, index, lock, counts, stat, fd, buf, tokens, checkpoint, result>>

\* lookup_count finds the count of the indexed content: the call returns it
\* with the length that the stat reported.
FastPath(w) ==
  /\ pc[w] = "cached"
  /\ \E e \in counts :
       /\ e.key = count_key(buf[w], Options[w])
       /\ Return(w, measured(seen[w], snap[w].size, e.tokens, e.decoded_lossily))
  /\ UNCHANGED <<environment, cache>>

\* lookup_count misses, or cannot read the entry: the file is read after all.
FastPathMiss(w) ==
  /\ pc[w] = "cached"
  /\ \/ (\A e \in counts : e.key # count_key(buf[w], Options[w])) /\ UNCHANGED faults
     \/ Fault
  /\ Goto(w, "open")
  /\ buf' = [buf EXCEPT ![w] = << >>]
  /\ UNCHANGED <<environment, index, lock, counts, stat, fd, tokens, checkpoint, result>>

\* read_bounded opens the file.
Open(w) ==
  /\ pc[w] = "open"
  /\ IsFile(node)
  /\ fd' = [fd EXCEPT ![w] = Attached]
  /\ Goto(w, "read")
  /\ UNCHANGED <<environment, cache, stat, buf, tokens, checkpoint, result>>

\* read_bounded fails: nothing to open, or an I/O error.
ReadFails(w) ==
  /\ \/ pc[w] = "open" /\ ~IsFile(node) /\ UNCHANGED faults
     \/ pc[w] \in {"open", "read"} /\ Fault
  /\ Return(w, skipped("unreadable"))
  /\ UNCHANGED <<environment, index, lock, counts>>

\* The bytes that w's open file holds now.
OpenContent(w) == IF fd[w] = Attached THEN node.content ELSE fd[w]

\* The read is over: end of file, or one chunk past the limit.
AtEnd(w) == Len(buf[w]) > Limit \/ Len(buf[w]) >= Len(OpenContent(w))

\* read_bounded reads the next chunk.
ReadChunk(w) ==
  /\ pc[w] = "read"
  /\ ~AtEnd(w)
  /\ buf' = [buf EXCEPT ![w] = Append(@, OpenContent(w)[Len(@) + 1])]
  /\ UNCHANGED <<environment, cache, pc, stat, fd, tokens, checkpoint, result>>

\* read_bounded is done, and the bytes exceed the limit or have no text.
RejectBytes(w) ==
  /\ pc[w] = "read"
  /\ AtEnd(w)
  /\ LET decoded == Decode(buf[w], Options[w].invalid_utf8)
     IN  \/ ~admits(Len(buf[w])) /\ Return(w, skipped("oversized"))
         \/ /\ admits(Len(buf[w]))
            /\ decoded.status = "skipped"
            /\ Return(w, skipped(decoded.reason))
  /\ UNCHANGED <<environment, cache>>

\* Mutant of AcceptBytes: the limit is only checked by the stat.
AcceptBytes_of_any_size(w) ==
  /\ pc[w] = "read"
  /\ AtEnd(w)
  /\ Decode(buf[w], Options[w].invalid_utf8).status = "text"
  /\ fd' = [fd EXCEPT ![w] = Closed]
  /\ Goto(w, "count")
  /\ UNCHANGED <<environment, cache, stat, buf, tokens, checkpoint, result>>

\* read_bounded is done and the bytes decode to text.
AcceptBytes(w) ==
  /\ pc[w] = "read"
  /\ AtEnd(w)
  /\ admits(Len(buf[w]))
  /\ Decode(buf[w], Options[w].invalid_utf8).status = "text"
  /\ fd' = [fd EXCEPT ![w] = Closed]
  /\ Goto(w, "count")
  /\ UNCHANGED <<environment, cache, stat, buf, tokens, checkpoint, result>>

DecodedLossily(w) == Decode(buf[w], Options[w].invalid_utf8).lossy

\* The entries that lookup_count and its filter on decoded_lossily accept.
Cached(w) ==
  {e \in counts : /\ Options[w].cache
                  /\ e.key = count_key(buf[w], Options[w])
                  /\ e.decoded_lossily = DecodedLossily(w)}

\* lookup_count finds the count of the bytes.
CountFromCache(w) ==
  /\ pc[w] = "count"
  /\ \E e \in Cached(w) : tokens' = [tokens EXCEPT ![w] = e.tokens]
  /\ Goto(w, "counted")
  /\ UNCHANGED <<environment, cache, stat, fd, buf, checkpoint, result>>

\* lookup_count misses, or cannot read the entry: the tokenizer counts.
Count(w) ==
  /\ pc[w] = "count"
  /\ \/ Cached(w) = {} /\ UNCHANGED faults
     \/ Options[w].cache /\ Fault
  /\ tokens' = [tokens EXCEPT ![w] = CountText(buf[w], Options[w])]
  /\ Goto(w, "counted")
  /\ UNCHANGED <<environment, index, lock, counts, stat, fd, buf, checkpoint, result>>

\* The tokenizer reports an error, which the call returns.
CountFails(w) ==
  /\ pc[w] = "count"
  /\ Cached(w) = {}
  /\ Fault
  /\ Return(w, failed)
  /\ UNCHANGED <<environment, index, lock, counts>>

Measurement(w) ==
  measured(buf[w], Len(buf[w]), tokens[w], DecodedLossily(w))

\* Without a cache the count is the answer.
ReturnUncached(w) ==
  /\ pc[w] = "counted"
  /\ ~Options[w].cache
  /\ Return(w, Measurement(w))
  /\ UNCHANGED <<environment, cache>>

\* store_count publishes the count, unless the key has one already or an I/O
\* error keeps it from being published.
StoreCount(w) ==
  /\ pc[w] = "counted"
  /\ Options[w].cache
  /\ LET key == count_key(buf[w], Options[w])
     IN  \/ /\ IF \E e \in counts : e.key = key
               THEN UNCHANGED counts
               ELSE counts' = counts \cup
                      {CountEntry(key, tokens[w], DecodedLossily(w))}
            /\ UNCHANGED faults
         \/ Fault /\ UNCHANGED counts
  /\ Goto(w, "restat")
  /\ UNCHANGED <<environment, index, lock, stat, fd, buf, tokens, checkpoint, result>>

\* Mutant of Unchanged: no second look.
Unchanged_assumed(w) == TRUE

\* The path still has the snapshot of the first stat.
Unchanged(w) == IsFile(node) /\ metadata_snapshot(node) = snap[w]

\* The second stat agrees with the first.
Restat(w) ==
  /\ pc[w] = "restat"
  /\ Unchanged(w)
  /\ Goto(w, "checkpoint")
  /\ UNCHANGED <<environment, cache, stat, fd, buf, tokens, checkpoint, result>>

\* The second stat differs, or fails: the count is returned and not indexed.
RestatDiffers(w) ==
  /\ pc[w] = "restat"
  /\ \/ ~Unchanged(w) /\ UNCHANGED faults
     \/ Fault
  /\ Return(w, Measurement(w))
  /\ UNCHANGED <<environment, index, lock, counts>>

-----------------------------------------------------------------------------
(* Cache::store_content_hash *)

\* The checkpoint is the time at which the entry is built, before the lock.
TakeCheckpoint(w) ==
  /\ pc[w] = "checkpoint"
  /\ checkpoint' = [checkpoint EXCEPT ![w] = clock]
  /\ Goto(w, "lock")
  /\ UNCHANGED <<environment, cache, stat, fd, buf, tokens, result>>

\* with_exclusive_lock gets the lock.
AcquireLock(w) ==
  /\ pc[w] = "lock"
  /\ lock = Free
  /\ lock' = w
  /\ Goto(w, "compare")
  /\ UNCHANGED <<environment, index, counts, faults, stat, fd, buf, tokens,
                 checkpoint, result>>

\* The lock file cannot be opened or locked: the error is dropped.
LockFails(w) ==
  /\ pc[w] = "lock"
  /\ Fault
  /\ Return(w, Measurement(w))
  /\ UNCHANGED <<environment, index, lock, counts>>

\* Dropping the lock file releases the lock, and the call returns.
Release(w) ==
  /\ lock' = Free
  /\ Return(w, Measurement(w))

\* Mutant of IsNewer: the last one to publish wins.
IsNewer_never(e, w) == FALSE

\* current.is_intact() && current.checkpoint_nanos > checkpoint_nanos
IsNewer(e, w) == IsIntact(e) /\ e.checkpoint > checkpoint[w]

\* Mutant of KeepNewer: it tries again until its own entry is the newest.
KeepNewer_retries(w) ==
  /\ pc[w] = "compare"
  /\ IsNewer(index, w)
  /\ lock' = Free
  /\ Goto(w, "lock")
  /\ UNCHANGED <<environment, index, counts, faults, stat, fd, buf, tokens,
                 checkpoint, result>>

\* The current entry is newer and stays.
KeepNewer(w) ==
  /\ pc[w] = "compare"
  /\ IsNewer(index, w)
  /\ Release(w)
  /\ UNCHANGED <<environment, index, counts, faults>>

\* The current entry is older, absent, damaged or cannot be read, and will be
\* replaced.
Compare(w) ==
  /\ pc[w] = "compare"
  /\ \/ ~IsNewer(index, w) /\ UNCHANGED faults
     \/ Fault
  /\ Goto(w, "publish")
  /\ UNCHANGED <<environment, index, lock, counts, stat, fd, buf, tokens, checkpoint, result>>

\* Mutant of EntryOf: the window is subtracted on publication, and underflows.
EntryOf_safe_before(w) ==
  [size |-> snap[w].size, modified |-> snap[w].modified,
   checkpoint |-> checkpoint[w] - Window, hash |-> buf[w]]

\* MetadataEntry::new
EntryOf(w) ==
  [size |-> snap[w].size, modified |-> snap[w].modified,
   checkpoint |-> checkpoint[w], hash |-> buf[w]]

\* write_json_atomic renames the new entry into place.
Publish(w) ==
  /\ pc[w] \in {"publish", "republish"}
  /\ index' = EntryOf(w)
  /\ Release(w)
  /\ UNCHANGED <<environment, counts, faults>>

\* Writing the temporary file fails, or the rename does while nothing is there.
PublishFails(w) ==
  /\ pc[w] \in {"publish", "republish"}
  /\ Fault
  /\ Release(w)
  /\ UNCHANGED <<environment, index, counts>>

\* The rename fails over an existing entry, which is removed for a second try.
RemoveCurrent(w) ==
  /\ pc[w] = "publish"
  /\ index # NoEntry
  /\ Fault
  /\ index' = NoEntry
  /\ Goto(w, "republish")
  /\ UNCHANGED <<environment, lock, counts, stat, fd, buf, tokens, checkpoint, result>>

\* The caller takes the result; the worker may be given the path again.
Again(w) ==
  /\ pc[w] = "done"
  /\ Goto(w, "start")
  /\ repeats < MaxRepeats /\ repeats' = repeats + 1
  /\ result' = [result EXCEPT ![w] = NoResult]
  /\ UNCHANGED <<clock, node, writes, cache, stat, fd, buf, tokens, checkpoint>>

\* w's process dies, which closes its files and releases its lock.
Crash(w) ==
  /\ pc[w] \notin {"start", "done"}
  /\ Fault
  /\ lock' = IF lock = w THEN Free ELSE lock
  /\ Return(w, failed)
  /\ UNCHANGED <<environment, index, counts>>

-----------------------------------------------------------------------------
(* The rest of the world *)

\* A call has done its first stat and not yet taken its checkpoint.
Unstamped == {"index", "cached", "open", "read", "count", "counted", "restat",
              "checkpoint"}

\* Time passes, but never more than MaxLag between a stat and its checkpoint.
Tick ==
  /\ clock < MaxClock
  /\ \A w \in Workers : pc[w] \in Unstamped => clock < statTime[w] + MaxLag
  /\ clock' = clock + 1
  /\ UNCHANGED <<node, writes, repeats, cache, worker>>

\* Another program changes what the path names to n.
Change(n) ==
  /\ writes < MaxWrites /\ writes' = writes + 1
  /\ node' = n
  /\ UNCHANGED <<clock, repeats, cache>>

\* Another program writes the file in place.
Overwrite ==
  /\ IsFile(node)
  /\ \E c \in Contents \ {node.content} : Change(FileWith(c, clock))
  /\ UNCHANGED worker

\* A reader keeps the file it opened when the path loses it.
Unlink ==
  /\ UNCHANGED <<pc, stat, buf, tokens, checkpoint, result>>
  /\ fd' = [w \in Workers |-> IF fd[w] = Attached THEN node.content ELSE fd[w]]

\* Another program puts a new file in the path's place.
Replace ==
  /\ node # Directory
  /\ \E c \in Contents : Change(FileWith(c, clock))
  /\ Unlink

\* Another program removes the file.
Remove ==
  /\ IsFile(node)
  /\ Change(Absent)
  /\ Unlink

\* The index entry is damaged, or evicted with the cache directory.
DamageIndex ==
  /\ IsIntact(index)
  /\ Fault
  /\ index' \in {Damaged, NoEntry}
  /\ UNCHANGED <<environment, lock, counts, worker>>

\* A count entry is damaged or evicted: lookup_count no longer finds it.
LoseCount ==
  /\ Fault
  /\ \E e \in counts : counts' = counts \ {e}
  /\ UNCHANGED <<environment, index, lock, worker>>

-----------------------------------------------------------------------------
Looking(w) == StatSkips(w) \/ Stat(w) \/ IndexHit(w) \/ IndexMiss(w)
              \/ FastPath(w) \/ FastPathMiss(w)
Reading(w) == Open(w) \/ ReadFails(w) \/ ReadChunk(w) \/ RejectBytes(w) \/ AcceptBytes(w)
Counting(w) == CountFromCache(w) \/ Count(w) \/ CountFails(w) \/ ReturnUncached(w) \/ StoreCount(w)
               \/ Restat(w) \/ RestatDiffers(w)
Publishing(w) == TakeCheckpoint(w) \/ AcquireLock(w) \/ LockFails(w) \/ KeepNewer(w)
                 \/ Compare(w) \/ Publish(w) \/ PublishFails(w) \/ RemoveCurrent(w)

Step(w) == Looking(w) \/ Reading(w) \/ Counting(w) \/ Publishing(w)

World == Tick \/ Overwrite \/ Replace \/ Remove \/ DamageIndex \/ LoseCount

\* Every call has returned: all may stop here.
Finished == (\A w \in Workers : pc[w] = "done") /\ UNCHANGED vars

Next == (\E w \in Workers : Step(w) \/ Again(w) \/ Crash(w)) \/ World \/ Finished

Spec == Init /\ [][Next]_vars

\* Threads and processes keep running.  No lock is fair: who waits for one gets it when
\* nobody else is left to take it first.  Faults and the rest of the world are under
\* no obligation.
Fairness == \A w \in Workers : WF_vars(Step(w))

FairSpec == Spec /\ Fairness

-----------------------------------------------------------------------------
(* Properties *)

Steps == Unstamped \cup {"start", "lock", "compare", "publish", "republish", "done"}

Snapshots == [size : Nat, modified : Nat]
Files     == [content : Seq(STRING), mtime : Nat]
Entries   == [size : Nat, modified : Nat, checkpoint : Nat, hash : Seq(STRING)]

\* The type invariant: the values each variable of a measurement may take.
TypeOK ==
  /\ clock \in Nat
  /\ node \in Files \cup {Absent, Directory}
  /\ index \in Entries \cup {NoEntry, Damaged}
  /\ lock \in Workers \cup {Free}
  /\ faults \in 0 .. MaxFaults /\ writes \in 0 .. MaxWrites /\ repeats \in 0 .. MaxRepeats
  /\ pc \in [Workers -> Steps]
  /\ snap \in [Workers -> Snapshots]
  /\ fd \in [Workers -> Seq(STRING) \cup {Closed, Attached}]
  /\ buf \in [Workers -> Seq(STRING)]
  /\ checkpoint \in [Workers -> Nat]
  /\ seen \in [Workers -> Seq(STRING)]
  /\ statTime \in [Workers -> Nat]

\* The index never lies about the file as it is now: whenever its entry would
\* be used for the file's present size and mtime, its hash is that of the
\* file's present content (MetadataEntry::is_usable, "potentially racy metadata
\* is rehashed"), whoever wrote the file and whoever published the entry.
IndexFresh ==
  IsFile(node) /\ is_usable(index, metadata_snapshot(node))
    => index.hash = node.content

\* A measurement is what measuring the same bytes without a cache gives: the
\* count of that text under the call's own tokenizer and decoding policy, and
\* its length, whichever worker with whichever options filled the cache
\* (count_file_with_cache, count_key).
CacheTransparent ==
  \A w \in Workers : result[w].status = "measured" =>
    LET decoded == Decode(result[w].of, Options[w].invalid_utf8)
    IN  /\ decoded.status = "text"
        /\ result[w].decoded_lossily = decoded.lossy
        /\ result[w].tokens = CountText(result[w].of, Options[w])
        /\ result[w].bytes = Len(result[w].of)

\* No measurement is of more than max_file_size, however the file grows between
\* its stat and its last read (MaxFileSize::admits, read_bounded).
WithinLimit ==
  \A w \in Workers : result[w].status = "measured" => result[w].bytes <= Limit

\* A worker that publishes late never takes the index back to an older
\* checkpoint: as long as no read of the cache has failed, an intact entry is
\* only replaced by one at least as new (store_content_hash compares under the
\* entry's lock).
CheckpointAdvances ==
  [][IsIntact(index) /\ IsIntact(index') /\ faults = 0
       => index.checkpoint <= index'.checkpoint]_<<index, faults>>

\* Every call comes back, whatever the other workers, the faults and the file's
\* writers do: nobody waits for ever for a lock or an end of file.
CallsReturn == \A w \in Workers : pc[w] # "done" ~> pc[w] = "done"

=============================================================================
