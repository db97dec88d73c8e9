# A verification of tokm in TLA+

tokm counts the tokens of files, directory trees, standard input and Git snapshots. This
directory holds TLA+ models of the parts of it that are hard to test: the persistent cache
under concurrent workers and writers, the parallel scan, Git comparisons, the reports, the way of
bytes to a count, and what a command or a call from Python comes to. TLC checks the models on
small instances; TLAPS proves what is most important about the cache, the scan, the Git diff, the
command line and the call from Python for every value of the constants.

Source paths below are relative to `crates/tokm-core/src` unless they start with `tokm-cli` or
`tokm-python`.

## The system

| Part | State it keeps | Operations | What makes it correct |
| --- | --- | --- | --- |
| Measuring a file, `file.rs` | locals of one call: first stat, open file, bytes, count | `count_file_with_cache`: stat, index, fast path, bounded read, decode, count, store, second stat, publish | a measurement is what the bytes give without a cache; never more than `max_file_size`; every call returns |
| Metadata index, `cache.rs` | per path: size, mtime, checkpoint, content hash | `lookup_content_hash`, `store_content_hash` | an entry that counts as usable is of the file's present content; newer entries are not overwritten by older ones |
| Count store, `cache.rs` | per key: entry file, lock file, temporary files | `lookup_count`, `store_count`, `with_exclusive_lock`, `write_json_atomic` | publication is atomic under crashes, failed renames and concurrent processes; damage is a miss |
| Discovery, `walk.rs` | map from path identity to the path shown, list of skips | `discover`, `discover_directory`, `insert_path`, `Filters` | overlapping inputs yield each file once, under the first path that leads to it |
| Scan, `scan.rs` | discovery, outcomes by index | `scan` on a rayon pool | the answer is one that somebody who works alone and in order could give; the first failing path is the error |
| Aggregation, `aggregate.rs` | none | `aggregate`, `aggregate_directories` | nothing is lost or counted twice; sums that do not fit fail |
| Comparison, `diff.rs` | running sums, by language | `compare_snapshots` | changes add up to the difference of the totals; sums never wrap |
| Git, `git/tree.rs`, `git/diff.rs` | none | `scan_tree`, `diff_trees`, `diff_worktree` | what nobody changed is not reported; Git's metadata is no part of a diff; no comparison of a partial snapshot |
| Bytes to a count, `decode.rs`, `text_policy.rs`, `count.rs`, `tokenizer/` | the loaded artifact and its fingerprint | `decode`, `apply`, `count_text`, `count_bytes`, `from_file` | what is counted is what the bytes say under the policies; equal identities count alike |
| Command line, `tokm-cli` | one run: arguments, tokenizer, measurement, what is written | `main`, `execute`, `stdin_result`, `parse_price` ... | exit codes mean what README.md says; the figures shown are exact |
| Reports, `tokm-cli/src/output.rs` | none | `write_report`, one writer per view, JSON | every view and JSON show one measurement, whole and in order |
| Python, `tokm-python/src/lib.rs` | one call | `count`, `count_file`, `scan` | exceptions accuse what is at fault; nothing is lost in conversion |
| Classification, `classify.rs` | none | `classify` | a constant here |
| Benches, tests, workflows | none | | not modelled |

Interactions. The command line loads a tokenizer, calls `scan`, `count_bytes`, `diff_trees` or
`diff_worktree` once and reports the result; Python calls `scan`, `count_file` or `count_text`.
`scan` discovers paths sequentially, then `count_file_with_cache` runs for each path on a worker;
workers share nothing in memory but the atomic sequence number of temporary files. They meet in the
file system: cache entries and lock files are shared by workers and by other tokm processes, and the
files that are measured may be written by anybody. `diff_worktree` scans a Git tree and the worktree
one after the other.

What is hard: files that change between a call's steps; mtimes coarser than the clock; entries
published late; crashes and failing renames between two steps of a publication; the removal of
the cache directory under running workers; the order of parallel failures; overlapping inputs;
objects missing from a Git tree; an artifact replaced while it is loaded; figures at their
boundaries; many views of one result; writes that fail after the work is done. `PROJECT.json`
lists each hazard at its line with the properties that are aimed at it.

## The modules

| Module | Models | Checked with |
| --- | --- | --- |
| `Measure` | `count_file_with_cache`, the metadata index, writers of the file | `MCMeasure`, four runs; proofs in `MeasureProofs` |
| `CountMap` | abstract: what the count store promises | property of `MCCountStore` |
| `CountStore` | one key of the count store, system call by system call | `MCCountStore`; proofs in `CountStoreProofs` |
| `Iterators` | what `sort_by`, `filter`, `sum` and an ordered map do | used by `Paths`, `Report`, `Figures` |
| `Paths` | paths, `Path::clean`, globs, `Filters` | used by `Scan`, `GitDiff` |
| `Aggregation` | `aggregate`, `aggregate_directories` as operators | used by `Scan`, `GitDiff` |
| `DirectoryTree` | the tree of `--tree` as an operator | used by `Report` |
| `Figures` | percentages, context windows, costs, prices and file sizes as written, as operators | used by `Report`, `Counting` |
| `Report` | tables, JSON and skip lines of a scan and of a diff, as operators | used by `Scan`, `GitDiff` |
| `FileSystem` | what a walk comes to, and the outcome of the file at a path | used by `Scan`, `SequentialScan` |
| `SequentialScan` | abstract: what a scan promises | property of `MCBindings` |
| `Scan` | `scan` with `discover` and the worker pool | `MCScan`, two runs; `MCBindings`; proofs in `ScanProofs` |
| `Bindings` | `scan` and `count_file` of Python over `Scan` | `MCBindings`; proofs in `ScanProofs` |
| `TokenDiff` | `compare_snapshots` | used by `GitDiff` |
| `GitDiff` | `diff_trees`, `diff_worktree` over `TokenDiff` | `MCGitDiff`, two runs; proofs in `GitDiffProofs` |
| `Text` | `decode` and the text policies over bytes, as operators | used by `Counting` |
| `Tokenizers` | encodings, models, selectors, artifacts and identities | used by `Counting`, `Bindings` |
| `Counting` | `count_text` and `count_bytes` | used by `Cli` |
| `Cli` | `main` and `execute` from arguments to exit code | `MCCli`, two runs; proofs in `CliProofs` |

`SequenceProofs` and `PathProofs` hold the lemmas that the proofs of `Scan` and `GitDiff` share:
about sequences, sums and orders, and about paths and what `Aggregate` makes of files. `TextProofs`
holds those about bytes, characters, line ends and written sizes that the proofs of `Cli` use.

### Measure

One path, several workers. A worker is a rayon thread or another process; `pc[w]` walks through
`count_file_with_cache`: `Stat`, `IndexHit`/`IndexMiss`, `FastPath`, `Open`, `ReadChunk` until
the end of file or the limit, `RejectBytes`/`AcceptBytes` (`decode`), `CountFromCache`/`Count`,
`StoreCount`, `Restat`, `TakeCheckpoint`, `AcquireLock`, `KeepNewer`/`Compare`, `Publish` with
the fallback `RemoveCurrent`. Every call into the cache that may fail has its failing action.
A file is a sequence of chunks, the unit of one `read(2)`: a writer between two reads leaves a
torn buffer. `fd[w]` is `Attached` to the path, or holds the unlinked content after the path was
replaced. A content hash is modelled by the content and a count by text and options, so a hit
on the wrong key is visible. The clock ticks independently; an mtime is the clock rounded down
to `Granularity`. `MaxLag` bounds what may pass between a call's stat and its checkpoint: it is
the assumption under which `IndexFresh` holds, and `measure_slow` shows it is needed.

The environment assumption: whoever writes the file gives it the present time. With preserved
mtimes (`cp -p`, `touch -r`) no index of size and mtime can be fresh.

### CountStore and CountMap

`CountStore` follows one key through `lookup_count`, `store_count`, `with_exclusive_lock` and
`write_json_atomic`: open lock, lock, look again, create temporary, write, rename; or, where
rename does not replace, remove and rename again. Temporary names are made of process id and
sequence number as in the code, and two processes may see the same id. Disturbances: an I/O
error at each call, the death of a process, a damaged entry, the removal of the directory (which
starts a new `generation` of the lock file). `CountMap` is the promise to callers: the store
holds the count or nothing, a caller is told a count only while it is there, and only a
disturbed cache forgets. `KeepsPromise` is the refinement, with a useless entry file standing
for no count. `Measure` uses the store as such a map, with lookups that may miss.

### Scan, FileSystem, Paths, Aggregation

`Discover` handles one input per step as `discover` does, `DiscoverDirectory` walks one
directory input; both use `Insert` (`insert_path`), which keys on the cleaned absolute path and
keeps the first path shown. `Read` lets any idle worker take any path, `Deliver` puts the outcome
at its index, `Conclude` folds the outcomes in order as the loop over `outcome?` does. `Change`
changes a path at any time. Names are numbers, so that the order of paths is the order of
numbers; the separator, `.`, `..` and hidden names have numbers of their own. Globs are an exact
path, everything below a directory, a name at the end, or malformed. `FileSystem` has the kinds of
files, what `ignore::Walk` yields of them and what `count_file_with_cache` makes of each, without
a cache. `Aggregate` and `AggregateDirectories` are those of `aggregate.rs`.

`SequentialScan` is the promise: look at the inputs in order, then read each file once, in the
order of the files, and add up. It has no workers, no partial discovery and no indices; its one
step goes from the request to the answer, where each look falls at some moment between the call
and the return, since the file system may change. To say so, `Scan` keeps the `history` of file
systems, which no step of the scan reads. `Sequentially` is the refinement.

### Report, DirectoryTree, Figures

Operators from a result and arguments to what is shown: `ScanReport` and `DiffReport` choose
between JSON, silence and a table as `write_report` does; a table is its rows in order, its last
line and its skips. `TreeLines` draws the list of `AggregateDirectories` as
`write_directory_tree` does. Numbers are as in the source (largest remainders, half-up rounding,
decimal places). The properties about them are stated of the results that `Scan` and `GitDiff`
reach.

### Bindings

`Prepare` looks at the arguments of a call in the order of `scan`, `scan_options` and
`count_options`; `Run` is a step of `Scan`; `Respond` converts its result or sorts its error;
`CountFile` reads one path.

### GitDiff, TokenDiff

`ScanBase` and `ScanHead` take the two snapshots or `ScanFails` on the way: no repository, no
worktree, a revision without a tree, a malformed glob, a subtree or blob that cannot be read,
text that cannot be counted. `Edit` changes the worktree between them, and `ComparePath` handles
one path per step of `compare_snapshots`. Snapshots of different semantics are refused. Sums are
of bounded width, so that wrapping would show.

### Cli, Counting, Text, Tokenizers

One action per step of `main` and `execute`, and one for each way a step fails: conflicting
arguments, arguments that `execute` refuses, a tokenizer that does not load, a failing
measurement, a reader that went away, a write that fails. `eprintln!` panics when stderr cannot
be written (exit code 101). `ReadArtifact` and `BuildCounter` are two steps, between which
`ReplaceArtifact` may put another tokenizer in place. Standard input is a sequence of bytes, which
`ReadBounded` cuts and `CountBytes` decodes, normalises and counts; the property compares the
outcome with what the whole input is by definition, not with these operators.

## The runs

| Run | Shows | Bounds |
| --- | --- | --- |
| `measure_racy` | `TypeOK`, `IndexFresh`, `CacheTransparent`, `CheckpointAdvances` while another program rewrites, replaces and removes the file | 2 workers, files of 2 chunks and of equal size, clock 0..4, `Window` 2, `Granularity` 2, `MaxLag` 1, 2 writes |
| `measure_options` | `CacheTransparent` across tokenizers, decoding policies, links and `--no-cache` | 5 calls with different options, one file, no writes |
| `measure_faults` | `WithinLimit`, `CallsReturn` with a fault at any step | 2 workers with one further call each, 1 fault, 1 write, limit 1 chunk |
| `measure_slow` | violation: an entry published too late makes the index lie | as `measure_racy`, `MaxLag` 4 |
| `count_store` | `TypeOK`, `AtomicPublication`, `OneWriter`, `Converges`, `KeepsPromise`, `StoresReturn` | 3 threads in 2 processes of the same id, 2 faults |
| `scan` | `TypeOK`, `Isolated`, `Conserved`, `FirstFailure`, `RollUp`, `TreeAddsUp`, `Sequentially`, `ViewsAgree`, `DensitiesNearest`, `DefectsTyped`, `AnswersAgree` | calls from Python, 10 of them faulty; 2 workers, 14 file systems of 8 nodes, any of 8 inputs or 24 pairs of them, 5 sets of options, 1 change, sums up to 5 |
| `scan_skips` | violation: an unreadable directory is skipped once per overlapping input | one request, five sets of options |
| `directories` | violation: `--dirs` omits files beneath `.` when a file and a directory are given | two requests |
| `git_diff` | `TypeOK`, `AddsUp`, `NeverWraps`, `QuietWhenUnchanged`, `NoMetadata`, `WholeSnapshots`, `DiffReportComplete` | trees of up to 3 files, 8 damaged ones, repositories with and without worktree, 6 spellings of the repository, 4 sets of options, 1 edit, sums up to 4 |
| `git_diff_filters` | violation: globs see other paths in the worktree than in the tree | the repository beneath the current directory |
| `cli` | `TypeOK`, `ExitCodes`, `StdinToTheByte`, `StdinCounted`, `IdentityTellsTokens`, `RangesUnambiguous`, `SharesAddUp`, `ContextAddsUp`, `PricesExact` | up to 3 languages of 0, 1, 2 or 5 tokens, windows up to 7, prices of up to 4 characters with 2 decimals, limits with every unit (a K is 9 bytes, the greatest number 1000, so that G does not fit), short inputs of every content and inputs around the limit, 2 bytes inspected for binary content, artifacts replaced once |
| `cli_pipe` | violation: a closed pipe hides an exceeded budget | as `cli` |

Why the bounds are enough. `measure_racy` has a window, a granularity and a lag for which the
proof's condition is tight (`MaxLag + Granularity = Window + 1`), and the two writes it takes to
change a file and change it back or tear a read. In `count_store` three threads give a holder, a
waiter and a reader, and two faults give the combinations that matter: a failed rename and a crash,
a damaged entry and a removed directory, or a death that leaves a name taken. `scan` has every pair
of the inputs that lead to the same files (a directory, one in it, the same one as an absolute path,
a file), some pairs that need a look of their own (one spelled with `..`, one outside of the current
directory, the root above all, one that is missing), and one path of every kind. `git_diff` and
`cli` enumerate their inputs and have short behaviours; sums of `git_diff` overflow at 5, those of
`scan` at 6, which both tokens and bytes reach. A small file has more bytes than tokens, a large one
less, and what the link leads to has no tokens at all (a lone mark), so that no field can pass for
another.

The runs of `MCScan` and `MCBindings` take the two workers for symmetric: they differ in nothing
but their names, and the properties are of states and steps. No other run uses symmetry.
Deadlock is checked in all of them: a system that is done stutters in an action of its own
(`Finished`, `Answered`, `Exited`), so any other end is an error. That is also the only liveness
checked of `Scan`: its steps are finitely many, and none can be stuck.

Fairness (`FairSpec` of `Measure` and `CountStore`) is weak fairness of each worker: threads and
processes keep running. Locks are not assumed fair: a waiting worker gets the lock when those
before it are done, and they are finitely many. Faults, writers and the clock are under no
obligation.

## Disagreements found

* `measure_slow`, `cache.rs:114`: the checkpoint is taken at publication, after the read and the
  count. A call that takes longer than the racy window can publish an entry that a write of the
  same mtime and size made stale. Taking the time before the first stat would close it.
* `directories`, `aggregate.rs:118`: with a file and a directory as inputs, `.` holds only the
  former's neighbours. The property also fails for the directories `.` and `../x`: every
  relative path is taken to be within `.` (`is_within`, line 172), so `.` counts the files of
  `../x` too. `RollUp` and `TreeAddsUp` therefore speak of inputs that are all absolute or all
  below the current directory, and that have been directories since the scan began: an input
  that is a file when it is discovered and a directory afterwards is a root of its own, too.
* `scan_skips`, `walk.rs:95`: files are deduplicated across inputs, walk errors are not.
* `git_diff_filters`, `git/diff.rs:51`: `--include` and `--exclude` are matched against paths
  from the current directory in the worktree and from the repository's root in the tree.
* `cli_pipe`, `tokm-cli/src/main.rs:32`: BrokenPipe ends the command with 0 before
  `--max-tokens` is looked at.

Seen while modelling and not shown by a run: when stderr cannot be written, an error's exit code
is 101 (`Complain` in `Cli`); selectors of tokenizers given before and after `diff` may reach
`unreachable!` (`args.rs:222`), which depends on clap. A tracked file that ignore rules name is
in a tree and not in the scan of the worktree, so it shows as removed although nobody touched it
(`QuietWhenUnchanged` leaves it out). An empty file that appears or disappears changes the totals
of a diff's snapshots and is not among its files (`Same` in `TokenDiff`). A path that is not there
fails `scan` and is a skip for `count_file` (`AgreesWithScan`). `threads=0` is noticed only after
the tokenizer was loaded, so the other error wins (`Checks`). What a language of no tokens has of
bytes counts in the last line's bytes per token, which may exceed that of every language.

The proofs of the Git diff showed more. A worktree that lies within the metadata of another
repository (a path with `.git` in it) is excluded as if it were metadata, so all its files show as
removed without any filter (`SameView` asks for more where there are no globs). From within
`.git`, or where the filters see the metadata under neither excluded path, its files are measured
(`MetadataSeen`). `relative_path` strips the worktree's directory from cleaned paths, which
succeeds because Git gives a clean one (`GitDiffAssumption`). And a skip is owed only for what a
walk comes to: a looping link given as an input is a file that cannot be read, and the filters may
exclude it (`IsWalked` in `Conserved`).

## What is proved

Each theorem is about the specification that the runs check, with any values of its constants
that satisfy the module's `ASSUME`s, and states the property that the run checks on an instance.

| Theorem | Statement | Rests on |
| --- | --- | --- |
| `TypeCorrect` | `Spec => []TypeOK` (`Measure`) | `TypeInv` |
| `PromptIndexFresh` | `Prompt => (Spec => []IndexFresh)` | `TypeInv`, `Clocks`, `Agreement`, `IndexAgrees` |
| `LimitHolds` | `Spec => []WithinLimit` | `TypeInv`, `Bounded` |
| `CheckpointsAdvance` | `Spec => CheckpointAdvances` | `TypeInv`, `Ordered` |
| `PromptTransparent` | `Prompt => (Spec => []CacheTransparent)` | that of `PromptIndexFresh`, `HistoriesAgree`, `Sound` |
| `StoreTypeCorrect` | `Spec => []TypeOK` (`CountStore`) | `TypeInv` |
| `OnlyOneWriter` | `Spec => []OneWriter` | `TypeInv`, `LockHeld` |
| `PublicationAtomic` | `Spec => []AtomicPublication` | and `FilesOwned` |
| `PublishersConverge` | `Spec => []Converges` | and `Undisturbed` |
| `StoreKeepsPromise` | `Spec => KeepsPromise`: `CountStore` implements `CountMap` | `TypeInv`, `LockHeld`, `FilesOwned`, `Undisturbed` |
| `ScanTypeCorrect` | `Spec => []TypeOK` (`Scan`) | `Inv`: `TypeInv`, `Looked`, `Counted` |
| `ScanIsSequential` | `Spec => Sequentially` | `Inv` |
| `ScanRefinesSequential` | `Spec => Sequential!Spec`: `Scan` implements `SequentialScan` | `Inv` |
| `FirstFailureReturned` | `Spec => []FirstFailure` | `Inv`, `ResultInv` |
| `FilesIsolated` | `Spec => []Isolated` | `Inv`, `ResultInv` |
| `ReportAddsUp` | `Spec => []Conserved` | `Inv`, `ResultInv`, `AggregateIs` |
| `DirectoriesRollUp` | `Spec => []RollUp` | `Inv`, `ResultInv`, `AncestorsAre`, `DirectoriesAre` |
| `DensitiesRounded` | `Spec => []DensitiesNearest` | `Inv`, `ResultInv`, `NearestIs`, `RatioBetween` |
| `ViewsShowTheSame` | `Spec => []ViewsAgree` | `Inv`, `ResultInv`, `SortOrderIs`, `SharesAre` |
| `ExceptionsAccuse` | `BindingsSpec => []DefectsTyped` | `Inv`, `ResultInv`, `ErrorInv`, `CallInv` |
| `AnswersFaithful` | `BindingsSpec => []AnswersAgree` | `Inv`, `ResultInv`, `ErrorInv`, `FirstTree`, `AnswerInv` |
| `DiffTypeCorrect` | `Spec => []TypeOK` (`GitDiff`) | `Inv` |
| `MetadataIsLeftOut` | `Spec => []NoMetadata` | `Inv` |
| `NothingIsMissing` | `Spec => []WholeSnapshots` | `Inv` |
| `SilentWhenUnchanged` | `Spec => []QuietWhenUnchanged` | `Inv` |
| `SumsNeverWrap` | `Spec => []NeverWraps` | `Inv`, `Told` |
| `DifferenceAddsUp` | `Spec => []AddsUp` | `Inv`, `Told` |
| `ReportTellsAll` | `Spec => []DiffReportComplete` | `Inv`, `Listed` |
| `CliTypeCorrect` | `Spec => []TypeOK` (`Cli`) | `Inv`: `TypeInv`, `Loading`, `Accepted`, `Measuring`, `Ended` |
| `CliExitCodes` | `Spec => []ExitCodes` | `Inv` |
| `CliIdentityTellsTokens` | `Spec => []IdentityTellsTokens` | `Inv` |
| `CliStdinToTheByte` | `Spec => []StdinToTheByte` | `Inv`, `LimitReads` |
| `CliStdinCounted` | `Spec => []StdinCounted` | `Inv`, `CountBytesIs` |
| `CliContextAddsUp` | `Spec => []ContextAddsUp` | `Inv`, `RoundsToNearest` |
| `CliRangesUnambiguous` | `Spec => []RangesUnambiguous` | `Inv`, `RangesAre` |
| `CliSharesAddUp` | `Spec => []SharesAddUp` | `Inv`, `SharesAre` |
| `InOrderLists` | `InOrder` lists a finite set of paths once each, in strict order | `Less` is a strict total order |

with `Prompt == MaxLag + Granularity =< Window + 1`.

### The index (`MeasureProofs`)

`IndexFresh` is not inductive: that an entry is right when it is published rests on what its
publisher knew since its stat. The invariant is a conjunction of

* `TypeInv`: `TypeOK`, and that a reader has a file open;
* `Clocks`: nothing is stamped with a time to come, and no call is more than `MaxLag` behind;
* `Agreement`: a call is `Settled` when no later write can have the mtime it saw. While the path
  still has that mtime, a settled call's file is the path's, what it has read is a prefix of
  what it saw, and from the second stat on all of it;
* `IndexAgrees`: an entry past the window has the hash of the file of that mtime.

A write keeps it because it is stamped at most `Granularity - 1` ticks back, so not with the
mtime a settled call or a trusted entry has seen. A publication keeps it because an entry past
the window has `modified + Window < checkpoint`, and `checkpoint =< statTime + MaxLag`; with
`Prompt` this makes the publisher settled. Without `Prompt` that step fails, as `measure_slow`
shows.

`Bounded` says that the size a call has seen is within the limit once the first check passed,
and that its buffer is once `read_bounded` returned; a count from the fast path is of the size
seen. `Ordered` says that who compares and publishes holds the lock, and that as long as nothing
has failed the entry a call is about to replace is not newer than its checkpoint.

`CacheTransparent` needs the history of a call. `HistoriesAgree`: settled calls that saw one
mtime saw one content (`SettledAgree`), and an entry that a call may still use is of what that
call saw (`UsableAgrees`). The latter survives a publication by another call: if the new entry
is past the window, then by `Prompt` its publisher is settled, and so is every call in flight
that saw the same mtime, since an unsettled one would be more than `MaxLag` behind; both saw one
content. `Sound`: an entry of the count store is the count of some text under some options, its
key tells apart all that the count depends on (`KeyTells`), and so a hit is what the caller
would have counted itself.

### The count store (`CountStoreProofs`)

`LockHeld`: whoever is inside of `with_exclusive_lock` has locked a lock file of its own, the
present one or one of a cache directory that was removed. While the directory stands there is one
such file, hence one writer. `FilesOwned`: a temporary file that is still written is that of the
worker at its write and of no other, even where two processes have the same id and take the same
names, because `create_new` refuses a name that is taken and who is inside holds the lock; so what
is renamed into place is complete or the leftover of a failure, and nobody writes to it any more.
`Undisturbed`: without a fault every temporary file belongs to a publisher, which has written it
by the time it renames it, and the count is there when a call has returned. Each is inductive
with those before it.

For the refinement, a step that publishes, damages or removes the entry is one of `CountMap`'s
actions, and all others leave what callers see alone. A store that is not disturbed remembers: the
one step that empties a whole entry without a fault of its own is `RemoveEntry` of a worker whose
temporary file is gone, and by `Undisturbed` a fault took it.

### The scan (`ScanProofs`, with `SequenceProofs` and `PathProofs`)

`SequentialScan` says that there are moments, one for each look, at which somebody alone would
have seen what the scan returns. The invariant has to know these moments while the scan is under
way: `Inv` says that there is a sequence `at` of moments in the `history` such that

* `Looked(at)`: `found` and `skipped` are what the inputs up to `next` led to at their moments, in
  order, each file under the first input that leads to it;
* `Counted(at)`: the pool has the found paths in the order of their identities, and each outcome
  at hand is that of its path at some moment since the last look.

A step of discovery extends `at` by the present moment, a step of a worker adds an outcome of the
present moment, and a change of the file system only makes the history longer. The last step
folds the outcomes, and the moments of `Inv` are the witness that `SequentialScan` asks for.

`ResultInv` says what a result is made of: a scan that returned with a pool has all its outcomes,
and returned the first failure among them or the aggregate. Together with `Inv` this gives
`FirstFailure` and `Isolated`: for a file that nobody touched every moment gives one outcome.

`Conserved` needs arithmetic over data. A sum is `SumOver(w, S)`, over a set `S` of places, and
the lemmas of `SequenceProofs` say that it can be taken apart (`SumParts`), grouped (`SumFibres`)
and renamed (`SumRenamed`), and that `Total` and `TotalsOf`, which fold, compute it (`TotalIs`,
`TotalsOfIs`). The languages are groups of the places of the files, and sorting renames places, so
all that `aggregate` adds up is the same sum. `TotalsOfIs` also says that the checked sums fail if
and only if the true sum does not fit.

`RollUp` joins such sums with paths. All inputs are read from one directory `base`, the current
one or none (`RootsFrom`), so that a path `p` of a root or a file leads to `base \o p`
(`IdentityFrom`), and every file is below a root (`FilesFrom`): that is why the inputs must be of
one kind, and directories throughout. Where this is so, what `Ancestors` returns for a file are
precisely the paths strictly above it that have some root above them or are one (`AncestorsAre`):
taking the shortest of the matching roots is what makes files in overlapping inputs agree. A
directory of the report then counts the files that it is strictly above (`DirectoriesAre`), and
a subset of the files has a sum that fits where that of all does (`SumsGrow`).

The views rest on the same facts. A table is sorted by a key and, where keys are equal, by path, a
strict total order on paths that are distinct (`OrderIs`, `SortOrderIs`), so that its rows are the
entries of JSON, each of them once, in one order only (`SortedRows`); distinct are the paths of the
files, since each comes from one identity, and those of the directories (`ReportedDirectories`).
The language table adds up because its rows are the groups of the places of the files, and its
percentages because of what `SharesAddUp` needs of largest remainders too (`RowsAddUp`). The lines
of skips are counted by reason (`LinesCounted`). The density of the whole lies between those of the
languages because it is that of their sums, and rounding half up keeps the order (`RatioBetween`).

The library's theorems of induction take an operator, and no installed prover can instantiate
them. `LeastNatural` (a set of natural numbers with a member has a least one) and `OneByOne` (what
the empty set has and one element more keeps, every finite set has) do their work: the set that
they speak of is an ordinary constant. Sorting, filtering and ranking are defined in `Iterators`
by the place of each element, since the provers cannot see into `SortSeq` and `SelectSeq`.

### The Git diff (`GitDiffProofs`)

`Inv` says what the snapshots are while the diff is under way: `BaseScanned` and `HeadScanned`,
that they hold exactly the outcomes of what the options admit, of the tree or of a worktree that
agrees with the present one wherever nobody edited it; `Phases` and `Comparing`, that paths still
to be compared and changes that were found do not overlap and that a change is a difference;
`Asked`, `Committed` and `Deltas`, the types. From it `NoMetadata` and `QuietWhenUnchanged` follow by
what the filters see of a path below a clean root (`CleanBelow`, `StripBelow`, `SameFilters`), and
`WholeSnapshots` by there having been no faults.

`Told` adds what has been counted. `Tallied(done)`: of the paths that are done, no more was added
than the head holds of them and no more removed than the base holds, the net change is the
difference, and so for each language, unless a file was relabelled at an equal count. `Splits` and
`AddUpTo`: the changes of the languages and of the files add up to the whole. The unchecked sum of
`TokenDelta::add` is the true sum because both parts are within the totals of a snapshot
(`OneMore`), which fit: that is the induction `NeverWraps` needs, and when all paths are done
`Tallied` says `AddsUp`.

`Listed` is what the report needs, and it is inductive with `Inv`: each change is that of its path,
no path has two, and a path that is done and whose tokens differ has one. With it, the rows that
name a path are none or one, and the tables hold the rows of JSON in the order that was asked for.

### The call from Python (end of `ScanProofs`)

A call takes steps of the scan or leaves it alone (`CallIsScan`), so every theorem about a scan
holds of that of a call. `DefectsTyped` needs what an error says: `ErrorInv` is that a scan which
returned without a pool has one of three errors and what it names is the case, and that a glob that
does not compile keeps discovery from its first input; `ResultIs` adds that an error of a count
comes from a file that failed at the moment it was read. `CallInv` is that the engine runs only
when every check has passed (`ChecksPass`), and that an exception raised before is that of the
first that has not (`ChecksFail`).

`AnswersAgree` is about two kinds of answer, and `AnswerInv` says which call has which. That of a
scan is its report with the languages in a dictionary; each language has the tokens of its files
before they were sorted and after (`TokensOfLanguage`), so sums over the names are those over the
files (`LanguagesTotal`, `WholeAnswer`). That of `count_file` is compared with what `SequentialScan` makes
of the same path, which a scan cleans first: a path and the clean one lead to the same place
(`IdentityOfClean`) and end in the same name (`LastOfClean`), so both come to one outcome but for the
path as it is written (`SameFile`), and the report of one outcome has it and nothing else
(`ScanOfOne`, `OneReported`). A path that ends in `.` or `..`, where names would differ, leads to no
file.

### The command line (`CliProofs`, with `TextProofs`)

`Inv` says of a run how it got where it is: `Loading`, that the counter is that of the selectors, or
of one state of the artifact, from which both its bytes and its hash were taken; `Accepted`, that
who has a counter has no conflict in the arguments and who has measured no unusable input;
`Measuring`, that what was measured is what `execute` makes of the arguments, and what may have
been written at each step; `Ended`, what each exit code means. Only together are they inductive: a
failure to write decides the exit code by what was written before, and the budget is compared
with what was measured.

The properties about standard input compare the model's steps with definitions of the whole input.
The limit: a text has one reading as digits and a unit (`SpelledOnce`), so the number that
`ParseFileSize` finds is the one that the property asks for (`LimitReads`), and `ReadBounded` keeps
the input or one byte more than the limit (`ReadBoundedIs`). The text: it
has the characters that begin in the bytes, in their order (`CharactersAre`, `TextIs`), so a line end, a
mark or a malformed byte is in it exactly where it is in the bytes; and normalising line ends, a
recursion from the end of the text, makes one character of every CR followed by LF and leaves no CR
(`UnrolledAre`, `NormalizeIs`).

`SharesAddUp` is largest remainders: what the floors leave of 1000, times the total, is the sum of
the remainders, so it is a number of tenths less than the number of remainders that are not zero;
the remainders are ranked by size and place without ties, so exactly that many get one tenth more
(`BonusAddsUp`), each share is off by less than a tenth (`WithinOne`), and of two numbers of tokens
the greater has the greater floor, or the same and the greater remainder (`SharesAre`).
`ContextAddsUp` is that half-up division gives the nearest (`RoundsToNearest`), and
`RangesUnambiguous` that an accepted comparison has its dots in one place only.

### Assumptions

The proofs use the named `ASSUME`s of the modules, which TLC evaluates on every run: sizes and
counts are natural numbers, contents and paths are sequences, the sentinels are distinct
(those of `Measure`, `StoreAssumption`, `AggregationAssumption`, which lets the checked sums count to 1 at least, `ScanAssumption`); a K is a natural
number of bytes, as is what is inspected for binary content (`FiguresAssumption`, `TextAssumption`);
what a caller asks for is what the types of the arguments admit, with limit and price as they are
parsed (`CliAssumption`), an artifact is missing, broken or a tokenizer, and `count_file` is asked for
one path, which is not empty, and for nothing about discovery (`BindingsAssumption`); the file system has
finitely many nodes with absolute names that do not climb, and the current directory has such a
name (`FileSystemAssumption`), as `std::env::current_dir` returns, and a file of no bytes has no tokens,
since no tokenizer adds special ones (`tokenizer/huggingface.rs:80`); Git has no path
with its own metadata in a tree, its directories are clean, and a snapshot that a caller brings to
`compare_snapshots` has each path once and the totals of its files, their number among them (`GitDiffAssumption`), as every
snapshot has that `scan` or `scan_tree` returns.

### Only model-checked

* Liveness (`CallsReturn`, `StoresReturn`) and freedom from deadlock: out of the prover's reach.
* `TreeAddsUp` of `Scan`: the lines of a tree are put together by a recursion over the tree, and what
  a recursion over data computes for every input is induction over data.
* `PricesExact` of `Cli`: it is about powers of ten and the digits of a number, and no installed
  prover knows `^`.

## Not modelled

* Byte-pair encoding, Unicode beyond the mark and what is malformed, BLAKE3, the object database
  of Git, `ignore`, `globset`, `clap`, PyO3: external code, present as constants, small sets or
  what the code asks of them.
* Widths, labels, digit grouping and JSON's syntax: layout.
* The table of `classify.rs`: data, and a constant of the models.
* The option setters of `ScanOptions`, `CountOptions` and the attributes of Python's classes:
  plain assignments. Python's `count` is `CountText` behind the checks that `Bindings` has.
* The failures of `scan` to find its current directory or to start its pool.
* Benches, tests, workflows.

## Plan

1. Done: the core and its extension to text, tokenizers, reports, bindings and the abstract scan.
2. Done: the theorems about the index, the count store, the scan and the Git diff.
3. Done: the theorems about the command line and the call from Python.
4. Done: the theorems about the views of a report.
5. Left to TLC: the tree of directories (`TreeAddsUp`), prices (`PricesExact`) and liveness.
