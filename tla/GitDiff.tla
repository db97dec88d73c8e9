-------------------------------- MODULE GitDiff --------------------------------
(***************************************************************************)
(* A Git token diff: two trees, or a tree and the worktree, scanned one    *)
(* after the other and compared (tokm-core/src/git/tree.rs, git/diff.rs).  *)
(* The scan of the worktree is the promise of module Scan: every file once *)
(* with its outcome.  Paths are relative to the root of the repository,    *)
(* except where a filter sees them.                                        *)
(***************************************************************************)
EXTENDS TokenDiff, Report

CONSTANTS
  Scenarios,   \* [history, worktree, request]: the kind of the repository and what is
               \* committed as base and as head, the worktree, and what is asked for
  NoTree,      \* a revision that is not there or leads to no tree
  Edits,       \* <<path, kind>> of the edits of somebody at work meanwhile
  MaxEdits,    \* bound on them
  Ignored,     \* paths that .gitignore or the like names
  Snapshots,   \* scan results that a caller of compare_snapshots may have
  Cwd,         \* the current directory
  GitName,     \* .git
  Tokens,      \* Tokens[kind] of the kinds that are measured
  Classify     \* Classify[name]: the language of a file name

\* What may be at a path of a tree: a blob, a link, a submodule, or an object or a
\* subtree that cannot be read.  Git has no path with its own metadata in a tree.
TreeKinds == DOMAIN Tokens \cup {"oversized", "binary", "link", "submodule", "failing", "corrupt", "lost"}

IsTree(tree) ==
  /\ IsFiniteSet(DOMAIN tree)
  /\ \A path \in DOMAIN tree :
       /\ path \in Seq(Nat) \ {<<>>} /\ GitName \notin ToSet(path)
       /\ tree[path] \in TreeKinds /\ Classify[Last(path)] \in Int

\* What may be at a path of the worktree.
WorktreeKinds == DOMAIN Tokens \cup {"oversized", "binary", "link", "failing"}

IsWorktree(files) ==
  /\ IsFiniteSet(DOMAIN files)
  /\ \A path \in DOMAIN files :
       /\ path \in Seq(Nat) \ {<<>>}
       /\ files[path] \in WorktreeKinds /\ Classify[Last(path)] \in Int

\* The directory that Git gives for a worktree is clean.
ASSUME GitDiffAssumption ==
  /\ Cwd \in Seq(Int) /\ IsAbsolute(Cwd) /\ GitName \in Nat
  /\ "small" \in DOMAIN Tokens /\ \A kind \in DOMAIN Tokens : Tokens[kind] \in 0 .. MaxCount
  /\ DOMAIN Tokens \cap {"oversized", "binary", "link", "submodule", "failing", "corrupt", "lost"} = {}
  /\ \A edit \in Edits : edit[2] \in WorktreeKinds
  /\ \A scenario \in Scenarios :
       LET commits == scenario.history
           asked   == scenario.request
       IN  /\ commits.kind \in {"none", "bare", "worktree"}
           /\ commits.base = NoTree \/ IsTree(commits.base)
           /\ commits.head = NoTree \/ IsTree(commits.head)
           /\ IsWorktree(scenario.worktree)
           /\ asked.mode \in {"trees", "worktree", "snapshots"}
           /\ asked.root \in Seq(Int) /\ Clean(asked.root) = asked.root
           /\ {"includes", "excludes"} \subseteq DOMAIN asked.options
  /\ \A snapshot \in Snapshots :
       /\ snapshot # Absent
       /\ snapshot.files \in Seq([path : Seq(Int), language : Int, tokens : 0 .. MaxCount, bytes : Nat])
       /\ IsInjective([i \in DOMAIN snapshot.files |-> snapshot.files[i].path])
       /\ snapshot.totals.tokens = Sum(snapshot.files, LAMBDA file : file.tokens)
       /\ snapshot.totals.tokens =< MaxCount
       /\ snapshot.totals.files = Len(snapshot.files)

VARIABLES
  history,    \* [kind, base, head]: the repository and the committed trees
  worktree,   \* the worktree
  edited,     \* paths edited since the diff began
  request,    \* what is asked for: [mode, root, options]
  pc          \* the step to be taken next

repository == <<history, worktree, edited>>
vars == <<repository, request, pc, base, head, comparison>>

options == request.options

Init ==
  /\ \E scenario \in Scenarios :
       /\ history = scenario.history
       /\ worktree = scenario.worktree
       /\ request = scenario.request
  /\ edited = {}
  /\ pc = "base"
  /\ InitComparison

Measured(path, kind) ==
  [path |-> path, language |-> Classify[Last(path)], tokens |-> Tokens[kind], bytes |-> 1]
Skipped(path, reason) == [path |-> path, reason |-> reason]

\* The snapshot of a set of outcomes, sorted by aggregate, or its overflow.
SnapshotOf(outcomes) ==
  LET measured  == {outcome \in outcomes : "tokens" \in DOMAIN outcome}
      aggregate == Aggregate(SetToSeq(measured), SetToSeq(outcomes \ measured))
  IN  IF aggregate = Overflow THEN Overflow
      ELSE [semantics |-> 1, totals |-> aggregate.totals, languages |-> aggregate.languages,
            files |-> aggregate.files, skipped |-> aggregate.skipped]

-----------------------------------------------------------------------------
(* scan_tree *)

\* Mutant of Visits: hidden directories are visited.
Visits_hidden_directories(path) ==
  /\ options.hidden \/ ~IsHiddenName(Last(path))
  /\ AdmitsRelative(options, path)

\* visit_tree skips what is hidden and what the filters do not admit.
Visits(path) ==
  /\ options.hidden \/ ~IsHidden(path)
  /\ AdmitsRelative(options, path)

\* What visit_tree makes of a blob, a link or a submodule.
TreeOutcome(path, kind) ==
  CASE kind \in DOMAIN Tokens -> Measured(path, kind)
    [] kind = "oversized"     -> Skipped(path, Oversized)
    [] kind = "binary"        -> Skipped(path, Binary)
    [] kind = "link"          -> Skipped(path, Symlink)
    [] kind = "submodule"     -> Skipped(path, Unsupported)

\* Mutant of Faults: subtrees that cannot be read are passed over.
Faults_but_subtrees(tree) ==
  {kind \in {"corrupt", "failing"} : \E path \in DOMAIN tree : tree[path] = kind /\ Visits(path)}

\* What stops visit_tree, in the order in which it comes to it: a subtree whose object
\* cannot be read, whatever the filters, and a blob that cannot be read or counted.
Faults(tree) ==
  {kind \in {"lost", "corrupt", "failing"} :
     \E path \in DOMAIN tree :
       /\ tree[path] = kind
       /\ IF kind = "lost" THEN options.hidden \/ ~IsHidden(path) ELSE Visits(path)}

\* The errors of scan_tree, of which the first to come is returned.
TreeErrors(tree) ==
  IF history.kind = "none" THEN {"repository"}
  ELSE IF tree = NoTree THEN {"revision"}
  ELSE IF ~FiltersCompile(options) THEN {"glob"}
  ELSE Faults(tree)

ScanTree(tree) ==
  LET blobs == {path \in DOMAIN tree : tree[path] # "lost"}
  IN  SnapshotOf({TreeOutcome(path, tree[path]) : path \in {path \in blobs : Visits(path)}})

-----------------------------------------------------------------------------
(* The scan of the worktree *)

\* Mutant of WorktreeOptions: the metadata of Git is not excluded.
WorktreeOptions_as_given == options

\* worktree_options: the options with the metadata of Git excluded.
WorktreeOptions ==
  LET metadata == Append(request.root, GitName)
  IN  [options EXCEPT !.excludes =
         @ \cup {Exactly(<<GitName>>), Everything(<<GitName>>),
                 Exactly(metadata), Everything(metadata)}]

IsIgnored(path) ==
  /\ ~options.no_ignore
  /\ \E k \in DOMAIN path : SubSeq(path, 1, k) \in Ignored

\* A walk of the worktree passes over what is hidden or ignored, with all beneath.
PassesOver(path) == IsIgnored(path) \/ (~options.hidden /\ IsHidden(path))

\* The path under which the scan of the root shows and filters a file.
Shown(path) == Clean(request.root \o path)

\* count_file_with_cache; a checked out link leads to a file of kind "small".
WorktreeOutcome(path, kind) ==
  CASE kind \in DOMAIN Tokens -> Measured(path, kind)
    [] kind = "oversized"     -> Skipped(path, Oversized)
    [] kind = "binary"        -> Skipped(path, Binary)
    [] kind = "link"          -> IF options.follow THEN Measured(path, "small")
                                 ELSE Skipped(path, Symlink)

AdmittedInWorktree ==
  {path \in DOMAIN worktree : ~PassesOver(path) /\ Admits(WorktreeOptions, Shown(path), Cwd)}

WorktreeErrors ==
  {kind \in {"failing"} : \E path \in AdmittedInWorktree : worktree[path] = kind}

\* scan, and relativize_snapshot.
ScanWorktree ==
  LET relative(path) == StripPrefix(Shown(path), request.root)
  IN  SnapshotOf({WorktreeOutcome(relative(path), worktree[path]) : path \in AdmittedInWorktree})

-----------------------------------------------------------------------------
(* diff_trees, diff_worktree, compare_snapshots *)

Stop(error) ==
  /\ verdict' = [error |-> error]
  /\ pc' = "done"
  /\ UNCHANGED <<todo, tokens, byLanguage, changes>>

\* diff_worktree needs a worktree, before it scans anything.
BaseErrors ==
  IF request.mode = "worktree" /\ history.kind = "bare" THEN {"worktree unavailable"}
  ELSE TreeErrors(history.base)

\* The first scan of either form.
ScanBase ==
  /\ pc = "base" /\ request.mode # "snapshots"
  /\ BaseErrors = {}
  /\ LET snapshot == ScanTree(history.base)
     IN  IF snapshot = Overflow THEN Stop("overflow") /\ UNCHANGED base
         ELSE base' = snapshot /\ pc' = "head" /\ UNCHANGED comparison
  /\ UNCHANGED <<repository, request, head>>

HeadErrors ==
  IF request.mode = "trees" THEN TreeErrors(history.head) ELSE WorktreeErrors

\* The second scan.
ScanHead ==
  /\ pc = "head"
  /\ HeadErrors = {}
  /\ LET snapshot == IF request.mode = "trees" THEN ScanTree(history.head) ELSE ScanWorktree
     IN  IF snapshot = Overflow THEN Stop("overflow") /\ UNCHANGED head
         ELSE head' = snapshot /\ pc' = "check" /\ UNCHANGED comparison
  /\ UNCHANGED <<repository, request, base>>

\* A scan that fails stops the diff.
ScanFails ==
  /\ \/ pc = "base" /\ request.mode # "snapshots" /\ \E error \in BaseErrors : Stop(error)
     \/ pc = "head" /\ \E error \in HeadErrors : Stop(error)
  /\ UNCHANGED <<repository, request, base, head>>

\* Two snapshots that the caller already has.
TakeSnapshots ==
  /\ pc = "base" /\ request.mode = "snapshots"
  /\ base' \in Snapshots /\ head' \in Snapshots
  /\ pc' = "check"
  /\ UNCHANGED <<repository, request, comparison>>

Compatible ==
  /\ pc = "check" /\ StartComparing
  /\ pc' = "compare"
  /\ UNCHANGED <<repository, request, base, head>>

Incompatible ==
  /\ pc = "check" /\ Refuse
  /\ pc' = "done"
  /\ UNCHANGED <<repository, request, base, head>>

ComparePath ==
  /\ pc = "compare"
  /\ Same \/ Differs
  /\ UNCHANGED <<repository, request, pc, base, head>>

Finish ==
  /\ pc = "compare" /\ todo = <<>>
  /\ Compared
  /\ pc' = "done"
  /\ UNCHANGED <<repository, request, base, head>>

\* Somebody edits the worktree that is being measured.
Edit ==
  /\ pc # "done" /\ request.mode = "worktree"
  /\ Cardinality(edited) < MaxEdits
  /\ \E edit \in Edits :
       /\ edit[1] \in DOMAIN worktree \ edited
       /\ worktree[edit[1]] # edit[2]
       /\ worktree' = [worktree EXCEPT ![edit[1]] = edit[2]]
       /\ edited' = edited \cup {edit[1]}
  /\ UNCHANGED <<history, request, pc, base, head, comparison>>

Finished == pc = "done" /\ UNCHANGED vars

Next ==
  \/ ScanBase \/ ScanHead \/ ScanFails
  \/ TakeSnapshots \/ Compatible \/ Incompatible \/ ComparePath \/ Finish
  \/ Edit \/ Finished

Spec == Init /\ [][Next]_vars

-----------------------------------------------------------------------------
(* Properties *)

Fields == {"added", "removed", "net"}

\* The type invariant: the comparison runs between two complete snapshots, and a
\* path is either still to be compared or done with.
TypeOK ==
  /\ pc \in {"base", "head", "check", "compare", "done"}
  /\ edited \subseteq DOMAIN worktree
  /\ pc \in {"check", "compare"} => base # Absent /\ head # Absent
  /\ todo # <<>> => pc = "compare"
  /\ DOMAIN tokens = Fields
  /\ tokens.added \in 0 .. MaxCount /\ tokens.removed \in 0 .. MaxCount
  /\ ToSet(todo) \cap {change.path : change \in ToSet(changes)} = {}

\* The worktree still has the committed file, as it is, and no rule ignores it.
IsUnchanged(path) ==
  /\ path \in (DOMAIN history.base \cap DOMAIN worktree) \ edited
  /\ worktree[path] = history.base[path]
  /\ worktree[path] # "link" /\ ~IsIgnored(path)

\* A worktree diff says nothing of a file that nobody changed.
UnchangedIsSilent ==
  request.mode = "worktree" /\ HasVerdict =>
    \A change \in ToSet(verdict.files) : ~IsUnchanged(change.path)

\* Globs see the same paths in both snapshots: there are none and the repository is not
\* within the metadata of another, the repository is the current directory, or its
\* absolute path is that of the current directory.
SameView ==
  \/ options.includes = {} /\ options.excludes = {} /\ GitName \notin ToSet(request.root)
  \/ Clean(request.root) \in {<<Here>>, Cwd}

\* A file that nobody changed and no ignore rule names is no part of a worktree diff,
\* whatever is hidden, filtered or edited meanwhile, if globs see the same paths in
\* both snapshots (scan_tree, diff_worktree, relativize_snapshot).
QuietWhenUnchanged ==
  SameView => UnchangedIsSilent

\* Whether the filters see the metadata of Git under one of the excluded paths: not from
\* within, where they see what is below the current directory without its path.
MetadataSeen ==
  LET metadata == Clean(Append(request.root, GitName))
      seen     == StripPrefix(metadata, Cwd)
  IN  seen \in {<<GitName>>, Append(request.root, GitName)} /\ ~IsStrictPrefix(metadata, Cwd)

\* No part of a diff comes from the metadata of Git, even with hidden files asked for
\* and ignore rules off, as long as the repository is seen under the path that
\* diff_worktree excludes (diff_worktree's test: "!file.path.starts_with(".git")").
NoMetadata ==
  HasVerdict /\ request.mode = "worktree" /\ MetadataSeen =>
    \A change \in ToSet(verdict.files) : change.path[1] # GitName

\* What a snapshot has of a tree: everything that is not hidden and that the filters
\* admit, as a file or as a skip, and nothing else.
IsWhole(snapshot, tree) ==
  {outcome.path : outcome \in ToSet(snapshot.files) \cup ToSet(snapshot.skipped.details)} =
    {path \in DOMAIN tree : (options.hidden \/ ~IsHidden(path)) /\ AdmitsRelative(options, path)}

\* What somebody sees of a tree can be read.
Readable(tree) ==
  \A path \in DOMAIN tree :
    options.hidden \/ ~IsHidden(path) =>
      /\ tree[path] # "lost"
      /\ AdmitsRelative(options, path) => tree[path] \notin {"corrupt", "failing"}

\* A diff never compares a snapshot that is not whole: objects that are lost, corrupt or
\* cannot be counted make it fail, unless hidden files or filters exclude them, and so do
\* a revision without a tree and a repository without a worktree (visit_tree,
\* diff_worktree).
WholeSnapshots ==
  HasVerdict /\ request.mode # "snapshots" =>
    /\ history.kind # "none"
    /\ history.base # NoTree /\ Readable(history.base) /\ IsWhole(base, history.base)
    /\ IF request.mode = "trees"
       THEN history.head # NoTree /\ Readable(history.head) /\ IsWhole(head, history.head)
       ELSE /\ history.kind = "worktree"
            /\ \A file \in ToSet(head.files) :
                 worktree[file.path] = "failing" => file.path \in edited

Shows(format, view, sort) ==
  DiffReport(verdict, [format |-> format, quiet |-> FALSE, view |-> view, sort |-> sort,
                       context |-> {2}, price |-> {}])
RowsBy(sort) == Shows("table", "files", sort).rows
NamedIn(files, path) == Filtered(files, LAMBDA change : change.path = path)

\* What a report says of a snapshot: the totals of its files, and its skips.
Reports(shown, snapshot) ==
  /\ shown.totals.tokens = Sum(snapshot.files, LAMBDA file : file.tokens)
  /\ shown.totals.files = Len(snapshot.files)
  /\ SkipLines("", shown.skipped.details) = SkipLines("", snapshot.skipped.details)

\* The JSON of a diff tells what the head holds from what the base does: a file it does
\* not name has its tokens of the base, one it names has the tokens it gives, and the
\* totals and skips of a snapshot are those of its files.  The table has the same files
\* in any order, those of the greatest impact first if by tokens, and both compare the
\* head with the context window (write_diff_json, write_diff_table).
DiffReportComplete ==
  HasVerdict =>
    LET json == Shows("json", "files", "path")
    IN  /\ \A path \in PathsOf(base) \cup PathsOf(head) :
             LET named == NamedIn(json.files, path)
             IN  IF named = <<>> THEN TokensOf(FileAt(head, path)) = TokensOf(FileAt(base, path))
                 ELSE /\ Len(named) = 1
                      /\ named[1].base_tokens = Counted(FileAt(base, path))
                      /\ named[1].head_tokens = Counted(FileAt(head, path))
        /\ \A sort \in {"path", "tokens", "language"} :
             /\ ToSet(RowsBy(sort)) = ToSet(json.files)
             /\ Len(RowsBy(sort)) = Len(json.files)
        /\ \A i, j \in DOMAIN RowsBy("tokens") :
             i < j => Impact(RowsBy("tokens")[i]) >= Impact(RowsBy("tokens")[j])
        /\ Reports(json.snapshots.base, base) /\ Reports(json.snapshots.head, head)
        /\ json.context = {ContextComparison(json.snapshots.head.totals.tokens, 2)}
        /\ Shows("table", "languages", "path").head.context = json.context
=============================================================================
