--------------------------------- MODULE Scan ---------------------------------
(***************************************************************************)
(* One scan: discovery of the inputs one after the other (walk.rs), the    *)
(* files counted by a pool of workers while the file system may change,    *)
(* and the aggregation of their outcomes in path order (scan.rs,           *)
(* aggregate.rs).  What counting one file with a cache comes to is the     *)
(* subject of module Measure; here it is a function of what the file is    *)
(* when it is read.                                                        *)
(***************************************************************************)
EXTENDS FileSystem, Report

CONSTANTS
  Workers,     \* the threads of the pool: options.workers()
  Trees,       \* the file systems a scan may find, in [Nodes -> Kinds]
  Requests,    \* what may be asked for: [inputs, options]
  Changes,     \* <<node, kind>> of the changes the file system may undergo
  MaxChanges,  \* bound on them
  Pending,     \* not counted yet
  Idle,        \* a worker without a path
  Unknown      \* the scan has not returned

ASSUME ScanAssumption ==
  /\ Unknown # Overflow
  /\ Trees \subseteq [Nodes -> Kinds]
  /\ Changes \subseteq Nodes \X Kinds
  /\ \A request \in Requests :
       /\ request.inputs \in Seq(Seq(Int))
       /\ \A i \in DOMAIN request.inputs : \A name \in ToSet(request.inputs[i]) : Classify[name] \in Int

VARIABLES
  tree,      \* the file system
  history,   \* the file systems there have been since the scan began
  request,   \* the inputs and the options
  next,      \* the input to be discovered next
  found,     \* paths of discover: display paths by identity
  skipped,   \* skipped of discover: paths that the walk could not read
  paths,     \* discovery.paths, once all inputs are discovered
  reading,   \* reading[w]: the index and the outcome that w is working on
  outcomes,  \* the outcome of each path
  result     \* what scan returned

disk == <<tree, history>>
vars == <<disk, request, next, found, skipped, paths, reading, outcomes, result>>

options == request.options
inputs  == request.inputs

Init ==
  /\ tree \in Trees
  /\ history = <<tree>>
  /\ request \in Requests
  /\ next = 1
  /\ found = <<>>
  /\ skipped = <<>>
  /\ paths = Pending
  /\ reading = [w \in Workers |-> Idle]
  /\ outcomes = <<>>
  /\ result = Unknown

Return(value) == result' = value
Error(kind, path) == [error |-> kind, path |-> path]

-----------------------------------------------------------------------------
(* discover *)

\* Mutant of Insert: the last path of a file wins.
Insert_last(input, nodes) ==
  LET admitted == {node \in nodes : Admits(options, Shown(input, node), Cwd)}
  IN  found' = [node \in admitted |-> Shown(input, node)] @@ found

\* Mutant of Insert: paths are told apart as they are written.
Insert_as_written(input, nodes) ==
  LET admitted == {node \in nodes : Admits(options, Shown(input, node), Cwd)}
      written  == {Shown(input, node) : node \in admitted}
  IN  found' = found @@ [path \in written |-> path]

\* insert_path of what input leads to: the first path of a file that the filters
\* admit wins.
Insert(input, nodes) ==
  LET admitted == {node \in nodes : Admits(options, Shown(input, node), Cwd)}
  IN  found' = [node \in DOMAIN found \cup admitted |->
                  IF node \in DOMAIN found THEN found[node] ELSE Shown(input, node)]

\* Mutant of DiscoverDirectory: entries that cannot be read are dropped.
DiscoverDirectory_silently(input) ==
  LET visited == Visited(tree, options, Identity(input))
  IN  /\ Insert(input, {node \in visited : ~IsDirectory(tree, node) /\ ~WalkFails(tree, options, node)})
      /\ skipped' = skipped

\* discover_directory
DiscoverDirectory(input) ==
  LET visited == Visited(tree, options, Identity(input))
      errors  == {[path |-> Shown(input, node), reason |-> Unreadable] :
                    node \in {node \in visited : WalkFails(tree, options, node)}}
  IN  /\ Insert(input, {node \in visited : ~IsDirectory(tree, node) /\ ~WalkFails(tree, options, node)})
      /\ skipped' = skipped \o SetToSeq(errors)

\* Nothing to scan, or a glob that does not compile.
Reject ==
  /\ result = Unknown /\ next = 1
  /\ \/ inputs = <<>> /\ Return(Error("no inputs", <<>>))
     \/ inputs # <<>> /\ ~FiltersCompile(options) /\ Return(Error("glob", <<>>))
  /\ UNCHANGED <<disk, request, next, found, skipped, paths, reading, outcomes>>

\* The next input of the loop, a directory to walk or anything else.
Discover ==
  /\ result = Unknown
  /\ next =< Len(inputs) /\ FiltersCompile(options)
  /\ LET input == Clean(inputs[next])
     IN  /\ ~IsMissing(tree, options, input)
         /\ IF IsDirectory(tree, Identity(input))
            THEN DiscoverDirectory(input)
            ELSE Insert(input, {Identity(input)}) /\ UNCHANGED skipped
  /\ next' = next + 1
  /\ UNCHANGED <<disk, request, paths, reading, outcomes, result>>

\* An input that is not there fails the whole scan.
MissingInput ==
  /\ result = Unknown
  /\ next =< Len(inputs) /\ FiltersCompile(options)
  /\ LET input == Clean(inputs[next])
     IN  IsMissing(tree, options, input) /\ Return(Error("input", input))
  /\ UNCHANGED <<disk, request, next, found, skipped, paths, reading, outcomes>>

\* The paths in the order of their identities go to the pool.
StartPool ==
  /\ result = Unknown /\ paths = Pending
  /\ inputs # <<>> /\ next > Len(inputs)
  /\ LET identities == InOrder(DOMAIN found)
     IN  /\ paths' = [i \in DOMAIN identities |-> found[identities[i]]]
         /\ outcomes' = [i \in DOMAIN identities |-> Pending]
  /\ UNCHANGED <<disk, request, next, found, skipped, reading, result>>

-----------------------------------------------------------------------------
(* The pool *)

\* par_iter: an idle worker takes any path that nobody has taken, and reads it.
Read(w) ==
  /\ result = Unknown /\ paths # Pending
  /\ reading[w] = Idle
  /\ \E i \in DOMAIN paths :
       /\ outcomes[i] = Pending
       /\ \A v \in Workers : reading[v] # Idle => reading[v].index # i
       /\ reading' = [reading EXCEPT ![w] = [index |-> i, outcome |-> OutcomeOf(tree, options, paths[i])]]
  /\ UNCHANGED <<disk, request, next, found, skipped, paths, outcomes, result>>

\* Mutant of Deliver: the outcomes are collected in the order in which they come.
Deliver_as_they_come(w) ==
  /\ result = Unknown
  /\ reading[w] # Idle
  /\ LET place == Min({i \in DOMAIN outcomes : outcomes[i] = Pending})
     IN  outcomes' = [outcomes EXCEPT ![place] = reading[w].outcome]
  /\ reading' = [reading EXCEPT ![w] = Idle]
  /\ UNCHANGED <<disk, request, next, found, skipped, paths, result>>

\* collect: the outcome goes to the place of its path.
Deliver(w) ==
  /\ result = Unknown
  /\ reading[w] # Idle
  /\ outcomes' = [outcomes EXCEPT ![reading[w].index] = reading[w].outcome]
  /\ reading' = [reading EXCEPT ![w] = Idle]
  /\ UNCHANGED <<disk, request, next, found, skipped, paths, result>>

-----------------------------------------------------------------------------
(* The loop over the outcomes, and aggregate *)

Collected ==
  /\ result = Unknown /\ paths # Pending
  /\ \A i \in DOMAIN outcomes : outcomes[i] # Pending

\* Mutant of Fail: the last failure is reported.
Fail_last ==
  /\ Collected
  /\ \E i \in DOMAIN outcomes :
       /\ HasFailed(outcomes[i])
       /\ \A j \in i + 1 .. Len(outcomes) : ~HasFailed(outcomes[j])
       /\ Return(Error("count", paths[i]))
  /\ UNCHANGED <<disk, request, next, found, skipped, paths, reading, outcomes>>

\* The first failure in path order is returned.
Fail ==
  /\ Collected
  /\ \E i \in DOMAIN outcomes :
       /\ HasFailed(outcomes[i])
       /\ \A j \in 1 .. i - 1 : ~HasFailed(outcomes[j])
       /\ Return(Error("count", paths[i]))
  /\ UNCHANGED <<disk, request, next, found, skipped, paths, reading, outcomes>>

\* The outcomes are divided into files and skips, and aggregated.
Conclude ==
  /\ Collected
  /\ \A i \in DOMAIN outcomes : ~HasFailed(outcomes[i])
  /\ Return(Aggregate(Filtered(outcomes, IsMeasured),
                      skipped \o Filtered(outcomes, IsSkipped)))
  /\ UNCHANGED <<disk, request, next, found, skipped, paths, reading, outcomes>>

-----------------------------------------------------------------------------

\* The nodes that have changed.
changed == {node \in Nodes : \E i \in DOMAIN history : history[i][node] # tree[node]}

\* Somebody changes the file system while the scan runs.
Change ==
  /\ result = Unknown
  /\ Len(history) =< MaxChanges
  /\ \E change \in Changes :
       /\ change[1] \notin changed
       /\ tree[change[1]] # change[2]
       /\ tree' = [tree EXCEPT ![change[1]] = change[2]]
  /\ history' = Append(history, tree')
  /\ UNCHANGED <<request, next, found, skipped, paths, reading, outcomes, result>>

\* scan has returned.
Finished == result # Unknown /\ UNCHANGED vars

Next ==
  \/ Reject \/ Discover \/ MissingInput \/ StartPool
  \/ \E w \in Workers : Read(w) \/ Deliver(w)
  \/ Fail \/ Conclude
  \/ Change \/ Finished

Spec == Init /\ [][Next]_vars

-----------------------------------------------------------------------------
(* Properties *)

Sequential == INSTANCE SequentialScan

\* The workers, the steps of discovery and the changes meanwhile cannot be told from
\* one look after the other: whatever scan returns, an error included, somebody who
\* works alone and in order may return as well (scan).  It is Sequential!Spec; TLC
\* evaluates it faster when an answer is looked for only at a step that gives one.
Sequentially ==
  Sequential!Init /\ [][Sequential!vars # (Sequential!vars)' => Sequential!Next]_vars

\* The type invariant: where a scan may be, and that what is found is what is
\* handed to the pool.
TypeOK ==
  /\ tree \in [Nodes -> Kinds]
  /\ history \in Seq([Nodes -> Kinds]) /\ Last(history) = tree
  /\ request \in Requests
  /\ next \in 1 .. Len(inputs) + 1
  /\ \A identity \in DOMAIN found : Identity(found[identity]) = identity
  /\ paths # Pending => /\ ToSet(paths) = {found[identity] : identity \in DOMAIN found}
                        /\ DOMAIN outcomes = DOMAIN paths
  /\ \A w \in Workers : reading[w] # Idle => reading[w].index \in DOMAIN paths

Succeeded == result \notin {Unknown, Overflow} /\ "totals" \in DOMAIN result

\* The inputs that lead to a node, and the path under which each shows it.
Leads(i, node) ==
  LET input == Clean(inputs[i])
  IN  /\ \/ node = Identity(input)
         \/ IsDirectory(tree, Identity(input)) /\ node \in Visited(tree, options, Identity(input))
      /\ Admits(options, Shown(input, node), Cwd)

FirstPath(node) ==
  LET leading == {i \in DOMAIN inputs : Leads(i, node)}
  IN  Shown(Clean(inputs[Min(leading)]), node)

\* The nodes the scan should count.
Countable(node) ==
  /\ KindOf(tree, node) \notin {"absent", "dir"} /\ ~WalkFails(tree, options, node)
  /\ \E i \in DOMAIN inputs : Leads(i, node)

Reported == ToSet(result.files) \cup ToSet(result.skipped.details)

\* Nodes whose paths did not change, though others may have.
Untouched == {node \in Nodes : \A k \in 1 .. Len(node) : SubSeq(node, 1, k) \notin changed}

\* A scan that succeeds reports every file exactly once, under the first of the
\* paths that lead to it and with the outcome of its own content, whatever other
\* inputs overlap, whatever happens to other files and however the workers
\* interleave (discover, insert_path, scan).
Isolated ==
  Succeeded =>
    \A node \in Untouched :
      KindOf(tree, node) \notin {"dir", "locked"} /\ ~WalkFails(tree, options, node) =>
        {report \in Reported : Identity(report.path) = node} =
          IF Countable(node) THEN {OutcomeOf(tree, options, FirstPath(node))} ELSE {}

\* Input i is a directory whose walk comes to a node.
IsWalked(i, node) ==
  \E root \in {Identity(Clean(inputs[i]))} :
    IsDirectory(tree, root) /\ node \in Visited(tree, options, root)

\* Nothing is lost or counted twice on the way to the report: totals, languages
\* and files agree, every path that discovery found or could not read is a file
\* or a skip, files are in strict path order, and a sum that does not fit is an
\* error and never a smaller number (add_file, aggregate, from_details).
Conserved ==
  /\ Succeeded =>
       /\ result.totals.files = Len(result.files)
       /\ result.totals.files = Sum(result.languages, LAMBDA language : language.files)
       /\ result.totals.tokens = Sum(result.files, LAMBDA file : file.tokens)
       /\ result.totals.tokens = Sum(result.languages, LAMBDA language : language.tokens)
       /\ result.totals.files + result.skipped.total = Len(paths) + Len(skipped)
       /\ Total(result.skipped.count) = result.skipped.total
       /\ \A i \in 1 .. Len(result.files) - 1 :
            Less(result.files[i].path, result.files[i + 1].path)
       /\ \A node \in Untouched :
            WalkFails(tree, options, node) /\ (\E i \in DOMAIN inputs : IsWalked(i, node))
              => \E skip \in ToSet(result.skipped.details) : Identity(skip.path) = node
  /\ result = Overflow =>
       LET measured == Filtered(outcomes, IsMeasured)
       IN  \/ Sum(measured, LAMBDA file : file.tokens) > MaxCount
           \/ Sum(measured, LAMBDA file : file.bytes) > MaxCount
           \/ Len(measured) > MaxCount

\* The error of a scan does not depend on the workers: with no change meanwhile it
\* is that of the first file, in the order of identities, that cannot be counted
\* (scan: "match outcome?").
FirstFailure ==
  changed = {} /\ result \notin {Unknown, Overflow} /\ paths # Pending =>
    LET failing == {node \in Nodes : Countable(node) /\ KindOf(tree, node) = "failing"}
    IN  IF failing = {} THEN Succeeded
        ELSE \E node \in failing :
               /\ \A other \in failing \ {node} : Less(node, other)
               /\ result = Error("count", FirstPath(node))

\* What --dirs shows for a scan.
Directories == AggregateDirectories(result.files, ToSet(inputs)).all

HoldsAllBeneath(directory) ==
  LET beneath(file) == IsStrictPrefix(Identity(directory.path), Identity(file.path))
      all == Filtered(result.files, beneath)
  IN  /\ directory.files = Len(all)
      /\ directory.tokens = Sum(all, LAMBDA file : file.tokens)

\* "Each directory includes every measured file beneath it."
DirectoriesComplete ==
  Succeeded => \A directory \in ToSet(Directories) : HoldsAllBeneath(directory)

\* All inputs are directories, and have been since the scan began, written either
\* absolutely or below the current one.
AreDirectories ==
  LET cleaned == {Clean(inputs[i]) : i \in DOMAIN inputs}
  IN  /\ \A input \in cleaned : \A k \in DOMAIN history : KindOf(history[k], Identity(input)) = "dir"
      /\ \/ \A input \in cleaned : IsAbsolute(input)
         \/ \A input \in cleaned : ~IsAbsolute(input) /\ Up \notin ToSet(input)

\* For inputs that are directories of one kind, overlapping or not, each directory
\* shown includes every measured file beneath it, once (aggregate_directories: the
\* widest root wins).
RollUp == AreDirectories => DirectoriesComplete

\* The lines one level below line i of a tree: those up to the next at its depth or less.
LinesBelow(lines, i) ==
  {j \in i + 1 .. Len(lines) :
     /\ lines[j].depth = lines[i].depth + 1
     /\ \A k \in i + 1 .. j : lines[k].depth > lines[i].depth}

\* The same entries, each once.
SameEntries(rows, entries, fields) ==
  /\ Len(rows) = Len(entries)
  /\ {Restrict(row, fields) : row \in ToSet(rows)} = {Restrict(entry, fields) : entry \in ToSet(entries)}

\* The tree draws each directory once.  For inputs as in RollUp a line's tokens are
\* those of its own files and of the lines one level below it, and the lines at the
\* margin add up to the total: no subtree is lost, drawn twice or hung elsewhere
\* (write_directory_tree over aggregate_directories).
TreeAddsUp ==
  Succeeded =>
    LET lines == TreeLines(Directories)
        tokens(indices) == FoldSet(LAMBDA i, sum : sum + lines[i].tokens, 0, indices)
        isIn(file, i) == Identity(Parent(file.path)) = Identity(lines[i].path)
        own(i) == Filtered(result.files, LAMBDA file : isIn(file, i))
    IN  /\ SameEntries(lines, Directories, {"path", "tokens"})
        /\ AreDirectories =>
             /\ tokens({i \in DOMAIN lines : lines[i].depth = 0}) = result.totals.tokens
             /\ \A i \in DOMAIN lines :
                  lines[i].tokens = Sum(own(i), LAMBDA file : file.tokens)
                                      + tokens(LinesBelow(lines, i))

Shows(format, view, sort) ==
  ScanReport(result, ToSet(inputs), [format |-> format, quiet |-> FALSE, view |-> view,
                                     sort |-> sort, context |-> {}, price |-> {}])
TableOf(view, sort) == Shows("table", view, sort).table
JsonOf(view) == Shows("json", view, "path")

\* Rows by tokens from the greatest down.
Descending(rows) == \A i, j \in DOMAIN rows : i < j => rows[i].tokens >= rows[j].tokens

\* The views of one scan show the same measurement: a report never fails because the
\* sums of directories do not fit when those of the scan did; tables in any order have
\* the files and directories of JSON, each once, by tokens from the greatest down; what
\* a table shows of the languages adds up to its last line, and the lines of --verbose
\* to the counts of skips (write_scan_report).
ViewsAgree ==
  Succeeded =>
    /\ \A view \in {"dirs", "tree"} : JsonOf(view) # Overflow
    /\ \A sort \in {"path", "tokens", "language"} :
         SameEntries(TableOf("files", sort).rows, JsonOf("files").files, {"path", "tokens"})
    /\ \A sort \in {"path", "tokens"} : \A view \in {"dirs", "tree"} :
         SameEntries(TableOf("dirs", sort).rows, JsonOf(view).directories, {"path", "tokens"})
    /\ Descending(TableOf("files", "tokens").rows) /\ Descending(TableOf("dirs", "tokens").rows)
    /\ LET languages == TableOf("languages", "path")
       IN  /\ Sum(languages.rows, LAMBDA row : row.files) = languages.total.files
           /\ Sum(languages.rows, LAMBDA row : row.tokens) = languages.total.tokens
           /\ Sum(languages.rows, LAMBDA row : row.percent) = languages.total.percent
           /\ LET lines == SkipLines("", result.skipped.details)
              IN  \A reason \in Reasons :
                    Cardinality({i \in DOMAIN lines : lines[i].reason = reason}) =
                      IF reason \in DOMAIN languages.skips.count THEN languages.skips.count[reason]
                      ELSE 0

\* A number of tenths is the nearest to a ratio, the upper one of two, and zero where
\* there is none.
IsNearest(tenths, numerator, denominator) ==
  IF denominator = 0 THEN tenths = 0
  ELSE 2 * (10 * numerator - denominator * tenths) \in -denominator .. denominator - 1

IsDensity(density, totals) ==
  /\ IsNearest(density.tokens_per_kb, totals.tokens * Kilo, totals.bytes)
  /\ IsNearest(density.bytes_per_token, totals.bytes, totals.tokens)

\* Densities are exact to the tenth, and that of the whole lies between those of the
\* languages (rounded_ratio_tenths, write_density_table).
DensitiesNearest ==
  Succeeded =>
    LET table == TableOf("density", "path")
        densities == {row.density.tokens_per_kb : row \in ToSet(table.rows)}
        whole == table.total.density
    IN  /\ \A i \in DOMAIN table.rows : IsDensity(table.rows[i].density, result.languages[i])
        /\ IsDensity(whole, result.totals)
        /\ densities # {} => whole.tokens_per_kb \in Min(densities) .. Max(densities)

\* "Total number of skipped paths."
SkippedPathsOnce ==
  Succeeded =>
    result.skipped.total = Cardinality({skip.path : skip \in ToSet(result.skipped.details)})
=============================================================================
