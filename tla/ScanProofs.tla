------------------------------ MODULE ScanProofs ------------------------------
(***************************************************************************)
(* Proofs about modules Scan and Bindings.  For any file system, inputs,   *)
(* options, changes and number of workers a scan implements SequentialScan,*)
(* reports each file once or fails with the first that fails, and its      *)
(* report adds up.  A call from Python raises what its fault is, and what  *)
(* it answers is the whole of what the scan reports.                       *)
(***************************************************************************)
EXTENDS Bindings, PathProofs

\* The files that a path leads to in a tree, and what the walk cannot read there.
FilesOf(t, opts, path) ==
  LET input == Clean(path)
      root  == Identity(input)
      files == IF IsDirectory(t, root)
               THEN {node \in Visited(t, opts, root) : ~IsDirectory(t, node) /\ ~WalkFails(t, opts, node)}
               ELSE {root}
  IN  {node \in files : Admits(opts, Shown(input, node), Cwd)}

UnreadOf(t, opts, path) ==
  LET input == Clean(path)
      root  == Identity(input)
  IN  {Skipped(Shown(input, node), Unreadable) :
         node \in {node \in Visited(t, opts, root) : IsDirectory(t, root) /\ WalkFails(t, opts, node)}}

-----------------------------------------------------------------------------
(* Sequential instantiates the modules that Scan extends once more: their operators *)
(* are the same.                                                                    *)

LEMMA SameClean ==
  ASSUME NEW path  PROVE Sequential!Clean(path) = Clean(path)
BY DEF Sequential!Clean, Clean, Sequential!Push, Push, Sequential!Here, Here, Sequential!Up, Up, Sequential!Root, Root,
       Sequential!FoldLeft, FoldLeft, Sequential!MapThenFoldSet, MapThenFoldSet,
       Sequential!Max, Max, Sequential!Last, Last, Sequential!Front, Front

LEMMA SameIdentity ==
  ASSUME NEW path  PROVE Sequential!Identity(path) = Identity(path)
BY SameClean DEF Sequential!Identity, Identity, Sequential!Join, Join,
                 Sequential!IsAbsolute, IsAbsolute, Sequential!Root, Root

LEMMA SameShown ==
  ASSUME NEW input, NEW node  PROVE Sequential!Shown(input, node) = Shown(input, node)
BY SameClean, SameIdentity DEF Sequential!Shown, Shown, Sequential!Beneath, Beneath

LEMMA SameKindOf ==
  ASSUME NEW t, NEW node  PROVE Sequential!KindOf(t, node) = KindOf(t, node)
BY DEF Sequential!KindOf, KindOf

LEMMA SameLook ==
  ASSUME NEW t, NEW opts, NEW path
  PROVE  /\ Sequential!WalkFails(t, opts, path) = WalkFails(t, opts, path)
         /\ Sequential!IsDirectory(t, path) = IsDirectory(t, path)
         /\ Sequential!IsMissing(t, opts, path) = IsMissing(t, opts, path)
BY SameKindOf, SameIdentity
DEF Sequential!WalkFails, WalkFails, Sequential!IsDirectory, IsDirectory,
    Sequential!IsMissing, IsMissing

LEMMA SameVisited ==
  ASSUME NEW t, NEW opts, NEW root
  PROVE  Sequential!Visited(t, opts, root) = Visited(t, opts, root)
BY DEF Sequential!Visited, Visited, Sequential!KindOf, KindOf, Sequential!StartsWith, StartsWith,
       Sequential!IsPrefix, IsPrefix, Sequential!PassesOver, PassesOver,
       Sequential!IsHiddenName, IsHiddenName, Sequential!Last, Last

LEMMA SameFilters ==
  ASSUME NEW opts, NEW path
  PROVE  /\ Sequential!Admits(opts, path, Cwd) = Admits(opts, path, Cwd)
         /\ Sequential!FiltersCompile(opts) = FiltersCompile(opts)
BY DEF Sequential!Admits, Admits, Sequential!AdmitsRelative, AdmitsRelative,
       Sequential!Matches, Matches, Sequential!StripPrefix, StripPrefix,
       Sequential!StartsWith, StartsWith, Sequential!Beneath, Beneath,
       Sequential!IsPrefix, IsPrefix, Sequential!IsStrictPrefix, IsStrictPrefix,
       Sequential!IsSuffix, IsSuffix, Sequential!Reverse, Reverse,
       Sequential!FiltersCompile, FiltersCompile, Sequential!Malformed, Malformed

LEMMA SameOrder ==
  ASSUME NEW S  PROVE Sequential!InOrder(S) = InOrder(S)
BY DEF Sequential!InOrder, InOrder, Sequential!Ranked, Ranked, Sequential!Less, Less,
       Sequential!AntiFunction, AntiFunction,
       Sequential!Inverse, Inverse, Sequential!Range, Range, Sequential!Cardinality, Cardinality

LEMMA SameSequences ==
  ASSUME NEW S, NEW seqs
  PROVE  /\ Sequential!SetToSeq(S) = SetToSeq(S)
         /\ Sequential!FlattenSeq(seqs) = FlattenSeq(seqs)
BY DEF Sequential!SetToSeq, SetToSeq, Sequential!Cardinality, Cardinality,
       Sequential!IsInjective, IsInjective, Sequential!FlattenSeq, FlattenSeq

LEMMA SameOutcome ==
  ASSUME NEW t, NEW opts, NEW path
  PROVE  Sequential!OutcomeOf(t, opts, path) = OutcomeOf(t, opts, path)
BY SameKindOf, SameIdentity
DEF Sequential!OutcomeOf, OutcomeOf, Sequential!Skipped, Skipped, Sequential!Failed, Failed,
    Sequential!Measured, Measured, Sequential!Last, Last, Sequential!Texts, Texts,
    Sequential!Unreadable, Unreadable, Sequential!Symlink, Symlink,
    Sequential!Unsupported, Unsupported, Sequential!Oversized, Oversized,
    Sequential!Binary, Binary

LEMMA SameTotals ==
  ASSUME NEW files
  PROVE  Sequential!TotalsOf(files) = TotalsOf(files)
BY DEF Sequential!TotalsOf, TotalsOf, Sequential!AddFile, AddFile, Sequential!NoTotals, NoTotals,
       Sequential!Overflow, Overflow, Sequential!FoldLeft, FoldLeft,
       Sequential!MapThenFoldSet, MapThenFoldSet, Sequential!Max, Max

LEMMA SameLanguages ==
  ASSUME NEW files
  PROVE  Sequential!LanguageList(files) = LanguageList(files)
<1>1. Sequential!ByLanguage(files) = ByLanguage(files)
  BY ZenonT(90) DEF Sequential!ByLanguage, ByLanguage, Sequential!ToSet, ToSet,
         Sequential!TotalsOf, TotalsOf, Sequential!AddFile, AddFile, Sequential!NoTotals, NoTotals,
         Sequential!Overflow, Overflow, Sequential!FoldLeft, FoldLeft,
         Sequential!MapThenFoldSet, MapThenFoldSet, Sequential!Max, Max,
         Sequential!Filtered, Filtered, Sequential!Ranked, Ranked,
         Sequential!AntiFunction, AntiFunction, Sequential!Inverse, Inverse,
         Sequential!Range, Range, Sequential!Cardinality, Cardinality
<1> QED
  BY <1>1, SMTT(60)
  DEF Sequential!LanguageList, LanguageList, Sequential!Ranked, Ranked,
      Sequential!AntiFunction, AntiFunction, Sequential!Inverse, Inverse,
      Sequential!Range, Range, Sequential!Cardinality, Cardinality

LEMMA SameAggregate ==
  ASSUME NEW measured, NEW skips
  PROVE  Sequential!Aggregate(measured, skips) = Aggregate(measured, skips)
<1>1. Sequential!SkippedSummary(skips) = SkippedSummary(skips)
  BY DEF Sequential!SkippedSummary, SkippedSummary, Sequential!Reasons, Reasons,
         Sequential!ByPath, ByPath, Sequential!Less, Less, Sequential!Sorted, Sorted,
         Sequential!Ranked, Ranked, Sequential!AntiFunction, AntiFunction,
         Sequential!Inverse, Inverse, Sequential!Range, Range, Sequential!Cardinality, Cardinality
<1>2. Sequential!Sorted(measured, Sequential!ByPath) = Sorted(measured, ByPath)
  BY DEF Sequential!ByPath, ByPath, Sequential!Less, Less, Sequential!Sorted, Sorted,
         Sequential!Ranked, Ranked, Sequential!AntiFunction, AntiFunction,
         Sequential!Inverse, Inverse, Sequential!Range, Range, Sequential!Cardinality, Cardinality
<1> QED
  BY <1>1, <1>2, SameTotals, SameLanguages
  DEF Sequential!Aggregate, Aggregate, Sequential!Overflow, Overflow

LEMMA SameParts ==
  ASSUME NEW outcomes_
  PROVE  /\ Sequential!Filtered(outcomes_, Sequential!IsMeasured) = Filtered(outcomes_, IsMeasured)
         /\ Sequential!Filtered(outcomes_, Sequential!IsSkipped) = Filtered(outcomes_, IsSkipped)
         /\ Sequential!HasFailed(outcomes_) = HasFailed(outcomes_)
BY DEF Sequential!Filtered, Filtered, Sequential!Ranked, Ranked,
       Sequential!AntiFunction, AntiFunction, Sequential!Inverse, Inverse,
       Sequential!Range, Range, Sequential!Cardinality, Cardinality,
       Sequential!IsMeasured, IsMeasured, Sequential!IsSkipped, IsSkipped,
       Sequential!HasFailed, HasFailed

\* What an input leads to is the same as well.
LEMMA SequentialSets ==
  ASSUME NEW at, NEW i
  PROVE  /\ Sequential!Files(at, i) = FilesOf(history[at[i]], options, inputs[i])
         /\ Sequential!Unread(at, i) = UnreadOf(history[at[i]], options, inputs[i])
BY SameClean, SameIdentity, SameShown, SameLook, SameVisited, SameFilters
DEF Sequential!Files, FilesOf, Sequential!Unread, UnreadOf, options, inputs,
    Sequential!options, Sequential!inputs, Sequential!Skipped, Skipped,
    Sequential!Unreadable, Unreadable

-----------------------------------------------------------------------------
(* The invariant *)

\* The file systems there have been, and how far the inputs have been looked at.
TypeInv ==
  /\ history \in Seq([Nodes -> Kinds]) /\ history # <<>> /\ tree = Last(history)
  /\ request \in Requests
  /\ next \in 1 .. Len(inputs) + 1
  /\ next > 1 => FiltersCompile(options)
  /\ DOMAIN reading = Workers

\* Input i was looked at when the file system was history[at[i]], one input after the
\* other, and what is found and skipped is what they led to then.
Found(at, i) == FilesOf(history[at[i]], options, inputs[i])

SkipLists(at) ==
  [i \in 1 .. next - 1 |-> SetToSeq(UnreadOf(history[at[i]], options, inputs[i]))]

Looked(at) ==
  /\ at \in [1 .. next - 1 -> DOMAIN history]
  /\ \A i, j \in 1 .. next - 1 : i =< j => at[i] =< at[j]
  /\ \A i \in 1 .. next - 1 : ~IsMissing(history[at[i]], options, Clean(inputs[i]))
  /\ DOMAIN found = UNION {Found(at, i) : i \in 1 .. next - 1}
  /\ \A node \in DOMAIN found : \E i \in 1 .. next - 1 :
       /\ node \in Found(at, i) /\ \A j \in 1 .. i - 1 : node \notin Found(at, j)
       /\ found[node] = Shown(Clean(inputs[i]), node)
  /\ skipped = FlattenSeq(SkipLists(at))

\* An outcome is that of a path at some moment after the last look.
IsRead(at, path, outcome) ==
  \E k \in at[Len(inputs)] .. Len(history) : outcome = OutcomeOf(history[k], options, path)

\* What the pool has.
Counted(at) ==
  IF paths = Pending
  THEN \A w \in Workers : reading[w] = Idle
  ELSE LET identities == InOrder(DOMAIN found)
       IN  /\ inputs # <<>> /\ next = Len(inputs) + 1
           /\ paths = [i \in DOMAIN identities |-> found[identities[i]]]
           /\ outcomes = [i \in DOMAIN paths |-> outcomes[i]]
           /\ \A i \in DOMAIN paths :
                outcomes[i] # Pending => IsRead(at, paths[i], outcomes[i])
           /\ \A w \in Workers : reading[w] # Idle =>
                /\ reading[w].index \in DOMAIN paths
                /\ IsRead(at, paths[reading[w].index], reading[w].outcome)

Inv == TypeInv /\ \E at \in [1 .. next - 1 -> DOMAIN history] : Looked(at) /\ Counted(at)

-----------------------------------------------------------------------------
(* Facts about what a scan looks at *)

LEMMA InputsAreSequences == TypeInv => inputs \in Seq(Seq(Int)) /\ Len(inputs) \in Nat
BY ScanAssumption DEF TypeInv, inputs

\* The history goes from its first file system to the present one.
LEMMA HistoryIs ==
  TypeInv => /\ Len(history) \in Nat \ {0} /\ DOMAIN history = 1 .. Len(history)
             /\ Len(history) \in DOMAIN history /\ tree = history[Len(history)]
             /\ \A k \in DOMAIN history : history[k] \in [Nodes -> Kinds]
BY DEF TypeInv, Last

\* What an input that is there leads to are nodes.
LEMMA FilesAreNodes ==
  ASSUME NEW t, NEW opts, NEW path, ~IsMissing(t, opts, Clean(path))
  PROVE  FilesOf(t, opts, path) \subseteq Nodes
<1> DEFINE input == Clean(path)
           root  == Identity(input)
<1>1. root \in Nodes
  BY DEF IsMissing, KindOf
<1>2. Visited(t, opts, root) \subseteq Nodes
  BY DEF Visited
<1> HIDE DEF root, input
<1> QED
  BY <1>1, <1>2 DEF FilesOf, root, input

\* Everything that is found is a node.
LEMMA FoundAreNodes ==
  ASSUME NEW at, TypeInv, Looked(at)
  PROVE  DOMAIN found \in SUBSET Seq(Int) /\ IsFiniteSet(DOMAIN found)
<1>1. \A i \in 1 .. next - 1 : Found(at, i) \subseteq Nodes
  BY FilesAreNodes DEF Looked, Found
<1>2. DOMAIN found \in SUBSET Nodes
  BY <1>1 DEF Looked
<1> QED
  BY <1>2, FileSystemAssumption, FS_Subset

\* The paths that cannot be read are finitely many.
LEMMA UnreadIsFinite ==
  ASSUME NEW t, NEW opts, NEW path
  PROVE  IsFiniteSet(UnreadOf(t, opts, path))
<1> DEFINE input  == Clean(path)
           root   == Identity(input)
           failing == {node \in Visited(t, opts, root) : IsDirectory(t, root) /\ WalkFails(t, opts, node)}
           skip   == [node \in failing |-> Skipped(Shown(input, node), Unreadable)]
<1>1. failing \in SUBSET Nodes
  BY DEF Visited
<1>2. UnreadOf(t, opts, path) = {skip[node] : node \in failing}
  BY DEF UnreadOf
<1> HIDE DEF failing, skip
<1>3. IsFiniteSet(failing)
  BY <1>1, FileSystemAssumption, FS_Subset
<1>4. skip \in Surjection(failing, {skip[node] : node \in failing})
  BY DEF Surjection, skip
<1> QED
  BY <1>2, <1>3, <1>4, FS_Surjection

-----------------------------------------------------------------------------
(* The path under which a node is shown leads to the node. *)

LEMMA IdentityType ==
  ASSUME NEW path \in Seq(Int)
  PROVE  Join(Cwd, path) \in Seq(Int) /\ Identity(path) \in Seq(Int) /\ Identity(path) # <<>>
<1>1. Join(Cwd, path) \in Seq(Int)
  BY FileSystemAssumption DEF Join
<1> QED
  BY <1>1, CleanIs DEF Identity

\* A node below another path is that path and names.
LEMMA BeneathIs ==
  ASSUME NEW node \in Nodes, NEW root \in Seq(Int), root # <<>>, StartsWith(node, root)
  PROVE  /\ Beneath(node, root) \in Seq(Nat)
         /\ node = root \o Beneath(node, root)
         /\ root[1] = Root
<1>1. node \in Seq(Int) /\ node[1] = Root /\ \A k \in 2 .. Len(node) : node[k] \in Nat
  BY FileSystemAssumption DEF IsAbsolute
<1>2. PICK n \in Nat : n = Len(root)
  OBVIOUS
<1>3. n > 0 /\ n =< Len(node) /\ root = SubSeq(node, 1, n)
  BY <1>1, <1>2 DEF StartsWith, IsPrefix
<1>4. Beneath(node, root) = SubSeq(node, n + 1, Len(node))
  BY <1>2 DEF Beneath
<1>5. SubSeq(node, n + 1, Len(node)) \in Seq(Nat)
  BY <1>1, <1>3
<1>6. node = SubSeq(node, 1, n) \o SubSeq(node, n + 1, Len(node))
  BY <1>1, <1>3, SplitAt
<1>7. root[1] = Root
  BY <1>1, <1>3
<1> QED
  BY <1>3, <1>4, <1>5, <1>6, <1>7

LEMMA ShownIdentity ==
  ASSUME NEW path \in Seq(Int), NEW node \in Nodes, StartsWith(node, Identity(Clean(path)))
  PROVE  Identity(Shown(Clean(path), node)) = node
<1>1. PICK input \in Seq(Int) : input = Clean(path)
  BY CleanIs
<1>2. input # <<>> /\ (input = <<Here>> \/ Folded(input) = input)
  BY <1>1, CleanIs
<1>3. PICK root \in Seq(Int) : root = Identity(input)
  BY IdentityType
<1>4. root # <<>>
  BY <1>3, IdentityType
<1>5. PICK names \in Seq(Nat) : names = Beneath(node, root)
  BY <1>1, <1>3, <1>4, BeneathIs
<1>6. node = root \o names /\ root[1] = Root
  BY <1>1, <1>3, <1>4, <1>5, BeneathIs
<1>7. Shown(Clean(path), node) = Clean(input \o names)
  BY <1>1, <1>3, <1>5 DEF Shown
<1>8. CASE Folded(input) = input
  <2>1. input \o names \in Seq(Int) /\ input \o names # <<>> /\ (input \o names)[1] = input[1]
    BY <1>2
  <2>2. Clean(input \o names) = input \o names
    BY <1>8, <2>1, CleanNames
  <2>3. PICK joined \in Seq(Int) : joined = Join(Cwd, input)
    BY IdentityType
  <2>4. root = Clean(joined)
    BY <1>3, <2>3 DEF Identity
  <2>5. Join(Cwd, input \o names) = joined \o names
    <3>1. CASE IsAbsolute(input)
      BY <3>1, <2>1, <2>3 DEF Join, IsAbsolute
    <3>2. CASE ~IsAbsolute(input)
      <4>1. ~IsAbsolute(input \o names)
        BY <3>2, <2>1, <1>2 DEF IsAbsolute
      <4>2. Cwd \o (input \o names) = (Cwd \o input) \o names
        <5>1. PICK cwd \in Seq(Int) : cwd = Cwd
          BY FileSystemAssumption
        <5>2. PICK tail \in Seq(Int) : tail = names
          OBVIOUS
        <5>3. input \in Seq(Int)
          OBVIOUS
        <5>4. (cwd \o input) \o tail = cwd \o (input \o tail)
          BY ZenonT(30), <5>3, ConcatTwice
        <5> QED
          BY <5>1, <5>2, <5>4
      <4> QED
        BY <4>1, <4>2, <3>2, <2>3 DEF Join
    <3> QED
      BY <3>1, <3>2
  <2>6. Folded(joined) = root
    <3>1. <<Here>>[1] # Root
      BY DEF Here, Root
    <3>2. root # <<Here>>
      BY <3>1, <1>6
    <3> QED
      BY <3>2, <2>4, CleanIs
  <2>7. root \o names # <<>>
    BY <1>4
  <2>8. Clean(joined \o names) = root \o names
    BY <2>6, <2>7, CleanNames
  <2> QED
    BY <1>6, <1>7, <2>2, <2>5, <2>8 DEF Identity
<1>9. CASE input = <<Here>>
  <2>1. Clean(input \o names) = IF names = <<>> THEN <<Here>> ELSE names
    <3>1. Folded(input \o names) = <<>> \o names
      BY <1>9, FoldedNames, FoldedHere
    <3>2. <<>> \o names = names
      OBVIOUS
    <3> QED
      BY <3>1, <3>2 DEF Clean, Folded
  <2>2. CASE names = <<>>
    <3>1. root \o names = root
      BY <2>2
    <3> QED
      BY <3>1, <2>1, <2>2, <1>3, <1>6, <1>7, <1>9
  <2>3. CASE names # <<>>
    <3>1. names[1] \in Nat /\ names \in Seq(Int)
      BY <2>3
    <3>2. Join(Cwd, names) = Cwd \o names
      BY <3>1 DEF Join, IsAbsolute, Root
    <3>3. Folded(Cwd) = root
      <4>1. ~IsAbsolute(<<Here>>)
        BY DEF IsAbsolute, Here, Root
      <4>2. root = Clean(Append(Cwd, Here))
        <5>1. Cwd \o <<Here>> = Append(Cwd, Here)
          BY FileSystemAssumption
        <5> QED
          BY <5>1, <4>1, <1>3, <1>9 DEF Identity, Join
      <4>3. Folded(Append(Cwd, Here)) = Folded(Cwd)
        <5>0. Cwd \in Seq(Int) /\ Here \in Int
          BY FileSystemAssumption DEF Here
        <5>1. Folded(Append(Cwd, Here)) = Push(Folded(Cwd), Here)
          BY <5>0, FoldedAppend
        <5> QED
          BY <5>1 DEF Push, Here, Up
      <4>4. root # <<Here>>
        <5>1. <<Here>>[1] # Root
          BY DEF Here, Root
        <5> QED
          BY <5>1, <1>6
      <4> QED
        BY <4>2, <4>3, <4>4 DEF Clean, Folded
    <3>4. root \o names # <<>>
      BY <1>4
    <3>5. Clean(Cwd \o names) = root \o names
      BY <3>3, <3>4, FileSystemAssumption, CleanNames
    <3> QED
      BY <2>1, <2>3, <3>2, <3>5, <1>6, <1>7 DEF Identity
  <2> QED
    BY <2>2, <2>3
<1> QED
  BY <1>2, <1>8, <1>9

-----------------------------------------------------------------------------
(* The invariant holds *)

LEMMA InitInv == Init => Inv
<1> SUFFICES ASSUME Init  PROVE Inv
  OBVIOUS
<1>1. /\ tree \in [Nodes -> Kinds] /\ history = <<tree>> /\ request \in Requests
      /\ next = 1 /\ found = <<>> /\ skipped = <<>> /\ paths = Pending
      /\ reading = [w \in Workers |-> Idle]
  BY ScanAssumption DEF Init
<1>2. TypeInv
  <2>1. inputs \in Seq(Seq(Int))
    BY <1>1, ScanAssumption DEF inputs
  <2>2. next \in 1 .. Len(inputs) + 1
    BY <1>1, <2>1
  <2> QED
    BY <1>1, <2>2 DEF TypeInv, Last
<1>3. PICK at : at \in [1 .. next - 1 -> DOMAIN history]
  <2>1. [i \in 1 .. next - 1 |-> 1] \in [1 .. next - 1 -> DOMAIN history]
    BY <1>1
  <2> QED
    BY <2>1
<1>4. 1 .. next - 1 = {}
  BY <1>1
<1>5. skipped = FlattenSeq(SkipLists(at))
  <2>1. SkipLists(at) = <<>>
    BY <1>4 DEF SkipLists
  <2> QED
    BY <1>1, <2>1, FlattenSeqOfNone
<1>6. Looked(at)
  BY <1>1, <1>3, <1>4, <1>5 DEF Looked
<1>7. Counted(at)
  BY <1>1 DEF Counted
<1> QED
  BY <1>2, <1>3, <1>6, <1>7 DEF Inv

\* What the scan has returned is no part of it.
LEMMA ReturnInv ==
  ASSUME Inv, UNCHANGED <<disk, request, next, found, skipped, paths, reading, outcomes>>
  PROVE  Inv'
<1>1. /\ tree' = tree /\ history' = history /\ request' = request /\ next' = next
      /\ found' = found /\ skipped' = skipped /\ paths' = paths /\ reading' = reading
      /\ outcomes' = outcomes
  BY DEF disk
<1>2. options' = options /\ inputs' = inputs
  BY <1>1 DEF options, inputs
<1>3. TypeInv'
  BY <1>1, <1>2 DEF Inv, TypeInv
<1>4. PICK at \in [1 .. next - 1 -> DOMAIN history] : Looked(at) /\ Counted(at)
  BY DEF Inv
<1>5. SkipLists(at)' = SkipLists(at) /\ \A i : Found(at, i)' = Found(at, i)
  BY <1>1, <1>2 DEF SkipLists, Found
<1>6. Looked(at)'
  BY <1>1, <1>2, <1>4, <1>5 DEF Looked
<1>7. \A path, outcome : IsRead(at, path, outcome)' = IsRead(at, path, outcome)
  BY <1>1, <1>2 DEF IsRead
<1>8. Counted(at)'
  BY <1>1, <1>2, <1>4, <1>7 DEF Counted
<1> QED
  BY <1>1, <1>3, <1>4, <1>6, <1>8 DEF Inv

\* A change leaves the file systems that there have been as they are.
LEMMA ChangeKeepsHistory ==
  ASSUME TypeInv, Change
  PROVE  /\ history' \in Seq([Nodes -> Kinds]) /\ history' # <<>> /\ tree' = Last(history')
         /\ Len(history') = Len(history) + 1 /\ DOMAIN history \subseteq DOMAIN history'
         /\ \A k \in DOMAIN history : history'[k] = history[k]
         /\ UNCHANGED <<request, next, found, skipped, paths, reading, outcomes, result>>
<1>1. PICK change \in Changes : tree' = [tree EXCEPT ![change[1]] = change[2]]
  BY DEF Change
<1>2. change[1] \in Nodes /\ change[2] \in Kinds
  BY ScanAssumption
<1>3. tree \in [Nodes -> Kinds]
  BY HistoryIs
<1>4. tree' \in [Nodes -> Kinds]
  BY <1>1, <1>2, <1>3
<1>5. history' = Append(history, tree') /\ history \in Seq([Nodes -> Kinds])
  BY DEF Change, TypeInv
<1>6. /\ history' \in Seq([Nodes -> Kinds]) /\ history' # <<>>
      /\ Len(history) \in Nat /\ Len(history') = Len(history) + 1
      /\ history'[Len(history) + 1] = tree'
      /\ \A k \in 1 .. Len(history) : history'[k] = history[k]
  BY <1>4, <1>5, AppendIs
<1>7. tree' = Last(history')
  BY <1>6 DEF Last
<1>8. DOMAIN history = 1 .. Len(history) /\ DOMAIN history' = 1 .. Len(history) + 1
  BY <1>5, <1>6
<1>9. DOMAIN history \subseteq DOMAIN history'
  BY <1>6, <1>8
<1>10. UNCHANGED <<request, next, found, skipped, paths, reading, outcomes, result>>
  BY DEF Change
<1> QED
  BY <1>6, <1>7, <1>8, <1>9, <1>10

LEMMA ChangeInv ==
  ASSUME Inv, Change
  PROVE  Inv'
<1>1. TypeInv
  BY DEF Inv
<1>2. /\ history' \in Seq([Nodes -> Kinds]) /\ history' # <<>> /\ tree' = Last(history')
      /\ Len(history') = Len(history) + 1 /\ DOMAIN history \subseteq DOMAIN history'
      /\ \A k \in DOMAIN history : history'[k] = history[k]
      /\ request' = request /\ next' = next /\ found' = found /\ skipped' = skipped
      /\ paths' = paths /\ reading' = reading /\ outcomes' = outcomes
  BY <1>1, ChangeKeepsHistory
<1>3. options' = options /\ inputs' = inputs
  BY <1>2 DEF options, inputs
<1>4. TypeInv'
  BY <1>1, <1>2, <1>3 DEF TypeInv
<1>5. PICK at \in [1 .. next - 1 -> DOMAIN history] : Looked(at) /\ Counted(at)
  BY DEF Inv
<1>6. \A i \in 1 .. next - 1 : at[i] \in DOMAIN history /\ history'[at[i]] = history[at[i]]
  BY <1>2, <1>5
<1>7. \A i \in 1 .. next - 1 : Found(at, i)' = Found(at, i)
  BY <1>2, <1>3, <1>6 DEF Found
<1>8. SkipLists(at)' = SkipLists(at)
  BY <1>2, <1>3, <1>6 DEF SkipLists
<1>9. at \in [1 .. next' - 1 -> DOMAIN history']
  BY <1>2, <1>5
<1>10. Looked(at)'
  <2>1. DOMAIN found' = UNION {Found(at, i)' : i \in 1 .. next' - 1}
    BY <1>2, <1>5, <1>7 DEF Looked
  <2>2. \A i \in 1 .. next' - 1 : ~IsMissing(history'[at[i]], options', Clean(inputs'[i]))
    BY <1>2, <1>3, <1>5, <1>6 DEF Looked
  <2>3. \A node \in DOMAIN found' : \E i \in 1 .. next' - 1 :
          /\ node \in Found(at, i)' /\ \A j \in 1 .. i - 1 : node \notin Found(at, j)'
          /\ found'[node] = Shown(Clean(inputs'[i]), node)
    <3> SUFFICES ASSUME NEW node \in DOMAIN found
                 PROVE  \E i \in 1 .. next - 1 :
                          /\ node \in Found(at, i)' /\ \A j \in 1 .. i - 1 : node \notin Found(at, j)'
                          /\ found[node] = Shown(Clean(inputs[i]), node)
      BY <1>2, <1>3
    <3>1. PICK i \in 1 .. next - 1 :
            /\ node \in Found(at, i) /\ \A j \in 1 .. i - 1 : node \notin Found(at, j)
            /\ found[node] = Shown(Clean(inputs[i]), node)
      BY <1>5 DEF Looked
    <3>2. next \in Nat
      BY <1>1, InputsAreSequences DEF TypeInv
    <3>3. \A j \in 1 .. i - 1 : j \in 1 .. next - 1
      BY <3>2
    <3> QED
      BY <3>1, <3>3, <1>7
  <2> QED
    BY <1>2, <1>5, <1>8, <1>9, <2>1, <2>2, <2>3 DEF Looked
<1>11. Counted(at)'
  <2>1. CASE paths = Pending
    BY <2>1, <1>2, <1>5 DEF Counted
  <2>2. CASE paths # Pending
    <3>1. inputs # <<>> /\ next = Len(inputs) + 1
      BY <2>2, <1>5 DEF Counted
    <3>2. Len(inputs) \in 1 .. next - 1
      BY <3>1, <1>1, InputsAreSequences
    <3>3. at[Len(inputs)] \in Nat /\ Len(history) \in Nat /\ DOMAIN history = 1 .. Len(history)
      BY <3>2, <1>6, <1>1, HistoryIs
    <3>4. \A path, outcome : IsRead(at, path, outcome) => IsRead(at, path, outcome)'
      <4> SUFFICES ASSUME NEW path, NEW outcome, IsRead(at, path, outcome)
                   PROVE  IsRead(at, path, outcome)'
        OBVIOUS
      <4>1. PICK k \in at[Len(inputs)] .. Len(history) : outcome = OutcomeOf(history[k], options, path)
        BY DEF IsRead
      <4>2. k \in DOMAIN history /\ k \in at[Len(inputs)] .. Len(history')
        BY <3>2, <3>3, <1>2, <1>6
      <4>3. outcome = OutcomeOf(history'[k], options', path)
        BY <4>1, <4>2, <1>2, <1>3
      <4> QED
        BY <4>2, <4>3, <1>3 DEF IsRead
    <3> QED
      BY <2>2, <3>4, <1>2, <1>3, <1>5 DEF Counted
  <2> QED
    BY <2>1, <2>2
<1> QED
  BY <1>4, <1>9, <1>10, <1>11 DEF Inv

\* Discover looks at the next input, as the file system is.
LEMMA DiscoverLooks ==
  ASSUME TypeInv, Discover
  PROVE  /\ next \in 1 .. Len(inputs) /\ FiltersCompile(options)
         /\ ~IsMissing(tree, options, Clean(inputs[next]))
         /\ found' = [node \in DOMAIN found \cup FilesOf(tree, options, inputs[next]) |->
                        IF node \in DOMAIN found THEN found[node]
                        ELSE Shown(Clean(inputs[next]), node)]
         /\ \/ skipped' = skipped \o SetToSeq(UnreadOf(tree, options, inputs[next]))
            \/ skipped' = skipped /\ UnreadOf(tree, options, inputs[next]) = {}
         /\ next' = next + 1
         /\ UNCHANGED <<disk, request, paths, reading, outcomes, result>>
<1> DEFINE input == Clean(inputs[next])
           root  == Identity(input)
<1>1. next \in 1 .. Len(inputs)
  BY InputsAreSequences DEF TypeInv, Discover
<1>2. /\ FiltersCompile(options) /\ ~IsMissing(tree, options, input) /\ next' = next + 1
      /\ UNCHANGED <<disk, request, paths, reading, outcomes, result>>
  BY DEF Discover
<1> DEFINE FoundMore ==
             found' = [node \in DOMAIN found \cup FilesOf(tree, options, inputs[next]) |->
                         IF node \in DOMAIN found THEN found[node] ELSE Shown(input, node)]
           SkippedMore ==
             \/ skipped' = skipped \o SetToSeq(UnreadOf(tree, options, inputs[next]))
             \/ skipped' = skipped /\ UnreadOf(tree, options, inputs[next]) = {}
<1>3. ASSUME IsDirectory(tree, root)  PROVE FoundMore /\ SkippedMore
  <2> DEFINE visited == Visited(tree, options, root)
             files   == {node \in visited : ~IsDirectory(tree, node) /\ ~WalkFails(tree, options, node)}
             errors  == {[path |-> Shown(input, node), reason |-> Unreadable] :
                           node \in {node \in visited : WalkFails(tree, options, node)}}
  <2>1. DiscoverDirectory(input)
    BY <1>3 DEF Discover
  <2>2. Insert(input, files) /\ skipped' = skipped \o SetToSeq(errors)
    BY <2>1 DEF DiscoverDirectory
  <2>3. FilesOf(tree, options, inputs[next]) = {node \in files : Admits(options, Shown(input, node), Cwd)}
    BY <1>3 DEF FilesOf
  <2>4. UnreadOf(tree, options, inputs[next]) = errors
    BY <1>3 DEF UnreadOf, Skipped
  <2>5. FoundMore
    BY <2>2, <2>3 DEF Insert
  <2> QED
    BY <2>2, <2>4, <2>5
<1>4. ASSUME ~IsDirectory(tree, root)  PROVE FoundMore /\ SkippedMore
  <2>1. Insert(input, {root}) /\ skipped' = skipped
    BY <1>4 DEF Discover
  <2>2. FilesOf(tree, options, inputs[next]) = {node \in {root} : Admits(options, Shown(input, node), Cwd)}
    BY <1>4 DEF FilesOf
  <2>3. UnreadOf(tree, options, inputs[next]) = {}
    BY <1>4 DEF UnreadOf
  <2>4. FoundMore
    BY <2>1, <2>2 DEF Insert
  <2> QED
    BY <2>1, <2>3, <2>4
<1>5. FoundMore /\ SkippedMore
  BY <1>3, <1>4
<1> QED
  BY <1>1, <1>2, <1>5

\* One more input lengthens what is skipped by what cannot be read there.
LEMMA SkipsOfOneMore ==
  ASSUME NEW at, TypeInv, next \in 1 .. Len(inputs),
         UNCHANGED <<history, request>>, next' = next + 1,
         NEW later, Agree(later, at, next - 1)
  PROVE  LET unread == UnreadOf(history[later[next]], options, inputs[next])
         IN  /\ FlattenSeq(SkipLists(later)') = FlattenSeq(SkipLists(at)) \o SetToSeq(unread)
             /\ unread = {} => FlattenSeq(SkipLists(later)') = FlattenSeq(SkipLists(at))
<1>1. options' = options /\ inputs' = inputs
  BY DEF options, inputs
<1> DEFINE list(i) == SetToSeq(UnreadOf(history[later[i]], options, inputs[i]))
<1>2. \A i \in 1 .. next : list(i) \in Seq(UnreadOf(history[later[i]], options, inputs[i]))
  BY UnreadIsFinite, SetToSeqLists
<1>3. PICK n \in Nat : n = next - 1
  BY InputsAreSequences
<1>4. SkipLists(at) = [i \in 1 .. n |-> list(i)]
  BY <1>3 DEF SkipLists, Agree
<1>5. SkipLists(later)' = [i \in 1 .. n + 1 |-> list(i)]
  BY <1>1, <1>3 DEF SkipLists
<1> DEFINE T == {list(i) : i \in 1 .. n + 1}
<1> HIDE DEF list
<1>6. [i \in 1 .. n |-> list(i)] \in Seq(T) /\ list(n + 1) \in T
  OBVIOUS
<1>7. Append([i \in 1 .. n |-> list(i)], list(n + 1)) = [i \in 1 .. n + 1 |-> list(i)]
  OBVIOUS
<1>8. PICK S : list(n + 1) \in Seq(S)
  BY <1>2, <1>3
<1>9. next = n + 1
  BY <1>3
<1>10. FlattenSeq([i \in 1 .. n + 1 |-> list(i)]) = FlattenSeq([i \in 1 .. n |-> list(i)]) \o list(n + 1)
  <2> HIDE DEF T
  <2>1. PICK first \in Seq(T) : first = [i \in 1 .. n |-> list(i)]
    BY <1>6
  <2>2. PICK last \in Seq(S) : last = list(n + 1) /\ last \in T
    BY <1>6, <1>8
  <2>3. FlattenSeq(Append(first, last)) = FlattenSeq(first) \o last
    BY <2>2, FlattenSeqAppends
  <2> QED
    BY <1>7, <2>1, <2>2, <2>3
<1>11. FlattenSeq([i \in 1 .. n |-> list(i)]) \o <<>> = FlattenSeq([i \in 1 .. n |-> list(i)])
  <2> DEFINE All == UNION {UnreadOf(history[later[i]], options, inputs[i]) : i \in 1 .. next}
  <2>1. \A i \in 1 .. next : UnreadOf(history[later[i]], options, inputs[i]) \subseteq All
    OBVIOUS
  <2> HIDE DEF All
  <2>2. \A A : A \subseteq All => Seq(A) \subseteq Seq(All)
    OBVIOUS
  <2>3. \A i \in 1 .. next : list(i) \in Seq(All)
    BY <1>2, <2>1, <2>2
  <2>4. T \subseteq Seq(All)
    BY <1>9, <2>3
  <2> HIDE DEF T
  <2>5. FlattenSeq([i \in 1 .. n |-> list(i)]) \in Seq(All)
    BY <1>6, <2>4, FlattenSeqType
  <2>6. \A a \in Seq(All) : a \o <<>> = a
    OBVIOUS
  <2> QED
    BY <2>5, <2>6
<1> QED
  BY <1>4, <1>5, <1>9, <1>10, <1>11, SetToSeqOfNone DEF list

LEMMA DiscoverInv ==
  ASSUME Inv, Discover
  PROVE  Inv'
<1>1. TypeInv
  BY DEF Inv
<1> DEFINE more == FilesOf(tree, options, inputs[next])
<1>2. /\ next \in 1 .. Len(inputs) /\ FiltersCompile(options)
      /\ ~IsMissing(tree, options, Clean(inputs[next]))
      /\ found' = [node \in DOMAIN found \cup more |->
                     IF node \in DOMAIN found THEN found[node] ELSE Shown(Clean(inputs[next]), node)]
      /\ \/ skipped' = skipped \o SetToSeq(UnreadOf(tree, options, inputs[next]))
         \/ skipped' = skipped /\ UnreadOf(tree, options, inputs[next]) = {}
      /\ next' = next + 1
      /\ tree' = tree /\ history' = history /\ request' = request
      /\ paths' = paths /\ reading' = reading /\ outcomes' = outcomes
  BY <1>1, DiscoverLooks DEF disk
<1> HIDE DEF more
<1>3. options' = options /\ inputs' = inputs /\ next \in Nat
  BY <1>1, <1>2, InputsAreSequences DEF options, inputs
<1>4. TypeInv'
  BY <1>1, <1>2, <1>3, InputsAreSequences DEF TypeInv
<1>5. PICK at \in [1 .. next - 1 -> DOMAIN history] : Looked(at) /\ Counted(at)
  BY DEF Inv
<1>6. /\ Len(history) \in DOMAIN history /\ tree = history[Len(history)]
      /\ DOMAIN history = 1 .. Len(history) /\ Len(history) \in Nat
  BY <1>1, HistoryIs
<1>a. PICK later : later = [i \in 1 .. next |-> IF i = next THEN Len(history) ELSE at[i]]
  OBVIOUS
<1>b. PICK n \in Nat : n = next
  BY <1>3
<1>7. /\ later \in [1 .. next' - 1 -> DOMAIN history']
      /\ later[next] = Len(history) /\ \A i \in 1 .. next - 1 : later[i] = at[i]
  BY <1>2, <1>3, <1>5, <1>6, <1>a
<1>8. \A i \in 1 .. next : i = next \/ i \in 1 .. next - 1
  BY <1>3
<1>9. \A i, j \in 1 .. next : i =< j => later[i] =< later[j]
  <2> SUFFICES ASSUME NEW i \in 1 .. next, NEW j \in 1 .. next, i =< j
               PROVE  later[i] =< later[j]
    OBVIOUS
  <2>1. CASE j = next
    <3>1. later[i] \in 1 .. Len(history)
      BY <1>2, <1>3, <1>6, <1>7
    <3> QED
      BY <2>1, <3>1, <1>6, <1>7
  <2>2. CASE j # next
    <3>1. i \in 1 .. next - 1 /\ j \in 1 .. next - 1
      BY <2>2, <1>3
    <3> QED
      BY <3>1, <1>5, <1>7 DEF Looked
  <2> QED
    BY <2>1, <2>2
<1>10. \A i \in 1 .. next - 1 : Found(later, i)' = Found(at, i)
  BY <1>2, <1>3, <1>7 DEF Found
<1>11. Found(later, n)' = more
  BY <1>2, <1>3, <1>6, <1>7, <1>b DEF Found, more
<1>12. Looked(later)'
  <2>1. \A i \in 1 .. next : ~IsMissing(history[later[i]], options, Clean(inputs[i]))
    BY <1>2, <1>5, <1>6, <1>7, <1>8 DEF Looked
  <2>2. DOMAIN found' = UNION {Found(later, i)' : i \in 1 .. next}
    <3>1. DOMAIN found' = DOMAIN found \cup more
      BY <1>2
    <3>2. DOMAIN found = UNION {Found(at, i) : i \in 1 .. next - 1}
      BY <1>5 DEF Looked
    <3>3. UNION {Found(later, i)' : i \in 1 .. next}
            = (UNION {Found(at, i) : i \in 1 .. next - 1}) \cup more
      <4>1. \A i \in 1 .. next - 1 : i \in 1 .. next
        BY <1>3
      <4>2. next \in 1 .. next
        BY <1>2, <1>3
      <4> QED
        BY <4>1, <4>2, <1>8, <1>10, <1>11, <1>b
    <3> QED
      BY <3>1, <3>2, <3>3
  <2>3. \A node \in DOMAIN found' : \E i \in 1 .. next :
          /\ node \in Found(later, i)' /\ \A j \in 1 .. i - 1 : node \notin Found(later, j)'
          /\ found'[node] = Shown(Clean(inputs[i]), node)
    <3> SUFFICES ASSUME NEW node \in DOMAIN found'
                 PROVE  \E i \in 1 .. next :
                          /\ node \in Found(later, i)'
                          /\ \A j \in 1 .. i - 1 : node \notin Found(later, j)'
                          /\ found'[node] = Shown(Clean(inputs[i]), node)
      OBVIOUS
    <3>1. CASE node \in DOMAIN found
      <4>1. PICK i \in 1 .. next - 1 :
              /\ node \in Found(at, i) /\ \A j \in 1 .. i - 1 : node \notin Found(at, j)
              /\ found[node] = Shown(Clean(inputs[i]), node)
        BY <3>1, <1>5 DEF Looked
      <4>2. found'[node] = found[node]
        BY <3>1, <1>2
      <4>3. i \in 1 .. next /\ \A j \in 1 .. i - 1 : j \in 1 .. next - 1
        BY <1>3
      <4> QED
        BY <4>1, <4>2, <4>3, <1>10
    <3>2. CASE node \notin DOMAIN found
      <4>1. node \in more /\ found'[node] = Shown(Clean(inputs[next]), node)
        BY <3>2, <1>2
      <4>2. \A j \in 1 .. next - 1 : node \notin Found(at, j)
        BY <3>2, <1>5 DEF Looked
      <4>3. next \in 1 .. next
        BY <1>2, <1>3
      <4> QED
        BY <4>1, <4>2, <4>3, <1>10, <1>11, <1>b
    <3> QED
      BY <3>1, <3>2
  <2>4. skipped' = FlattenSeq(SkipLists(later)')
    <3>1. skipped = FlattenSeq(SkipLists(at))
      BY <1>5 DEF Looked
    <3>2. Agree(later, at, next - 1)
      BY <1>7 DEF Agree
    <3>3. LET unread == UnreadOf(history[later[next]], options, inputs[next])
          IN  /\ FlattenSeq(SkipLists(later)') = FlattenSeq(SkipLists(at)) \o SetToSeq(unread)
              /\ unread = {} => FlattenSeq(SkipLists(later)') = FlattenSeq(SkipLists(at))
      BY <1>1, <1>2, <3>2, SkipsOfOneMore
    <3> QED
      BY <3>1, <3>3, <1>2, <1>6, <1>7
  <2>5. next' - 1 = next
    BY <1>2, <1>3
  <2> QED
    BY <2>1, <2>2, <2>3, <2>4, <2>5, <1>2, <1>3, <1>7, <1>9 DEF Looked
<1>13. Counted(later)'
  <2>1. paths = Pending
    <3>1. next # Len(inputs) + 1
      BY <1>1, <1>2, InputsAreSequences
    <3> QED
      BY <3>1, <1>5 DEF Counted
  <2> QED
    BY <2>1, <1>2, <1>5 DEF Counted
<1> QED
  BY <1>4, <1>7, <1>12, <1>13 DEF Inv

\* Counting does not look at the inputs again.
LEMMA CountingLooked ==
  ASSUME NEW at, Looked(at), UNCHANGED <<disk, request, next, found, skipped>>
  PROVE  Looked(at)'
<1>1. /\ history' = history /\ request' = request /\ next' = next
      /\ found' = found /\ skipped' = skipped
  BY DEF disk
<1>2. options' = options /\ inputs' = inputs
  BY <1>1 DEF options, inputs
<1>3. SkipLists(at)' = SkipLists(at) /\ \A i : Found(at, i)' = Found(at, i)
  BY <1>1, <1>2 DEF SkipLists, Found
<1> QED
  BY <1>1, <1>2, <1>3 DEF Looked

\* To be in order again, it is enough that the pool is.
LEMMA CountingInv ==
  ASSUME TypeInv, UNCHANGED <<disk, request, next, found, skipped>>, DOMAIN reading' = Workers,
         NEW at \in [1 .. next - 1 -> DOMAIN history], Looked(at), Counted(at)'
  PROVE  Inv'
<1>1. /\ tree' = tree /\ history' = history /\ request' = request /\ next' = next
  BY DEF disk
<1>2. options' = options /\ inputs' = inputs
  BY <1>1 DEF options, inputs
<1>3. TypeInv'
  BY <1>1, <1>2 DEF TypeInv
<1>4. Looked(at)'
  BY CountingLooked
<1> QED
  BY <1>1, <1>3, <1>4 DEF Inv

\* Nothing is read yet when the paths go to the pool.
LEMMA StartPoolInv ==
  ASSUME Inv, StartPool
  PROVE  Inv'
<1>1. PICK at \in [1 .. next - 1 -> DOMAIN history] : Looked(at) /\ Counted(at)
  BY DEF Inv
<1> DEFINE identities == InOrder(DOMAIN found)
<1>2. /\ paths = Pending /\ inputs # <<>> /\ next > Len(inputs)
      /\ paths' = [i \in DOMAIN identities |-> found[identities[i]]]
      /\ outcomes' = [i \in DOMAIN identities |-> Pending]
      /\ UNCHANGED <<disk, request, next, found, skipped, reading>>
  BY DEF StartPool
<1>3. \A w \in Workers : reading'[w] = Idle
  BY <1>1, <1>2 DEF Counted
<1>4. inputs' = inputs /\ next = Len(inputs) + 1 /\ found' = found
  BY <1>2, InputsAreSequences DEF inputs, Inv, TypeInv
<1>5. Counted(at)'
  <2>1. InOrder(DOMAIN found)' = identities
    BY <1>4
  <2> HIDE DEF identities
  <2> QED
    BY <1>2, <1>3, <1>4, <2>1 DEF Counted
<1> QED
  BY <1>1, <1>2, <1>5, CountingInv DEF Inv, TypeInv

\* What is read, is read after the last look.
LEMMA ReadInv ==
  ASSUME Inv, NEW w \in Workers, Read(w)
  PROVE  Inv'
<1>1. PICK at \in [1 .. next - 1 -> DOMAIN history] : Looked(at) /\ Counted(at)
  BY DEF Inv
<1>2. PICK i \in DOMAIN paths :
        reading' = [reading EXCEPT ![w] = [index |-> i, outcome |-> OutcomeOf(tree, options, paths[i])]]
  BY DEF Read
<1>3. /\ paths # Pending
      /\ UNCHANGED <<disk, request, next, found, skipped, paths, outcomes>>
  BY DEF Read
<1>4. inputs # <<>> /\ next = Len(inputs) + 1 /\ TypeInv
  BY <1>1, <1>3 DEF Counted, Inv
<1>5. \A path, outcome : IsRead(at, path, outcome)' = IsRead(at, path, outcome)
  BY <1>3 DEF IsRead, options, inputs, disk
<1>6. IsRead(at, paths[i], OutcomeOf(tree, options, paths[i]))
  <2>1. Len(inputs) \in 1 .. next - 1
    BY <1>4, InputsAreSequences
  <2>2. at[Len(inputs)] \in 1 .. Len(history) /\ Len(history) \in Nat /\ tree = history[Len(history)]
    BY <2>1, <1>1, <1>4, HistoryIs
  <2>3. Len(history) \in at[Len(inputs)] .. Len(history)
    BY <2>2
  <2> QED
    BY <2>2, <2>3 DEF IsRead
<1>7. \A v \in Workers :
        reading'[v] = IF v = w THEN [index |-> i, outcome |-> OutcomeOf(tree, options, paths[i])]
                      ELSE reading[v]
  BY <1>2, <1>4 DEF TypeInv
<1>8. \A v \in Workers : reading'[v] # Idle =>
        /\ reading'[v].index \in DOMAIN paths
        /\ IsRead(at, paths[reading'[v].index], reading'[v].outcome)
  BY <1>1, <1>3, <1>6, <1>7 DEF Counted
<1>9. Counted(at)'
  BY <1>1, <1>3, <1>5, <1>8 DEF Counted, inputs
<1>10. DOMAIN reading' = Workers
  BY <1>2, <1>4 DEF TypeInv
<1> QED
  BY <1>1, <1>3, <1>4, <1>9, <1>10, CountingInv

\* The outcome goes to the path that it is of.
LEMMA DeliverInv ==
  ASSUME Inv, NEW w \in Workers, Deliver(w)
  PROVE  Inv'
<1>1. PICK at \in [1 .. next - 1 -> DOMAIN history] : Looked(at) /\ Counted(at)
  BY DEF Inv
<1>2. /\ reading[w] # Idle
      /\ outcomes' = [outcomes EXCEPT ![reading[w].index] = reading[w].outcome]
      /\ reading' = [reading EXCEPT ![w] = Idle]
      /\ UNCHANGED <<disk, request, next, found, skipped, paths>>
  BY DEF Deliver
<1>3. paths # Pending /\ TypeInv
  BY <1>1, <1>2 DEF Counted, Inv
<1>4. \A path, outcome : IsRead(at, path, outcome)' = IsRead(at, path, outcome)
  BY <1>2 DEF IsRead, options, inputs, disk
<1>5. /\ DOMAIN outcomes = DOMAIN paths
      /\ reading[w].index \in DOMAIN paths /\ IsRead(at, paths[reading[w].index], reading[w].outcome)
  BY <1>1, <1>2, <1>3 DEF Counted
<1>6. /\ outcomes' = [i \in DOMAIN paths |-> outcomes'[i]]
      /\ \A i \in DOMAIN paths :
           outcomes'[i] = IF i = reading[w].index THEN reading[w].outcome ELSE outcomes[i]
  BY <1>2, <1>5
<1>7. \A i \in DOMAIN paths : outcomes'[i] # Pending => IsRead(at, paths[i], outcomes'[i])
  BY <1>1, <1>3, <1>5, <1>6 DEF Counted
<1>8. DOMAIN reading' = Workers /\ \A v \in Workers : reading'[v] # Idle => reading'[v] = reading[v]
  BY <1>2, <1>3 DEF TypeInv
<1>9. \A v \in Workers : reading'[v] # Idle =>
        /\ reading'[v].index \in DOMAIN paths
        /\ IsRead(at, paths[reading'[v].index], reading'[v].outcome)
  BY <1>1, <1>3, <1>8 DEF Counted
<1>10. Counted(at)'
  BY <1>1, <1>2, <1>3, <1>4, <1>6, <1>7, <1>9 DEF Counted, inputs
<1> QED
  BY <1>1, <1>2, <1>3, <1>8, <1>10, CountingInv

-----------------------------------------------------------------------------

LEMMA NextInv ==
  ASSUME Inv, [Next]_vars
  PROVE  Inv'
<1>1. CASE Reject \/ MissingInput \/ Fail \/ Conclude
  BY <1>1, ReturnInv DEF Reject, MissingInput, Fail, Conclude
<1>2. CASE Discover
  BY <1>2, DiscoverInv
<1>3. CASE StartPool
  BY <1>3, StartPoolInv
<1>4. ASSUME NEW w \in Workers, Read(w)  PROVE Inv'
  BY <1>4, ReadInv
<1>5. ASSUME NEW w \in Workers, Deliver(w)  PROVE Inv'
  BY <1>5, DeliverInv
<1>6. CASE Change
  BY <1>6, ChangeInv
<1>7. CASE Finished \/ UNCHANGED vars
  <2>1. UNCHANGED <<disk, request, next, found, skipped, paths, reading, outcomes>>
    BY <1>7 DEF Finished, vars
  <2> QED
    BY <2>1, ReturnInv
<1> QED
  BY <1>1, <1>2, <1>3, <1>4, <1>5, <1>6, <1>7 DEF Next

LEMMA SpecInv == Spec => []Inv
BY InitInv, NextInv, PTL DEF Spec

-----------------------------------------------------------------------------
(* Each step that gives an answer is one of SequentialScan *)

LEMMA InitSequential == Init => Sequential!Init
BY DEF Init, Sequential!Init

LEMMA ChangeSequential ==
  ASSUME Inv, Change
  PROVE  Sequential!Change
<1>1. PICK change \in Changes : tree' = [tree EXCEPT ![change[1]] = change[2]]
  BY DEF Change
<1>2. tree = Last(history)
  BY DEF Inv, TypeInv
<1>3. /\ result = Unknown /\ history' = Append(history, tree')
      /\ request' = request /\ result' = result
  BY DEF Change
<1> QED
  BY <1>1, <1>2, <1>3 DEF Sequential!Change, Sequential!Last, Last

LEMMA RejectSequential == Reject => Sequential!Refuse
BY SameFilters
DEF Reject, Sequential!Refuse, Return, Error, Sequential!Error, disk,
    options, inputs, Sequential!options, Sequential!inputs

\* The least of a set of positions.
LEMMA MinIs ==
  ASSUME NEW S \in SUBSET Nat, NEW n \in S, \A m \in S : n =< m
  PROVE  Min(S) = n /\ Sequential!Min(S) = n
<1>1. \A m \in S : (\A k \in S : m =< k) => m = n
  BY SMT
<1> QED
  BY <1>1 DEF Min, Sequential!Min

\* An input that is missing is missed at the moment of its look.
LEMMA MissingInputSequential ==
  ASSUME Inv, MissingInput
  PROVE  Sequential!Miss
<1>1. TypeInv /\ inputs \in Seq(Seq(Int)) /\ Len(inputs) \in Nat
  BY InputsAreSequences DEF Inv
<1>2. PICK at \in [1 .. next - 1 -> DOMAIN history] : Looked(at)
  BY DEF Inv
<1>3. PICK n \in Nat : n = next
  BY <1>1 DEF TypeInv
<1>4. /\ result = Unknown /\ n \in 1 .. Len(inputs) /\ FiltersCompile(options)
      /\ IsMissing(tree, options, Clean(inputs[n])) /\ result' = Error("input", Clean(inputs[n]))
      /\ history' = history /\ request' = request
  BY <1>1, <1>3 DEF MissingInput, Return, disk, TypeInv
<1>5. inputs # <<>> /\ DOMAIN inputs = 1 .. Len(inputs)
  BY <1>1, <1>4
<1>6. /\ Len(history) \in DOMAIN history /\ tree = history[Len(history)]
      /\ DOMAIN history = 1 .. Len(history) /\ Len(history) \in Nat
  BY <1>1, HistoryIs
<1>7. PICK all : all = [i \in 1 .. Len(inputs) |-> IF i < n THEN at[i] ELSE Len(history)]
  OBVIOUS
<1>8. all \in [DOMAIN inputs -> DOMAIN history]
  BY <1>2, <1>3, <1>5, <1>6, <1>7
<1>9. \A i, j \in 1 .. Len(inputs) : i =< j => all[i] =< all[j]
  <2> SUFFICES ASSUME NEW i \in 1 .. Len(inputs), NEW j \in 1 .. Len(inputs), i =< j
               PROVE  all[i] =< all[j]
    OBVIOUS
  <2>1. CASE j < n
    <3>1. i \in 1 .. next - 1 /\ j \in 1 .. next - 1 /\ i < n
      BY <2>1, <1>3
    <3> QED
      BY <3>1, <2>1, <1>2, <1>7 DEF Looked
  <2>2. CASE ~(j < n)
    <3>1. all[j] = Len(history) /\ all[i] \in 1 .. Len(history)
      BY <2>2, <1>5, <1>6, <1>7, <1>8
    <3> QED
      BY <3>1, <1>6
  <2> QED
    BY <2>1, <2>2
<1>10. all \in Sequential!Discoveries
  BY <1>5, <1>8, <1>9 DEF Sequential!Discoveries, Sequential!inputs, inputs
<1>11. Sequential!Missing(all) = {i \in 1 .. Len(inputs) : IsMissing(history[all[i]], options, Clean(inputs[i]))}
  BY <1>5, SameLook, SameClean DEF Sequential!Missing, Sequential!inputs, inputs, Sequential!options, options
<1>12. n \in Sequential!Missing(all) /\ \A m \in Sequential!Missing(all) : n =< m
  <2>1. all[n] = Len(history)
    BY <1>4, <1>7
  <2>2. \A i \in 1 .. Len(inputs) : i < n => i \in 1 .. next - 1 /\ all[i] = at[i]
    BY <1>3, <1>7
  <2>3. \A i \in 1 .. Len(inputs) : i < n => ~IsMissing(history[all[i]], options, Clean(inputs[i]))
    BY <2>2, <1>2 DEF Looked
  <2> QED
    BY <1>4, <1>6, <1>11, <2>1, <2>3
<1>13. Sequential!Min(Sequential!Missing(all)) = n
  <2>1. Sequential!Missing(all) \in SUBSET Nat
    BY <1>11
  <2> QED
    BY <2>1, <1>12, MinIs
<1>14. result' = Sequential!Error("input", Sequential!Clean(Sequential!inputs[n]))
  BY <1>4, SameClean DEF Error, Sequential!Error, Sequential!inputs, inputs
<1>15. /\ Sequential!inputs # <<>> /\ Sequential!FiltersCompile(Sequential!options)
  BY <1>4, <1>5, SameFilters DEF Sequential!inputs, inputs, Sequential!options, options
<1> QED
  BY <1>4, <1>10, <1>12, <1>13, <1>14, <1>15 DEF Sequential!Miss

\* The path under which a file is found is the one that SequentialScan gives it.
LEMMA FoundPaths ==
  ASSUME NEW at, TypeInv, Looked(at), next = Len(inputs) + 1
  PROVE  /\ Sequential!AllFiles(at) = DOMAIN found
         /\ \A node \in DOMAIN found : Sequential!PathOf(at, node) = found[node]
<1>1. /\ DOMAIN inputs = 1 .. Len(inputs) /\ Len(inputs) \in Nat /\ next - 1 = Len(inputs)
      /\ Sequential!inputs = inputs
  BY InputsAreSequences DEF inputs, Sequential!inputs
<1>2. \A i : Sequential!Files(at, i) = Found(at, i)
  BY SequentialSets DEF Found
<1>3. Sequential!AllFiles(at) = DOMAIN found
  BY <1>1, <1>2 DEF Sequential!AllFiles, Looked
<1>4. ASSUME NEW node \in DOMAIN found  PROVE Sequential!PathOf(at, node) = found[node]
  <2>1. PICK i \in 1 .. Len(inputs) :
          /\ node \in Found(at, i) /\ \A j \in 1 .. i - 1 : node \notin Found(at, j)
          /\ found[node] = Shown(Clean(inputs[i]), node)
    BY <1>1 DEF Looked
  <2> DEFINE leading == {j \in DOMAIN Sequential!inputs : node \in Sequential!Files(at, j)}
  <2>2. leading = {j \in 1 .. Len(inputs) : node \in Found(at, j)}
    BY <1>1, <1>2
  <2>3. leading \in SUBSET Nat /\ i \in leading /\ \A j \in leading : i =< j
    BY <2>1, <2>2
  <2> HIDE DEF leading
  <2>4. Sequential!Min(leading) = i
    BY <2>3, MinIs
  <2> QED
    BY <2>1, <2>4, <1>1, SameClean, SameShown DEF Sequential!PathOf, leading
<1> QED
  BY <1>3, <1>4

\* When all are counted, the outcomes are those of one who looks at the files alone.
LEMMA CollectedIsAnswer ==
  ASSUME Inv, Collected
  PROVE  /\ inputs # <<>> /\ FiltersCompile(options)
         /\ \E at \in Sequential!Discoveries :
              /\ Sequential!Missing(at) = {}
              /\ \E when \in [Sequential!AllFiles(at) -> at[Len(inputs)] .. Len(history)] :
                   Sequential!Answer(at, when) = Sequential!Conclusion(outcomes, skipped)
<1>1. TypeInv /\ inputs \in Seq(Seq(Int)) /\ Len(inputs) \in Nat /\ DOMAIN inputs = 1 .. Len(inputs)
  BY InputsAreSequences DEF Inv
<1>2. PICK at \in [1 .. next - 1 -> DOMAIN history] : Looked(at) /\ Counted(at)
  BY DEF Inv
<1>3. PICK identities : identities = InOrder(DOMAIN found)
  OBVIOUS
<1>4. /\ inputs # <<>> /\ next = Len(inputs) + 1 /\ next - 1 = Len(inputs)
      /\ paths = [i \in DOMAIN identities |-> found[identities[i]]]
      /\ outcomes = [i \in DOMAIN paths |-> outcomes[i]]
      /\ \A i \in DOMAIN paths : outcomes[i] # Pending => IsRead(at, paths[i], outcomes[i])
  BY <1>1, <1>2, <1>3 DEF Counted, Collected
<1>5. FiltersCompile(options)
  BY <1>1, <1>4 DEF TypeInv
<1>6. at \in Sequential!Discoveries
  BY <1>1, <1>2, <1>4 DEF Sequential!Discoveries, Sequential!inputs, inputs, Looked
<1>7. Sequential!Missing(at) = {}
  BY <1>1, <1>2, <1>4, SameLook, SameClean
  DEF Sequential!Missing, Looked, Sequential!inputs, inputs, Sequential!options, options
<1>8. /\ Sequential!AllFiles(at) = DOMAIN found
      /\ \A node \in DOMAIN found : Sequential!PathOf(at, node) = found[node]
  BY <1>1, <1>2, <1>4, FoundPaths
<1>9. PICK n : /\ identities \in [1 .. n -> DOMAIN found]
               /\ \A node \in DOMAIN found : \E i \in 1 .. n : identities[i] = node
               /\ \A i, j \in 1 .. n : identities[i] = identities[j] => i = j
  <2>1. DOMAIN found \in SUBSET Seq(Int) /\ IsFiniteSet(DOMAIN found)
    BY <1>1, <1>2, FoundAreNodes
  <2>2. PICK n \in Nat : n = Cardinality(DOMAIN found)
    BY <2>1, FS_CardinalityType
  <2>3. /\ identities \in [1 .. n -> DOMAIN found]
        /\ \A node \in DOMAIN found : \E i \in 1 .. n : identities[i] = node
        /\ \A i, j \in 1 .. n : i < j <=> Less(identities[i], identities[j])
    BY <2>1, <2>2, <1>3, InOrderLists
  <2>4. \A i, j \in 1 .. n : identities[i] = identities[j] => i = j
    <3> SUFFICES ASSUME NEW i \in 1 .. n, NEW j \in 1 .. n, identities[i] = identities[j], i # j
                 PROVE  FALSE
      OBVIOUS
    <3>1. identities[i] \in Seq(Int)
      BY <2>1, <2>3
    <3>2. ~Less(identities[i], identities[j]) /\ ~Less(identities[j], identities[i])
      BY <3>1, LessIrreflexive
    <3>3. i < j \/ j < i
      BY <2>2
    <3> QED
      BY <3>2, <3>3, <2>3
  <2> QED
    BY <2>3, <2>4
<1>10. DOMAIN paths = 1 .. n /\ \A i \in 1 .. n : paths[i] = found[identities[i]]
  BY <1>4, <1>9
<1> DEFINE Moments == at[Len(inputs)] .. Len(history)
           ReadAt(i, k) == outcomes[i] = OutcomeOf(history[k], options, paths[i])
<1>11. \A i \in 1 .. n : \E k \in Moments : ReadAt(i, k)
  BY <1>4, <1>10 DEF Collected, IsRead
<1>12. PICK moment : moment = [i \in 1 .. n |-> CHOOSE k \in Moments : ReadAt(i, k)]
  OBVIOUS
<1>13. \A i \in 1 .. n : moment[i] \in Moments /\ ReadAt(i, moment[i])
  BY <1>11, <1>12
<1>14. PICK when : when = [node \in DOMAIN found |-> moment[CHOOSE i \in 1 .. n : identities[i] = node]]
  OBVIOUS
<1>15. \A node \in DOMAIN found : (CHOOSE i \in 1 .. n : identities[i] = node) \in 1 .. n
  BY <1>9
<1>16. \A i \in 1 .. n : (CHOOSE j \in 1 .. n : identities[j] = identities[i]) = i
  BY <1>9
<1>17. when \in [DOMAIN found -> Moments]
  BY <1>13, <1>14, <1>15
<1>18. \A i \in 1 .. n : identities[i] \in DOMAIN found /\ when[identities[i]] = moment[i]
  BY <1>9, <1>14, <1>16
<1>19. Sequential!Answer(at, when) = Sequential!Conclusion(outcomes, skipped)
  <2> DEFINE outcome(file) ==
               Sequential!OutcomeOf(history[when[file]], options, Sequential!PathOf(at, file))
  <2>1. Sequential!InOrder(Sequential!AllFiles(at)) = identities
    BY <1>3, <1>8, SameOrder
  <2>2. \A i \in 1 .. n : outcome(identities[i]) = outcomes[i]
    BY <1>8, <1>10, <1>13, <1>18, SameOutcome
  <2>3. [i \in DOMAIN identities |-> outcome(identities[i])] = outcomes
    BY <1>4, <1>9, <1>10, <2>2
  <2>4. Sequential!FlattenSeq([i \in DOMAIN Sequential!inputs |->
                                 Sequential!SetToSeq(Sequential!Unread(at, i))]) = skipped
    <3>1. [i \in DOMAIN Sequential!inputs |-> Sequential!SetToSeq(Sequential!Unread(at, i))]
            = SkipLists(at)
      BY <1>1, <1>4, SequentialSets, SameSequences DEF SkipLists, Sequential!inputs, inputs
    <3> QED
      BY <3>1, <1>2, SameSequences DEF Looked
  <2> QED
    BY <2>1, <2>3, <2>4 DEF Sequential!Answer, Sequential!options, options
<1> QED
  BY <1>4, <1>5, <1>6, <1>7, <1>8, <1>17, <1>19

\* The outcomes are numbered, and each is of its path.
LEMMA OutcomePaths ==
  ASSUME NEW t \in [Nodes -> Kinds], NEW opts, NEW path
  PROVE  OutcomeOf(t, opts, path).path = path
<1> DEFINE kind == KindOf(t, Identity(path))
           isLink == kind \in {"link", "dangling", "loop"}
<1>1. kind \in Kinds
  BY DEF KindOf, Kinds, NotMeasured
<1>2. \A reason : Skipped(path, reason).path = path
  BY DEF Skipped
<1>3. Failed(path).path = path /\ Measured(path, kind).path = path
  BY DEF Failed, Measured
<1> HIDE DEF kind
<1>4. \/ kind = "absent" \/ (isLink /\ ~opts.follow) \/ (kind = "dangling" /\ opts.follow)
      \/ (kind = "loop" /\ opts.follow) \/ kind \in {"dir", "locked", "other"} \/ kind = "oversized"
      \/ kind = "binary" \/ kind = "failing" \/ (kind \in Texts /\ (isLink => opts.follow))
  BY <1>1, FileSystemAssumption DEF Kinds, NotMeasured
<1> QED
  BY <1>2, <1>3, <1>4 DEF OutcomeOf, kind

LEMMA OutcomesAre ==
  ASSUME Inv, Collected
  PROVE  /\ \E n \in Nat : DOMAIN outcomes = 1 .. n
         /\ \A i \in DOMAIN outcomes : outcomes[i].path = paths[i]
<1>1. TypeInv
  BY DEF Inv
<1>2. PICK at \in [1 .. next - 1 -> DOMAIN history] : Looked(at) /\ Counted(at)
  BY DEF Inv
<1>3. PICK identities : identities = InOrder(DOMAIN found)
  OBVIOUS
<1>4. /\ inputs # <<>> /\ next = Len(inputs) + 1
      /\ paths = [i \in DOMAIN identities |-> found[identities[i]]]
      /\ outcomes = [i \in DOMAIN paths |-> outcomes[i]]
      /\ \A i \in DOMAIN paths : IsRead(at, paths[i], outcomes[i])
  BY <1>2, <1>3 DEF Counted, Collected
<1>5. DOMAIN outcomes = DOMAIN identities
  BY <1>4
<1>6. \E n \in Nat : DOMAIN identities = 1 .. n
  <2>1. DOMAIN found \in SUBSET Seq(Int) /\ IsFiniteSet(DOMAIN found)
    BY <1>1, <1>2, FoundAreNodes
  <2>2. Cardinality(DOMAIN found) \in Nat
    BY <2>1, FS_CardinalityType
  <2> QED
    BY <2>1, <2>2, <1>3, InOrderLists
<1>7. ASSUME NEW i \in DOMAIN outcomes  PROVE outcomes[i].path = paths[i]
  <2>1. PICK k \in at[Len(inputs)] .. Len(history) : outcomes[i] = OutcomeOf(history[k], options, paths[i])
    BY <1>4, <1>5 DEF IsRead
  <2>2. Len(inputs) \in 1 .. next - 1
    BY <1>1, <1>4, InputsAreSequences
  <2>3. at[Len(inputs)] \in 1 .. Len(history) /\ Len(history) \in Nat
    BY <2>2, <1>1, <1>2, HistoryIs
  <2>4. k \in DOMAIN history
    BY <2>3, <1>1, HistoryIs
  <2>5. history[k] \in [Nodes -> Kinds]
    BY <2>4, <1>1, HistoryIs
  <2> QED
    BY <2>1, <2>5, OutcomePaths
<1> QED
  BY <1>5, <1>6, <1>7

\* The first failure is the conclusion.
LEMMA FailSequential ==
  ASSUME Inv, Fail
  PROVE  Sequential!Scan
<1>1. PICK i \in DOMAIN outcomes :
        /\ HasFailed(outcomes[i]) /\ \A j \in 1 .. i - 1 : ~HasFailed(outcomes[j])
        /\ result' = Error("count", paths[i])
  BY DEF Fail, Return
<1>2. /\ Collected /\ result = Unknown /\ history' = history /\ request' = request
  BY DEF Fail, Collected, disk
<1>3. PICK n \in Nat : DOMAIN outcomes = 1 .. n
  BY <1>2, OutcomesAre
<1>4. outcomes[i].path = paths[i]
  BY <1>2, OutcomesAre
<1> DEFINE failed == {j \in DOMAIN outcomes : Sequential!HasFailed(outcomes[j])}
<1>5. failed \in SUBSET Nat /\ i \in failed /\ \A j \in failed : i =< j
  BY <1>1, <1>3, SameParts
<1> HIDE DEF failed
<1>6. Sequential!Min(failed) = i /\ failed # {}
  BY <1>5, MinIs
<1>7. Sequential!Conclusion(outcomes, skipped) = Sequential!Error("count", outcomes[i].path)
  BY <1>6 DEF Sequential!Conclusion, failed
<1>8. result' = Sequential!Conclusion(outcomes, skipped)
  BY <1>1, <1>4, <1>7 DEF Error, Sequential!Error
<1> QED
  BY <1>2, <1>8, CollectedIsAnswer, SameFilters
  DEF Sequential!Scan, Sequential!inputs, inputs, Sequential!options, options

\* Without a failure the aggregate is.
LEMMA ConcludeSequential ==
  ASSUME Inv, Conclude
  PROVE  Sequential!Scan
<1>1. /\ \A i \in DOMAIN outcomes : ~HasFailed(outcomes[i])
      /\ result' = Aggregate(Filtered(outcomes, IsMeasured), skipped \o Filtered(outcomes, IsSkipped))
  BY DEF Conclude, Return
<1>2. /\ Collected /\ result = Unknown /\ history' = history /\ request' = request
  BY DEF Conclude, Collected, disk
<1>3. {i \in DOMAIN outcomes : Sequential!HasFailed(outcomes[i])} = {}
  BY <1>1, SameParts
<1>4. Sequential!Conclusion(outcomes, skipped) = result'
  BY <1>1, <1>3, SameParts, SameAggregate DEF Sequential!Conclusion
<1> QED
  BY <1>2, <1>4, CollectedIsAnswer, SameFilters
  DEF Sequential!Scan, Sequential!inputs, inputs, Sequential!options, options

LEMMA NextSequential ==
  ASSUME Inv, [Next]_vars
  PROVE  Sequential!Next \/ UNCHANGED Sequential!vars
<1>1. CASE Reject
  BY <1>1, RejectSequential DEF Sequential!Next
<1>2. CASE MissingInput
  BY <1>2, MissingInputSequential DEF Sequential!Next
<1>3. CASE Fail
  BY <1>3, FailSequential DEF Sequential!Next
<1>4. CASE Conclude
  BY <1>4, ConcludeSequential DEF Sequential!Next
<1>5. CASE Change
  BY <1>5, ChangeSequential DEF Sequential!Next
<1>6. CASE Discover \/ StartPool \/ \E w \in Workers : Read(w) \/ Deliver(w)
  BY <1>6 DEF Discover, StartPool, Read, Deliver, disk, Sequential!vars
<1>7. CASE Finished \/ UNCHANGED vars
  BY <1>7 DEF Finished, vars, disk, Sequential!vars
<1> QED
  BY <1>1, <1>2, <1>3, <1>4, <1>5, <1>6, <1>7 DEF Next

-----------------------------------------------------------------------------
(* What is found, and the errors *)

\* What an input leads to is the file itself or below it.
LEMMA FilesAreBeneath ==
  ASSUME NEW t, NEW opts, NEW path, NEW node \in FilesOf(t, opts, path),
         Identity(Clean(path)) \in Seq(Int)
  PROVE  StartsWith(node, Identity(Clean(path)))
<1>1. PICK root \in Seq(Int) : root = Identity(Clean(path))
  OBVIOUS
<1>2. node = root \/ node \in Visited(t, opts, root)
  BY <1>1 DEF FilesOf
<1>3. StartsWith(root, root)
  BY DEF StartsWith, IsPrefix
<1> QED
  BY <1>1, <1>2, <1>3 DEF Visited

LEMMA FoundIdentities ==
  ASSUME NEW at, TypeInv, Looked(at), NEW node \in DOMAIN found
  PROVE  Identity(found[node]) = node /\ node \in Nodes
<1>1. inputs \in Seq(Seq(Int)) /\ Len(inputs) \in Nat /\ next \in 1 .. Len(inputs) + 1
  BY InputsAreSequences DEF TypeInv
<1>2. PICK i \in 1 .. next - 1 : node \in Found(at, i) /\ found[node] = Shown(Clean(inputs[i]), node)
  BY DEF Looked
<1>3. PICK path \in Seq(Int) : path = inputs[i]
  BY <1>1
<1>4. ~IsMissing(history[at[i]], options, Clean(path))
  BY <1>3 DEF Looked
<1>5. node \in FilesOf(history[at[i]], options, path)
  BY <1>2, <1>3 DEF Found
<1>6. node \in Nodes
  BY <1>4, <1>5, FilesAreNodes
<1>7. Identity(Clean(path)) \in Seq(Int)
  BY CleanIs, IdentityType
<1>8. StartsWith(node, Identity(Clean(path)))
  BY <1>5, <1>7, FilesAreBeneath
<1>9. Identity(Shown(Clean(path), node)) = node
  BY <1>6, <1>8, ShownIdentity
<1> QED
  BY <1>2, <1>3, <1>6, <1>9

\* The paths that the pool has: those found, by their identities.
LEMMA PoolPaths ==
  ASSUME Inv, paths # Pending
  PROVE  \E n, identities :
           /\ n \in Nat /\ DOMAIN paths = 1 .. n /\ identities \in [1 .. n -> DOMAIN found]
           /\ \A i \in 1 .. n : paths[i] = found[identities[i]]
           /\ \A node \in DOMAIN found : \E i \in 1 .. n : identities[i] = node
           /\ \A i, j \in 1 .. n : i < j <=> Less(identities[i], identities[j])
           /\ outcomes = [i \in DOMAIN paths |-> outcomes[i]]
<1>1. PICK at \in [1 .. next - 1 -> DOMAIN history] : Looked(at) /\ Counted(at)
  BY DEF Inv
<1>2. DOMAIN found \in SUBSET Seq(Int) /\ IsFiniteSet(DOMAIN found)
  BY <1>1, FoundAreNodes DEF Inv
<1>3. PICK n \in Nat : n = Cardinality(DOMAIN found)
  BY <1>2, FS_CardinalityType
<1>4. PICK identities : identities = InOrder(DOMAIN found)
  OBVIOUS
<1>5. /\ identities \in [1 .. n -> DOMAIN found]
      /\ \A node \in DOMAIN found : \E i \in 1 .. n : identities[i] = node
      /\ \A i, j \in 1 .. n : i < j <=> Less(identities[i], identities[j])
  BY <1>2, <1>3, <1>4, InOrderLists
<1>6. /\ paths = [i \in DOMAIN identities |-> found[identities[i]]]
      /\ outcomes = [i \in DOMAIN paths |-> outcomes[i]]
  BY <1>1, <1>4 DEF Counted
<1>7. DOMAIN paths = 1 .. n /\ \A i \in 1 .. n : paths[i] = found[identities[i]]
  <2>1. DOMAIN identities = 1 .. n
    BY <1>5
  <2> QED
    BY <1>6, <2>1
<1> WITNESS n, identities
<1> QED
  BY <1>5, <1>6, <1>7

LEMMA InvTypeOK == Inv => TypeOK
<1> SUFFICES ASSUME Inv  PROVE TypeOK
  OBVIOUS
<1>1. PICK at \in [1 .. next - 1 -> DOMAIN history] : Looked(at) /\ Counted(at)
  BY DEF Inv
<1>2. tree \in [Nodes -> Kinds]
  BY HistoryIs DEF Inv
<1>3. \A identity \in DOMAIN found : Identity(found[identity]) = identity
  BY <1>1, FoundIdentities DEF Inv
<1>4. ASSUME paths # Pending
      PROVE  /\ ToSet(paths) = {found[identity] : identity \in DOMAIN found}
             /\ DOMAIN outcomes = DOMAIN paths
  <2>1. PICK n, identities :
          /\ n \in Nat /\ DOMAIN paths = 1 .. n /\ identities \in [1 .. n -> DOMAIN found]
          /\ \A i \in 1 .. n : paths[i] = found[identities[i]]
          /\ \A node \in DOMAIN found : \E i \in 1 .. n : identities[i] = node
          /\ outcomes = [i \in DOMAIN paths |-> outcomes[i]]
    BY <1>4, PoolPaths
  <2> QED
    BY <2>1 DEF ToSet
<1>5. \A w \in Workers : reading[w] # Idle => reading[w].index \in DOMAIN paths
  BY <1>1 DEF Counted
<1> QED
  BY <1>2, <1>3, <1>4, <1>5 DEF TypeOK, Inv, TypeInv

\* Before the pool a scan returns only errors.  A scan that got as far has all outcomes,
\* and returns the first failure among them or the aggregate.
ResultInv ==
  result # Unknown =>
    IF paths = Pending THEN \E kind, path : result = Error(kind, path)
    ELSE /\ \A i \in DOMAIN outcomes : outcomes[i] # Pending
         /\ \/ \E i \in DOMAIN outcomes :
                 /\ HasFailed(outcomes[i]) /\ \A j \in 1 .. i - 1 : ~HasFailed(outcomes[j])
                 /\ result = Error("count", paths[i])
            \/ /\ \A i \in DOMAIN outcomes : ~HasFailed(outcomes[i])
               /\ result = Aggregate(Filtered(outcomes, IsMeasured), skipped \o Filtered(outcomes, IsSkipped))

LEMMA NextResultInv ==
  ASSUME Inv, ResultInv, [Next]_vars
  PROVE  ResultInv'
<1>1. ASSUME Reject \/ MissingInput  PROVE ResultInv'
  <2>1. next =< Len(inputs) \/ next = 1
    BY <1>1 DEF Reject, MissingInput
  <2>2. paths' = paths /\ \E kind, path : result' = Error(kind, path)
    BY <1>1 DEF Reject, MissingInput, Return
  <2>3. paths = Pending
    <3>1. PICK at \in [1 .. next - 1 -> DOMAIN history] : Looked(at) /\ Counted(at)
      BY DEF Inv
    <3>2. inputs \in Seq(Seq(Int)) /\ Len(inputs) \in Nat /\ (inputs # <<>> => Len(inputs) # 0)
      BY InputsAreSequences DEF Inv
    <3> QED
      BY <2>1, <3>1, <3>2 DEF Counted
  <2> QED
    BY <2>2, <2>3 DEF ResultInv, Error
<1>2. ASSUME Fail  PROVE ResultInv'
  BY <1>2 DEF Fail, Collected, Return, ResultInv, Error
<1>3. ASSUME Conclude  PROVE ResultInv'
  <2>1. /\ outcomes' = outcomes /\ paths' = paths /\ skipped' = skipped /\ paths # Pending
        /\ \A i \in DOMAIN outcomes : outcomes[i] # Pending /\ ~HasFailed(outcomes[i])
        /\ result' = Aggregate(Filtered(outcomes, IsMeasured), skipped \o Filtered(outcomes, IsSkipped))
    BY <1>3 DEF Conclude, Collected, Return
  <2> QED
    BY <2>1 DEF ResultInv
<1>4. ASSUME Discover \/ StartPool \/ Change \/ \E w \in Workers : Read(w) \/ Deliver(w)
      PROVE  ResultInv'
  <2>1. result' = Unknown
    BY <1>4 DEF Discover, StartPool, Change, Read, Deliver
  <2> QED
    BY <2>1 DEF ResultInv
<1>5. ASSUME Finished \/ UNCHANGED vars  PROVE ResultInv'
  <2>1. result' = result /\ paths' = paths /\ outcomes' = outcomes /\ skipped' = skipped
    BY <1>5 DEF Finished, vars
  <2> QED
    BY <2>1 DEF ResultInv, Error
<1> QED
  BY <1>1, <1>2, <1>3, <1>4, <1>5 DEF Next

\* A file fails when its kind is that of those that do.
LEMMA FailsWhen ==
  ASSUME NEW t \in [Nodes -> Kinds], NEW opts, NEW path
  PROVE  HasFailed(OutcomeOf(t, opts, path)) <=> KindOf(t, Identity(path)) = "failing"
<1> DEFINE kind == KindOf(t, Identity(path))
           isLink == kind \in {"link", "dangling", "loop"}
<1>1. kind \in Kinds
  BY DEF KindOf, Kinds, NotMeasured
<1>2. \A reason : ~HasFailed(Skipped(path, reason))
  BY DEF HasFailed, Skipped
<1>3. HasFailed(Failed(path)) /\ ~HasFailed(Measured(path, kind))
  BY DEF HasFailed, Failed, Measured
<1> HIDE DEF kind
<1>4. \/ kind = "absent" \/ (isLink /\ ~opts.follow) \/ (kind = "dangling" /\ opts.follow)
      \/ (kind = "loop" /\ opts.follow) \/ kind \in {"dir", "locked", "other"} \/ kind = "oversized"
      \/ kind = "binary" \/ kind = "failing" \/ (kind \in Texts /\ (isLink => opts.follow))
  BY <1>1, FileSystemAssumption DEF Kinds, NotMeasured
<1>5. kind \notin Texts \/ kind \notin NotMeasured
  BY FileSystemAssumption
<1>6. ASSUME kind = "failing"  PROVE OutcomeOf(t, opts, path) = Failed(path)
  BY <1>5, <1>6 DEF OutcomeOf, kind, NotMeasured
<1>7. ASSUME kind # "failing"  PROVE ~HasFailed(OutcomeOf(t, opts, path))
  BY <1>2, <1>3, <1>4, <1>7 DEF OutcomeOf, kind
<1> QED
  BY <1>3, <1>6, <1>7 DEF kind

\* What is not among the nodes that changed is what it was.
LEMMA KindsKept ==
  ASSUME TypeInv, NEW k \in DOMAIN history, NEW node, node \notin changed
  PROVE  KindOf(history[k], node) = KindOf(tree, node)
BY DEF changed, KindOf

\* A file is untouched when no directory above it changes either.
LEMMA UntouchedKinds ==
  ASSUME TypeInv, NEW node \in Untouched, NEW k \in DOMAIN history
  PROVE  /\ node \in Seq(Int) /\ node # <<>>
         /\ KindOf(history[k], node) = KindOf(tree, node)
         /\ \A n \in 1 .. Len(node) :
              KindOf(history[k], SubSeq(node, 1, n)) = KindOf(tree, SubSeq(node, 1, n))
<1>1. node \in Seq(Int) /\ node # <<>> /\ \A n \in 1 .. Len(node) : SubSeq(node, 1, n) \notin changed
  BY FileSystemAssumption DEF Untouched, IsAbsolute
<1>2. SubSeq(node, 1, Len(node)) = node /\ Len(node) \in 1 .. Len(node)
  BY <1>1
<1>3. node \notin changed
  BY <1>1, <1>2
<1> QED
  BY <1>1, <1>3, KindsKept

\* Whether a walk comes to an untouched file is the same at all times.
LEMMA UntouchedVisited ==
  ASSUME TypeInv, NEW node \in Untouched, NEW k \in DOMAIN history, NEW opts,
         NEW root \in Seq(Int), root # <<>>
  PROVE  IsDirectory(history[k], root) /\ node \in Visited(history[k], opts, root)
           <=> IsDirectory(tree, root) /\ node \in Visited(tree, opts, root)
<1>1. PICK t : t = history[k]
  OBVIOUS
<1>2. /\ node \in Seq(Int) /\ KindOf(t, node) = KindOf(tree, node) /\ node \in Nodes
      /\ \A n \in 1 .. Len(node) : KindOf(t, SubSeq(node, 1, n)) = KindOf(tree, SubSeq(node, 1, n))
  BY <1>1, UntouchedKinds DEF Untouched
<1>3. CASE StartsWith(node, root)
  <2>1. Len(root) \in 1 .. Len(node) /\ root = SubSeq(node, 1, Len(root))
    BY <1>2, <1>3 DEF StartsWith, IsPrefix
  <2>2. KindOf(t, root) = KindOf(tree, root)
    BY <1>2, <2>1
  <2>3. \A n \in Len(root) + 1 .. Len(node) :
          KindOf(t, SubSeq(node, 1, n - 1)) = KindOf(tree, SubSeq(node, 1, n - 1))
    <3> SUFFICES ASSUME NEW n \in Len(root) + 1 .. Len(node)
                 PROVE  KindOf(t, SubSeq(node, 1, n - 1)) = KindOf(tree, SubSeq(node, 1, n - 1))
      OBVIOUS
    <3>1. n - 1 \in 1 .. Len(node)
      BY <2>1, <1>2
    <3> QED
      BY <3>1, <1>2
  <2> QED
    BY <1>1, <1>2, <2>2, <2>3 DEF Visited, IsDirectory
<1>4. CASE ~StartsWith(node, root)
  BY <1>4 DEF Visited
<1> QED
  BY <1>3, <1>4

\* Discovery has found the untouched files that the inputs lead to, under the first paths
\* that lead to them.
LEMMA UntouchedIsFound ==
  ASSUME NEW at \in [1 .. next - 1 -> DOMAIN history], TypeInv, Looked(at),
         next = Len(inputs) + 1, NEW node \in Untouched,
         KindOf(tree, node) \notin {"dir", "locked"}, ~WalkFails(tree, options, node)
  PROVE  /\ Countable(node) <=> node \in DOMAIN found
         /\ node \in DOMAIN found => FirstPath(node) = found[node]
<1>1. /\ inputs \in Seq(Seq(Int)) /\ Len(inputs) \in Nat /\ next - 1 = Len(inputs)
      /\ DOMAIN inputs = 1 .. next - 1
  BY InputsAreSequences
<1>2. ~IsDirectory(tree, node)
  BY DEF IsDirectory
<1>3. ASSUME NEW i \in 1 .. next - 1
      PROVE  /\ Leads(i, node) <=> node \in Found(at, i)
             /\ node \in Found(at, i) => KindOf(tree, node) # "absent"
  <2>1. PICK t : t = history[at[i]]
    OBVIOUS
  <2>2. KindOf(t, node) = KindOf(tree, node) /\ node \in Nodes
    BY <2>1, UntouchedKinds DEF Untouched
  <2>3. ~IsDirectory(t, node) /\ ~WalkFails(t, options, node)
    BY <2>2, <1>2 DEF IsDirectory, WalkFails
  <2>4. PICK input \in Seq(Int) : input = Clean(inputs[i])
    BY <1>1, CleanIs
  <2>5. PICK root \in Seq(Int) : root = Identity(input)
    BY IdentityType
  <2>6. root # <<>>
    BY <2>5, IdentityType
  <2>7. PICK visited : visited = Visited(tree, options, root)
    OBVIOUS
  <2>8. PICK then : then = Visited(t, options, root)
    OBVIOUS
  <2>9. IsDirectory(t, root) /\ node \in then <=> IsDirectory(tree, root) /\ node \in visited
    BY <2>1, <2>6, <2>7, <2>8, UntouchedVisited
  <2>10. node = root => ~IsDirectory(t, root) /\ ~IsDirectory(tree, root)
    BY <2>3, <1>2
  <2>11. Leads(i, node) <=> /\ node = root \/ (IsDirectory(tree, root) /\ node \in visited)
                            /\ Admits(options, Shown(input, node), Cwd)
    BY <2>4, <2>5, <2>7 DEF Leads
  <2>12. Found(at, i) = {file \in IF IsDirectory(t, root)
                                  THEN {file \in then : ~IsDirectory(t, file) /\ ~WalkFails(t, options, file)}
                                  ELSE {root} :
                           Admits(options, Shown(input, file), Cwd)}
    BY <2>1, <2>4, <2>5, <2>8 DEF Found, FilesOf
  <2>13. node \in then => KindOf(t, node) # "absent"
    BY <2>8 DEF Visited
  <2>14. KindOf(t, root) # "absent"
    BY <2>1, <2>4, <2>5 DEF Looked, IsMissing
  <2>15. node \in Found(at, i) => KindOf(tree, node) # "absent"
    BY <2>2, <2>12, <2>13, <2>14
  <2> QED
    BY <2>3, <2>9, <2>10, <2>11, <2>12, <2>15
<1>4. Countable(node) <=> KindOf(tree, node) # "absent" /\ \E i \in 1 .. next - 1 : Leads(i, node)
  BY <1>1 DEF Countable
<1>5. node \in DOMAIN found <=> \E i \in 1 .. next - 1 : node \in Found(at, i)
  BY DEF Looked
<1>6. ASSUME node \in DOMAIN found  PROVE FirstPath(node) = found[node]
  <2>1. PICK i \in 1 .. next - 1 :
          /\ node \in Found(at, i) /\ \A j \in 1 .. i - 1 : node \notin Found(at, j)
          /\ found[node] = Shown(Clean(inputs[i]), node)
    BY <1>6 DEF Looked
  <2> DEFINE leading == {j \in DOMAIN inputs : Leads(j, node)}
  <2>2. leading = {j \in 1 .. next - 1 : node \in Found(at, j)}
    BY <1>1, <1>3
  <2>3. leading \in SUBSET Nat /\ i \in leading /\ \A j \in leading : i =< j
    <3>1. next - 1 \in Nat
      BY <1>1
    <3>2. \A j \in 1 .. next - 1 : j < i => j \in 1 .. i - 1
      BY <3>1
    <3> QED
      BY <2>1, <2>2, <3>1, <3>2
  <2> HIDE DEF leading
  <2>4. Min(leading) = i
    BY <2>3, MinIs
  <2> QED
    BY <2>1, <2>4 DEF FirstPath, leading
<1> QED
  BY <1>3, <1>4, <1>5, <1>6

\* So it has the files that fail, while nothing changes.
LEMMA FailingIsFound ==
  ASSUME NEW at \in [1 .. next - 1 -> DOMAIN history], TypeInv, Looked(at),
         next = Len(inputs) + 1, changed = {},
         NEW node \in Nodes, KindOf(tree, node) = "failing"
  PROVE  /\ Countable(node) <=> node \in DOMAIN found
         /\ node \in DOMAIN found => FirstPath(node) = found[node]
<1>1. node \in Untouched
  BY DEF Untouched
<1>2. ~WalkFails(tree, options, node)
  BY DEF WalkFails
<1> QED
  BY <1>1, <1>2, UntouchedIsFound

LEMMA InvFirstFailure == Inv /\ ResultInv => FirstFailure
<1> SUFFICES ASSUME Inv, ResultInv, changed = {}, result \notin {Unknown, Overflow}, paths # Pending,
                    NEW failing,
                    failing = {node \in Nodes : Countable(node) /\ KindOf(tree, node) = "failing"}
             PROVE  IF failing = {} THEN Succeeded
                    ELSE \E node \in failing :
                           /\ \A other \in failing \ {node} : Less(node, other)
                           /\ result = Error("count", FirstPath(node))
  BY DEF FirstFailure
<1>1. TypeInv
  BY DEF Inv
<1>2. PICK at \in [1 .. next - 1 -> DOMAIN history] : Looked(at) /\ Counted(at)
  BY DEF Inv
<1>3. next = Len(inputs) + 1 /\ inputs # <<>>
  BY <1>2 DEF Counted
<1>4. PICK n, identities :
        /\ n \in Nat /\ DOMAIN paths = 1 .. n /\ identities \in [1 .. n -> DOMAIN found]
        /\ \A i \in 1 .. n : paths[i] = found[identities[i]]
        /\ \A node \in DOMAIN found : \E i \in 1 .. n : identities[i] = node
        /\ \A i, j \in 1 .. n : i < j <=> Less(identities[i], identities[j])
        /\ outcomes = [i \in DOMAIN paths |-> outcomes[i]]
  BY PoolPaths
<1>5. DOMAIN outcomes = 1 .. n
  BY <1>4
<1>6. \A i \in 1 .. n : identities[i] \in Nodes /\ Identity(paths[i]) = identities[i]
  BY <1>1, <1>2, <1>4, FoundIdentities
<1>7. failing = {node \in DOMAIN found : KindOf(tree, node) = "failing"}
  <2>1. DOMAIN found \subseteq Nodes
    BY <1>1, <1>2, FoundIdentities
  <2>2. \A node \in Nodes : KindOf(tree, node) = "failing" => (Countable(node) <=> node \in DOMAIN found)
    BY <1>1, <1>2, <1>3, FailingIsFound
  <2> QED
    BY <2>1, <2>2
<1>8. \A node \in failing : FirstPath(node) = found[node]
  BY <1>1, <1>2, <1>3, <1>7, FailingIsFound
<1>9. ASSUME NEW i \in 1 .. n, outcomes[i] # Pending
      PROVE  HasFailed(outcomes[i]) <=> identities[i] \in failing
  <2>1. PICK k \in at[Len(inputs)] .. Len(history) : outcomes[i] = OutcomeOf(history[k], options, paths[i])
    BY <1>2, <1>4, <1>9 DEF Counted, IsRead
  <2>2. Len(inputs) \in 1 .. next - 1
    BY <1>1, <1>3, InputsAreSequences
  <2>3. at[Len(inputs)] \in 1 .. Len(history) /\ Len(history) \in Nat
    BY <2>2, <1>1, HistoryIs
  <2>4. k \in DOMAIN history
    BY <2>3, <1>1, HistoryIs
  <2>5. /\ KindOf(history[k], identities[i]) = KindOf(tree, identities[i])
        /\ history[k] \in [Nodes -> Kinds]
    BY <2>4, <1>1, KindsKept, HistoryIs
  <2>6. HasFailed(outcomes[i]) <=> KindOf(tree, identities[i]) = "failing"
    BY <2>1, <2>5, <1>6, FailsWhen
  <2> QED
    BY <2>6, <1>4, <1>7
<1>10. \A i \in 1 .. n : outcomes[i] # Pending
  BY <1>5 DEF ResultInv
<1>11. CASE \E i \in DOMAIN outcomes :
              /\ HasFailed(outcomes[i]) /\ \A j \in 1 .. i - 1 : ~HasFailed(outcomes[j])
              /\ result = Error("count", paths[i])
  <2>1. PICK i \in 1 .. n :
          /\ HasFailed(outcomes[i]) /\ \A j \in 1 .. i - 1 : ~HasFailed(outcomes[j])
          /\ result = Error("count", paths[i])
    BY <1>5, <1>11
  <2>2. PICK node \in failing : node = identities[i]
    BY <2>1, <1>9, <1>10
  <2>3. ASSUME NEW other \in failing \ {node}  PROVE Less(node, other)
    <3>1. PICK j \in 1 .. n : identities[j] = other
      BY <1>4, <1>7
    <3>2. HasFailed(outcomes[j]) /\ j # i
      BY <3>1, <2>2, <1>9, <1>10
    <3>3. i < j
      BY <3>2, <2>1
    <3> QED
      BY <3>1, <3>3, <2>2, <1>4
  <2>4. result = Error("count", FirstPath(node))
    BY <2>1, <2>2, <1>4, <1>8
  <2> QED
    BY <2>3, <2>4
<1>12. CASE /\ \A i \in DOMAIN outcomes : ~HasFailed(outcomes[i])
            /\ result = Aggregate(Filtered(outcomes, IsMeasured), skipped \o Filtered(outcomes, IsSkipped))
  <2>1. failing = {}
    BY <1>4, <1>5, <1>7, <1>9, <1>10, <1>12
  <2>2. "totals" \in DOMAIN result
    BY <1>12 DEF Aggregate
  <2> QED
    BY <2>1, <2>2 DEF Succeeded
<1> QED
  BY <1>11, <1>12 DEF ResultInv

-----------------------------------------------------------------------------
(* What the report of an untouched file is *)

\* What is selected of the outcomes is a sequence of them.
LEMMA FilteredOutcomes ==
  ASSUME NEW n \in Nat, NEW seq, DOMAIN seq = 1 .. n
  PROVE  /\ \E m \in Nat : DOMAIN Filtered(seq, IsMeasured) = 1 .. m
         /\ \E m \in Nat : Filtered(seq, IsSkipped) = [k \in 1 .. m |-> Filtered(seq, IsSkipped)[k]]
         /\ ToSet(Filtered(seq, IsMeasured)) = {seq[i] : i \in {i \in 1 .. n : IsMeasured(seq[i])}}
         /\ ToSet(Filtered(seq, IsSkipped)) = {seq[i] : i \in {i \in 1 .. n : IsSkipped(seq[i])}}
<1>1. ASSUME NEW S \in SUBSET (1 .. n), NEW Before, Before = [i \in S |-> {j \in S : j < i}]
      PROVE  /\ \E m \in Nat : Arranged(seq, Before) = [k \in 1 .. m |-> Arranged(seq, Before)[k]]
             /\ ToSet(Arranged(seq, Before)) = {seq[i] : i \in S}
  <2>1. Orders(S, Before)
    BY <1>1, IndicesOrder
  <2>2. PICK m \in Nat : m = Cardinality(S)
    BY <2>1, FS_CardinalityType DEF Orders
  <2>3. /\ Arranged(seq, Before) = [k \in 1 .. Cardinality(S) |-> Arranged(seq, Before)[k]]
        /\ ToSet(Arranged(seq, Before)) = {seq[i] : i \in S}
    BY <2>1, ArrangedIs
  <2> QED
    BY <2>2, <2>3
<1>2. PICK files : files = {i \in 1 .. n : IsMeasured(seq[i])}
  OBVIOUS
<1>3. PICK ahead : ahead = [i \in files |-> {j \in files : j < i}]
  OBVIOUS
<1>4. Filtered(seq, IsMeasured) = Arranged(seq, ahead)
  BY <1>2, <1>3 DEF Filtered, Ranked, Arranged
<1>5. PICK skips : skips = {i \in 1 .. n : IsSkipped(seq[i])}
  OBVIOUS
<1>6. PICK before : before = [i \in skips |-> {j \in skips : j < i}]
  OBVIOUS
<1>7. Filtered(seq, IsSkipped) = Arranged(seq, before)
  BY <1>5, <1>6 DEF Filtered, Ranked, Arranged
<1>8. files \in SUBSET (1 .. n) /\ skips \in SUBSET (1 .. n)
  BY <1>2, <1>5
<1>9. /\ \E m \in Nat : Arranged(seq, ahead) = [k \in 1 .. m |-> Arranged(seq, ahead)[k]]
      /\ ToSet(Arranged(seq, ahead)) = {seq[i] : i \in files}
  BY <1>1, <1>3, <1>8
<1>10. /\ \E m \in Nat : Arranged(seq, before) = [k \in 1 .. m |-> Arranged(seq, before)[k]]
       /\ ToSet(Arranged(seq, before)) = {seq[i] : i \in skips}
  BY <1>1, <1>6, <1>8
<1> QED
  BY <1>2, <1>4, <1>5, <1>7, <1>9, <1>10

\* Every outcome is of one kind, and goes by its path.
LEMMA OutcomeIs ==
  ASSUME NEW t \in [Nodes -> Kinds], NEW opts, NEW path, NEW outcome, outcome = OutcomeOf(t, opts, path)
  PROVE  /\ outcome.path = path
         /\ HasFailed(outcome) \/ IsMeasured(outcome) \/ IsSkipped(outcome)
         /\ IsMeasured(outcome) => /\ ~IsSkipped(outcome) /\ outcome.language = Classify[Last(path)]
                                   /\ outcome.tokens \in Nat /\ outcome.bytes \in Nat
                                   /\ outcome.bytes = 0 => outcome.tokens = 0
         /\ IsSkipped(outcome) => outcome.reason \in Reasons
<1> DEFINE kind == KindOf(t, Identity(path))
           isLink == kind \in {"link", "dangling", "loop"}
           reasons == {Unreadable, Symlink, Unsupported, Oversized, Binary}
<1>1. kind \in Kinds
  BY DEF KindOf, Kinds, NotMeasured
<1>2. \/ kind = "absent" \/ (isLink /\ ~opts.follow) \/ (kind = "dangling" /\ opts.follow)
      \/ (kind = "loop" /\ opts.follow) \/ kind \in {"dir", "locked", "other"} \/ kind = "oversized"
      \/ kind = "binary" \/ kind = "failing" \/ (kind \in Texts /\ (isLink => opts.follow))
  <2> HIDE DEF kind
  <2> QED
    BY <1>1, FileSystemAssumption DEF Kinds, NotMeasured
<1>3. \/ \E reason \in reasons : outcome = Skipped(path, reason)
      \/ outcome = Failed(path) \/ (kind \in Texts /\ outcome = Measured(path, kind))
  <2>1. outcome = OutcomeOf(t, opts, path)
    OBVIOUS
  <2> HIDE DEF kind
  <2> QED
    BY <1>2, <2>1 DEF OutcomeOf, kind
<1>4. \A reason \in reasons :
        /\ Skipped(path, reason).path = path /\ IsSkipped(Skipped(path, reason))
        /\ Skipped(path, reason).reason \in Reasons /\ ~IsMeasured(Skipped(path, reason))
  BY DEF Skipped, IsSkipped, IsMeasured, Unreadable, Symlink, Unsupported, Oversized, Binary, Reasons
<1>5. Failed(path).path = path /\ HasFailed(Failed(path))
      /\ ~IsSkipped(Failed(path)) /\ ~IsMeasured(Failed(path))
  BY DEF Failed, HasFailed, IsSkipped, IsMeasured
<1>6. /\ Measured(path, kind).path = path /\ IsMeasured(Measured(path, kind))
      /\ ~IsSkipped(Measured(path, kind))
      /\ Measured(path, kind).language = Classify[Last(path)]
      /\ Measured(path, kind).tokens = Tokens[kind] /\ Measured(path, kind).bytes = Bytes[kind]
  BY DEF Measured, IsMeasured, IsSkipped
<1>7. kind \in Texts => /\ Tokens[kind] \in Nat /\ Bytes[kind] \in Nat
                        /\ Bytes[kind] = 0 => Tokens[kind] = 0
  <2> HIDE DEF kind
  <2> QED
    BY FileSystemAssumption, AggregationAssumption
<1> HIDE DEF kind, reasons
<1> QED
  BY <1>3, <1>4, <1>5, <1>6, <1>7

\* It depends on the file system by the kind of its file alone.
LEMMA OutcomeKept ==
  ASSUME NEW t, NEW u, NEW opts, NEW path,
         KindOf(t, Identity(path)) = KindOf(u, Identity(path))
  PROVE  OutcomeOf(t, opts, path) = OutcomeOf(u, opts, path)
BY DEF OutcomeOf

\* What is skipped of an input is below it and could not be read then.
LEMMA UnreadIs ==
  ASSUME NEW t, NEW opts, NEW path \in Seq(Int), NEW skip \in UnreadOf(t, opts, path)
  PROVE  /\ skip.path \in Seq(Int) /\ skip.reason \in Reasons
         /\ Identity(skip.path) \in Nodes /\ WalkFails(t, opts, Identity(skip.path))
<1>1. PICK input \in Seq(Int) : input = Clean(path)
  BY CleanIs
<1>2. PICK root \in Seq(Int) : root = Identity(input)
  BY IdentityType
<1>3. root # <<>>
  BY <1>2, IdentityType
<1>4. PICK node \in Visited(t, opts, root) :
        WalkFails(t, opts, node) /\ skip = Skipped(Shown(input, node), Unreadable)
  BY <1>1, <1>2 DEF UnreadOf
<1>5. node \in Nodes /\ StartsWith(node, root)
  BY <1>4 DEF Visited
<1>6. Identity(Shown(input, node)) = node
  BY <1>1, <1>2, <1>5, ShownIdentity
<1>7. Beneath(node, root) \in Seq(Nat)
  BY <1>3, <1>5, BeneathIs
<1>8. input \o Beneath(node, root) \in Seq(Int)
  BY <1>7
<1>9. Shown(input, node) \in Seq(Int)
  BY <1>2, <1>8, CleanIs DEF Shown
<1>10. skip.path = Shown(input, node) /\ skip.reason \in Reasons
  BY <1>4 DEF Skipped, Unreadable, Reasons
<1> QED
  BY <1>4, <1>5, <1>6, <1>9, <1>10

LEMMA SkippedAre ==
  ASSUME NEW at \in [1 .. next - 1 -> DOMAIN history], TypeInv, Looked(at)
  PROVE  \E S : /\ skipped \in Seq(S)
                /\ \A skip \in S :
                     /\ skip.path \in Seq(Int) /\ skip.reason \in Reasons
                     /\ \E k \in DOMAIN history : WalkFails(history[k], options, Identity(skip.path))
<1>1. inputs \in Seq(Seq(Int)) /\ Len(inputs) \in Nat /\ next - 1 \in 0 .. Len(inputs)
  BY InputsAreSequences DEF TypeInv
<1>2. PICK unread : unread = [i \in 1 .. next - 1 |-> UnreadOf(history[at[i]], options, inputs[i])]
  OBVIOUS
<1>3. PICK S : S = UNION {unread[i] : i \in 1 .. next - 1}
  OBVIOUS
<1>4. \A i \in 1 .. next - 1 : SetToSeq(unread[i]) \in Seq(S)
  <2> SUFFICES ASSUME NEW i \in 1 .. next - 1  PROVE SetToSeq(unread[i]) \in Seq(S)
    OBVIOUS
  <2>1. IsFiniteSet(unread[i])
    BY <1>2, UnreadIsFinite
  <2>2. SetToSeq(unread[i]) \in Seq(unread[i])
    BY <2>1, SetToSeqLists
  <2>3. unread[i] \subseteq S
    BY <1>3
  <2> QED
    BY <2>2, <2>3
<1>5. PICK T : T = Seq(S)
  OBVIOUS
<1>6. SkipLists(at) = [i \in 1 .. next - 1 |-> SetToSeq(unread[i])]
  BY <1>2 DEF SkipLists
<1>7. PICK n \in Nat : n = next - 1
  BY <1>1
<1>8. SkipLists(at) \in Seq(T)
  BY <1>4, <1>5, <1>6, <1>7
<1>9. FlattenSeq(SkipLists(at)) \in Seq(S)
  BY <1>5, <1>8, FlattenSeqType
<1>10. skipped \in Seq(S)
  BY <1>9 DEF Looked
<1>11. ASSUME NEW skip \in S
       PROVE  /\ skip.path \in Seq(Int) /\ skip.reason \in Reasons
              /\ \E k \in DOMAIN history : WalkFails(history[k], options, Identity(skip.path))
  <2>1. PICK i \in 1 .. next - 1 : skip \in unread[i]
    BY <1>3
  <2>2. PICK path \in Seq(Int) : path = inputs[i]
    BY <1>1
  <2>3. skip \in UnreadOf(history[at[i]], options, path)
    BY <2>1, <2>2, <1>2
  <2> QED
    BY <2>3, UnreadIs
<1> QED
  BY <1>10, <1>11

\* The paths under which files are found, and their outcomes.
LEMMA FoundShown ==
  ASSUME NEW at, TypeInv, Looked(at), NEW node \in DOMAIN found
  PROVE  /\ found[node] \in Seq(Int) /\ Classify[Last(found[node])] \in Int
         /\ \E path \in Seq(Int) : found[node] = Clean(path)
<1>1. inputs \in Seq(Seq(Int)) /\ Len(inputs) \in Nat /\ next \in 1 .. Len(inputs) + 1
  BY InputsAreSequences DEF TypeInv
<1>2. PICK i \in 1 .. next - 1 : node \in Found(at, i) /\ found[node] = Shown(Clean(inputs[i]), node)
  BY DEF Looked
<1>3. PICK path \in Seq(Int) : path = inputs[i]
  BY <1>1
<1>4. ~IsMissing(history[at[i]], options, Clean(path))
  BY <1>3 DEF Looked
<1>5. node \in FilesOf(history[at[i]], options, path)
  BY <1>2, <1>3 DEF Found
<1>6. node \in Nodes
  BY <1>4, <1>5, FilesAreNodes
<1>7. PICK root \in Seq(Int) : root = Identity(Clean(path)) /\ root # <<>>
  BY CleanIs, IdentityType
<1>8. StartsWith(node, root)
  BY <1>5, <1>7, FilesAreBeneath
<1>9. Beneath(node, root) \in Seq(Nat)
  BY <1>6, <1>7, <1>8, BeneathIs
<1>10. PICK input \in Seq(Int) : input = Clean(path)
  BY CleanIs
<1>11. input \o Beneath(node, root) \in Seq(Int)
  BY <1>9
<1>12. Shown(input, node) \in Seq(Int)
  BY <1>7, <1>10, <1>11, CleanIs DEF Shown
<1>13. \A name \in ToSet(path) \cup ToSet(node) \cup {Here} : Classify[name] \in Int
  <2>1. i \in DOMAIN inputs
    BY <1>1
  <2>2. \A name \in ToSet(path) : Classify[name] \in Int
    BY <1>3, <2>1, ScanAssumption DEF inputs, TypeInv
  <2>3. ToSet(node) \cup {Here} \subseteq (UNION {ToSet(other) : other \in Nodes}) \cup {Here}
    BY <1>6
  <2> QED
    BY <2>2, <2>3, FileSystemAssumption
<1>14. ToSet(input \o Beneath(node, root)) \subseteq ToSet(path) \cup ToSet(node) \cup {Here}
  <2>1. PICK names \in Seq(Nat) : names = Beneath(node, root) /\ node = root \o names
    BY <1>6, <1>7, <1>8, BeneathIs
  <2>2. names \in Seq(Int)
    BY <2>1
  <2>3. /\ ToSet(input \o names) = ToSet(input) \cup ToSet(names)
        /\ ToSet(root \o names) = ToSet(root) \cup ToSet(names)
    BY <2>2, ConcatElements
  <2>4. ToSet(input) \subseteq ToSet(path) \cup {Here}
    BY <1>10, CleanComponents
  <2> QED
    BY <2>1, <2>2, <2>3, <2>4
<1>15. Last(Shown(input, node)) \in ToSet(path) \cup ToSet(node) \cup {Here}
  <2>1. Shown(input, node) = Clean(input \o Beneath(node, root))
    BY <1>7, <1>10 DEF Shown
  <2> QED
    BY <2>1, <1>11, <1>14, CleanComponents
<1>16. \E other \in Seq(Int) : Shown(input, node) = Clean(other)
  BY <1>7, <1>10, <1>11 DEF Shown
<1> QED
  BY <1>2, <1>3, <1>10, <1>12, <1>13, <1>15, <1>16

LEMMA ReadOutcome ==
  ASSUME NEW at \in [1 .. next - 1 -> DOMAIN history], TypeInv, Counted(at), paths # Pending,
         NEW i \in DOMAIN paths, outcomes[i] # Pending
  PROVE  \E k \in DOMAIN history :
           history[k] \in [Nodes -> Kinds] /\ outcomes[i] = OutcomeOf(history[k], options, paths[i])
<1>1. inputs # <<>> /\ next = Len(inputs) + 1 /\ IsRead(at, paths[i], outcomes[i])
  BY DEF Counted
<1>2. PICK k \in at[Len(inputs)] .. Len(history) : outcomes[i] = OutcomeOf(history[k], options, paths[i])
  BY <1>1 DEF IsRead
<1>3. Len(inputs) \in 1 .. next - 1
  BY <1>1, InputsAreSequences
<1>4. at[Len(inputs)] \in 1 .. Len(history) /\ Len(history) \in Nat
  BY <1>3, HistoryIs
<1>5. k \in DOMAIN history
  BY <1>4, HistoryIs
<1> QED
  BY <1>2, <1>5, HistoryIs

\* What a scan that succeeds reports: the outcomes of all paths, and what was skipped.
LEMMA ReportedIs ==
  ASSUME Inv, ResultInv, Succeeded
  PROVE  /\ paths # Pending /\ \A i \in DOMAIN outcomes : outcomes[i] # Pending
         /\ Reported = {outcomes[i] : i \in DOMAIN outcomes} \cup ToSet(skipped)
<1>1. result \notin {Unknown, Overflow} /\ "totals" \in DOMAIN result
  BY DEF Succeeded
<1>2. \A kind, path : result # Error(kind, path)
  BY <1>1 DEF Error
<1>3. /\ paths # Pending /\ \A i \in DOMAIN outcomes : outcomes[i] # Pending /\ ~HasFailed(outcomes[i])
      /\ result = Aggregate(Filtered(outcomes, IsMeasured), skipped \o Filtered(outcomes, IsSkipped))
  BY <1>1, <1>2 DEF ResultInv
<1>4. PICK files : files = Filtered(outcomes, IsMeasured)
  OBVIOUS
<1>5. PICK skips : skips = Filtered(outcomes, IsSkipped)
  OBVIOUS
<1>6. PICK details : details = skipped \o skips
  OBVIOUS
<1>7. result.files = Sorted(files, ByPath) /\ result.skipped.details = SkippedSummary(details).details
  BY <1>1, <1>3, <1>4, <1>5, <1>6 DEF Aggregate
<1>8. PICK at \in [1 .. next - 1 -> DOMAIN history] : Looked(at) /\ Counted(at)
  BY DEF Inv
<1>9. PICK n, identities :
        /\ n \in Nat /\ DOMAIN paths = 1 .. n /\ identities \in [1 .. n -> DOMAIN found]
        /\ \A i \in 1 .. n : paths[i] = found[identities[i]]
        /\ outcomes = [i \in DOMAIN paths |-> outcomes[i]]
  BY <1>3, PoolPaths
<1>10. DOMAIN outcomes = 1 .. n
  BY <1>9
<1>11. \A i \in 1 .. n : paths[i] \in Seq(Int)
  BY <1>8, <1>9, FoundShown DEF Inv
<1>12. ASSUME NEW i \in 1 .. n
       PROVE  /\ outcomes[i].path \in Seq(Int)
              /\ IsMeasured(outcomes[i]) \/ IsSkipped(outcomes[i])
              /\ IsSkipped(outcomes[i]) => outcomes[i].reason \in Reasons
  <2>1. \E t \in [Nodes -> Kinds] : outcomes[i] = OutcomeOf(t, options, paths[i])
    BY <1>3, <1>8, <1>9, <1>10, ReadOutcome DEF Inv
  <2> QED
    BY <2>1, <1>3, <1>10, <1>11, OutcomeIs
<1>13. /\ \E m \in Nat : DOMAIN files = 1 .. m
       /\ \E m \in Nat : skips = [k \in 1 .. m |-> skips[k]]
       /\ ToSet(files) = {outcomes[i] : i \in {i \in 1 .. n : IsMeasured(outcomes[i])}}
       /\ ToSet(skips) = {outcomes[i] : i \in {i \in 1 .. n : IsSkipped(outcomes[i])}}
  <2>1. n \in Nat
    BY <1>9
  <2> QED
    BY ZenonT(40), <2>1, <1>4, <1>5, <1>10, FilteredOutcomes
<1>14. ToSet(files) \cup ToSet(skips) = {outcomes[i] : i \in 1 .. n}
  BY <1>12, <1>13
<1>15. ToSet(Sorted(files, ByPath)) = ToSet(files)
  <2>1. PICK m \in Nat : DOMAIN files = 1 .. m
    BY <1>13
  <2>2. \A i \in 1 .. m : files[i] \in ToSet(files)
    BY <2>1 DEF ToSet
  <2>3. \A file \in ToSet(files) : file.path \in Seq(Int)
    BY <1>12, <1>13
  <2> QED
    BY <2>1, <2>2, <2>3, SortedByPath
<1>16. /\ ToSet(details) = ToSet(skipped) \cup ToSet(skips)
       /\ ToSet(SkippedSummary(details).details) = ToSet(details)
  <2>1. PICK S : /\ skipped \in Seq(S)
                 /\ \A skip \in S : skip.path \in Seq(Int) /\ skip.reason \in Reasons
    BY <1>8, SkippedAre DEF Inv
  <2>2. PICK m \in Nat : skips = [k \in 1 .. m |-> skips[k]]
    BY <1>13
  <2>3. ToSet(details) = ToSet(skipped) \cup ToSet(skips) /\ \E k \in Nat : DOMAIN details = 1 .. k
    BY <2>1, <2>2, <1>6, ConcatSet
  <2>4. \A skip \in ToSet(details) : skip.path \in Seq(Int) /\ skip.reason \in Reasons
    <3>1. ToSet(skipped) \subseteq S
      BY <2>1 DEF ToSet
    <3> QED
      BY <3>1, <2>1, <2>3, <1>12, <1>13
  <2>5. PICK k \in Nat : DOMAIN details = 1 .. k
    BY <2>3
  <2>6. \A i \in 1 .. k : details[i] \in ToSet(details)
    BY <2>5 DEF ToSet
  <2>7. ToSet(SkippedSummary(details).details) = ToSet(details)
    <3>1. \A i \in 1 .. k : details[i].path \in Seq(Int) /\ details[i].reason \in Int
      BY <2>4, <2>6 DEF Reasons
    <3> QED
      BY ZenonT(30), <2>5, <3>1, DetailsSorted
  <2> QED
    BY <2>3, <2>7
<1> QED
  BY <1>3, <1>7, <1>10, <1>14, <1>15, <1>16 DEF Reported

LEMMA InvIsolated == Inv /\ ResultInv => Isolated
<1> SUFFICES ASSUME Inv, ResultInv, Succeeded, NEW node \in Untouched,
                    KindOf(tree, node) \notin {"dir", "locked"}, ~WalkFails(tree, options, node)
             PROVE  {report \in Reported : Identity(report.path) = node} =
                      IF Countable(node) THEN {OutcomeOf(tree, options, FirstPath(node))} ELSE {}
  BY DEF Isolated
<1>1. TypeInv
  BY DEF Inv
<1>2. PICK at \in [1 .. next - 1 -> DOMAIN history] : Looked(at) /\ Counted(at)
  BY DEF Inv
<1>3. /\ paths # Pending /\ \A i \in DOMAIN outcomes : outcomes[i] # Pending
      /\ Reported = {outcomes[i] : i \in DOMAIN outcomes} \cup ToSet(skipped)
  BY ReportedIs
<1>4. next = Len(inputs) + 1
  BY <1>2, <1>3 DEF Counted
<1>5. PICK n, identities :
        /\ n \in Nat /\ DOMAIN paths = 1 .. n /\ identities \in [1 .. n -> DOMAIN found]
        /\ \A i \in 1 .. n : paths[i] = found[identities[i]]
        /\ \A file \in DOMAIN found : \E i \in 1 .. n : identities[i] = file
        /\ \A i, j \in 1 .. n : i < j <=> Less(identities[i], identities[j])
        /\ outcomes = [i \in DOMAIN paths |-> outcomes[i]]
  BY <1>3, PoolPaths
<1>6. DOMAIN outcomes = 1 .. n
  BY <1>5
<1>7. \A i \in 1 .. n : Identity(paths[i]) = identities[i]
  BY <1>1, <1>2, <1>5, FoundIdentities
<1>8. ASSUME NEW i \in 1 .. n
      PROVE  /\ outcomes[i].path = paths[i]
             /\ identities[i] = node => outcomes[i] = OutcomeOf(tree, options, found[node])
  <2>1. PICK k \in DOMAIN history : outcomes[i] = OutcomeOf(history[k], options, paths[i])
    BY <1>1, <1>2, <1>3, <1>5, <1>6, ReadOutcome
  <2>2. history[k] \in [Nodes -> Kinds]
    BY <1>1, HistoryIs
  <2>3. outcomes[i].path = paths[i]
    BY <2>1, <2>2, OutcomeIs
  <2>4. KindOf(history[k], node) = KindOf(tree, node)
    BY <1>1, UntouchedKinds
  <2> QED
    BY <2>1, <2>3, <2>4, <1>5, <1>7, OutcomeKept
<1>9. ASSUME NEW skip \in ToSet(skipped)  PROVE Identity(skip.path) # node
  <2>1. PICK S : /\ skipped \in Seq(S)
                 /\ \A other \in S : \E k \in DOMAIN history :
                      WalkFails(history[k], options, Identity(other.path))
    BY <1>1, <1>2, SkippedAre
  <2>2. skip \in S
    BY <2>1 DEF ToSet
  <2>3. PICK k \in DOMAIN history : WalkFails(history[k], options, Identity(skip.path))
    BY <2>1, <2>2
  <2>4. KindOf(history[k], node) = KindOf(tree, node)
    BY <1>1, UntouchedKinds
  <2> QED
    BY <2>3, <2>4 DEF WalkFails
<1>10. {report \in Reported : Identity(report.path) = node} = {outcomes[i] : i \in {i \in 1 .. n : identities[i] = node}}
  BY <1>3, <1>6, <1>7, <1>8, <1>9
<1>11. /\ Countable(node) <=> node \in DOMAIN found
       /\ node \in DOMAIN found => FirstPath(node) = found[node]
  BY <1>1, <1>2, <1>4, UntouchedIsFound
<1>12. CASE node \in DOMAIN found
  <2>1. PICK i \in 1 .. n : identities[i] = node
    BY <1>5, <1>12
  <2>2. {outcomes[j] : j \in {j \in 1 .. n : identities[j] = node}} = {OutcomeOf(tree, options, found[node])}
    BY <2>1, <1>8
  <2> QED
    BY <2>2, <1>10, <1>11, <1>12
<1>13. CASE node \notin DOMAIN found
  BY <1>5, <1>10, <1>11, <1>13
<1> QED
  BY <1>12, <1>13

-----------------------------------------------------------------------------
(* What is reported adds up. *)

\* The places of the outcomes that pass a test, in order.
Chosen(list, S) ==
  /\ list \in [1 .. Cardinality(S) -> S]
  /\ \A x \in S : \E k \in 1 .. Cardinality(S) : list[k] = x
  /\ \A i, j \in 1 .. Cardinality(S) : list[i] = list[j] => i = j

Picks(part, seq, S) ==
  \E list : Chosen(list, S) /\ part = [k \in 1 .. Cardinality(S) |-> seq[list[k]]]

LEMMA OutcomesChosen ==
  ASSUME NEW n \in Nat, NEW seq, DOMAIN seq = 1 .. n,
         NEW M, M = {i \in 1 .. n : IsMeasured(seq[i])},
         NEW K, K = {i \in 1 .. n : IsSkipped(seq[i])}
  PROVE  Picks(Filtered(seq, IsMeasured), seq, M) /\ Picks(Filtered(seq, IsSkipped), seq, K)
<1>1. ASSUME NEW S \in SUBSET (1 .. n), NEW Before, Before = [i \in S |-> {j \in S : j < i}]
      PROVE  Picks(Arranged(seq, Before), seq, S)
  <2>1. Orders(S, Before)
    BY <1>1, IndicesOrder
  <2>2. PICK list : /\ Lists(list, S, Before)
                    /\ Arranged(seq, Before) = [k \in 1 .. Cardinality(S) |-> seq[list[k]]]
    <3>1. ListedBy(Arranged(seq, Before), seq, S, Before)
      BY <2>1, ArrangedBy
    <3> QED
      BY <3>1 DEF ListedBy
  <2>3. \A i, j \in 1 .. Cardinality(S) : list[i] = list[j] => i = j
    BY <2>1, <2>2, ListsOnce
  <2> QED
    BY <2>2, <2>3 DEF Lists, Chosen, Picks
<1>2. M \in SUBSET (1 .. n) /\ K \in SUBSET (1 .. n)
  OBVIOUS
<1>3. PICK ahead : ahead = [i \in M |-> {j \in M : j < i}]
  OBVIOUS
<1>4. Filtered(seq, IsMeasured) = Arranged(seq, ahead)
  BY <1>3 DEF Filtered, Ranked, Arranged
<1>5. PICK before : before = [i \in K |-> {j \in K : j < i}]
  OBVIOUS
<1>6. Filtered(seq, IsSkipped) = Arranged(seq, before)
  BY <1>5 DEF Filtered, Ranked, Arranged
<1>7. Picks(Arranged(seq, ahead), seq, M)
  BY <1>1, <1>2, <1>3
<1>8. Picks(Arranged(seq, before), seq, K)
  BY <1>1, <1>2, <1>5
<1> QED
  BY <1>4, <1>6, <1>7, <1>8

\* Every outcome is a file or a skip, and the files have paths of their own.
LEMMA OutcomesDivided ==
  ASSUME Inv, paths # Pending, \A i \in DOMAIN outcomes : outcomes[i] # Pending /\ ~HasFailed(outcomes[i]),
         NEW files, files = Filtered(outcomes, IsMeasured),
         NEW skips, skips = Filtered(outcomes, IsSkipped)
  PROVE  \E m, k \in Nat :
           /\ AreFiles(files, m) /\ files = [i \in 1 .. m |-> files[i]]
           /\ \A i, j \in 1 .. m : files[i].path = files[j].path => i = j
           /\ \A i \in 1 .. m : files[i].bytes = 0 => files[i].tokens = 0
           /\ DOMAIN skips = 1 .. k /\ skips = [i \in 1 .. k |-> skips[i]]
           /\ \A i \in 1 .. k : skips[i].path \in Seq(Int) /\ skips[i].reason \in Reasons
           /\ m + k = Len(paths)
<1>1. PICK at \in [1 .. next - 1 -> DOMAIN history] : Looked(at) /\ Counted(at)
  BY DEF Inv
<1>2. PICK n, identities :
        /\ n \in Nat /\ DOMAIN paths = 1 .. n /\ identities \in [1 .. n -> DOMAIN found]
        /\ \A i \in 1 .. n : paths[i] = found[identities[i]]
        /\ \A i, j \in 1 .. n : i < j <=> Less(identities[i], identities[j])
        /\ outcomes = [i \in DOMAIN paths |-> outcomes[i]]
  BY PoolPaths
<1>3. DOMAIN outcomes = 1 .. n
  BY <1>2
<1>4. \A i \in 1 .. n : /\ paths[i] \in Seq(Int) /\ Classify[Last(paths[i])] \in Int
                        /\ Identity(paths[i]) = identities[i] /\ identities[i] \in Seq(Int)
  <2>1. \A i \in 1 .. n : paths[i] \in Seq(Int) /\ Classify[Last(paths[i])] \in Int
    BY <1>1, <1>2, FoundShown DEF Inv
  <2>2. \A i \in 1 .. n : Identity(paths[i]) = identities[i] /\ identities[i] \in Nodes
    BY <1>1, <1>2, FoundIdentities DEF Inv
  <2> QED
    BY <2>1, <2>2, FileSystemAssumption
<1>5. \A i, j \in 1 .. n : paths[i] = paths[j] => i = j
  <2> SUFFICES ASSUME NEW i \in 1 .. n, NEW j \in 1 .. n, paths[i] = paths[j]
               PROVE  i = j
    OBVIOUS
  <2>1. identities[i] = identities[j] /\ identities[i] \in Seq(Int)
    BY <1>4
  <2>2. ~Less(identities[i], identities[j]) /\ ~Less(identities[j], identities[i])
    BY <2>1, LessIrreflexive
  <2>3. ~(i < j) /\ ~(j < i)
    BY <1>2, <2>2
  <2> QED
    BY <2>3
<1>6. ASSUME NEW i \in 1 .. n
      PROVE  /\ outcomes[i].path = paths[i]
             /\ IsMeasured(outcomes[i]) <=> ~IsSkipped(outcomes[i])
             /\ IsMeasured(outcomes[i]) => /\ outcomes[i].language \in Int
                                           /\ outcomes[i].tokens \in Nat /\ outcomes[i].bytes \in Nat
                                           /\ outcomes[i].bytes = 0 => outcomes[i].tokens = 0
             /\ IsSkipped(outcomes[i]) => outcomes[i].reason \in Reasons
  <2>1. PICK t \in [Nodes -> Kinds] : outcomes[i] = OutcomeOf(t, options, paths[i])
    BY <1>1, <1>2, <1>3, ReadOutcome DEF Inv
  <2> QED
    BY <2>1, <1>3, <1>4, OutcomeIs
<1>7. PICK M \in SUBSET (1 .. n) : M = {i \in 1 .. n : IsMeasured(outcomes[i])}
  OBVIOUS
<1>8. PICK K \in SUBSET (1 .. n) : K = {i \in 1 .. n : IsSkipped(outcomes[i])}
  OBVIOUS
<1>9. M \cap K = {} /\ M \cup K = 1 .. n
  BY <1>6, <1>7, <1>8
<1>10. PICK m \in Nat : m = Cardinality(M)
  BY <1>2, UptoIsFinite, FS_Subset, FS_CardinalityType
<1>11. PICK k \in Nat : k = Cardinality(K)
  BY <1>2, UptoIsFinite, FS_Subset, FS_CardinalityType
<1>12. m + k = n
  <2>1. IsFiniteSet(M) /\ IsFiniteSet(K)
    BY <1>2, UptoIsFinite, FS_Subset
  <2>2. Cardinality(M \cup K) = Cardinality(M) + Cardinality(K) - Cardinality(M \cap K)
    BY <2>1, FS_Union
  <2>3. Cardinality({}) = 0 /\ Cardinality(1 .. n) = n
    BY <1>2, UptoIsFinite, FS_EmptySet
  <2>4. Cardinality(M \cup K) = n /\ Cardinality(M \cap K) = 0
    BY <1>9, <2>3
  <2>5. n = m + k - 0
    BY <2>2, <2>4, <1>10, <1>11
  <2> QED
    BY <2>5, <1>2
<1>13. PICK list : Chosen(list, M) /\ files = [j \in 1 .. m |-> outcomes[list[j]]]
  <2>1. Picks(files, outcomes, M)
    BY <1>2, <1>3, <1>7, <1>8, OutcomesChosen
  <2> QED
    BY <2>1, <1>10 DEF Picks
<1>14. PICK rest : Chosen(rest, K) /\ skips = [j \in 1 .. k |-> outcomes[rest[j]]]
  <2>1. Picks(skips, outcomes, K)
    BY <1>2, <1>3, <1>7, <1>8, OutcomesChosen
  <2> QED
    BY <2>1, <1>11 DEF Picks
<1>15. \A j \in 1 .. m : files[j] = outcomes[list[j]] /\ list[j] \in 1 .. n /\ IsMeasured(outcomes[list[j]])
  BY <1>7, <1>10, <1>13 DEF Chosen
<1>16. AreFiles(files, m)
  <2>1. DOMAIN files = 1 .. m
    BY <1>13
  <2>2. ASSUME NEW j \in 1 .. m
        PROVE  /\ files[j].path \in Seq(Int) /\ files[j].language \in Int
               /\ files[j].tokens \in Nat /\ files[j].bytes \in Nat
    <3>1. PICK i \in 1 .. n : i = list[j] /\ files[j] = outcomes[i] /\ IsMeasured(outcomes[i])
      BY <1>15
    <3> QED
      BY <3>1, <1>4, <1>6
  <2> QED
    BY <2>1, <2>2 DEF AreFiles
<1>17. ASSUME NEW i \in 1 .. m, NEW j \in 1 .. m, files[i].path = files[j].path
       PROVE  i = j
  <2>1. paths[list[i]] = paths[list[j]]
    BY <1>6, <1>15, <1>17
  <2>2. list[i] = list[j]
    BY <2>1, <1>5, <1>15
  <2> QED
    BY <2>2, <1>10, <1>13 DEF Chosen
<1>18. DOMAIN skips = 1 .. k /\ skips = [j \in 1 .. k |-> skips[j]]
  BY <1>14
<1>19. ASSUME NEW j \in 1 .. k
       PROVE  skips[j].path \in Seq(Int) /\ skips[j].reason \in Reasons
  <2>0. rest[j] \in K /\ skips[j] = outcomes[rest[j]]
    BY <1>11, <1>14 DEF Chosen
  <2>1. PICK i \in K : i = rest[j] /\ skips[j] = outcomes[i]
    BY <2>0
  <2> QED
    BY <2>1, <1>4, <1>6, <1>8
<1>20. files = [j \in 1 .. m |-> files[j]]
  BY <1>13
<1>22. ASSUME NEW j \in 1 .. m, files[j].bytes = 0  PROVE files[j].tokens = 0
  <2>1. PICK i \in 1 .. n : files[j] = outcomes[i] /\ IsMeasured(outcomes[i])
    BY <1>15
  <2>2. outcomes[i].bytes = 0
    BY <1>22, <2>1
  <2>3. outcomes[i].tokens = 0
    BY <1>6, <2>1, <2>2
  <2> QED
    BY <2>1, <2>3
<1>21. Len(paths) = n
  <2>1. paths = [i \in 1 .. n |-> paths[i]]
    BY <1>1, <1>2 DEF Counted
  <2> QED
    BY <1>2, <2>1
<1> QED
  BY <1>12, <1>16, <1>17, <1>18, <1>19, <1>20, <1>21, <1>22

\* What cannot be read at an untouched place is skipped by every input whose walk comes
\* to it.
LEMMA UnreadIsSkipped ==
  ASSUME NEW at \in [1 .. next - 1 -> DOMAIN history], TypeInv, Looked(at), next = Len(inputs) + 1,
         NEW node \in Untouched, WalkFails(tree, options, node),
         NEW i \in DOMAIN inputs, IsWalked(i, node)
  PROVE  \E skip \in ToSet(skipped) : Identity(skip.path) = node
<1>1. inputs \in Seq(Seq(Int)) /\ Len(inputs) \in Nat /\ i \in 1 .. next - 1
  BY InputsAreSequences
<1>2. PICK t : t = history[at[i]]
  OBVIOUS
<1>3. PICK path \in Seq(Int) : path = inputs[i]
  BY <1>1
<1>4. PICK root \in Seq(Int) : root = Identity(Clean(path)) /\ root # <<>>
  BY CleanIs, IdentityType
<1>5. IsDirectory(tree, root) /\ node \in Visited(tree, options, root)
  BY <1>3, <1>4 DEF IsWalked
<1>6. IsDirectory(t, root) /\ node \in Visited(t, options, root)
  BY <1>1, <1>2, <1>4, <1>5, UntouchedVisited
<1>7. WalkFails(t, options, node)
  <2>1. KindOf(t, node) = KindOf(tree, node)
    BY <1>1, <1>2, UntouchedKinds
  <2> QED
    BY <2>1 DEF WalkFails
<1>8. PICK skip : skip = Skipped(Shown(Clean(path), node), Unreadable)
  OBVIOUS
<1>9. PICK unread : unread = [j \in 1 .. next - 1 |-> UnreadOf(history[at[j]], options, inputs[j])]
  OBVIOUS
<1>10. skip \in unread[i]
  BY <1>1, <1>2, <1>3, <1>4, <1>6, <1>7, <1>8, <1>9 DEF UnreadOf
<1>11. Identity(skip.path) = node
  <2>1. node \in Nodes /\ StartsWith(node, Identity(Clean(path)))
    BY <1>4, <1>5 DEF Visited
  <2>2. Identity(Shown(Clean(path), node)) = node
    BY <2>1, ShownIdentity
  <2> QED
    BY <1>8, <2>2 DEF Skipped
<1>12. skip \in ToSet(skipped)
  <2>1. PICK S : S = UNION {unread[j] : j \in 1 .. next - 1}
    OBVIOUS
  <2>2. ASSUME NEW j \in 1 .. next - 1
        PROVE  SetToSeq(unread[j]) \in Seq(S) /\ unread[j] \subseteq ToSet(SetToSeq(unread[j]))
    <3>1. IsFiniteSet(unread[j])
      BY <1>9, UnreadIsFinite
    <3>2. PICK listed : listed = SetToSeq(unread[j])
      OBVIOUS
    <3>3. /\ listed \in Seq(unread[j])
          /\ \A x \in unread[j] : \E k \in 1 .. Len(listed) : listed[k] = x
      BY <3>1, <3>2, SetToSeqLists
    <3>4. listed \in Seq(S)
      BY <2>1, <3>3
    <3>5. unread[j] \subseteq ToSet(listed)
      <4>1. DOMAIN listed = 1 .. Len(listed)
        BY <3>3
      <4>2. ASSUME NEW x \in unread[j]
            PROVE  x \in ToSet(listed)
        <5>1. PICK k \in 1 .. Len(listed) : listed[k] = x
          BY <3>3
        <5> QED
          BY <4>1, <5>1 DEF ToSet
      <4> QED
        BY <4>2
    <3> QED
      BY <3>2, <3>4, <3>5
  <2>3. PICK lists : lists = [j \in 1 .. next - 1 |-> SetToSeq(unread[j])]
    OBVIOUS
  <2>4. PICK n \in Nat : n = next - 1
    BY <1>1
  <2>5. lists \in Seq(Seq(S)) /\ Len(lists) = n
    <3>1. PICK T : T = Seq(S)
      OBVIOUS
    <3>2. \A j \in 1 .. n : lists[j] \in T
      BY <2>2, <2>3, <2>4, <3>1
    <3>3. lists = [j \in 1 .. n |-> lists[j]]
      BY <2>3, <2>4
    <3>4. [j \in 1 .. n |-> lists[j]] \in Seq(T) /\ Len([j \in 1 .. n |-> lists[j]]) = n
      BY <3>2
    <3> QED
      BY <3>1, <3>3, <3>4
  <2>6. ToSet(lists[i]) \subseteq ToSet(FlattenSeq(lists))
    BY <1>1, <2>4, <2>5, FlattenSeqHas
  <2>7. skipped = FlattenSeq(lists)
    BY <1>9, <2>3 DEF Looked, SkipLists
  <2>8. skip \in ToSet(lists[i])
    BY <1>1, <1>10, <2>2, <2>3
  <2> QED
    BY <2>6, <2>7, <2>8
<1> QED
  BY <1>11, <1>12

\* What a scan aggregates when none of its files fails: every file has a path of its own,
\* and every path is a file or a skip.
AreParts(files, m, details, d) ==
  /\ AreFiles(files, m) /\ files = [i \in 1 .. m |-> files[i]]
  /\ \A i, j \in 1 .. m : files[i].path = files[j].path => i = j
  /\ \A i \in 1 .. m : files[i].bytes = 0 => files[i].tokens = 0
  /\ DOMAIN details = 1 .. d /\ Len(details) = d
  /\ \A i \in 1 .. d : details[i].path \in Seq(Int) /\ details[i].reason \in Reasons

LEMMA PartsAre ==
  ASSUME Inv, ResultInv, Succeeded \/ result = Overflow,
         NEW files, files = Filtered(outcomes, IsMeasured),
         NEW details, details = skipped \o Filtered(outcomes, IsSkipped)
  PROVE  \E m, d \in Nat :
           /\ AreParts(files, m, details, d)
           /\ m + d = Len(paths) + Len(skipped)
           /\ ToSet(skipped) \subseteq ToSet(details)
           /\ paths # Pending
           /\ ~Fits(files, 1 .. m) => result = Overflow
           /\ Fits(files, 1 .. m) => /\ AddsFilesUp(result, files, m)
                                     /\ result.skipped = SkippedSummary(details)
                                     /\ result # Overflow
<1>1. result # Unknown /\ \A kind, path : result # Error(kind, path)
  <2>1. Overflow # Unknown /\ \A kind, path : Overflow # Error(kind, path)
    BY ScanAssumption DEF Overflow, Error
  <2>2. Succeeded => result # Unknown /\ \A kind, path : result # Error(kind, path)
    BY DEF Succeeded, Error
  <2> QED
    BY <2>1, <2>2
<1>2. /\ paths # Pending /\ \A i \in DOMAIN outcomes : outcomes[i] # Pending /\ ~HasFailed(outcomes[i])
      /\ result = Aggregate(files, details)
  BY <1>1 DEF ResultInv
<1>3. PICK at \in [1 .. next - 1 -> DOMAIN history] : Looked(at) /\ Counted(at)
  BY DEF Inv
<1>4. PICK skips : skips = Filtered(outcomes, IsSkipped)
  OBVIOUS
<1>5. PICK m \in Nat, k \in Nat :
        /\ AreFiles(files, m) /\ files = [i \in 1 .. m |-> files[i]]
        /\ \A i, j \in 1 .. m : files[i].path = files[j].path => i = j
        /\ \A i \in 1 .. m : files[i].bytes = 0 => files[i].tokens = 0
        /\ DOMAIN skips = 1 .. k /\ skips = [i \in 1 .. k |-> skips[i]]
        /\ \A i \in 1 .. k : skips[i].path \in Seq(Int) /\ skips[i].reason \in Reasons
        /\ m + k = Len(paths)
  BY <1>2, <1>4, OutcomesDivided
<1>6. PICK S : /\ skipped \in Seq(S)
               /\ \A skip \in S : skip.path \in Seq(Int) /\ skip.reason \in Reasons
  BY <1>3, SkippedAre DEF Inv
<1>7. PICK d \in Nat : d = Len(skipped) + k /\ DOMAIN details = 1 .. d /\ Len(details) = d
  BY <1>4, <1>5, <1>6, ConcatSet
<1>8. ToSet(details) = ToSet(skipped) \cup ToSet(skips)
  BY <1>4, <1>5, <1>6, ConcatSet
<1>9. \A i \in 1 .. d : details[i].path \in Seq(Int) /\ details[i].reason \in Reasons
  <2>1. \A i \in 1 .. d : details[i] \in ToSet(details)
    BY <1>7 DEF ToSet
  <2>2. ToSet(skipped) \subseteq S
    BY <1>6 DEF ToSet
  <2>3. \A skip \in ToSet(skips) : skip.path \in Seq(Int) /\ skip.reason \in Reasons
    BY <1>5 DEF ToSet
  <2> QED
    BY <2>1, <2>2, <2>3, <1>6, <1>8
<1>10. /\ ~Fits(files, 1 .. m) => result = Overflow
       /\ Fits(files, 1 .. m) => /\ AddsFilesUp(result, files, m)
                                 /\ result.skipped = SkippedSummary(details)
                                 /\ result # Overflow
  BY <1>2, <1>5, AggregateIs
<1>11. AreParts(files, m, details, d)
  BY <1>5, <1>7, <1>9 DEF AreParts
<1>12. m + d = Len(paths) + Len(skipped)
  <2>1. Len(skipped) \in Nat
    BY <1>6
  <2> QED
    BY <2>1, <1>5, <1>7
<1> QED
  BY <1>2, <1>8, <1>10, <1>11, <1>12

LEMMA InvConserved == Inv /\ ResultInv => Conserved
<1> SUFFICES ASSUME Inv, ResultInv, Succeeded \/ result = Overflow  PROVE Conserved
  BY DEF Conserved
<1>1. PICK at \in [1 .. next - 1 -> DOMAIN history] : Looked(at) /\ Counted(at)
  BY DEF Inv
<1>2. PICK files : files = Filtered(outcomes, IsMeasured)
  OBVIOUS
<1>3. PICK details : details = skipped \o Filtered(outcomes, IsSkipped)
  OBVIOUS
<1>4. PICK m \in Nat, d \in Nat :
        /\ AreParts(files, m, details, d)
        /\ m + d = Len(paths) + Len(skipped)
        /\ ToSet(skipped) \subseteq ToSet(details)
        /\ paths # Pending
        /\ ~Fits(files, 1 .. m) => result = Overflow
        /\ Fits(files, 1 .. m) => /\ AddsFilesUp(result, files, m)
                                  /\ result.skipped = SkippedSummary(details)
                                  /\ result # Overflow
  BY <1>2, <1>3, PartsAre
<1>5. next = Len(inputs) + 1
  BY <1>1, <1>4 DEF Counted
<1>6. /\ AreFiles(files, m) /\ files = [i \in 1 .. m |-> files[i]]
      /\ \A i, j \in 1 .. m : files[i].path = files[j].path => i = j
      /\ DOMAIN details = 1 .. d /\ Len(details) = d
      /\ \A i \in 1 .. d : details[i].path \in Seq(Int) /\ details[i].reason \in Reasons
  BY <1>4 DEF AreParts
<1>7. ASSUME Succeeded
       PROVE  /\ result.totals.files = Len(result.files)
              /\ result.totals.files = Sum(result.languages, LAMBDA language : language.files)
              /\ result.totals.tokens = Sum(result.files, LAMBDA file : file.tokens)
              /\ result.totals.tokens = Sum(result.languages, LAMBDA language : language.tokens)
              /\ result.totals.files + result.skipped.total = Len(paths) + Len(skipped)
              /\ Total(result.skipped.count) = result.skipped.total
              /\ \A i \in 1 .. Len(result.files) - 1 :
                   Less(result.files[i].path, result.files[i + 1].path)
              /\ \A node \in Untouched :
                   WalkFails(tree, options, node) /\ (\E i \in DOMAIN inputs : IsWalked(i, node))
                     => \E skip \in ToSet(result.skipped.details) : Identity(skip.path) = node
  <2>1. AddsFilesUp(result, files, m) /\ result.skipped = SkippedSummary(details)
    BY <1>4, <1>7 DEF Succeeded
  <2>2. result.totals.files = m /\ Len(result.files) = m
    BY <2>1 DEF AddsFilesUp
  <2>3. /\ result.totals.files = Sum(result.languages, LAMBDA language : language.files)
        /\ result.totals.tokens = Sum(result.files, LAMBDA file : file.tokens)
        /\ result.totals.tokens = Sum(result.languages, LAMBDA language : language.tokens)
    BY <2>1 DEF AddsFilesUp
  <2>4. result.skipped.total = d
    <3>1. SkippedSummary(details).total = Len(details)
      BY DEF SkippedSummary
    <3> QED
      BY <2>1, <3>1, <1>6
  <2>5. result.totals.files + result.skipped.total = Len(paths) + Len(skipped)
    BY <2>2, <2>4, <1>4
  <2>6. Total(result.skipped.count) = result.skipped.total
    BY <2>1, <2>4, <1>6, ReasonsAddUp
  <2>7. ASSUME NEW i \in 1 .. Len(result.files) - 1
        PROVE  Less(result.files[i].path, result.files[i + 1].path)
    <3>1. PICK list : list = Sorted(files, ByPath)
      OBVIOUS
    <3>2. \A a, b \in 1 .. m : a < b => Less(list[a].path, list[b].path)
      BY <1>6, <3>1, SortedFiles
    <3>3. i \in 1 .. m /\ i + 1 \in 1 .. m /\ i < i + 1
      BY <2>2
    <3>4. result.files = list
      BY <2>1, <3>1 DEF AddsFilesUp
    <3> QED
      BY <3>2, <3>3, <3>4
  <2>8. ASSUME NEW node \in Untouched, WalkFails(tree, options, node),
               NEW i \in DOMAIN inputs, IsWalked(i, node)
        PROVE  \E skip \in ToSet(result.skipped.details) : Identity(skip.path) = node
    <3>1. PICK skip \in ToSet(skipped) : Identity(skip.path) = node
      BY <1>1, <1>5, <2>8, UnreadIsSkipped DEF Inv
    <3>2. ToSet(SkippedSummary(details).details) = ToSet(details)
      <4>1. \A j \in 1 .. d : details[j].path \in Seq(Int) /\ details[j].reason \in Int
        BY <1>6 DEF Reasons
      <4> QED
        BY <1>6, <4>1, DetailsSorted
    <3> QED
      BY <2>1, <3>1, <3>2, <1>4
  <2> QED
    BY <2>2, <2>3, <2>5, <2>6, <2>7, <2>8
<1>8. ASSUME result = Overflow
       PROVE  \/ Sum(files, LAMBDA file : file.tokens) > MaxCount
              \/ Sum(files, LAMBDA file : file.bytes) > MaxCount
              \/ Len(files) > MaxCount
  <2>1. ~Fits(files, 1 .. m)
    BY <1>4, <1>8
  <2>2. DOMAIN files = 1 .. m /\ Len(files) = m
    BY <1>6
  <2>3. PICK all \in SUBSET (1 .. m) : all = 1 .. m
    OBVIOUS
  <2>4. PICK tokens : tokens = TokensIn(files)
    OBVIOUS
  <2>5. PICK bytes : bytes = BytesIn(files)
    OBVIOUS
  <2>6. /\ Weighs(tokens, 1 .. m) /\ SumOver(tokens, 1 .. m) \in Nat
        /\ Weighs(bytes, 1 .. m) /\ SumOver(bytes, 1 .. m) \in Nat
    BY <1>6, <2>3, <2>4, <2>5, SumsAreNatural
  <2>7. DOMAIN tokens = 1 .. m /\ DOMAIN bytes = 1 .. m
    BY <2>2, <2>4, <2>5 DEF TokensIn, BytesIn
  <2>8. Total(tokens) = SumOver(tokens, 1 .. m) /\ Total(bytes) = SumOver(bytes, 1 .. m)
    BY <2>6, <2>7, TotalIs
  <2>9. /\ Sum(files, LAMBDA file : file.tokens) = Total(tokens)
        /\ Sum(files, LAMBDA file : file.bytes) = Total(bytes)
    BY <2>4, <2>5 DEF Sum, TokensIn, BytesIn
  <2>10. Cardinality(1 .. m) = m
    BY UptoIsFinite
  <2>11. m > MaxCount \/ SumOver(tokens, 1 .. m) > MaxCount \/ SumOver(bytes, 1 .. m) > MaxCount
    BY <2>1, <2>4, <2>5, <2>6, <2>10, AggregationAssumption DEF Fits
  <2> QED
    BY <2>2, <2>8, <2>9, <2>11
<1> QED
  BY <1>2, <1>7, <1>8 DEF Conserved

-----------------------------------------------------------------------------
(* Theorems *)

\* Whatever scan returns, an error included, and however the workers, the looks at the
\* inputs and the changes of the file system interleave: one who looks at the inputs in
\* order and then reads each file once may return it as well (scan, discover).
THEOREM ScanIsSequential == Spec => Sequentially
<1>1. Init => Sequential!Init
  BY InitSequential
<1>2. Inv /\ [Next]_vars => [Sequential!vars # (Sequential!vars)' => Sequential!Next]_vars
  BY NextSequential
<1> QED
  BY <1>1, <1>2, SpecInv, PTL DEF Spec, Sequentially

\* The same as the specification of module SequentialScan.
THEOREM ScanRefinesSequential == Spec => Sequential!Spec
<1>1. Init => Sequential!Init
  BY InitSequential
<1>2. Inv /\ [Next]_vars => [Sequential!Next]_(Sequential!vars)
  BY NextSequential
<1> QED
  BY <1>1, <1>2, SpecInv, PTL DEF Spec, Sequential!Spec

\* In any state a scan may be in: what is found is found under its own identity, under a
\* path that leads to it, and every worker has a path of the pool (discover, scan).
THEOREM ScanTypeCorrect == Spec => []TypeOK
BY SpecInv, InvTypeOK, PTL

\* The error of a scan is that of the first failing file in the order of identities,
\* however many workers there are and in whatever order they finish; without one it
\* succeeds (scan: "match outcome?").
THEOREM FirstFailureReturned == Spec => []FirstFailure
<1>1. Init => ResultInv
  BY DEF Init, ResultInv
<1>2. Inv /\ ResultInv /\ [Next]_vars => ResultInv'
  BY NextResultInv
<1>3. Spec => []ResultInv
  BY <1>1, <1>2, SpecInv, PTL DEF Spec
<1> QED
  BY <1>3, SpecInv, InvFirstFailure, PTL

\* A scan that succeeds reports every file that nobody touched exactly once, under the
\* first of the paths that lead to it and with the outcome of its own content, whatever
\* other inputs overlap, whatever happens to other files and however many workers
\* interleave (discover, insert_path, scan, aggregate).
THEOREM FilesIsolated == Spec => []Isolated
<1>1. Init => ResultInv
  BY DEF Init, ResultInv
<1>2. Inv /\ ResultInv /\ [Next]_vars => ResultInv'
  BY NextResultInv
<1>3. Spec => []ResultInv
  BY <1>1, <1>2, SpecInv, PTL DEF Spec
<1> QED
  BY <1>3, SpecInv, InvIsolated, PTL

\* Nothing is lost or counted twice on the way to the report of a scan that succeeds:
\* totals, languages, files, skips and paths agree, and a sum that does not fit is an
\* error and never a smaller number (add_file, aggregate, from_details).
THEOREM ReportAddsUp == Spec => []Conserved
<1>1. Init => ResultInv
  BY DEF Init, ResultInv
<1>2. Inv /\ ResultInv /\ [Next]_vars => ResultInv'
  BY NextResultInv
<1>3. Spec => []ResultInv
  BY <1>1, <1>2, SpecInv, PTL DEF Spec
<1> QED
  BY <1>3, SpecInv, InvConserved, PTL
-----------------------------------------------------------------------------
(* What a scan of directories shows *)

\* Paths that are read from a directory: absolute ones from none, the others from the
\* current one.
IsFrom(base, path) ==
  /\ path \in Seq(Int)
  /\ \/ base = <<>> /\ path # <<>> /\ path[1] = Root /\ \A k \in 2 .. Len(path) : path[k] \in Nat
     \/ base = Cwd /\ path \in Seq(Nat)

Bases == {<<>>, Cwd}

LEMMA BasesAre ==
  /\ Bases \subseteq Seq(Int) /\ Cwd \in Seq(Int) /\ Cwd # <<>> /\ Cwd[1] = Root
  /\ \A k \in 1 .. Len(Cwd) : Cwd[k] \notin {Here, Up}
  /\ Folded(Cwd) = Cwd
<1>1. Cwd \in Seq(Int) /\ Cwd # <<>> /\ Cwd[1] = Root /\ \A k \in 2 .. Len(Cwd) : Cwd[k] \in Nat
  BY FileSystemAssumption DEF IsAbsolute
<1>2. ASSUME NEW k \in 1 .. Len(Cwd)  PROVE Cwd[k] \notin {Here, Up}
  <2>1. k = 1 \/ k \in 2 .. Len(Cwd)
    BY <1>1
  <2>2. Cwd[k] = Root \/ Cwd[k] \in Nat
    BY <1>1, <2>1
  <2> QED
    BY <2>2 DEF Root, Here, Up
<1>3. <<>> \in Seq(Int)
  OBVIOUS
<1>4. Folded(Cwd) = Cwd
  BY <1>1, <1>2, PlainIsClean
<1> QED
  BY <1>1, <1>2, <1>3, <1>4 DEF Bases

\* Such a path leads to where it is from its directory.
LEMMA IdentityFrom ==
  ASSUME NEW base \in Bases, NEW path, IsFrom(base, path)
  PROVE  Identity(PathShown(path)) = base \o path /\ path # <<Here>> /\ base \o path \in Seq(Int)
<1>1. path \in Seq(Int) /\ base \in Seq(Int)
  BY BasesAre DEF IsFrom
<1>2. path # <<Here>>
  <2>1. path # <<>> => path[1] = Root \/ path[1] \in Nat
    BY DEF IsFrom
  <2>2. <<Here>> # <<>> /\ <<Here>>[1] = Here
    OBVIOUS
  <2> QED
    BY <2>1, <2>2 DEF Root, Here
<1>3. CASE /\ base = <<>> /\ path # <<>> /\ path[1] = Root /\ \A k \in 2 .. Len(path) : path[k] \in Nat
  <2>1. Join(Cwd, path) = path /\ PathShown(path) = path
    BY <1>3 DEF Join, IsAbsolute, PathShown
  <2>2. ASSUME NEW k \in 1 .. Len(path)  PROVE path[k] \notin {Here, Up}
    <3>1. k = 1 \/ k \in 2 .. Len(path)
      BY <1>1
    <3>2. path[k] = Root \/ path[k] \in Nat
      BY <1>3, <3>1
    <3> QED
      BY <3>2 DEF Root, Here, Up
  <2>3. Folded(path) = path
    BY <1>1, <2>2, PlainIsClean
  <2>4. Clean(path) = path
    BY <1>1, <1>3, <2>3, CleanIs
  <2> QED
    BY <1>1, <1>2, <1>3, <2>1, <2>4 DEF Identity
<1>4. CASE base = Cwd /\ path \in Seq(Nat)
  <2>1. CASE path = <<>>
    <3>1. Folded(Append(Cwd, Here)) = Push(Folded(Cwd), Here)
      BY BasesAre, FoldedAppend DEF Here
    <3>2. Push(Cwd, Here) = Cwd
      BY DEF Push, Here, Up
    <3>3. Cwd \o <<Here>> = Append(Cwd, Here) /\ Cwd \o <<>> = Cwd /\ Append(Cwd, Here) \in Seq(Int)
      BY BasesAre DEF Here
    <3>4. ~IsAbsolute(<<Here>>)
      BY DEF IsAbsolute, Here, Root
    <3>5. Clean(Append(Cwd, Here)) = Cwd
      BY <3>1, <3>2, <3>3, BasesAre, CleanIs
    <3> QED
      BY <1>1, <1>2, <1>4, <2>1, <3>3, <3>4, <3>5 DEF Identity, Join, PathShown
  <2>2. CASE path # <<>>
    <3>1. path[1] \in Nat
      BY <1>4, <2>2
    <3>2. ~IsAbsolute(path)
      BY <3>1 DEF IsAbsolute, Root
    <3>3. Cwd \o path # <<>>
      BY <1>1, BasesAre
    <3>4. Clean(Cwd \o path) = Cwd \o path
      BY <1>4, <3>3, BasesAre, CleanNames
    <3> QED
      BY <1>1, <1>2, <1>4, <2>2, <3>2, <3>4 DEF Identity, Join, PathShown
  <2> QED
    BY <2>1, <2>2
<1> QED
  BY <1>3, <1>4 DEF IsFrom

\* The directories between a root and a path, and what is below them.
LEMMA BetweenFrom ==
  ASSUME NEW base \in Bases, NEW root, IsFrom(base, root), NEW path, IsFrom(base, path),
         NEW d \in Seq(Int), IsPrefix(root, d), IsPrefix(d, path)
  PROVE  IsFrom(base, d)
<1>1. /\ root \in Seq(Int) /\ Len(root) =< Len(d) /\ \A i \in 1 .. Len(root) : root[i] = d[i]
      /\ path \in Seq(Int) /\ Len(d) =< Len(path) /\ \A i \in 1 .. Len(d) : d[i] = path[i]
  BY PrefixMeans DEF IsFrom
<1>2. CASE /\ base = <<>> /\ root # <<>> /\ root[1] = Root
           /\ path # <<>> /\ path[1] = Root /\ \A k \in 2 .. Len(path) : path[k] \in Nat
  <2>1. Len(root) \in Nat /\ Len(root) > 0 /\ Len(d) \in Nat
    BY <1>1, <1>2
  <2>2. d # <<>> /\ d[1] = Root
    <3>1. 1 \in 1 .. Len(root) /\ Len(d) > 0
      BY <1>1, <2>1
    <3>2. root[1] = d[1]
      BY <1>1, <3>1
    <3> QED
      BY <1>2, <3>1, <3>2
  <2>3. ASSUME NEW k \in 2 .. Len(d)  PROVE d[k] \in Nat
    <3>1. Len(d) \in Nat /\ Len(path) \in Nat /\ Len(d) =< Len(path)
      BY <1>1
    <3>2. k \in 1 .. Len(d) /\ k \in 2 .. Len(path)
      BY <3>1
    <3>3. d[k] = path[k]
      BY <1>1, <3>2
    <3> QED
      BY <1>2, <3>2, <3>3
  <2> QED
    BY <1>2, <2>2, <2>3 DEF IsFrom
<1>3. CASE base = Cwd /\ path \in Seq(Nat)
  <2>1. ASSUME NEW k \in 1 .. Len(d)  PROVE d[k] \in Nat
    <3>1. Len(d) \in Nat /\ Len(path) \in Nat /\ Len(d) =< Len(path)
      BY <1>1
    <3>2. k \in 1 .. Len(path)
      BY <3>1
    <3>3. path[k] \in Nat
      BY <1>3, <3>2
    <3> QED
      BY <1>1, <3>3
  <2>2. d \in Seq(Nat)
    BY <2>1
  <2> QED
    BY <1>3, <2>2 DEF IsFrom
<1>4. Cwd # <<>>
  BY BasesAre
<1> QED
  BY <1>2, <1>3, <1>4 DEF IsFrom

LEMMA BelowFrom ==
  ASSUME NEW base \in Bases, NEW root, IsFrom(base, root), NEW names \in Seq(Nat)
  PROVE  IsFrom(base, root \o names) /\ IsPrefix(root, root \o names)
<1>1. PICK n \in Nat, m \in Nat : n = Len(root) /\ m = Len(names) /\ root \in Seq(Int)
  BY DEF IsFrom
<1>2. root \o names \in Seq(Int)
  BY <1>1
<1>3. PICK path \in Seq(Int) : path = root \o names
  BY <1>2
<1>4. Len(path) = n + m /\ \A i \in 1 .. n + m : path[i] = IF i =< n THEN root[i] ELSE names[i - n]
  BY <1>1, <1>3
<1>5. \A i \in 1 .. n : i \in 1 .. n + m /\ path[i] = root[i]
  BY <1>4
<1>6. IsPrefix(root, path)
  BY <1>1, <1>4, <1>5, PrefixMeans
<1>7. ASSUME NEW i \in n + 1 .. n + m  PROVE path[i] \in Nat
  <2>1. i \in 1 .. n + m /\ ~(i =< n) /\ i - n \in 1 .. m
    OBVIOUS
  <2>2. path[i] \in Nat
    <3>1. path[i] = names[i - n]
      BY <1>4, <2>1
    <3>2. names[i - n] \in Nat
      BY <1>1, <2>1
    <3> QED
      BY <3>1, <3>2
  <2> QED
    BY <2>2
<1>8. CASE base = <<>> /\ root # <<>> /\ root[1] = Root /\ \A k \in 2 .. Len(root) : root[k] \in Nat
  <2>1. n > 0 /\ path # <<>> /\ path[1] = Root
    BY <1>1, <1>3, <1>5, <1>8
  <2>2. ASSUME NEW k \in 2 .. Len(path)  PROVE path[k] \in Nat
    <3>1. k \in 2 .. n \/ k \in n + 1 .. n + m
      BY <1>4
    <3>2. k \in 2 .. n => k \in 1 .. n /\ root[k] \in Nat
      BY <1>1, <1>8
    <3> QED
      BY <1>5, <1>7, <3>1, <3>2
  <2> QED
    BY <1>3, <1>6, <1>8, <2>1, <2>2 DEF IsFrom
<1>9. CASE base = Cwd /\ root \in Seq(Nat)
  BY <1>3, <1>6, <1>9 DEF IsFrom
<1> QED
  BY <1>8, <1>9 DEF IsFrom

LEMMA WithinFrom ==
  ASSUME NEW base \in Bases, NEW root, IsFrom(base, root), NEW path, IsFrom(base, path)
  PROVE  IsWithin(path, root) <=> IsPrefix(root, path)
<1>1. CASE root = <<>>
  <2>1. path \in Seq(Nat)
    BY <1>1, BasesAre DEF IsFrom
  <2>2. ~IsAbsolute(path)
    <3>1. path # <<>> => path[1] \in Nat
      BY <2>1
    <3> QED
      BY <3>1 DEF IsAbsolute, Root
  <2>3. IsPrefix(<<>>, path)
    <3>1. <<>> \in Seq(Int) /\ path \in Seq(Int) /\ Len(<<>>) = 0 /\ Len(path) \in Nat
      BY <2>1
    <3>2. Len(<<>>) =< Len(path) /\ \A i \in 1 .. Len(<<>>) : <<>>[i] = path[i]
      BY <3>1
    <3> QED
      BY <3>1, <3>2, PrefixMeans
  <2> QED
    BY <1>1, <2>2, <2>3 DEF IsWithin
<1>2. CASE root # <<>>
  BY <1>2 DEF IsWithin, StartsWith
<1> QED
  BY <1>1, <1>2

\* All inputs are read from the same directory.
ReadFrom(base) ==
  \A i \in DOMAIN inputs :
    /\ IsFrom(base, NormalizeRoot(inputs[i]))
    /\ Identity(Clean(inputs[i])) = base \o NormalizeRoot(inputs[i])

LEMMA RootsFrom ==
  ASSUME TypeInv, AreDirectories
  PROVE  \E base \in Bases : ReadFrom(base)
<1>1. ASSUME NEW i \in DOMAIN inputs
      PROVE  /\ inputs[i] \in Seq(Int)
             /\ Clean(inputs[i]) \in Seq(Int) /\ Clean(inputs[i]) # <<>>
             /\ Clean(inputs[i]) = <<Here>> \/ Folded(Clean(inputs[i])) = Clean(inputs[i])
             /\ Identity(Clean(inputs[i])) \in Nodes
  <2>1. inputs[i] \in Seq(Int)
    BY InputsAreSequences
  <2>2. 1 \in DOMAIN history
    BY HistoryIs
  <2>3. KindOf(history[1], Identity(Clean(inputs[i]))) = "dir"
    BY <2>2 DEF AreDirectories
  <2>4. Identity(Clean(inputs[i])) \in Nodes
    BY <2>3 DEF KindOf
  <2> QED
    BY <2>1, <2>4, CleanIs
<1>2. CASE \A i \in DOMAIN inputs : IsAbsolute(Clean(inputs[i]))
  <2>1. ASSUME NEW i \in DOMAIN inputs
        PROVE  /\ IsFrom(<<>>, NormalizeRoot(inputs[i]))
               /\ Identity(Clean(inputs[i])) = <<>> \o NormalizeRoot(inputs[i])
    <3>1. PICK input \in Seq(Int) : input = Clean(inputs[i])
      BY <1>1
    <3>2. input # <<>> /\ input[1] = Root /\ IsAbsolute(input)
      BY <1>2, <3>1 DEF IsAbsolute
    <3>3. input # <<Here>>
      BY <3>2 DEF Root, Here
    <3>4. NormalizeRoot(inputs[i]) = input
      BY <3>1, <3>3 DEF NormalizeRoot
    <3>5. Identity(input) = input
      BY <1>1, <3>1, <3>2, CleanTwice DEF Identity, Join
    <3>6. \A k \in 2 .. Len(input) : input[k] \in Nat
      BY <1>1, <3>1, <3>5, FileSystemAssumption
    <3> QED
      BY <3>1, <3>2, <3>4, <3>5, <3>6 DEF IsFrom
  <2> QED
    BY <2>1 DEF ReadFrom, Bases
<1>3. CASE \A i \in DOMAIN inputs : ~IsAbsolute(Clean(inputs[i])) /\ Up \notin ToSet(Clean(inputs[i]))
  <2>1. ASSUME NEW i \in DOMAIN inputs
        PROVE  /\ IsFrom(Cwd, NormalizeRoot(inputs[i]))
               /\ Identity(Clean(inputs[i])) = Cwd \o NormalizeRoot(inputs[i])
    <3>1. PICK input \in Seq(Int) : input = Clean(inputs[i])
      BY <1>1
    <3>2. CASE input = <<Here>>
      <4>1. NormalizeRoot(inputs[i]) = <<>>
        BY <3>1, <3>2 DEF NormalizeRoot
      <4>2. IsFrom(Cwd, <<>>)
        BY DEF IsFrom
      <4>3. Identity(PathShown(<<>>)) = Cwd \o <<>>
        BY <4>2, IdentityFrom DEF Bases
      <4> QED
        BY <3>1, <3>2, <4>1, <4>2, <4>3 DEF PathShown
    <3>3. CASE input # <<Here>>
      <4>1. NormalizeRoot(inputs[i]) = input
        BY <3>1, <3>3 DEF NormalizeRoot
      <4>2. Folded(input) = input
        BY <1>1, <3>1, <3>3
      <4>3. IsClean(input)
        BY <4>2, FoldedIsClean
      <4>4. \A k \in 1 .. Len(input) : input[k] \notin {Here, Up}
        <5>1. \A k \in 1 .. Len(input) : input[k] # Here
          BY <4>3, CleanHasNoHere
        <5>2. \A k \in 1 .. Len(input) : input[k] # Up
          BY <1>3, <3>1 DEF ToSet
        <5> QED
          BY <5>1, <5>2
      <4>5. PICK n \in Nat, m \in Nat : n = Len(Cwd) /\ m = Len(input) /\ n > 0
        BY BasesAre
      <4>6. PICK path \in Seq(Int) : path = Cwd \o input
        <5>1. Cwd \o input \in Seq(Int)
          BY BasesAre
        <5> QED
          BY <5>1
      <4>7. Len(path) = n + m /\ \A k \in 1 .. n + m : path[k] = IF k =< n THEN Cwd[k] ELSE input[k - n]
        BY <4>5, <4>6, BasesAre
      <4>8. ASSUME NEW k \in 1 .. Len(path)  PROVE path[k] \notin {Here, Up}
        <5>1. CASE k =< n
          <6>1. k \in 1 .. n /\ path[k] = Cwd[k]
            BY <4>7, <5>1
          <6> QED
            BY <6>1, <4>5, BasesAre
        <5>2. CASE ~(k =< n)
          <6>1. k - n \in 1 .. m /\ path[k] = input[k - n]
            BY <4>7, <5>2
          <6> QED
            BY <6>1, <4>4, <4>5
        <5> QED
          BY <5>1, <5>2
      <4>9. Clean(path) = path
        <5>1. Folded(path) = path
          BY <4>8, PlainIsClean
        <5>2. path # <<>>
          BY <4>5, <4>7
        <5> QED
          BY <5>1, <5>2, CleanIs
      <4>10. Identity(input) = path
        <5>1. ~IsAbsolute(input)
          BY <1>3, <3>1
        <5> QED
          BY <4>6, <4>9, <5>1 DEF Identity, Join
      <4>11. \A k \in 2 .. Len(path) : path[k] \in Nat
        BY <1>1, <3>1, <4>10, FileSystemAssumption
      <4>12. ASSUME NEW k \in 1 .. m  PROVE input[k] \in Nat
        <5>1. n + k \in 1 .. n + m /\ n + k \in 2 .. Len(path) /\ ~(n + k =< n) /\ (n + k) - n = k
          BY <4>5, <4>7
        <5>2. path[n + k] = input[k]
          BY <4>7, <5>1
        <5> QED
          BY <4>11, <5>1, <5>2
      <4>13. input \in Seq(Nat)
        BY <4>5, <4>12
      <4> QED
        BY <3>1, <4>1, <4>6, <4>10, <4>13 DEF IsFrom
    <3> QED
      BY <3>2, <3>3
  <2> QED
    BY <2>1 DEF ReadFrom, Bases
<1> QED
  BY <1>2, <1>3 DEF AreDirectories

\* A file is found below one of the inputs, and none of them is a file.
LEMMA FilesFrom ==
  ASSUME NEW at, TypeInv, Looked(at), AreDirectories, NEW base \in Bases, ReadFrom(base),
         NEW node \in DOMAIN found, NEW path, path = found[node]
  PROVE  /\ IsFrom(base, path) /\ path # <<>>
         /\ HasRoot(path, RootsOf(ToSet(inputs)))
<1>1. inputs \in Seq(Seq(Int)) /\ Len(inputs) \in Nat /\ next \in 1 .. Len(inputs) + 1
  BY InputsAreSequences DEF TypeInv
<1>2. PICK i \in 1 .. next - 1 : node \in Found(at, i) /\ path = Shown(Clean(inputs[i]), node)
  BY DEF Looked
<1>3. i \in DOMAIN inputs /\ at[i] \in DOMAIN history
  BY <1>1, <1>2 DEF Looked
<1>4. PICK t : t = history[at[i]]
  OBVIOUS
<1>5. \A j \in DOMAIN inputs : KindOf(t, Identity(Clean(inputs[j]))) = "dir"
  BY <1>3, <1>4 DEF AreDirectories
<1>6. PICK input \in Seq(Int) : input = Clean(inputs[i]) /\ Clean(input) = input
  BY <1>1, <1>3, CleanIs, CleanTwice
<1>7. PICK at_root \in Seq(Int) : at_root = Identity(input) /\ at_root # <<>>
  BY IdentityType
<1>8. /\ node \in Nodes /\ StartsWith(node, at_root) /\ ~IsDirectory(t, node)
  <2>1. node \in FilesOf(t, options, inputs[i])
    BY <1>2, <1>4 DEF Found
  <2>2. IsDirectory(t, at_root)
    BY <1>3, <1>5, <1>6, <1>7 DEF IsDirectory
  <2>3. node \in Visited(t, options, at_root) /\ ~IsDirectory(t, node)
    BY <2>1, <2>2, <1>6, <1>7 DEF FilesOf
  <2> QED
    BY <2>3 DEF Visited
<1>9. PICK names \in Seq(Nat) : names = Beneath(node, at_root) /\ node = at_root \o names
  BY <1>7, <1>8, BeneathIs
<1>10. \A j \in DOMAIN inputs : node # Identity(Clean(inputs[j]))
  BY <1>5, <1>8 DEF IsDirectory
<1>11. PICK root \in Seq(Int) : /\ root = NormalizeRoot(inputs[i]) /\ IsFrom(base, root)
                                /\ at_root = base \o root
  BY <1>3, <1>6, <1>7 DEF ReadFrom, IsFrom
<1>12. names # <<>>
  <2>1. at_root \o <<>> = at_root
    OBVIOUS
  <2> QED
    BY <1>3, <1>6, <1>7, <1>9, <1>10, <2>1
<1>13. path = root \o names
  <2>1. path = Clean(input \o names)
    BY <1>2, <1>6, <1>7, <1>9 DEF Shown
  <2>2. Prefix(input) = root
    BY <1>6, <1>11 DEF Prefix, NormalizeRoot
  <2> QED
    BY <1>6, <1>12, <2>1, <2>2, CleanBelow
<1>14. IsFrom(base, path) /\ IsPrefix(root, path) /\ path \in Seq(Int)
  <2>1. IsFrom(base, path) /\ IsPrefix(root, path)
    BY <1>11, <1>13, BelowFrom
  <2> QED
    BY <2>1 DEF IsFrom
<1>15. node = base \o path
  <2>1. base \in Seq(Int)
    BY BasesAre
  <2>2. PICK tail \in Seq(Int) : tail = names
    OBVIOUS
  <2>3. (base \o root) \o tail = base \o (root \o tail)
    BY <2>1, ConcatTwice
  <2> QED
    BY <1>9, <1>11, <1>13, <2>2, <2>3
<1>16. PICK n \in Nat, m \in Nat, l \in Nat : n = Len(root) /\ m = Len(names) /\ l = Len(path)
  BY <1>14
<1>17. l = n + m /\ m > 0 /\ path # <<>>
  <2>1. Len(root \o names) = n + m
    BY <1>16
  <2>2. m > 0
    BY <1>12, <1>16
  <2> QED
    BY <1>13, <1>16, <2>1, <2>2
<1>18. PICK directory \in Seq(Int) : directory = Parent(path) /\ Len(directory) = l - 1
                                     /\ IsPrefix(directory, path)
  <2>1. Front(path) \in Seq(Int) /\ Len(Front(path)) = l - 1 /\ Front(path) = SubSeq(path, 1, l - 1)
    BY <1>14, <1>16, <1>17, EndOf
  <2>2. PICK front \in Seq(Int) : front = Front(path) /\ Len(front) = l - 1
                                /\ front = SubSeq(path, 1, l - 1)
    BY <2>1
  <2>3. \A k \in 1 .. l - 1 : front[k] = path[k]
    BY <2>2, <1>14, <1>16
  <2>4. IsPrefix(front, path)
    <3>1. Len(front) =< Len(path) /\ \A k \in 1 .. Len(front) : front[k] = path[k]
      BY <2>2, <2>3, <1>16
    <3>2. path \in Seq(Int)
      BY <1>14
    <3> QED
      BY <3>1, <3>2, PrefixMeans
  <2> QED
    BY <2>2, <2>4 DEF Parent
<1>19. IsPrefix(root, directory)
  BY <1>14, <1>16, <1>17, <1>18, PrefixOfPrefix
<1>20. IsFrom(base, directory)
  BY <1>11, <1>14, <1>18, <1>19, BetweenFrom
<1>21. ASSUME NEW other \in RootsOf(ToSet(inputs))
       PROVE  other # path /\ (IsWithin(directory, other) <=> IsPrefix(other, directory))
  <2>1. PICK j \in DOMAIN inputs : other = NormalizeRoot(inputs[j])
    BY DEF RootsOf, ToSet
  <2>2. IsFrom(base, other) /\ Identity(Clean(inputs[j])) = base \o other
    BY <2>1 DEF ReadFrom
  <2>3. other # path
    BY <2>1, <2>2, <1>10, <1>15
  <2> QED
    BY <2>2, <2>3, <1>20, WithinFrom
<1>22. root \in RootsOf(ToSet(inputs))
  BY <1>3, <1>11 DEF RootsOf, ToSet
<1> QED
  BY <1>14, <1>17, <1>18, <1>19, <1>21, <1>22 DEF HasRoot

\* What is reported of a scan that succeeds: the files found that are measured, the
\* sums of which fit.
LEMMA ReportedFiles ==
  ASSUME Inv, ResultInv, Succeeded
  PROVE  \E m \in Nat :
           /\ AreFiles(result.files, m) /\ Fits(result.files, 1 .. m) /\ Len(result.files) = m
           /\ \A j \in 1 .. m : \E node \in DOMAIN found : result.files[j].path = found[node]
<1>1. /\ paths # Pending /\ \A i \in DOMAIN outcomes : outcomes[i] # Pending /\ ~HasFailed(outcomes[i])
      /\ result = Aggregate(Filtered(outcomes, IsMeasured), skipped \o Filtered(outcomes, IsSkipped))
  <2>1. result # Unknown /\ \A kind, path : result # Error(kind, path)
    BY DEF Succeeded, Error
  <2> QED
    BY <2>1 DEF ResultInv
<1>2. PICK files : files = Filtered(outcomes, IsMeasured)
  OBVIOUS
<1>3. PICK skips : skips = Filtered(outcomes, IsSkipped)
  OBVIOUS
<1>4. PICK m \in Nat : AreFiles(files, m)
  BY <1>1, <1>2, <1>3, OutcomesDivided
<1>5. Fits(files, 1 .. m) /\ result.files = Sorted(files, ByPath) /\ Len(result.files) = m
  <2>1. PICK details : details = skipped \o skips
    OBVIOUS
  <2>2. result = Aggregate(files, details) /\ result # Overflow
    BY <1>1, <1>2, <1>3, <2>1 DEF Succeeded
  <2>3. Fits(files, 1 .. m) /\ AddsFilesUp(result, files, m)
    BY <1>4, <2>2, AggregateIs
  <2> QED
    BY <2>3 DEF AddsFilesUp
<1>6. PICK list : list = result.files
  OBVIOUS
<1>7. DOMAIN files = 1 .. m /\ \A i \in 1 .. m : files[i].path \in Seq(Int)
  BY <1>4 DEF AreFiles
<1>8. AreFiles(list, m) /\ Fits(list, 1 .. m)
  <2>1. PICK Before : Orders(1 .. m, Before) /\ Sorted(files, ByPath) = Arranged(files, Before)
    BY <1>7, SortedArranges
  <2>2. PICK all \in SUBSET (1 .. m) : all = 1 .. m
    OBVIOUS
  <2>3. Cardinality(all) = m /\ Orders(all, Before) /\ list = Arranged(files, Before)
    BY <1>5, <1>6, <2>1, <2>2, UptoIsFinite
  <2>4. AreFiles(list, m) /\ TotalsOver(list, 1 .. m) = TotalsOver(files, all)
    BY <1>4, <2>3, ArrangedFiles
  <2>5. TotalsOver(files, all) # Overflow
    BY <1>5, <2>2 DEF TotalsOver, Overflow
  <2> QED
    BY <2>4, <2>5 DEF TotalsOver
<1>9. ASSUME NEW j \in 1 .. m  PROVE \E node \in DOMAIN found : list[j].path = found[node]
  <2>1. PICK n, identities :
          /\ n \in Nat /\ DOMAIN paths = 1 .. n /\ identities \in [1 .. n -> DOMAIN found]
          /\ \A i \in 1 .. n : paths[i] = found[identities[i]]
          /\ outcomes = [i \in DOMAIN paths |-> outcomes[i]]
    BY <1>1, PoolPaths
  <2>2. DOMAIN outcomes = 1 .. n
    BY <2>1
  <2>3. \A file \in ToSet(files) : \E i \in 1 .. n : file = outcomes[i]
    <3>1. PICK M : M = {i \in 1 .. n : IsMeasured(outcomes[i])}
      OBVIOUS
    <3>2. PICK K : K = {i \in 1 .. n : IsSkipped(outcomes[i])}
      OBVIOUS
    <3>3. n \in Nat
      BY <2>1
    <3>4. Picks(files, outcomes, M)
      BY <1>2, <2>2, <3>1, <3>2, <3>3, OutcomesChosen
    <3>5. PICK at : Chosen(at, M) /\ files = [k \in 1 .. Cardinality(M) |-> outcomes[at[k]]]
      BY <3>4 DEF Picks
    <3>6. \A k \in DOMAIN files : files[k] = outcomes[at[k]] /\ at[k] \in M
      BY <3>5 DEF Chosen
    <3>7. M \subseteq 1 .. n
      BY <3>1
    <3> QED
      BY <3>6, <3>7 DEF ToSet
  <2>4. ToSet(list) = ToSet(files)
    BY <1>5, <1>6, <1>7, SortedByPath
  <2>5. list[j] \in ToSet(list)
    BY <1>8 DEF ToSet, AreFiles
  <2>6. PICK i \in 1 .. n : list[j] = outcomes[i]
    BY <2>3, <2>4, <2>5
  <2>7. PICK at \in [1 .. next - 1 -> DOMAIN history] : Counted(at)
    BY DEF Inv
  <2>8. PICK t \in [Nodes -> Kinds] : outcomes[i] = OutcomeOf(t, options, paths[i])
    BY <1>1, <2>1, <2>2, <2>7, ReadOutcome DEF Inv
  <2>9. outcomes[i].path = paths[i]
    BY <2>8, OutcomePaths
  <2> QED
    BY <2>1, <2>6, <2>9
<1> QED
  BY <1>5, <1>6, <1>8, <1>9

\* The files of a scan of directories are from the directory that its inputs are from.
LEMMA ReportedFrom ==
  ASSUME Inv, ResultInv, Succeeded, AreDirectories
  PROVE  \E m \in Nat, base \in Bases :
           /\ AreFiles(result.files, m) /\ Fits(result.files, 1 .. m)
           /\ \A i \in DOMAIN inputs : IsFrom(base, NormalizeRoot(inputs[i]))
           /\ \A j \in 1 .. m : /\ IsFrom(base, result.files[j].path) /\ result.files[j].path # <<>>
                                /\ HasRoot(result.files[j].path, RootsOf(ToSet(inputs)))
<1>1. PICK m \in Nat :
        /\ AreFiles(result.files, m) /\ Fits(result.files, 1 .. m)
        /\ \A j \in 1 .. m : \E node \in DOMAIN found : result.files[j].path = found[node]
  BY ReportedFiles
<1>2. PICK base \in Bases : ReadFrom(base)
  BY RootsFrom DEF Inv
<1>3. PICK at \in [1 .. next - 1 -> DOMAIN history] : Looked(at)
  BY DEF Inv
<1>4. ASSUME NEW j \in 1 .. m
      PROVE  /\ IsFrom(base, result.files[j].path) /\ result.files[j].path # <<>>
             /\ HasRoot(result.files[j].path, RootsOf(ToSet(inputs)))
  <2>1. PICK node \in DOMAIN found : result.files[j].path = found[node]
    BY <1>1
  <2> QED
    BY <1>2, <1>3, <2>1, FilesFrom DEF Inv
<1> QED
  BY <1>1, <1>2, <1>4 DEF ReadFrom

LEMMA InvRollUp == Inv /\ ResultInv => RollUp
<1> SUFFICES ASSUME Inv, ResultInv, AreDirectories, Succeeded,
                    NEW directory \in ToSet(Directories)
             PROVE  HoldsAllBeneath(directory)
  BY DEF RollUp, DirectoriesComplete
<1>1. PICK m \in Nat, base \in Bases :
        /\ AreFiles(result.files, m) /\ Fits(result.files, 1 .. m)
        /\ \A i \in DOMAIN inputs : IsFrom(base, NormalizeRoot(inputs[i]))
        /\ \A j \in 1 .. m : /\ IsFrom(base, result.files[j].path) /\ result.files[j].path # <<>>
                             /\ HasRoot(result.files[j].path, RootsOf(ToSet(inputs)))
  BY ReportedFrom
<1>2. PICK files : files = result.files
  OBVIOUS
<1>3. PICK ins : ins = ToSet(inputs)
  OBVIOUS
<1>4. PICK R : R = RootsOf(ins)
  OBVIOUS
<1>5. DOMAIN files = 1 .. m /\ \A j \in 1 .. m : files[j].path \in Seq(Int)
  BY <1>1, <1>2 DEF AreFiles
<1>6. \A root \in R : IsFrom(base, root) /\ root \in Seq(Int)
  BY <1>1, <1>3, <1>4 DEF RootsOf, ToSet, IsFrom
<1>7. ASSUME NEW j \in 1 .. m
      PROVE  Ancestors(files[j].path, R)
               = {d \in Seq(Int) : IsStrictPrefix(d, files[j].path) /\ \E root \in R : IsPrefix(root, d)}
  <2>1. PICK path \in Seq(Int) : path = files[j].path
    BY <1>5
  <2>2. path # <<>> /\ HasRoot(path, R)
    BY <1>1, <1>2, <1>3, <1>4, <2>1
  <2>3. R \in SUBSET Seq(Int)
    BY <1>6
  <2> QED
    BY <2>1, <2>2, <2>3, AncestorsAre
<1>8. ASSUME NEW j \in 1 .. m, NEW d \in Ancestors(files[j].path, R)
      PROVE  d \in Seq(Int) /\ IsFrom(base, d) /\ IsStrictPrefix(d, files[j].path)
             /\ d # <<Here>> /\ \E root \in R : IsPrefix(root, d)
  <2>1. d \in Seq(Int) /\ IsStrictPrefix(d, files[j].path)
    BY <1>7
  <2>2. PICK root \in R : IsPrefix(root, d)
    BY <1>7
  <2>3. IsFrom(base, root) /\ IsFrom(base, files[j].path) /\ IsPrefix(d, files[j].path)
    BY <1>1, <1>2, <1>6, <2>1 DEF IsStrictPrefix
  <2>4. IsFrom(base, d)
    BY <2>1, <2>2, <2>3, BetweenFrom
  <2> QED
    BY <2>1, <2>2, <2>4, IdentityFrom
<1>9. HaveAncestors(files, m, R)
  BY <1>8 DEF HaveAncestors
<1>10. PICK d \in DirectoriesOf(files, m, R) : directory = DirectoryEntry(files, m, R, d)
  <2>1. ToSet(AggregateDirectories(files, ins).all)
          = {DirectoryEntry(files, m, R, d) : d \in DirectoriesOf(files, m, R)}
    BY <1>1, <1>2, <1>4, <1>9, DirectoriesAre
  <2>2. Directories = AggregateDirectories(files, ins).all
    BY <1>2, <1>3 DEF Directories
  <2> QED
    BY <2>1, <2>2
<1>11. d \in Seq(Int) /\ IsFrom(base, d) /\ \E root \in R : IsPrefix(root, d)
  BY <1>8 DEF DirectoriesOf
<1>12. PICK S \in SUBSET (1 .. m) : S = OfDirectory(files, m, R, d)
  BY DEF OfDirectory
<1>13. ASSUME NEW j \in 1 .. m
       PROVE  j \in S <=> IsStrictPrefix(Identity(directory.path), Identity(files[j].path))
  <2>1. PICK path \in Seq(Int) : path = files[j].path /\ path # <<>> /\ IsFrom(base, path)
    BY <1>1, <1>2, <1>5
  <2>2. j \in S <=> IsStrictPrefix(d, path)
    BY <1>7, <1>11, <1>12, <2>1 DEF OfDirectory
  <2>3. directory.path = PathShown(d) /\ PathShown(path) = path
    BY <1>10, <2>1 DEF DirectoryEntry, PathShown
  <2>4. Identity(directory.path) = base \o d /\ Identity(files[j].path) = base \o path
    BY <1>11, <2>1, <2>3, IdentityFrom
  <2>5. base \in Seq(Int)
    BY BasesAre
  <2> QED
    BY <1>11, <2>2, <2>4, <2>5, PrefixBelow
<1>14. PICK list : list = Arranged(files, [i \in S |-> {j \in S : j < i}])
  OBVIOUS
<1>15. Filtered(files, LAMBDA file : IsStrictPrefix(Identity(directory.path), Identity(file.path))) = list
  <2>1. {i \in DOMAIN files : IsStrictPrefix(Identity(directory.path), Identity(files[i].path))} = S
    BY <1>5, <1>13
  <2> QED
    BY <1>14, <2>1 DEF Filtered, Ranked, Arranged
<1>16. /\ Len(list) = Cardinality(S)
       /\ Total([i \in DOMAIN list |-> list[i].tokens]) = SumOver(TokensIn(files), S)
  BY <1>1, <1>2, <1>14, TotalsOfPart
<1>17. directory.files = Len(list) /\ directory.tokens = Total([i \in DOMAIN list |-> list[i].tokens])
  BY <1>10, <1>12, <1>16 DEF DirectoryEntry
<1> QED
  BY <1>2, <1>15, <1>17 DEF HoldsAllBeneath, Sum

\* However inputs that are directories overlap, whatever changes meanwhile and however
\* the workers interleave, every directory that a report shows has the files and tokens
\* of all measured files beneath it, each once (aggregate_directories).
THEOREM DirectoriesRollUp == Spec => []RollUp
<1>1. Init => ResultInv
  BY DEF Init, ResultInv
<1>2. Inv /\ ResultInv /\ [Next]_vars => ResultInv'
  BY NextResultInv
<1>3. Spec => []ResultInv
  BY <1>1, <1>2, SpecInv, PTL DEF Spec
<1> QED
  BY <1>3, SpecInv, InvRollUp, PTL

-----------------------------------------------------------------------------
(* Densities *)

\* A number of tenths is the nearest to the ratio.
LEMMA NearestIs ==
  ASSUME NEW numerator \in Nat, NEW denominator \in Nat,
         NEW tenths, tenths = RatioTenths(numerator, denominator)
  PROVE  tenths \in Nat /\ IsNearest(tenths, numerator, denominator)
<1>1. CASE denominator = 0
  BY <1>1 DEF RatioTenths, IsNearest
<1>2. CASE denominator # 0
  <2>1. PICK h \in Nat, r \in 0 .. 1 : h = denominator \div 2 /\ denominator = 2 * h + r
    <3>1. /\ denominator \div 2 \in Nat /\ denominator % 2 \in 0 .. 2 - 1
          /\ denominator = (2 * (denominator \div 2)) + (denominator % 2)
      BY Divides
    <3>2. 2 - 1 = 1
      OBVIOUS
    <3> QED
      BY <3>1, <3>2
  <2>2. PICK a \in Nat : a = numerator * 10 + h
    OBVIOUS
  <2>3. PICK q \in Nat, s \in 0 .. denominator - 1 : q = a \div denominator /\ a = denominator * q + s
    BY <1>2, Divides
  <2>4. tenths = q
    BY <1>2, <2>1, <2>2, <2>3 DEF RatioTenths
  <2>5. PICK p \in Int : p = denominator * q
    OBVIOUS
  <2>6. 10 * numerator - p = s - h
    BY <2>2, <2>3, <2>5
  <2>7. 2 * (s - h) \in -denominator .. denominator - 1
    BY <2>1, <2>3
  <2>8. 2 * (10 * numerator - denominator * tenths) \in -denominator .. denominator - 1
    BY <2>4, <2>5, <2>6, <2>7
  <2> QED
    BY <1>2, <2>4, <2>8 DEF IsNearest
<1> QED
  BY <1>1, <1>2

\* What a division to tenths says of a bound.
LEMMA NearestBelow ==
  ASSUME NEW a \in Nat, NEW b \in Nat \ {0}, NEW t \in Nat, NEW most \in Nat,
         IsNearest(t, a, b), t =< most
  PROVE  20 * a < (2 * most + 1) * b
<1>1. 2 * (10 * a - b * t) =< b - 1
  BY DEF IsNearest
<1>2. b * t =< b * most
  OBVIOUS
<1>3. PICK p \in Int : p = b * t
  OBVIOUS
<1>4. PICK q \in Int : q = b * most
  OBVIOUS
<1>5. (2 * most + 1) * b = 2 * q + b
  BY <1>4
<1>6. 2 * (10 * a - p) =< b - 1 /\ p =< q
  BY <1>1, <1>2, <1>3, <1>4
<1>7. 20 * a < 2 * q + b
  BY <1>6
<1> QED
  BY <1>5, <1>7

LEMMA NearestAbove ==
  ASSUME NEW a \in Nat, NEW b \in Nat \ {0}, NEW t \in Nat, NEW least \in Nat,
         IsNearest(t, a, b), least =< t
  PROVE  (2 * least - 1) * b =< 20 * a
<1>1. 2 * (10 * a - b * t) >= -b
  BY DEF IsNearest
<1>2. b * least =< b * t
  OBVIOUS
<1>3. PICK p \in Int : p = b * t
  OBVIOUS
<1>4. PICK q \in Int : q = b * least
  OBVIOUS
<1>5. (2 * least - 1) * b = 2 * q - b
  BY <1>4
<1>6. 2 * (10 * a - p) >= -b /\ q =< p
  BY <1>1, <1>2, <1>3, <1>4
<1>7. 2 * q - b =< 20 * a
  BY <1>6
<1> QED
  BY <1>5, <1>7

\* The ratios of weights, each in tenths: nothing is no part of anything.
Ratios(t, a, b, n) ==
  \A i \in 1 .. n : /\ a[i] \in Nat /\ b[i] \in Nat /\ (b[i] = 0 => a[i] = 0)
                    /\ t[i] = RatioTenths(a[i], b[i])

\* The ratio of sums lies between the ratios of what is summed up.
LEMMA RatioBetween ==
  ASSUME NEW n \in Nat, n # 0, NEW a, NEW b, Weighs(a, 1 .. n), Weighs(b, 1 .. n),
         NEW t, Ratios(t, a, b, n),
         NEW A, A = SumOver(a, 1 .. n), NEW B, B = SumOver(b, 1 .. n),
         NEW whole, whole = RatioTenths(A, B),
         NEW D, D = {t[i] : i \in 1 .. n}
  PROVE  whole \in Min(D) .. Max(D)
<1>1. PICK S : S = 1 .. n
  OBVIOUS
<1>2. IsFiniteSet(S) /\ Weighs(a, S) /\ Weighs(b, S) /\ 1 \in S /\ S \in SUBSET S
  BY <1>1, UptoIsFinite
<1>3. \A i \in S : /\ a[i] \in Nat /\ b[i] \in Nat /\ (b[i] = 0 => a[i] = 0)
                   /\ t[i] = RatioTenths(a[i], b[i])
  BY <1>1 DEF Ratios
<1>4. \A i \in S : t[i] \in Nat /\ IsNearest(t[i], a[i], b[i])
  BY <1>3, NearestIs
<1>5. A \in Nat /\ B \in Nat
  <2>1. (\A i \in S : a[i] >= 0) /\ \A i \in S : b[i] >= 0
    BY <1>3
  <2>2. 0 =< SumOver(a, S) /\ 0 =< SumOver(b, S)
    BY <1>2, <2>1, SumPart
  <2>3. SumOver(a, S) \in Int /\ SumOver(b, S) \in Int
    BY <1>2, SumType
  <2> QED
    BY <1>1, <2>2, <2>3
<1>6. whole \in Nat /\ IsNearest(whole, A, B)
  BY <1>5, NearestIs
<1>7. D \in SUBSET Nat /\ D # {} /\ IsFiniteSet(D)
  <2>1. D = {t[i] : i \in S}
    BY <1>1
  <2>2. D \in SUBSET Nat /\ t[1] \in D
    BY <1>2, <1>4, <2>1
  <2>3. PICK f : f = [i \in S |-> t[i]]
    OBVIOUS
  <2>4. f \in Surjection(S, D)
    BY <2>1, <2>3 DEF Surjection
  <2> QED
    BY <1>2, <2>2, <2>4, FS_Surjection
<1>14. /\ Max(D) \in D /\ \A m \in D : m =< Max(D)
       /\ Min(D) \in D /\ \A m \in D : Min(D) =< m
  BY <1>7, Extremes
<1>15. \A i \in S : t[i] \in D
  BY <1>1
<1>8. PICK least \in Nat : least = Min(D) /\ least \in D /\ \A i \in S : least =< t[i]
  BY <1>7, <1>14, <1>15
<1>9. PICK most \in Nat : most = Max(D) /\ most \in D /\ \A i \in S : t[i] =< most
  BY <1>7, <1>14, <1>15
<1>10. PICK scaled : scaled = [i \in S |-> 20 * a[i]]
  OBVIOUS
<1>11. Weighs(scaled, S) /\ SumOver(scaled, S) = 20 * A
  <2>1. Multiple(scaled, 20, a, S) /\ 20 \in Int
    BY <1>10 DEF Multiple
  <2> QED
    BY <1>1, <1>2, <2>1, SumScaled
<1>12. CASE B = 0
  <2>1. ASSUME NEW i \in S  PROVE b[i] = 0
    <3>1. \A j \in S : b[j] >= 0
      BY <1>3
    <3> QED
      BY <1>1, <1>2, <1>12, <3>1, ZeroSum
  <2>2. \A i \in S : t[i] = 0
    BY <1>3, <2>1 DEF RatioTenths
  <2>3. whole = 0
    BY <1>12 DEF RatioTenths
  <2>4. \A m \in D : m = 0
    BY <1>1, <2>2
  <2>5. least = 0 /\ most = 0
    BY <1>8, <1>9, <2>4
  <2> QED
    BY <1>8, <1>9, <2>3, <2>5
<1>13. CASE B # 0
  <2>1. PICK y \in S : b[y] # 0
    <3>1. ASSUME \A i \in S : b[i] = 0  PROVE FALSE
      BY <1>1, <1>2, <1>13, <3>1, SumOfZeros
    <3> QED
      BY <3>1
  <2>2. whole =< most
    <3>1. PICK upper : upper = [i \in S |-> (2 * most + 1) * b[i]]
      OBVIOUS
    <3>2. Weighs(upper, S) /\ SumOver(upper, S) = (2 * most + 1) * B
      <4>1. Multiple(upper, 2 * most + 1, b, S) /\ 2 * most + 1 \in Int
        BY <3>1 DEF Multiple
      <4> QED
        BY <1>1, <1>2, <4>1, SumScaled
    <3>3. ASSUME NEW i \in S, b[i] # 0  PROVE scaled[i] < upper[i]
      <4>1. 20 * a[i] < (2 * most + 1) * b[i]
        BY <1>3, <1>4, <1>9, <3>3, NearestBelow
      <4> QED
        BY <1>10, <3>1, <4>1
    <3>4. ASSUME NEW i \in S, b[i] = 0  PROVE scaled[i] =< upper[i]
      <4>1. scaled[i] = 20 * 0 /\ upper[i] = (2 * most + 1) * 0
        BY <1>3, <1>10, <3>1, <3>4
      <4> QED
        BY <4>1
    <3>5. \A i \in S : scaled[i] =< upper[i]
      <4>1. \A i \in S : scaled[i] \in Int /\ upper[i] \in Int
        BY <1>11, <3>2 DEF Weighs
      <4> QED
        BY <3>3, <3>4, <4>1
    <3>6. scaled[y] < upper[y]
      BY <2>1, <3>3
    <3>7. 20 * A < (2 * most + 1) * B
      BY <1>11, <3>2, <3>5, <3>6, SumLess
    <3>8. ASSUME most + 1 =< whole  PROVE FALSE
      <4>1. (2 * (most + 1) - 1) * B =< 20 * A
        <5>1. most + 1 \in Nat
          OBVIOUS
        <5> QED
          BY <1>5, <1>6, <1>13, <3>8, <5>1, NearestAbove
      <4>2. 2 * (most + 1) - 1 = 2 * most + 1
        OBVIOUS
      <4>3. (2 * most + 1) * B \in Int /\ 20 * A \in Int
        BY <1>5
      <4> QED
        BY <3>7, <4>1, <4>2, <4>3
    <3> QED
      BY <1>6, <3>8
  <2>3. least =< whole
    <3>1. PICK lower : lower = [i \in S |-> (2 * least - 1) * b[i]]
      OBVIOUS
    <3>2. Weighs(lower, S) /\ SumOver(lower, S) = (2 * least - 1) * B
      <4>1. Multiple(lower, 2 * least - 1, b, S) /\ 2 * least - 1 \in Int
        BY <3>1 DEF Multiple
      <4> QED
        BY <1>1, <1>2, <4>1, SumScaled
    <3>3. ASSUME NEW i \in S, b[i] # 0  PROVE lower[i] =< scaled[i]
      <4>1. (2 * least - 1) * b[i] =< 20 * a[i]
        BY <1>3, <1>4, <1>8, <3>3, NearestAbove
      <4> QED
        BY <1>10, <3>1, <4>1
    <3>4. ASSUME NEW i \in S, b[i] = 0  PROVE lower[i] =< scaled[i]
      <4>1. scaled[i] = 20 * 0 /\ lower[i] = (2 * least - 1) * 0
        BY <1>3, <1>10, <3>1, <3>4
      <4> QED
        BY <4>1
    <3>5. \A i \in S : lower[i] =< scaled[i]
      BY <3>3, <3>4
    <3>6. (2 * least - 1) * B =< 20 * A
      BY <1>11, <3>2, <3>5, SumOrder
    <3>7. ASSUME whole =< least - 1  PROVE FALSE
      <4>1. least - 1 \in Nat
        BY <1>6, <3>7
      <4>2. 20 * A < (2 * (least - 1) + 1) * B
        BY <1>5, <1>6, <1>13, <3>7, <4>1, NearestBelow
      <4>3. 2 * (least - 1) + 1 = 2 * least - 1
        OBVIOUS
      <4>4. (2 * least - 1) * B \in Int /\ 20 * A \in Int
        BY <1>5
      <4> QED
        BY <3>6, <4>2, <4>3, <4>4
    <3> QED
      BY <1>6, <3>7
  <2> QED
    BY <1>6, <1>8, <1>9, <2>2, <2>3
<1> QED
  BY <1>12, <1>13

\* What is shown of the densities.
LEMMA DensityTableIs == TableOf("density", "path") = DensityTable(result)
<1>1. PICK args : args = [format |-> "table", quiet |-> FALSE, view |-> "density",
                          sort |-> "path", context |-> {}, price |-> {}]
  OBVIOUS
<1>2. PICK directories : directories = AggregateDirectories(result.files, ToSet(inputs))
  OBVIOUS
<1>3. ~args.quiet /\ args.view \notin {"dirs", "tree"} /\ args.format # "json"
      /\ args.view = "density" /\ args.view # "languages" /\ args.view # "files"
      /\ args.view # "dirs" /\ args.view # "tree"
  BY <1>1
<1>4. Table(result, directories.all, args) = DensityTable(result)
  BY <1>3 DEF Table
<1>5. Written(result, directories, args)
        = [table |-> Table(result, directories.all, args),
           summaries |-> Summaries(result.totals.tokens, args)]
  BY <1>3 DEF Written
<1>6. TableOf("density", "path") = Written(result, directories, args).table
  BY <1>1, <1>2 DEF TableOf, Shows, ScanReport
<1> QED
  BY <1>4, <1>5, <1>6

LEMMA DensityIs ==
  ASSUME NEW totals, totals.tokens \in Nat, totals.bytes \in Nat
  PROVE  /\ IsDensity(Density(totals), totals)
         /\ Density(totals).tokens_per_kb = RatioTenths(totals.tokens * Kilo, totals.bytes)
<1>1. Density(totals).tokens_per_kb = RatioTenths(totals.tokens * Kilo, totals.bytes)
      /\ Density(totals).bytes_per_token = RatioTenths(totals.bytes, totals.tokens)
  BY DEF Density, TokensPerKb, BytesPerToken
<1>2. totals.tokens * Kilo \in Nat
  BY FiguresAssumption
<1>3. IsNearest(RatioTenths(totals.tokens * Kilo, totals.bytes), totals.tokens * Kilo, totals.bytes)
  BY <1>2, NearestIs
<1>4. IsNearest(RatioTenths(totals.bytes, totals.tokens), totals.bytes, totals.tokens)
  BY NearestIs
<1> QED
  BY <1>1, <1>3, <1>4 DEF IsDensity

LEMMA InvDensities == Inv /\ ResultInv => DensitiesNearest
<1> SUFFICES ASSUME Inv, ResultInv, Succeeded  PROVE DensitiesNearest
  BY DEF DensitiesNearest
<1>1. PICK files : files = Filtered(outcomes, IsMeasured)
  OBVIOUS
<1>2. PICK details : details = skipped \o Filtered(outcomes, IsSkipped)
  OBVIOUS
<1>3. PICK n \in Nat, d \in Nat :
        /\ AreParts(files, n, details, d)
        /\ ~Fits(files, 1 .. n) => result = Overflow
        /\ Fits(files, 1 .. n) => AddsFilesUp(result, files, n)
  BY <1>1, <1>2, PartsAre
<1>4. Fits(files, 1 .. n) /\ AddsFilesUp(result, files, n)
  BY <1>3 DEF Succeeded
<1>5. AreFiles(files, n) /\ \A i \in 1 .. n : files[i].bytes = 0 => files[i].tokens = 0
  BY <1>3 DEF AreParts
<1>6. PICK list : list = result.languages
  OBVIOUS
<1>7. list = LanguageList(files)
  BY <1>4, <1>6 DEF AddsFilesUp
<1>8. PICK m \in Nat :
        /\ DOMAIN list = 1 .. m
        /\ \A i \in 1 .. m : /\ list[i].files \in Nat
                             /\ list[i].tokens \in Nat /\ list[i].bytes \in Nat
                             /\ list[i].bytes = 0 => list[i].tokens = 0
  BY <1>4, <1>5, <1>7, LanguageEntries
<1>9. PICK tokens : tokens = [i \in 1 .. m |-> list[i].tokens]
  OBVIOUS
<1>10. PICK bytes : bytes = [i \in 1 .. m |-> list[i].bytes]
  OBVIOUS
<1>11. Weighs(tokens, 1 .. m) /\ Weighs(bytes, 1 .. m)
  BY <1>8, <1>9, <1>10, UptoIsFinite DEF Weighs
<1>12. result.totals.tokens = SumOver(tokens, 1 .. m) /\ result.totals.bytes = SumOver(bytes, 1 .. m)
  <2>1. /\ Sum(list, LAMBDA language : language.tokens) = Total(tokens)
        /\ Sum(list, LAMBDA language : language.bytes) = Total(bytes)
    BY <1>8, <1>9, <1>10 DEF Sum
  <2>2. Total(tokens) = SumOver(tokens, 1 .. m)
    BY <1>9, <1>11, TotalIs
  <2>3. Total(bytes) = SumOver(bytes, 1 .. m)
    BY <1>10, <1>11, TotalIs
  <2>4. /\ Sum(list, LAMBDA language : language.tokens) = result.totals.tokens
        /\ Sum(list, LAMBDA language : language.bytes) = result.totals.bytes
    BY <1>4, <1>6 DEF AddsFilesUp
  <2> QED
    BY <2>1, <2>2, <2>3, <2>4
<1>13. result.totals.tokens \in Nat /\ result.totals.bytes \in Nat
  <2>1. PICK all \in SUBSET (1 .. n) : all = 1 .. n
    OBVIOUS
  <2>2. SumOver(TokensIn(files), all) \in Nat /\ SumOver(BytesIn(files), all) \in Nat
    BY <1>5, SumsAreNatural
  <2> QED
    BY <1>4, <2>1, <2>2 DEF AddsFilesUp
<1>14. PICK table : table = TableOf("density", "path")
  OBVIOUS
<1>15. /\ DOMAIN table.rows = 1 .. m
       /\ \A i \in 1 .. m : table.rows[i].density = Density(list[i])
       /\ table.total.density = Density(result.totals)
  BY <1>6, <1>8, <1>14, DensityTableIs, SMTT(30) DEF DensityTable
<1>16. PICK t : t = [i \in 1 .. m |-> RatioTenths(tokens[i] * Kilo, bytes[i])]
  OBVIOUS
<1>17. ASSUME NEW i \in 1 .. m
       PROVE  /\ IsDensity(table.rows[i].density, list[i])
              /\ table.rows[i].density.tokens_per_kb = t[i]
  <2>1. list[i].tokens \in Nat /\ list[i].bytes \in Nat
    BY <1>8
  <2>2. /\ IsDensity(Density(list[i]), list[i])
        /\ Density(list[i]).tokens_per_kb = RatioTenths(list[i].tokens * Kilo, list[i].bytes)
    BY <2>1, DensityIs
  <2> QED
    BY <2>2, <1>9, <1>10, <1>15, <1>16
<1>18. PICK whole : whole = table.total.density
  OBVIOUS
<1>19. IsDensity(whole, result.totals)
       /\ whole.tokens_per_kb = RatioTenths(result.totals.tokens * Kilo, result.totals.bytes)
  BY <1>13, <1>15, <1>18, DensityIs
<1>20. PICK D : D = {t[i] : i \in 1 .. m}
  OBVIOUS
<1>21. {row.density.tokens_per_kb : row \in ToSet(table.rows)} = D
  <2>1. ToSet(table.rows) = {table.rows[i] : i \in 1 .. m}
    BY <1>15 DEF ToSet
  <2> QED
    BY <2>1, <1>17, <1>20
<1>22. ASSUME D # {}  PROVE whole.tokens_per_kb \in Min(D) .. Max(D)
  <2>1. m # 0
    BY <1>20, <1>22
  <2>2. PICK scaled : scaled = [i \in 1 .. m |-> Kilo * tokens[i]]
    OBVIOUS
  <2>3. Weighs(scaled, 1 .. m) /\ SumOver(scaled, 1 .. m) = Kilo * SumOver(tokens, 1 .. m)
    <3>1. PICK S : S = 1 .. m
      OBVIOUS
    <3>2. Multiple(scaled, Kilo, tokens, S) /\ Kilo \in Int
      BY <2>2, <3>1, FiguresAssumption DEF Multiple
    <3>3. Weighs(tokens, S)
      BY <1>11, <3>1
    <3> QED
      BY <3>1, <3>2, <3>3, SumScaled
  <2>4. PICK A : A = SumOver(scaled, 1 .. m)
    OBVIOUS
  <2>5. A = result.totals.tokens * Kilo
    BY <1>12, <1>13, <2>3, <2>4, FiguresAssumption
  <2>6. \A i \in 1 .. m : /\ scaled[i] = tokens[i] * Kilo /\ scaled[i] \in Nat /\ bytes[i] \in Nat
                          /\ bytes[i] = 0 => scaled[i] = 0
    BY <1>8, <1>9, <1>10, <2>2, FiguresAssumption
  <2>7. \A i \in 1 .. m : t[i] = RatioTenths(scaled[i], bytes[i])
    BY <1>16, <2>6
  <2>8. PICK B : B = SumOver(bytes, 1 .. m)
    OBVIOUS
  <2>9. PICK ratio : ratio = RatioTenths(A, B)
    OBVIOUS
  <2>10. Ratios(t, scaled, bytes, m)
    BY <2>6, <2>7 DEF Ratios
  <2>11. Weighs(scaled, 1 .. m) /\ Weighs(bytes, 1 .. m)
    BY <1>11, <2>3
  <2>12. ratio \in Min(D) .. Max(D)
    BY <1>20, <2>1, <2>4, <2>8, <2>9, <2>10, <2>11, RatioBetween
  <2> QED
    BY <1>12, <1>19, <2>5, <2>8, <2>9, <2>12
<1>23. \A i \in DOMAIN table.rows : IsDensity(table.rows[i].density, result.languages[i])
  BY <1>6, <1>15, <1>17
<1> QED
  BY <1>14, <1>18, <1>19, <1>21, <1>22, <1>23 DEF DensitiesNearest

\* The densities of a report are exact to the tenth, for the whole and for each
\* language, and that of the whole lies between those of the languages, whatever is
\* counted (rounded_ratio_tenths, write_density_table).
THEOREM DensitiesRounded == Spec => []DensitiesNearest
<1>1. Init => ResultInv
  BY DEF Init, ResultInv
<1>2. Inv /\ ResultInv /\ [Next]_vars => ResultInv'
  BY NextResultInv
<1>3. Spec => []ResultInv
  BY <1>1, <1>2, SpecInv, PTL DEF Spec
<1> QED
  BY <1>3, SpecInv, InvDensities, PTL

-----------------------------------------------------------------------------
(* The views of a report *)

\* What a table is sorted by.
SortKey(sort, entry) ==
  CASE sort = "path"     -> 0
    [] sort = "tokens"   -> -entry.tokens
    [] sort = "language" -> entry.language

LEMMA OrderIs ==
  ASSUME NEW sort \in {"path", "tokens", "language"}, NEW left, NEW right,
         sort = "tokens" => left.tokens \in Int /\ right.tokens \in Int,
         sort = "language" => left.language \in Int /\ right.language \in Int
  PROVE  /\ SortKey(sort, left) \in Int
         /\ Order(sort, left, right)
              <=> \/ SortKey(sort, left) < SortKey(sort, right)
                  \/ SortKey(sort, left) = SortKey(sort, right) /\ Less(left.path, right.path)
<1>1. CASE sort = "path"
  <2>1. sort # "tokens" /\ sort # "language"
    BY <1>1
  <2>2. SortKey(sort, left) = 0 /\ SortKey(sort, right) = 0
    BY <1>1, <2>1 DEF SortKey
  <2>3. Order(sort, left, right) <=> Less(left.path, right.path)
    BY <1>1, <2>1 DEF Order, ByPath
  <2> QED
    BY <2>2, <2>3
<1>2. CASE sort = "tokens"
  <2>1. sort # "path" /\ sort # "language"
    BY <1>2
  <2>2. SortKey(sort, left) = -left.tokens /\ SortKey(sort, right) = -right.tokens
    BY <1>2, <2>1 DEF SortKey
  <2>3. Order(sort, left, right)
          <=> \/ left.tokens > right.tokens
              \/ left.tokens = right.tokens /\ Less(left.path, right.path)
    BY <1>2, <2>1 DEF Order, ByPath
  <2> QED
    BY <1>2, <2>2, <2>3
<1>3. CASE sort = "language"
  <2>1. sort # "path" /\ sort # "tokens"
    BY <1>3
  <2>2. SortKey(sort, left) = left.language /\ SortKey(sort, right) = right.language
    BY <1>3, <2>1 DEF SortKey
  <2>3. Order(sort, left, right)
          <=> \/ left.language < right.language
              \/ left.language = right.language /\ Less(left.path, right.path)
    BY <1>3, <2>1 DEF Order, ByPath
  <2> QED
    BY <1>3, <2>2, <2>3
<1> QED
  BY <1>1, <1>2, <1>3

\* Entries that can be sorted.
Sortable(sort, seq, n) ==
  /\ sort \in {"path", "tokens", "language"}
  /\ \A i \in 1 .. n : /\ seq[i].path \in Seq(Int)
                       /\ sort = "tokens" => seq[i].tokens \in Int
                       /\ sort = "language" => seq[i].language \in Int

LEMMA SortOrderIs ==
  ASSUME NEW n \in Nat, NEW seq, DOMAIN seq = 1 .. n, NEW sort, Sortable(sort, seq, n)
  PROVE  \E Before, places :
           /\ ArrangedAs(InSortOrder(sort, seq), seq, n, places, Before)
           /\ \A i, j \in 1 .. n : j \in Before[i] => ~Order(sort, seq[i], seq[j])
<1>1. PICK key : key = [i \in 1 .. n |-> SortKey(sort, seq[i])]
  OBVIOUS
<1>2. PICK path : path = [i \in 1 .. n |-> seq[i].path]
  OBVIOUS
<1>3. ASSUME NEW i \in 1 .. n, NEW j \in 1 .. n
      PROVE  /\ key[i] \in Int /\ path[i] \in Seq(Int)
             /\ Order(sort, seq[j], seq[i]) <=> key[j] < key[i] \/ (key[j] = key[i] /\ Less(path[j], path[i]))
  <2>1. /\ sort \in {"path", "tokens", "language"}
        /\ sort = "tokens" => seq[i].tokens \in Int /\ seq[j].tokens \in Int
        /\ sort = "language" => seq[i].language \in Int /\ seq[j].language \in Int
        /\ seq[i].path \in Seq(Int)
    BY DEF Sortable
  <2>2. SortKey(sort, seq[i]) \in Int
    BY <2>1, OrderIs
  <2>3. Order(sort, seq[j], seq[i])
          <=> \/ SortKey(sort, seq[j]) < SortKey(sort, seq[i])
              \/ SortKey(sort, seq[j]) = SortKey(sort, seq[i]) /\ Less(seq[j].path, seq[i].path)
    BY <2>1, OrderIs
  <2> QED
    BY <1>1, <1>2, <2>1, <2>2, <2>3
<1>4. PICK Below : Below = ByKey(key, path, n)
  OBVIOUS
<1>5. IsWeakOrder(n, Below)
  BY <1>3, <1>4, KeysWeak
<1>6. PICK Before : Before = Ahead(n, Below)
  OBVIOUS
<1>7. Before \in [1 .. n -> SUBSET (1 .. n)] /\ IsOrder(1 .. n, Before)
  BY <1>5, <1>6, AheadIsOrder
<1>8. \A i, j \in 1 .. n : j \in Below[i] <=> Order(sort, seq[j], seq[i])
  BY <1>3, <1>4 DEF ByKey
<1>9. \A i \in 1 .. n :
        Before[i] = {j \in 1 .. n : Order(sort, seq[j], seq[i]) \/ (~Order(sort, seq[i], seq[j]) /\ j < i)}
  BY <1>6, <1>8 DEF Ahead
<1>10. InSortOrder(sort, seq) = Arranged(seq, Before)
  <2>1. DOMAIN Before = 1 .. n
    BY <1>7
  <2>2. PICK ranks : ranks = [i \in 1 .. n |-> 1 + Cardinality(Before[i])]
    OBVIOUS
  <2>3. [i \in 1 .. n |-> 1 + Cardinality({j \in 1 .. n :
           Order(sort, seq[j], seq[i]) \/ (~Order(sort, seq[i], seq[j]) /\ j < i)})] = ranks
    BY <1>9, <2>2
  <2>4. PICK places : places = AntiFunction(ranks)
    OBVIOUS
  <2>5. Arranged(seq, Before) = [k \in DOMAIN places |-> seq[places[k]]]
    BY <2>1, <2>2, <2>4 DEF Arranged
  <2>6. InSortOrder(sort, seq) = [k \in DOMAIN places |-> seq[places[k]]]
    BY <2>3, <2>4 DEF InSortOrder, Sorted, Ranked
  <2> QED
    BY <2>5, <2>6
<1>11. Orders(1 .. n, Before)
  BY <1>7, UptoIsFinite DEF Orders
<1>12. PICK places : ArrangedAs(InSortOrder(sort, seq), seq, n, places, Before)
  BY <1>10, <1>11, AllArranged
<1>13. ASSUME NEW i \in 1 .. n, NEW j \in 1 .. n, j \in Before[i]
       PROVE  ~Order(sort, seq[i], seq[j])
  <2>1. SUFFICES ASSUME Order(sort, seq[i], seq[j])  PROVE FALSE
    OBVIOUS
  <2>2. Order(sort, seq[j], seq[i])
    BY <1>9, <1>13, <2>1
  <2>3. i \in Below[j] /\ j \in Below[i]
    BY <1>8, <2>1, <2>2
  <2> QED
    BY <1>5, <2>3 DEF IsWeakOrder
<1> QED
  BY <1>12, <1>13

\* A table has the same entries as what it is made of, and by tokens they descend.
LEMMA SortedRows ==
  ASSUME NEW n \in Nat, NEW seq, DOMAIN seq = 1 .. n, NEW sort, Sortable(sort, seq, n),
         NEW rows, rows = InSortOrder(sort, seq)
  PROVE  /\ DOMAIN rows = 1 .. n /\ Len(rows) = n /\ ToSet(rows) = ToSet(seq)
         /\ sort = "tokens" => Descending(rows)
<1>1. PICK Before, places :
        /\ ArrangedAs(rows, seq, n, places, Before)
        /\ \A i, j \in 1 .. n : j \in Before[i] => ~Order(sort, seq[i], seq[j])
  BY SortOrderIs
<1>2. DOMAIN rows = 1 .. n /\ Len(rows) = n /\ ToSet(rows) = ToSet(seq)
  BY <1>1, SameElements
<1>3. ASSUME sort = "tokens", NEW i \in 1 .. n, NEW j \in 1 .. n, i < j
      PROVE  rows[i].tokens >= rows[j].tokens
  <2>1. PICK a \in 1 .. n : a = places[i]
    BY <1>1 DEF ArrangedAs, Permutes
  <2>2. PICK b \in 1 .. n : b = places[j]
    BY <1>1 DEF ArrangedAs, Permutes
  <2>3. a \in Before[b] /\ rows[i] = seq[a] /\ rows[j] = seq[b]
    BY <1>1, <1>3, <2>1, <2>2 DEF ArrangedAs
  <2>4. ~Order(sort, seq[b], seq[a])
    BY <1>1, <2>3
  <2>5. seq[a].tokens \in Int /\ seq[b].tokens \in Int
    BY <1>3 DEF Sortable
  <2>6. ~(seq[b].tokens > seq[a].tokens)
    BY <1>3, <2>4 DEF Order
  <2> QED
    BY <2>3, <2>5, <2>6
<1> QED
  BY <1>2, <1>3 DEF Descending

\* The directories of a report whose files fit: their sums fit as well.
LEMMA ReportedDirectories ==
  ASSUME Inv, ResultInv, Succeeded,
         NEW directories, directories = AggregateDirectories(result.files, ToSet(inputs))
  PROVE  /\ directories # Overflow
         /\ \E m \in Nat :
              /\ DOMAIN directories.all = 1 .. m /\ Len(directories.all) = m
              /\ \A k \in 1 .. m : /\ directories.all[k].path \in Seq(Int)
                                   /\ directories.all[k].tokens \in Nat
<1>1. PICK n \in Nat :
        /\ AreFiles(result.files, n) /\ Fits(result.files, 1 .. n)
        /\ \A j \in 1 .. n : \E node \in DOMAIN found : result.files[j].path = found[node]
  BY ReportedFiles
<1>2. PICK files : files = result.files
  OBVIOUS
<1>3. PICK ins : ins = ToSet(inputs)
  OBVIOUS
<1>4. PICK R : R = RootsOf(ins)
  OBVIOUS
<1>5. R \in SUBSET Seq(Int)
  <2>1. \A input \in ins : input \in Seq(Int)
    <3>1. inputs \in Seq(Seq(Int))
      BY InputsAreSequences DEF Inv
    <3> QED
      BY <1>3, <3>1 DEF ToSet
  <2>2. \A input \in Seq(Int) : NormalizeRoot(input) \in Seq(Int)
    <3>1. <<>> \in Seq(Int)
      OBVIOUS
    <3> QED
      BY <3>1, CleanIs DEF NormalizeRoot
  <2> QED
    BY <1>4, <2>1, <2>2 DEF RootsOf
<1>6. PICK at : Looked(at)
  BY DEF Inv
<1>7. ASSUME NEW j \in 1 .. n, NEW d \in Ancestors(files[j].path, R)
      PROVE  d \in Seq(Int) /\ d # <<Here>> /\ IsStrictPrefix(d, files[j].path)
  <2>1. PICK node \in DOMAIN found : files[j].path = found[node]
    BY <1>1, <1>2
  <2>2. PICK path \in Seq(Int) : found[node] = Clean(path)
    BY <1>6, FoundShown DEF Inv
  <2>3. PICK clean \in Seq(Int) : clean = Clean(path) /\ clean # <<>>
    BY CleanIs
  <2>4. files[j].path = clean
    BY <2>1, <2>2, <2>3
  <2>5. d \in Seq(Int) /\ IsStrictPrefix(d, clean)
    BY <1>5, <2>3, <2>4, AncestorsAbove
  <2>6. d # <<Here>>
    BY <2>3, <2>5, AboveClean
  <2> QED
    BY <2>4, <2>5, <2>6
<1>8. HaveAncestors(files, n, R)
  BY <1>7 DEF HaveAncestors
<1>9. PICK D : D = DirectoriesOf(files, n, R)
  OBVIOUS
<1>10. /\ directories # Overflow
       /\ \E m \in Nat : DOMAIN directories.all = 1 .. m /\ Len(directories.all) = m
       /\ ToSet(directories.all) = {DirectoryEntry(files, n, R, d) : d \in D}
  BY <1>1, <1>2, <1>3, <1>4, <1>8, <1>9, DirectoriesAre
<1>11. PICK m \in Nat : DOMAIN directories.all = 1 .. m /\ Len(directories.all) = m
  BY <1>10
<1>12. ASSUME NEW k \in 1 .. m
       PROVE  directories.all[k].path \in Seq(Int) /\ directories.all[k].tokens \in Nat
  <2>1. directories.all[k] \in ToSet(directories.all)
    BY <1>11 DEF ToSet
  <2>2. PICK d \in D : directories.all[k] = DirectoryEntry(files, n, R, d)
    BY <1>10, <2>1
  <2>3. d \in Seq(Int)
    BY <1>7, <1>9 DEF DirectoriesOf
  <2>4. PathShown(d) \in Seq(Int)
    BY <2>3 DEF PathShown, Here
  <2>5. PICK S \in SUBSET (1 .. n) : S = OfDirectory(files, n, R, d)
    BY DEF OfDirectory
  <2>6. SumOver(TokensIn(files), S) \in Nat
    BY <1>1, <1>2, SumsAreNatural
  <2> QED
    BY <2>2, <2>4, <2>5, <2>6 DEF DirectoryEntry
<1> QED
  BY <1>10, <1>11, <1>12

\* What each view shows.
LEMMA TableFor ==
  ASSUME NEW view \in {"languages", "files", "dirs"}, NEW sort,
         NEW directories, directories = AggregateDirectories(result.files, ToSet(inputs)),
         view = "dirs" => directories # Overflow
  PROVE  TableOf(view, sort)
           = CASE view = "languages" -> LanguageTable(result)
               [] view = "files"     -> FileTable(result, sort)
               [] view = "dirs"      -> DirectoryTable(result, directories.all, sort)
<1>1. PICK args : args = [format |-> "table", quiet |-> FALSE, view |-> view,
                          sort |-> sort, context |-> {}, price |-> {}]
  OBVIOUS
<1>2. ~args.quiet /\ args.format = "table" /\ args.format # "json" /\ args.view = view /\ args.sort = sort
  BY <1>1
<1>3. ~(args.view \in {"dirs", "tree"} /\ directories = Overflow)
  BY <1>2
<1>4. Written(result, directories, args)
        = [table |-> Table(result, directories.all, args),
           summaries |-> Summaries(result.totals.tokens, args)]
  BY <1>2, <1>3 DEF Written
<1>5. TableOf(view, sort) = Written(result, directories, args).table
  BY <1>1 DEF TableOf, Shows, ScanReport
<1>6. TableOf(view, sort) = Table(result, directories.all, args)
  BY <1>4, <1>5
<1>7. CASE view = "languages"
  <2>1. view # "density" /\ view # "files" /\ view # "dirs" /\ view # "tree"
    BY <1>7
  <2> QED
    BY <1>2, <1>6, <1>7, <2>1 DEF Table
<1>8. CASE view = "files"
  <2>1. view # "density" /\ view # "languages" /\ view # "dirs" /\ view # "tree"
    BY <1>8
  <2> QED
    BY <1>2, <1>6, <1>8, <2>1 DEF Table
<1>9. CASE view = "dirs"
  <2>1. view # "density" /\ view # "languages" /\ view # "files" /\ view # "tree"
    BY <1>9
  <2> QED
    BY <1>2, <1>6, <1>9, <2>1 DEF Table
<1> QED
  BY <1>7, <1>8, <1>9

LEMMA JsonFor ==
  ASSUME NEW view \in {"files", "dirs", "tree"},
         NEW directories, directories = AggregateDirectories(result.files, ToSet(inputs)),
         view \in {"dirs", "tree"} => directories # Overflow
  PROVE  /\ JsonOf(view) # Overflow /\ JsonOf(view).files = result.files
         /\ view \in {"dirs", "tree"} => JsonOf(view).directories = directories.all
<1>1. PICK args : args = [format |-> "json", quiet |-> FALSE, view |-> view,
                          sort |-> "path", context |-> {}, price |-> {}]
  OBVIOUS
<1>2. ~args.quiet /\ args.format = "json" /\ args.format # "table" /\ args.view = view
  BY <1>1
<1>3. ~(args.view \in {"dirs", "tree"} /\ directories = Overflow)
  BY <1>2
<1>4. Written(result, directories, args) = Json(result, directories.all, args)
  BY <1>2, <1>3 DEF Written
<1>5. JsonOf(view) = Json(result, directories.all, args)
  BY <1>1, <1>4 DEF JsonOf, Shows, ScanReport
<1>6. Json(result, directories.all, args) # Overflow
  BY DEF Json, Overflow
<1>7. Json(result, directories.all, args).files = result.files
  BY DEF Json
<1>8. view \in {"dirs", "tree"} => Json(result, directories.all, args).directories = directories.all
  BY <1>2 DEF Json
<1> QED
  BY <1>5, <1>6, <1>7, <1>8

\* A row has the percentage of its language, and all rows have those of the whole.
LEMMA RowsAddUp ==
  ASSUME Inv, ResultInv, Succeeded, NEW table, table = LanguageTable(result)
  PROVE  /\ Sum(table.rows, LAMBDA row : row.files) = table.total.files
         /\ Sum(table.rows, LAMBDA row : row.tokens) = table.total.tokens
         /\ Sum(table.rows, LAMBDA row : row.percent) = table.total.percent
<1>1. PICK files : files = Filtered(outcomes, IsMeasured)
  OBVIOUS
<1>2. PICK details : details = skipped \o Filtered(outcomes, IsSkipped)
  OBVIOUS
<1>3. PICK n \in Nat, d \in Nat :
        /\ AreParts(files, n, details, d)
        /\ ~Fits(files, 1 .. n) => result = Overflow
        /\ Fits(files, 1 .. n) => AddsFilesUp(result, files, n)
  BY <1>1, <1>2, PartsAre
<1>4. Fits(files, 1 .. n) /\ AddsFilesUp(result, files, n)
  BY <1>3 DEF Succeeded
<1>5. AreFiles(files, n) /\ \A i \in 1 .. n : files[i].bytes = 0 => files[i].tokens = 0
  BY <1>3 DEF AreParts
<1>6. PICK list : list = result.languages
  OBVIOUS
<1>7. list = LanguageList(files)
  BY <1>4, <1>6 DEF AddsFilesUp
<1>8. PICK m \in Nat :
        /\ DOMAIN list = 1 .. m
        /\ \A i \in 1 .. m : /\ list[i].files \in Nat
                             /\ list[i].tokens \in Nat /\ list[i].bytes \in Nat
                             /\ list[i].bytes = 0 => list[i].tokens = 0
  BY <1>4, <1>5, <1>7, LanguageEntries
<1>9. PICK counts : counts = [i \in 1 .. m |-> list[i].files]
  OBVIOUS
<1>10. PICK tokens : tokens = [i \in 1 .. m |-> list[i].tokens]
  OBVIOUS
<1>11. PICK shares : shares = Percentages(tokens)
  OBVIOUS
<1>12. tokens \in Seq(Nat) /\ Len(tokens) = m
  BY <1>8, <1>10
<1>13. /\ Total(counts) = result.totals.files /\ Total(tokens) = result.totals.tokens
  <2>1. /\ Sum(list, LAMBDA language : language.files) = Total(counts)
        /\ Sum(list, LAMBDA language : language.tokens) = Total(tokens)
    BY <1>8, <1>9, <1>10 DEF Sum
  <2>2. /\ Sum(list, LAMBDA language : language.files) = n
        /\ Sum(list, LAMBDA language : language.tokens) = result.totals.tokens
        /\ result.totals.files = n
    BY <1>4, <1>6 DEF AddsFilesUp
  <2> QED
    BY <2>1, <2>2
<1>14. result.totals.tokens \in Nat
  <2>1. PICK all \in SUBSET (1 .. n) : all = 1 .. n
    OBVIOUS
  <2>2. SumOver(TokensIn(files), all) \in Nat
    BY <1>5, SumsAreNatural
  <2> QED
    BY <1>4, <2>1, <2>2 DEF AddsFilesUp
<1>15. PICK rows : rows = [i \in 1 .. m |-> [name |-> list[i].name, files |-> list[i].files,
                                           tokens |-> list[i].tokens, percent |-> shares[i]]]
  OBVIOUS
<1>16. /\ table.rows = rows
       /\ table.total.files = result.totals.files /\ table.total.tokens = result.totals.tokens
       /\ table.total.percent = IF result.totals.tokens = 0 THEN 0 ELSE 1000
  <2>1. [i \in DOMAIN result.languages |-> result.languages[i].tokens] = tokens
    BY <1>6, <1>8, <1>10
  <2> QED
    BY <1>6, <1>8, <1>11, <1>15, <2>1 DEF LanguageTable
<1>17. /\ DOMAIN rows = 1 .. m
       /\ \A i \in 1 .. m : /\ rows[i].files = counts[i] /\ rows[i].tokens = tokens[i]
                            /\ rows[i].percent = shares[i]
  BY <1>9, <1>10, <1>15
<1>18. DOMAIN shares = 1 .. m /\ shares = [i \in 1 .. m |-> shares[i]]
       /\ Total(shares) = IF result.totals.tokens = 0 THEN 0 ELSE 1000
  <2>1. CASE result.totals.tokens = 0
    <3>1. shares = [i \in 1 .. m |-> 0]
      BY <1>10, <1>11, <1>13, <2>1 DEF Percentages
    <3>2. PICK S : S = 1 .. m
      OBVIOUS
    <3>3. IsFiniteSet(S) /\ Weighs(shares, S) /\ \A i \in S : shares[i] = 0
      BY <3>1, <3>2, UptoIsFinite DEF Weighs
    <3>4. SumOver(shares, S) = 0
      BY <3>3, SumOfZeros
    <3>5. Total(shares) = SumOver(shares, 1 .. m)
      BY <3>1, <3>2, <3>3, TotalIs
    <3> QED
      BY <2>1, <3>1, <3>2, <3>4, <3>5
  <2>2. CASE result.totals.tokens # 0
    <3>1. PICK total \in Nat \ {0} : total = result.totals.tokens
      BY <1>14, <2>2
    <3>2. total = Total(tokens)
      BY <1>13, <3>1
    <3>3. Fair(shares, tokens, m, total)
      BY <1>11, <1>12, <3>2, SharesAre
    <3>4. DOMAIN shares = 1 .. m /\ Total(shares) = 1000
      BY <3>3 DEF Fair
    <3>5. shares = [i \in DOMAIN tokens |-> shares[i]]
      <4>1. PICK floor, rest, left :
              /\ Divided(tokens, m, total, floor, rest, left)
              /\ Percentages(tokens) = [i \in 1 .. m |-> floor[i] + Bonus(Greater(rest, m), left, i)]
        BY <1>12, <3>2, PercentagesAre
      <4> QED
        BY <1>10, <1>11, <4>1
    <3> QED
      BY <1>10, <2>2, <3>4, <3>5
  <2> QED
    BY <2>1, <2>2
<1>19. /\ Sum(rows, LAMBDA row : row.files) = Total(counts)
       /\ Sum(rows, LAMBDA row : row.tokens) = Total(tokens)
       /\ Sum(rows, LAMBDA row : row.percent) = Total(shares)
  <2>1. [i \in DOMAIN rows |-> rows[i].files] = counts
    BY <1>9, <1>17
  <2>2. [i \in DOMAIN rows |-> rows[i].tokens] = tokens
    BY <1>10, <1>17
  <2>3. [i \in DOMAIN rows |-> rows[i].percent] = shares
    BY <1>17, <1>18
  <2> QED
    BY <2>1, <2>2, <2>3 DEF Sum
<1> QED
  BY <1>13, <1>16, <1>18, <1>19

\* What a summary of skips is made of, and what it says of the lines of a reason.
AreSkips(details, d) ==
  /\ DOMAIN details = 1 .. d /\ Len(details) = d
  /\ \A i \in 1 .. d : details[i].path \in Seq(Int) /\ details[i].reason \in Reasons

CountsLines(lines, skips, reason) ==
  Cardinality({i \in DOMAIN lines : lines[i].reason = reason})
    = IF reason \in DOMAIN skips.count THEN skips.count[reason] ELSE 0

\* The lines of the skips are as many of each reason as the summary counts.
LEMMA LinesCounted ==
  ASSUME NEW d \in Nat, NEW details, AreSkips(details, d),
         NEW summary, summary = SkippedSummary(details),
         NEW snapshot, NEW lines, lines = SkipLines(snapshot, summary.details), NEW reason \in Reasons
  PROVE  CountsLines(lines, SkipCounts(summary), reason)
<1>0. DOMAIN details = 1 .. d /\ Len(details) = d
  BY DEF AreSkips
<1>1. PICK S \in SUBSET (1 .. d) : S = {i \in 1 .. d : details[i].reason = reason}
  OBVIOUS
<1>2. IsFiniteSet(S) /\ Cardinality(S) \in Nat
  BY UptoIsFinite, FS_Subset, FS_CardinalityType
<1>3. PICK places, Before : ArrangedAs(summary.details, details, d, places, Before)
  <2>1. \A i \in 1 .. d : details[i].path \in Seq(Int) /\ details[i].reason \in Int
    <3>1. ASSUME NEW x \in Reasons  PROVE x \in Int
      BY DEF Reasons
    <3> QED
      BY <3>1 DEF AreSkips
  <2> QED
    BY <1>0, <2>1, DetailsSorted
<1>4. /\ \A k \in 1 .. d : places[k] \in 1 .. d
      /\ \A i \in 1 .. d : \E k \in 1 .. d : places[k] = i
      /\ \A i, j \in 1 .. d : places[i] = places[j] => i = j
      /\ summary.details = [k \in 1 .. d |-> details[places[k]]]
  BY <1>3 DEF ArrangedAs, Permutes
<1>5. PICK T \in SUBSET (1 .. d) : T = {i \in DOMAIN lines : lines[i].reason = reason}
                                /\ \A k \in 1 .. d : k \in T <=> places[k] \in S
  <2>1. DOMAIN lines = 1 .. d /\ \A k \in 1 .. d : lines[k].reason = details[places[k]].reason
    <3>1. PICK shown : shown = summary.details
      OBVIOUS
    <3>2. DOMAIN shown = 1 .. d /\ \A k \in 1 .. d : shown[k] = details[places[k]]
      BY <1>4, <3>1
    <3>3. DOMAIN lines = DOMAIN shown /\ \A k \in DOMAIN shown : lines[k].reason = shown[k].reason
      BY <3>1 DEF SkipLines
    <3> QED
      BY <3>2, <3>3
  <2>2. PICK T : T = {i \in DOMAIN lines : lines[i].reason = reason}
    OBVIOUS
  <2>3. T \in SUBSET (1 .. d)
    BY <2>1, <2>2
  <2>4. \A k \in 1 .. d : k \in T <=> places[k] \in S
    BY <1>1, <1>4, <2>1, <2>2
  <2> QED
    BY <2>2, <2>3, <2>4
<1>6. Cardinality(T) = Cardinality(S)
  <2>1. IsFiniteSet(T)
    BY UptoIsFinite, FS_Subset
  <2>2. Corresponds(places, T, S)
    <3>1. \A k \in T : places[k] \in S
      BY <1>5
    <3>2. ASSUME NEW i \in S  PROVE \E k \in T : places[k] = i
      <4>1. PICK k \in 1 .. d : places[k] = i
        BY <1>4
      <4> QED
        BY <1>5, <4>1
    <3>3. \A i, j \in T : places[i] = places[j] => i = j
      BY <1>4
    <3> QED
      BY <3>1, <3>2, <3>3 DEF Corresponds
  <2> QED
    BY <2>1, <2>2, SameCount
<1>7. summary.total = d /\ summary.count[reason] = Cardinality(S) /\ DOMAIN summary.count = Reasons
  BY <1>0, <1>1 DEF SkippedSummary
<1>8. Cardinality({i \in DOMAIN lines : lines[i].reason = reason}) = Cardinality(S)
  BY <1>5, <1>6
<1>9. CASE d = 0
  <2>1. S = {}
    <3>1. ASSUME NEW i \in S  PROVE FALSE
      BY <1>9
    <3> QED
      BY <3>1
  <2>2. SkipCounts(summary) = [total |-> 0, count |-> <<>>]
    BY <1>7, <1>9 DEF SkipCounts
  <2>3. reason \notin DOMAIN SkipCounts(summary).count
    <3>1. SkipCounts(summary).count = <<>>
      BY <2>2
    <3>2. DOMAIN <<>> = 1 .. 0 /\ reason \notin 1 .. 0
      OBVIOUS
    <3> QED
      BY <3>1, <3>2
  <2>4. Cardinality(S) = 0
    BY <2>1, FS_EmptySet
  <2> QED
    BY <1>8, <2>3, <2>4 DEF CountsLines
<1>10. CASE d # 0
  <2>1. SkipCounts(summary).count
          = [other \in {other \in Reasons : summary.count[other] > 0} |-> summary.count[other]]
    BY <1>7, <1>10 DEF SkipCounts
  <2>2. reason \in DOMAIN SkipCounts(summary).count <=> Cardinality(S) > 0
    BY <1>7, <2>1
  <2>3. Cardinality(S) > 0 => SkipCounts(summary).count[reason] = Cardinality(S)
    BY <1>7, <2>1
  <2>4. CASE Cardinality(S) > 0
    BY <1>8, <2>2, <2>3, <2>4 DEF CountsLines
  <2>5. CASE ~(Cardinality(S) > 0)
    <3>1. Cardinality(S) = 0
      BY <1>2, <2>5
    <3>2. reason \notin DOMAIN SkipCounts(summary).count
      BY <2>2, <2>5
    <3> QED
      BY <1>8, <3>1, <3>2 DEF CountsLines
  <2> QED
    BY <2>4, <2>5
<1> QED
  BY <1>9, <1>10

\* A report that succeeded shows the same in each of its views.
LEMMA InvViews == Inv /\ ResultInv => ViewsAgree
<1> SUFFICES ASSUME Inv, ResultInv, Succeeded  PROVE ViewsAgree
  BY DEF ViewsAgree
<1>1. PICK directories : directories = AggregateDirectories(result.files, ToSet(inputs))
  OBVIOUS
<1>2. directories # Overflow
  BY <1>1, ReportedDirectories
<1>3. PICK all : all = directories.all
  OBVIOUS
<1>4. PICK m \in Nat : /\ DOMAIN all = 1 .. m /\ Len(all) = m
                      /\ \A k \in 1 .. m : all[k].path \in Seq(Int) /\ all[k].tokens \in Nat
  BY <1>1, <1>3, ReportedDirectories
<1>5. PICK files : files = result.files
  OBVIOUS
<1>6. PICK n \in Nat : AreFiles(files, n) /\ Len(files) = n
  BY <1>5, ReportedFiles
<1>7. \A view \in {"dirs", "tree"} : JsonOf(view) # Overflow /\ JsonOf(view).directories = all
  BY <1>1, <1>2, <1>3, JsonFor
<1>8. JsonOf("files").files = files
  BY <1>1, <1>5, JsonFor
<1>9. ASSUME NEW sort \in {"path", "tokens", "language"}
      PROVE  /\ SameEntries(TableOf("files", sort).rows, JsonOf("files").files, {"path", "tokens"})
             /\ sort = "tokens" => Descending(TableOf("files", sort).rows)
  <2>1. PICK rows : rows = InSortOrder(sort, files)
    OBVIOUS
  <2>2. DOMAIN files = 1 .. n /\ Sortable(sort, files, n)
    BY <1>6 DEF AreFiles, Sortable
  <2>3. Len(rows) = n /\ ToSet(rows) = ToSet(files) /\ (sort = "tokens" => Descending(rows))
    BY <2>1, <2>2, SortedRows
  <2>4. Len(files) = n
    BY <1>6
  <2>5. TableOf("files", sort).rows = rows
    <3>1. TableOf("files", sort) = FileTable(result, sort)
      BY <1>1, TableFor
    <3> QED
      BY <1>5, <2>1, <3>1 DEF FileTable
  <2>6. SameEntries(rows, files, {"path", "tokens"})
    BY <2>3, <2>4 DEF SameEntries
  <2> QED
    BY <1>8, <2>3, <2>5, <2>6
<1>10. ASSUME NEW sort \in {"path", "tokens"}
       PROVE  /\ SameEntries(TableOf("dirs", sort).rows, all, {"path", "tokens"})
              /\ sort = "tokens" => Descending(TableOf("dirs", sort).rows)
  <2>1. PICK rows : rows = InSortOrder(sort, all)
    OBVIOUS
  <2>2. Sortable(sort, all, m)
    BY <1>4 DEF Sortable
  <2>3. Len(rows) = m /\ ToSet(rows) = ToSet(all) /\ (sort = "tokens" => Descending(rows))
    BY <1>4, <2>1, <2>2, SortedRows
  <2>4. Len(all) = m
    BY <1>4
  <2>5. TableOf("dirs", sort).rows = rows
    <3>1. TableOf("dirs", sort) = DirectoryTable(result, all, sort)
      BY <1>1, <1>2, <1>3, TableFor
    <3> QED
      BY <2>1, <3>1 DEF DirectoryTable
  <2>6. SameEntries(rows, all, {"path", "tokens"})
    BY <2>3, <2>4 DEF SameEntries
  <2> QED
    BY <2>3, <2>5, <2>6
<1>11. PICK languages : languages = TableOf("languages", "path")
  OBVIOUS
<1>12. languages = LanguageTable(result)
  BY <1>1, <1>11, TableFor
<1>13. /\ Sum(languages.rows, LAMBDA row : row.files) = languages.total.files
       /\ Sum(languages.rows, LAMBDA row : row.tokens) = languages.total.tokens
       /\ Sum(languages.rows, LAMBDA row : row.percent) = languages.total.percent
  BY <1>12, RowsAddUp
<1>14. PICK lines : lines = SkipLines("", result.skipped.details)
  OBVIOUS
<1>15. ASSUME NEW reason \in Reasons
       PROVE  CountsLines(lines, languages.skips, reason)
  <2>1. PICK measured : measured = Filtered(outcomes, IsMeasured)
    OBVIOUS
  <2>2. PICK details : details = skipped \o Filtered(outcomes, IsSkipped)
    OBVIOUS
  <2>3. PICK c \in Nat, d \in Nat :
          /\ AreParts(measured, c, details, d)
          /\ ~Fits(measured, 1 .. c) => result = Overflow
          /\ Fits(measured, 1 .. c) => result.skipped = SkippedSummary(details)
    BY <2>1, <2>2, PartsAre
  <2>4. result.skipped = SkippedSummary(details)
    BY <2>3 DEF Succeeded
  <2>5. AreSkips(details, d)
    BY <2>3 DEF AreParts, AreSkips
  <2>6. languages.skips = SkipCounts(result.skipped)
    BY <1>12 DEF LanguageTable
  <2>7. PICK summary : summary = SkippedSummary(details)
    OBVIOUS
  <2>8. CountsLines(lines, SkipCounts(summary), reason)
    BY <1>14, <2>4, <2>5, <2>7, LinesCounted
  <2> QED
    BY <2>4, <2>6, <2>7, <2>8
<1>16. /\ \A sort \in {"path", "tokens"} : \A view \in {"dirs", "tree"} :
            SameEntries(TableOf("dirs", sort).rows, JsonOf(view).directories, {"path", "tokens"})
       /\ Descending(TableOf("files", "tokens").rows) /\ Descending(TableOf("dirs", "tokens").rows)
  BY <1>7, <1>9, <1>10
<1> QED
  BY <1>7, <1>9, <1>11, <1>13, <1>14, <1>15, <1>16 DEF ViewsAgree, CountsLines

\* The views of a report agree, whatever is counted: the files and the directories of
\* a table are those of JSON in the order that was asked for, the rows of the language
\* table add up to its total, percentages included, and the skips are those listed
\* (write_file_table, write_directory_table, write_language_table, write_json).
THEOREM ViewsShowTheSame == Spec => []ViewsAgree
<1>1. Init => ResultInv
  BY DEF Init, ResultInv
<1>2. Inv /\ ResultInv /\ [Next]_vars => ResultInv'
  BY NextResultInv
<1>3. Spec => []ResultInv
  BY <1>1, <1>2, SpecInv, PTL DEF Spec
<1> QED
  BY <1>3, SpecInv, InvViews, PTL

-----------------------------------------------------------------------------
(* The call from Python *)

\* A call leaves the scan alone or takes a step of it, so what holds of a scan holds of
\* the scan of a call.
LEMMA CallIsScan == BindingsSpec => Spec
<1>1. BindingsInit => Init
  BY DEF BindingsInit
<1>2. [BindingsNext]_<<callVars, vars>> => [Next]_vars
  BY DEF BindingsNext, Prepare, Run, Respond, CountFile, Answered
<1> QED
  BY <1>1, <1>2, PTL DEF BindingsSpec, Spec

\* What a scan that has not come to its files returns, and that an unusable glob keeps
\* discovery from starting.
ErrorInv ==
  /\ next = 1 => found = <<>>
  /\ result # Unknown /\ paths = Pending =>
       \/ inputs = <<>> /\ result = Error("no inputs", <<>>)
       \/ inputs # <<>> /\ ~FiltersCompile(options) /\ result = Error("glob", <<>>)
       \/ /\ FiltersCompile(options)
          /\ \E i \in DOMAIN inputs, j \in DOMAIN history :
               /\ IsMissing(history[j], options, Clean(inputs[i]))
               /\ result = Error("input", Clean(inputs[i]))

\* Where a call may be.
CallInv ==
  /\ call \in CallsFor(request)
  /\ stage \in {"prepare", "engine", "answered"}
  /\ stage = "prepare" => result = Unknown /\ found = <<>> /\ paths = Pending
  /\ stage = "engine" => FirstFailing = 0
  /\ DefectsTyped

LEMMA NextErrorInv ==
  ASSUME Inv, ErrorInv, [Next]_vars
  PROVE  ErrorInv'
<1>1. next \in Nat \ {0} /\ Len(history) \in Nat \ {0} /\ tree = history[Len(history)]
      /\ Len(history) \in DOMAIN history
  BY HistoryIs, InputsAreSequences DEF Inv, TypeInv
<1>2. request' = request /\ inputs' = inputs /\ options' = options
  <2>1. request' = request
    BY DEF Next, Reject, Discover, MissingInput, StartPool, Read, Deliver, Fail, Conclude, Change,
           Finished, vars
  <2> QED
    BY <2>1 DEF inputs, options
<1>3. ASSUME Reject  PROVE ErrorInv'
  <2>1. next' = next /\ found' = found
        /\ \/ inputs = <<>> /\ result' = Error("no inputs", <<>>)
           \/ inputs # <<>> /\ ~FiltersCompile(options) /\ result' = Error("glob", <<>>)
    BY <1>3 DEF Reject, Return
  <2>2. Error("no inputs", <<>>)' = Error("no inputs", <<>>)
        /\ Error("glob", <<>>)' = Error("glob", <<>>)
    BY DEF Error
  <2> QED
    BY <1>2, <2>1, <2>2 DEF ErrorInv
<1>4. ASSUME MissingInput  PROVE ErrorInv'
  <2>1. /\ next' = next /\ found' = found /\ history' = history /\ FiltersCompile(options)
        /\ next \in DOMAIN inputs
        /\ IsMissing(history[Len(history)], options, Clean(inputs[next]))
        /\ result' = Error("input", Clean(inputs[next]))
    BY <1>1, <1>4, InputsAreSequences DEF MissingInput, Return, disk, Inv
  <2> QED
    BY <1>1, <1>2, <2>1 DEF ErrorInv
<1>5. ASSUME Discover  PROVE ErrorInv'
  BY <1>1, <1>5 DEF Discover, ErrorInv
<1>6. ASSUME StartPool \/ Change \/ \E w \in Workers : Read(w) \/ Deliver(w)  PROVE ErrorInv'
  <2>1. result' = Unknown /\ next' = next /\ found' = found
    BY <1>6 DEF StartPool, Change, Read, Deliver
  <2> QED
    BY <2>1 DEF ErrorInv
<1>7. ASSUME Fail \/ Conclude  PROVE ErrorInv'
  <2>1. paths' # Pending /\ next' = next /\ found' = found
    BY <1>7 DEF Fail, Conclude, Collected
  <2> QED
    BY <2>1 DEF ErrorInv
<1>8. ASSUME UNCHANGED vars  PROVE ErrorInv'
  <2>1. result' = result /\ paths' = paths /\ next' = next /\ found' = found /\ history' = history
    BY <1>8 DEF vars, disk
  <2> QED
    BY <1>2, <2>1 DEF ErrorInv
<1> QED
  BY <1>3, <1>4, <1>5, <1>6, <1>7, <1>8 DEF Next, Finished

\* The check that fails is one of them, and when none does all have passed.
LEMMA FirstFailingIs ==
  /\ FirstFailing = 0 => \A i \in 1 .. 7 : ~Checks[i].fails
  /\ FirstFailing # 0 => FirstFailing \in 1 .. 7 /\ Checks[FirstFailing].fails
<1> DEFINE failing == {i \in 1 .. 7 : Checks[i].fails}
<1>1. Len(Checks) = 7
  BY DEF Checks
<1>2. FirstFailing = IF failing # {} THEN Min(failing) ELSE 0
  BY <1>1 DEF FirstFailing, SelectInSeq
<1>3. CASE failing = {}
  BY <1>2, <1>3
<1>4. CASE failing # {}
  <2>1. PICK n \in failing : \A m \in failing : n =< m
    <3>1. failing \in SUBSET Nat
      OBVIOUS
    <3> HIDE DEF failing
    <3> QED
      BY <3>1, <1>4, LeastNatural
  <2>2. Min(failing) = n
    <3>1. failing \in SUBSET Nat
      OBVIOUS
    <3> HIDE DEF failing
    <3> QED
      BY <3>1, <2>1, MinIs
  <2> QED
    BY <1>2, <1>4, <2>1, <2>2
<1> QED
  BY <1>3, <1>4

\* Each check, with the exception it raises.
LEMMA EachCheck ==
  /\ Checks[1].fails <=> call.paths = "neither"
  /\ Checks[2].fails <=> call.invalid_utf8 \notin {"skip", "lossy"}
  /\ Checks[3].fails <=> Cardinality(Selected(call.selectors)) > 1
  /\ Checks[4].fails <=> call.selectors.tokenizer_file # None /\ ~Loads(call.artifact)
  /\ Checks[5].fails <=> call.selectors.model # None /\ ForModel(call.selectors.model) = None
  /\ Checks[6].fails <=> call.selectors.encoding # None /\ FromStr(call.selectors.encoding) = None
  /\ Checks[7].fails <=> call.threads = 0
  /\ Checks[1].raises = "ValueError"
  /\ Checks[2].raises = "ConfigurationError" /\ Checks[3].raises = "ConfigurationError"
  /\ Checks[4].raises = "TokenizerError" /\ Checks[5].raises = "TokenizerError"
  /\ Checks[6].raises = "TokenizerError" /\ Checks[7].raises = "ConfigurationError"
BY DEF Checks

LEMMA ChecksStay ==
  ASSUME call' = call
  PROVE  FirstFailing' = FirstFailing
<1>1. Checks' = Checks
  BY DEF Checks
<1> QED
  BY <1>1 DEF FirstFailing, SelectInSeq

\* What the checks come to: a call that passes them has nothing wrong with its arguments,
\* and one that does not has what it is told.
LEMMA ChecksPass ==
  ASSUME FirstFailing = 0, call \in CallsFor(request), request \in Requests
  PROVE  /\ call.paths # "neither" /\ ~BadTokenizer
         /\ BadOptions => call.function = "scan" /\ inputs # <<>> /\ ~FiltersCompile(options)
<1>1. \A i \in 1 .. 7 : ~Checks[i].fails
  BY FirstFailingIs
<1>2. /\ ~Checks[1].fails /\ ~Checks[2].fails /\ ~Checks[3].fails /\ ~Checks[4].fails
      /\ ~Checks[5].fails /\ ~Checks[6].fails /\ ~Checks[7].fails
  BY <1>1
<1>3. /\ call.paths # "neither" /\ call.invalid_utf8 \in {"skip", "lossy"}
      /\ ~(Cardinality(Selected(call.selectors)) > 1)
      /\ ~(call.selectors.tokenizer_file # None /\ ~Loads(call.artifact))
      /\ ~(call.selectors.model # None /\ ForModel(call.selectors.model) = None)
      /\ ~(call.selectors.encoding # None /\ FromStr(call.selectors.encoding) = None)
      /\ call.threads # 0
  BY <1>2, EachCheck
<1>4. call.artifact \in {Missing, Broken} => ~Loads(call.artifact)
  BY DEF Missing, Broken, Loads
<1> QED
  BY <1>3, <1>4 DEF BadTokenizer, BadOptions

LEMMA ChecksFail ==
  ASSUME FirstFailing # 0, call \in CallsFor(request), request \in Requests,
         NEW exception, exception = Checks[FirstFailing].raises
  PROVE  \/ exception = "ValueError" /\ call.paths = "neither"
         \/ exception = "ConfigurationError" /\ BadOptions
         \/ exception = "TokenizerError" /\ BadTokenizer
<1>1. PICK i \in 1 .. 7 : i = FirstFailing /\ Checks[i].fails
  BY FirstFailingIs
<1>2. i = 1 \/ i = 2 \/ i = 3 \/ i = 4 \/ i = 5 \/ i = 6 \/ i = 7
  BY <1>1
<1>3. ~Loads(call.artifact) => call.artifact \in {Missing, Broken}
  <2>1. call.artifact \in Nat \cup {Broken}
    BY BindingsAssumption
  <2> QED
    BY <2>1 DEF Loads, Missing, Broken
<1>4. CASE i = 1
  BY <1>1, <1>4, EachCheck
<1>5. CASE i = 2
  BY <1>1, <1>5, EachCheck DEF BadOptions
<1>6. CASE i = 3
  BY <1>1, <1>6, EachCheck DEF BadOptions
<1>7. CASE i = 4
  BY <1>1, <1>3, <1>7, EachCheck DEF BadTokenizer
<1>8. CASE i = 5
  BY <1>1, <1>8, EachCheck DEF BadTokenizer
<1>9. CASE i = 6
  BY <1>1, <1>9, EachCheck DEF BadTokenizer
<1>10. CASE i = 7
  BY <1>1, <1>10, EachCheck DEF BadOptions
<1> QED
  BY <1>2, <1>4, <1>5, <1>6, <1>7, <1>8, <1>9, <1>10

\* Files with an outcome of their own were failing at the moment they were read.
LEMMA FailedRead ==
  ASSUME NEW k \in DOMAIN history, history[k] \in [Nodes -> Kinds], NEW opts, NEW path,
         HasFailed(OutcomeOf(history[k], opts, path))
  PROVE  FailingFile
<1>1. KindOf(history[k], Identity(path)) = "failing"
  BY FailsWhen
<1>2. Identity(path) \in Nodes /\ history[k][Identity(path)] = "failing"
  BY <1>1 DEF KindOf
<1> QED
  BY <1>2 DEF FailingFile

\* What the result of a scan is, as it is told apart by map_scan_error.
LEMMA ResultIs ==
  ASSUME Inv, ResultInv, ErrorInv, result # Unknown
  PROVE  \/ Succeeded /\ FiltersCompile(options)
         \/ result = Overflow /\ inputs # <<>> /\ FiltersCompile(options)
         \/ result = Error("no inputs", <<>>) /\ inputs = <<>>
         \/ result = Error("glob", <<>>) /\ inputs # <<>> /\ ~FiltersCompile(options)
         \/ (\E path : result = Error("input", path)) /\ FiltersCompile(options)
              /\ \E i \in DOMAIN inputs, j \in DOMAIN history :
                   IsMissing(history[j], options, Clean(inputs[i]))
         \/ (\E path : result = Error("count", path)) /\ FiltersCompile(options) /\ FailingFile
<1>1. CASE paths = Pending
  BY <1>1 DEF ErrorInv
<1>2. CASE paths # Pending
  <2>1. PICK at \in [1 .. next - 1 -> DOMAIN history] : Looked(at) /\ Counted(at)
    BY DEF Inv
  <2>2. /\ inputs # <<>> /\ next = Len(inputs) + 1 /\ DOMAIN outcomes = DOMAIN paths
        /\ \A i \in DOMAIN paths : outcomes[i] # Pending => IsRead(at, paths[i], outcomes[i])
    BY <1>2, <2>1 DEF Counted
  <2>3. FiltersCompile(options)
    BY <2>2, InputsAreSequences DEF Inv, TypeInv
  <2>4. ASSUME NEW i \in DOMAIN outcomes, HasFailed(outcomes[i]), outcomes[i] # Pending
        PROVE  FailingFile
    <3>1. PICK k \in at[Len(inputs)] .. Len(history) : outcomes[i] = OutcomeOf(history[k], options, paths[i])
      BY <2>2, <2>4 DEF IsRead
    <3>2. k \in DOMAIN history /\ history[k] \in [Nodes -> Kinds]
      <4>1. Len(inputs) \in 1 .. next - 1 /\ DOMAIN history = 1 .. Len(history) /\ Len(history) \in Nat
        BY <2>2, HistoryIs, InputsAreSequences DEF Inv
      <4>2. at[Len(inputs)] \in 1 .. Len(history)
        BY <2>1, <4>1
      <4> QED
        BY <3>1, <4>1, <4>2, HistoryIs DEF Inv
    <3> QED
      BY <2>4, <3>1, <3>2, FailedRead
  <2>5. CASE \E i \in DOMAIN outcomes : HasFailed(outcomes[i]) /\ result = Error("count", paths[i])
                                        /\ outcomes[i] # Pending
    BY <2>3, <2>4, <2>5
  <2>6. CASE result = Aggregate(Filtered(outcomes, IsMeasured), skipped \o Filtered(outcomes, IsSkipped))
    <3>1. result = Overflow \/ (result # Overflow /\ "totals" \in DOMAIN result)
      BY <2>6 DEF Aggregate
    <3> QED
      BY <2>2, <2>3, <3>1 DEF Succeeded
  <2> QED
    BY <1>2, <2>5, <2>6 DEF ResultInv
<1> QED
  BY <1>1, <1>2

LEMMA PrepareInv ==
  ASSUME Inv, ResultInv, ErrorInv, CallInv, Prepare
  PROVE  CallInv'
<1>1. /\ stage = "prepare" /\ call' = call /\ UNCHANGED vars
      /\ call \in CallsFor(request) /\ request \in Requests
      /\ found = <<>> /\ paths = Pending /\ result = Unknown
  BY DEF Prepare, CallInv, Inv, TypeInv
<1>2. /\ request' = request /\ result' = result /\ found' = found /\ paths' = paths
      /\ history' = history /\ inputs' = inputs /\ options' = options
  BY <1>1 DEF vars, disk, inputs, options
<1>3. CASE FirstFailing = 0
  <2>1. stage' = "engine" /\ FirstFailing' = FirstFailing
    BY <1>1, <1>3, ChecksStay DEF Prepare
  <2> QED
    BY <1>1, <1>2, <1>3, <2>1 DEF CallInv, DefectsTyped, Raised
<1>4. CASE FirstFailing # 0
  <2>1. PICK exception : exception = Checks[FirstFailing].raises
    OBVIOUS
  <2>2. stage' = "answered" /\ answer' = [raised |-> exception]
    BY <1>4, <2>1 DEF Prepare, Finish, Raise
  <2>3. \/ exception = "ValueError" /\ call.paths = "neither"
        \/ exception = "ConfigurationError" /\ BadOptions
        \/ exception = "TokenizerError" /\ BadTokenizer
    BY <1>1, <1>4, <2>1, ChecksFail
  <2>4. (BadOptions' <=> BadOptions) /\ (BadTokenizer' <=> BadTokenizer)
    BY <1>1, <1>2 DEF BadOptions, BadTokenizer
  <2>5. answer'.raised = exception /\ Raised'
    BY <2>2 DEF Raised
  <2>6. DefectsTyped'
    BY <1>1, <1>2, <2>2, <2>3, <2>4, <2>5 DEF DefectsTyped
  <2> QED
    BY <1>1, <1>2, <2>2, <2>6 DEF CallInv
<1> QED
  BY <1>3, <1>4

\* map_scan_error sorts each error by what it is.
LEMMA ErrorsMapped ==
  ASSUME NEW path
  PROVE  /\ MapScanError(Overflow) = Raise("InputError")
         /\ MapScanError(Error("no inputs", path)) = Raise("InputError")
         /\ MapScanError(Error("input", path)) = Raise("InputError")
         /\ MapScanError(Error("glob", path)) = Raise("ConfigurationError")
         /\ MapScanError(Error("count", path)) = Raise("TokenizerError")
<1>1. \A kind : Error(kind, path) # Overflow /\ Error(kind, path).error = kind
  <2>1. \A kind : DOMAIN Error(kind, path) = {"error", "path"}
    BY DEF Error
  <2>2. DOMAIN Overflow = {"error"}
    BY DEF Overflow
  <2> QED
    BY <2>1, <2>2 DEF Error
<1>2. MapScanError(Overflow) = Raise("InputError")
  BY DEF MapScanError, Overflow
<1>3. /\ MapScanError(Error("no inputs", path)) = Raise("InputError")
      /\ MapScanError(Error("input", path)) = Raise("InputError")
  BY <1>1 DEF MapScanError
<1>4. /\ MapScanError(Error("glob", path)) = Raise("ConfigurationError")
      /\ MapScanError(Error("count", path)) = Raise("TokenizerError")
  <2>1. /\ Error("glob", path) # Overflow /\ Error("glob", path).error = "glob"
        /\ Error("count", path) # Overflow /\ Error("count", path).error = "count"
    BY <1>1
  <2> QED
    BY <2>1 DEF MapScanError
<1> QED
  BY <1>2, <1>3, <1>4

LEMMA NotSucceeded ==
  ASSUME result = Overflow \/ \E kind, path : result = Error(kind, path)
  PROVE  ~Succeeded
BY DEF Succeeded, Error

LEMMA RespondInv ==
  ASSUME Inv, ResultInv, ErrorInv, CallInv, Respond
  PROVE  CallInv'
<1>1. /\ stage = "engine" /\ call.function = "scan" /\ result # Unknown
      /\ stage' = "answered" /\ call' = call /\ UNCHANGED vars
      /\ answer' = IF Succeeded THEN Convert(result) ELSE MapScanError(result)
      /\ call \in CallsFor(request) /\ request \in Requests
  BY DEF Respond, Finish, CallInv, Inv, TypeInv
<1>2. /\ request' = request /\ result' = result /\ found' = found /\ paths' = paths
      /\ history' = history /\ inputs' = inputs /\ options' = options
  BY <1>1 DEF vars, disk, inputs, options
<1>3. (BadOptions' <=> BadOptions) /\ (BadTokenizer' <=> BadTokenizer) /\ (FailingFile' <=> FailingFile)
      /\ (BadInputs' <=> BadInputs)
  BY <1>1, <1>2 DEF BadOptions, BadTokenizer, FailingFile, BadInputs
<1>4. /\ call.paths # "neither" /\ ~BadTokenizer
      /\ BadOptions => inputs # <<>> /\ ~FiltersCompile(options)
  BY <1>1, ChecksPass DEF CallInv
<1>5. CASE Succeeded /\ FiltersCompile(options)
  <2>1. answer' = Convert(result)
    BY <1>1, <1>5
  <2>2. ~Raised'
    BY <2>1 DEF Raised, Convert
  <2>3. DefectsTyped'
    BY <1>1, <1>3, <1>4, <1>5, <2>2 DEF DefectsTyped
  <2> QED
    BY <1>1, <1>2, <2>3 DEF CallInv
<1>6. CASE ~Succeeded
  <2>1. answer' = MapScanError(result)
    BY <1>1, <1>6
  <2>2. PICK exception : answer' = Raise(exception)
        /\ \/ exception = "InputError" /\ BadInputs /\ ~BadOptions
           \/ exception = "ConfigurationError" /\ BadOptions
           \/ exception = "TokenizerError" /\ FailingFile /\ ~BadOptions
    <3>1. CASE result = Overflow /\ FiltersCompile(options)
      BY <1>1, <1>4, <2>1, <3>1, ErrorsMapped DEF BadInputs
    <3>2. CASE result = Error("no inputs", <<>>) /\ inputs = <<>>
      BY <1>1, <1>4, <2>1, <3>2, ErrorsMapped DEF BadInputs
    <3>3. CASE result = Error("glob", <<>>) /\ inputs # <<>> /\ ~FiltersCompile(options)
      BY <1>1, <2>1, <3>3, ErrorsMapped DEF BadOptions
    <3>4. CASE /\ (\E path : result = Error("input", path)) /\ FiltersCompile(options)
               /\ \E i \in DOMAIN inputs, j \in DOMAIN history :
                    IsMissing(history[j], options, Clean(inputs[i]))
      BY <1>1, <1>4, <2>1, <3>4, ErrorsMapped DEF BadInputs
    <3>5. CASE (\E path : result = Error("count", path)) /\ FiltersCompile(options) /\ FailingFile
      BY <1>1, <1>4, <2>1, <3>5, ErrorsMapped
    <3> QED
      BY <1>1, <1>6, <3>1, <3>2, <3>3, <3>4, <3>5, ResultIs
  <2>3. answer'.raised = exception /\ Raised'
    BY <1>1, <2>2 DEF Raised, Raise
  <2>4. ASSUME BadOptions  PROVE found = <<>> /\ paths = Pending
    <3>1. inputs # <<>> /\ ~FiltersCompile(options)
      BY <1>4, <2>4
    <3>2. next = 1
      BY <3>1, InputsAreSequences DEF Inv, TypeInv
    <3>3. paths = Pending
      <4>1. PICK at \in [1 .. next - 1 -> DOMAIN history] : Counted(at)
        BY DEF Inv
      <4> QED
        BY <3>1, <3>2, <4>1, InputsAreSequences DEF Inv, Counted
    <3> QED
      BY <3>2, <3>3 DEF ErrorInv
  <2>5. DefectsTyped'
    BY <1>1, <1>2, <1>3, <1>4, <2>2, <2>3, <2>4 DEF DefectsTyped
  <2> QED
    BY <1>1, <1>2, <2>5 DEF CallInv
<1>7. Succeeded => FiltersCompile(options)
  BY <1>1, ResultIs, NotSucceeded
<1> QED
  BY <1>5, <1>6, <1>7

LEMMA CountFileInv ==
  ASSUME Inv, CallInv, CountFile
  PROVE  CallInv'
<1> DEFINE outcome == OutcomeOf(tree, [options EXCEPT !.follow = FALSE], inputs[1])
<1>1. /\ stage = "engine" /\ call.function = "count_file"
      /\ stage' = "answered" /\ call' = call /\ UNCHANGED vars
      /\ answer' = IF HasFailed(outcome) THEN Raise("TokenizerError") ELSE FileAnswer(outcome)
      /\ call \in CallsFor(request) /\ request \in Requests
  BY DEF CountFile, Finish, CallInv, Inv, TypeInv
<1>2. /\ request' = request /\ result' = result /\ found' = found /\ paths' = paths
      /\ history' = history /\ inputs' = inputs /\ options' = options
  BY <1>1 DEF vars, disk, inputs, options
<1>3. (BadOptions' <=> BadOptions) /\ (BadTokenizer' <=> BadTokenizer) /\ (FailingFile' <=> FailingFile)
  BY <1>1, <1>2 DEF BadOptions, BadTokenizer, FailingFile
<1>4. call.paths # "neither" /\ ~BadTokenizer /\ ~BadOptions
  BY <1>1, ChecksPass DEF CallInv
<1>5. ASSUME Raised'  PROVE answer'.raised = "TokenizerError" /\ FailingFile
  <2>1. ~("raised" \in DOMAIN FileAnswer(outcome))
    <3> HIDE DEF outcome
    <3> QED
      BY DEF FileAnswer
  <2>2. HasFailed(outcome) /\ answer' = Raise("TokenizerError")
    <3> HIDE DEF outcome
    <3> QED
      BY <1>1, <1>5, <2>1 DEF Raised
  <2>3. PICK k \in DOMAIN history : tree = history[k] /\ history[k] \in [Nodes -> Kinds]
    BY HistoryIs DEF Inv
  <2>4. FailingFile
    BY <2>2, <2>3, FailedRead
  <2> QED
    BY <2>2, <2>4 DEF Raise
<1>6. DefectsTyped'
  <2> HIDE DEF outcome
  <2> QED
    BY <1>1, <1>3, <1>4, <1>5 DEF DefectsTyped
<1> QED
  BY <1>1, <1>2, <1>6 DEF CallInv

LEMMA CallStays ==
  ASSUME Inv, CallInv, [BindingsNext]_<<callVars, vars>>, ~Prepare, ~Respond, ~CountFile
  PROVE  CallInv'
<1>1. CASE Run
  <2>1. stage = "engine" /\ stage' = stage /\ call' = call /\ Next
    BY <1>1 DEF Run, callVars
  <2>2. request' = request
    BY <2>1 DEF Next, Reject, Discover, MissingInput, StartPool, Read, Deliver, Fail, Conclude, Change,
                Finished, vars
  <2>3. FirstFailing' = FirstFailing
    BY <2>1, ChecksStay
  <2> QED
    BY <2>1, <2>2, <2>3 DEF CallInv, DefectsTyped, Raised
<1>2. CASE UNCHANGED <<callVars, vars>>
  <2>1. /\ call' = call /\ stage' = stage /\ answer' = answer
        /\ request' = request /\ result' = result /\ found' = found /\ paths' = paths
        /\ history' = history
    BY <1>2 DEF callVars, vars, disk
  <2>2. inputs' = inputs /\ options' = options
    BY <2>1 DEF inputs, options
  <2>3. /\ (BadOptions' <=> BadOptions) /\ (BadTokenizer' <=> BadTokenizer)
        /\ (FailingFile' <=> FailingFile) /\ (BadInputs' <=> BadInputs) /\ (Raised' <=> Raised)
    BY <2>1, <2>2 DEF BadOptions, BadTokenizer, FailingFile, BadInputs, Raised
  <2>4. FirstFailing' = FirstFailing
    BY <2>1, ChecksStay
  <2>5. DefectsTyped
    BY DEF CallInv
  <2>6. DefectsTyped'
    BY <2>1, <2>3, <2>5 DEF DefectsTyped
  <2> QED
    BY <2>1, <2>4, <2>6 DEF CallInv
<1> QED
  BY <1>1, <1>2 DEF BindingsNext, Answered

\* An exception accuses what is at fault, and a call with faulty options or without its
\* tokenizer gets an exception before it looks at any file, whatever its inputs are and
\* whatever happens to them meanwhile (map_scan_error, scan_options, count_options).
THEOREM ExceptionsAccuse == BindingsSpec => []DefectsTyped
<1>1. Init => ResultInv
  BY DEF Init, ResultInv
<1>2. Inv /\ ResultInv /\ [Next]_vars => ResultInv'
  BY NextResultInv
<1>3. Init => ErrorInv
  BY DEF Init, ErrorInv
<1>4. Inv /\ ErrorInv /\ [Next]_vars => ErrorInv'
  BY NextErrorInv
<1>5. BindingsInit => CallInv
  BY DEF BindingsInit, Init, CallInv, DefectsTyped, Raised
<1>6. Inv /\ ResultInv /\ ErrorInv /\ CallInv /\ [BindingsNext]_<<callVars, vars>> => CallInv'
  BY PrepareInv, RespondInv, CountFileInv, CallStays
<1>7. CallInv => DefectsTyped
  BY DEF CallInv
<1> QED
  BY <1>1, <1>2, <1>3, <1>4, <1>5, <1>6, <1>7, SpecInv, CallIsScan, PTL DEF Spec, BindingsSpec

(* What the call answers *)

\* What Python gets of a report accounts for all of it.
LEMMA WholeAnswer ==
  ASSUME NEW n, NEW files, AreFiles(files, n), Fits(files, 1 .. n),
         NEW d \in Nat, NEW details, DOMAIN details = 1 .. d, Len(details) = d,
         \A i \in 1 .. d : details[i].path \in Seq(Int) /\ details[i].reason \in Int,
         NEW value, value = Convert(Aggregate(files, details))
  PROVE  IsWhole(value)
<1>0. n \in Nat
  BY DEF AreFiles
<1>1. PICK tokens, bytes : tokens = TokensIn(files) /\ bytes = BytesIn(files)
  OBVIOUS
<1>2. PICK report : report = Aggregate(files, details)
  OBVIOUS
<1>3. report = [totals    |-> [files |-> n, tokens |-> SumOver(tokens, 1 .. n), bytes |-> SumOver(bytes, 1 .. n)],
                languages |-> LanguageList(files),
                files     |-> Sorted(files, ByPath),
                skipped   |-> SkippedSummary(details)]
  <2>1. Cardinality(1 .. n) = n
    BY <1>0, UptoIsFinite
  <2>2. TotalsOf(files) = [files |-> n, tokens |-> SumOver(tokens, 1 .. n), bytes |-> SumOver(bytes, 1 .. n)]
    BY <1>1, <2>1, TotalsOfIs DEF TotalsOver
  <2>3. PICK totals : totals = TotalsOf(files)
    OBVIOUS
  <2>4. totals # Overflow
    <3>1. "files" \in DOMAIN totals
      BY <2>2, <2>3
    <3>2. "files" \notin DOMAIN Overflow
      BY DEF Overflow
    <3> QED
      BY <3>1, <3>2
  <2> QED
    BY <1>2, <2>2, <2>3, <2>4 DEF Aggregate
<1>4. PICK L : L = LanguagesOf(files, n)
  OBVIOUS
<1>5. IsFiniteSet(L) /\ ToSet(report.languages) = {Entry(files, n, language) : language \in L}
  <2>1. IsFiniteSet(L) /\ ToSet(LanguageList(files)) = {Entry(files, n, language) : language \in L}
    BY <1>4, LanguagesAre
  <2>2. report.languages = LanguageList(files)
    BY <1>3
  <2> QED
    BY <2>1, <2>2
<1>6. \A language : Entry(files, n, language).name = language
  BY DEF Entry
<1>7. PICK entries : entries = [name \in L |-> Entry(files, n, name)]
  OBVIOUS
<1>8. /\ value.totals = report.totals /\ value.files = report.files
      /\ value.languages = entries /\ value.skipped.total = report.skipped.total
      /\ value.skipped.details = report.skipped.details
  <2>1. PICK E : E = ToSet(report.languages)
    OBVIOUS
  <2>2. {entry.name : entry \in E} = L
    <3>1. ASSUME NEW name \in L  PROVE name \in {entry.name : entry \in E}
      <4>1. Entry(files, n, name) \in E
        BY <1>5, <2>1
      <4> QED
        BY <4>1, <1>6
    <3>2. ASSUME NEW entry \in E  PROVE entry.name \in L
      BY <1>5, <1>6, <2>1
    <3> QED
      BY <3>1, <3>2
  <2>3. ASSUME NEW name \in L
        PROVE  (CHOOSE entry \in E : entry.name = name) = Entry(files, n, name)
    <3>1. Entry(files, n, name) \in E /\ Entry(files, n, name).name = name
      BY <1>5, <1>6, <2>1
    <3>2. \A entry \in E : entry.name = name => entry = Entry(files, n, name)
      BY <1>5, <1>6, <2>1
    <3> QED
      BY <3>1, <3>2
  <2>4. [name \in {entry.name : entry \in E} |-> CHOOSE entry \in E : entry.name = name] = entries
    BY <2>2, <2>3, <1>7
  <2>5. value.languages = [name \in {entry.name : entry \in E} |-> CHOOSE entry \in E : entry.name = name]
    BY <1>2, <2>1 DEF Convert
  <2>6. value.languages = entries
    BY <2>4, <2>5
  <2>7. value.totals = report.totals /\ value.files = report.files
    BY <1>2 DEF Convert
  <2>8. value.skipped = ConvertSkipped(report.skipped)
    BY <1>2 DEF Convert
  <2>9. value.skipped.total = report.skipped.total /\ value.skipped.details = report.skipped.details
    BY <2>8 DEF ConvertSkipped
  <2> QED
    BY <2>6, <2>7, <2>9
<1>10. PICK all \in SUBSET (1 .. n) : all = 1 .. n
  OBVIOUS
<1>11. Sum(SetToSeq(L), LAMBDA name : entries[name].files) = n
  <2>1. PICK ones : ones = [i \in 1 .. n |-> 1]
    OBVIOUS
  <2>2. PICK v : v = [name \in L |-> entries[name].files]
    OBVIOUS
  <2>3. ASSUME NEW S \in SUBSET (1 .. n)  PROVE SumOver(ones, S) = Cardinality(S) /\ IsFiniteSet(S)
    <3>1. IsFiniteSet(S) /\ \A i \in S : ones[i] = 1
      BY <1>0, <2>1, UptoIsFinite, FS_Subset
    <3> QED
      BY <3>1, SumOfOnes
  <2>4. Weighs(ones, 1 .. n) /\ SumOver(ones, 1 .. n) = n
    <3>1. SumOver(ones, all) = Cardinality(all) /\ IsFiniteSet(all)
      BY <2>3
    <3>2. \A i \in 1 .. n : ones[i] \in Int
      BY <2>1
    <3> QED
      BY <1>0, <1>10, <3>1, <3>2, UptoIsFinite DEF Weighs
  <2>5. ASSUME NEW language \in L  PROVE v[language] = SumOver(ones, OfLanguage(files, n, language))
    <3>1. PICK S \in SUBSET (1 .. n) : S = OfLanguage(files, n, language)
      BY DEF OfLanguage
    <3>2. v[language] = Cardinality(S)
      BY <1>7, <2>2, <3>1 DEF Entry
    <3> QED
      BY <2>3, <3>1, <3>2
  <2>6. Sum(SetToSeq(L), LAMBDA name : v[name]) = n
    <3>1. Gathers(v, ones, files, n)
      BY <1>4, <2>5 DEF Gathers
    <3>2. Total([i \in DOMAIN SetToSeq(L) |-> v[SetToSeq(L)[i]]]) = SumOver(ones, 1 .. n)
      <4>1. Weighs(ones, 1 .. n) /\ IsFiniteSet(L)
        BY <2>4, <1>5
      <4> QED
        BY <4>1, <3>1, <1>4, LanguagesTotal
    <3>3. Total([i \in DOMAIN SetToSeq(L) |-> v[SetToSeq(L)[i]]]) = n
      BY <3>2, <2>4
    <3> QED
      BY <3>3 DEF Sum
  <2>7. PICK list : list = SetToSeq(L) /\ \A i \in DOMAIN list : list[i] \in L
    BY <1>5, SetToSeqLists
  <2> QED
    BY <2>2, <2>6, <2>7 DEF Sum
<1>12. Sum(SetToSeq(L), LAMBDA name : entries[name].tokens) = SumOver(tokens, 1 .. n)
  <2>1. PICK v : v = [name \in L |-> entries[name].tokens]
    OBVIOUS
  <2>2. Weighs(tokens, 1 .. n)
    BY <1>1, <1>10, SumsAreNatural
  <2>3. Gathers(v, tokens, files, n)
    BY <1>1, <1>4, <1>7, <2>1 DEF Entry, Gathers
  <2>4. Sum(SetToSeq(L), LAMBDA name : v[name]) = SumOver(tokens, 1 .. n)
    <3>1. Total([i \in DOMAIN SetToSeq(L) |-> v[SetToSeq(L)[i]]]) = SumOver(tokens, 1 .. n)
      BY <1>4, <1>5, <2>2, <2>3, LanguagesTotal
    <3> QED
      BY <3>1 DEF Sum
  <2>5. PICK list : list = SetToSeq(L) /\ \A i \in DOMAIN list : list[i] \in L
    BY <1>5, SetToSeqLists
  <2> QED
    BY <2>1, <2>4, <2>5 DEF Sum
<1>13. Sum(SetToSeq(L), LAMBDA name : entries[name].bytes) = SumOver(bytes, 1 .. n)
  <2>1. PICK v : v = [name \in L |-> entries[name].bytes]
    OBVIOUS
  <2>2. Weighs(bytes, 1 .. n)
    BY <1>1, <1>10, SumsAreNatural
  <2>3. Gathers(v, bytes, files, n)
    BY <1>1, <1>4, <1>7, <2>1 DEF Entry, Gathers
  <2>4. Sum(SetToSeq(L), LAMBDA name : v[name]) = SumOver(bytes, 1 .. n)
    <3>1. Total([i \in DOMAIN SetToSeq(L) |-> v[SetToSeq(L)[i]]]) = SumOver(bytes, 1 .. n)
      BY <1>4, <1>5, <2>2, <2>3, LanguagesTotal
    <3> QED
      BY <3>1 DEF Sum
  <2>5. PICK list : list = SetToSeq(L) /\ \A i \in DOMAIN list : list[i] \in L
    BY <1>5, SetToSeqLists
  <2> QED
    BY <2>1, <2>4, <2>5 DEF Sum
<1>14. /\ report.totals.files = n /\ report.totals.tokens = SumOver(tokens, 1 .. n)
       /\ report.totals.bytes = SumOver(bytes, 1 .. n)
  BY <1>3
<1>15. \A name \in L : entries[name].tokens
         = Sum(Filtered(report.files, LAMBDA file : file.language = name), LAMBDA file : file.tokens)
  <2> SUFFICES ASSUME NEW name \in L
               PROVE  entries[name].tokens
                = Sum(Filtered(report.files, LAMBDA file : file.language = name), LAMBDA file : file.tokens)
    OBVIOUS
  <2>1. PICK list : list = Sorted(files, ByPath)
    OBVIOUS
  <2>2. entries[name].tokens = SumOver(TokensIn(files), OfLanguage(files, n, name))
    BY <1>7 DEF Entry
  <2>3. Sum(Filtered(list, LAMBDA file : file.language = name), LAMBDA file : file.tokens)
          = SumOver(TokensIn(files), OfLanguage(files, n, name))
    BY <2>1, TokensOfLanguage
  <2>4. report.files = list
    BY <1>3, <2>1
  <2> QED
    BY <2>2, <2>3, <2>4
<1>16. report.skipped.total = d /\ Len(report.skipped.details) = d
  <2>1. PICK list : list = SkippedSummary(details).details
    OBVIOUS
  <2>2. DOMAIN list = 1 .. d
    BY <2>1, DetailsSorted
  <2>3. Len(list) = d
    <3>1. SkippedSummary(details).details = list
      BY <2>1
    <3> QED
      BY <2>2, <3>1
  <2>4. report.skipped = SkippedSummary(details) /\ SkippedSummary(details).total = Len(details)
    BY <1>3 DEF SkippedSummary
  <2> QED
    BY <2>1, <2>3, <2>4
<1>17. DOMAIN value.languages = L
  BY <1>7, <1>8
<1>18. \A field \in {"files", "tokens", "bytes"} :
         Sum(SetToSeq(L), LAMBDA name : value.languages[name][field]) = value.totals[field]
  <2> SUFFICES ASSUME NEW field \in {"files", "tokens", "bytes"}
               PROVE  Sum(SetToSeq(L), LAMBDA name : value.languages[name][field]) = value.totals[field]
    OBVIOUS
  <2>0. value.languages = entries /\ value.totals = report.totals
    BY <1>8
  <2>1. CASE field = "files"
    BY <1>11, <1>14, <2>1, <2>0
  <2>2. CASE field = "tokens"
    BY <1>12, <1>14, <2>2, <2>0
  <2>3. CASE field = "bytes"
    BY <1>13, <1>14, <2>3, <2>0
  <2> QED
    BY <2>1, <2>2, <2>3
<1>19. \A name \in L : value.languages[name].tokens
         = Sum(Filtered(value.files, LAMBDA file : file.language = name), LAMBDA file : file.tokens)
  BY <1>8, <1>15
<1> QED
  BY <1>8, <1>16, <1>17, <1>18, <1>19 DEF IsWhole

\* A path and the clean one lead to the same place.
LEMMA IdentityOfClean ==
  ASSUME NEW path \in Seq(Int), path # <<>>, \A k \in 2 .. Len(path) : path[k] # Root
  PROVE  Identity(Clean(path)) = Identity(path)
<1>1. PICK input \in Seq(Int) : input = Clean(path) /\ input # <<>>
  BY CleanIs
<1>2. input = IF Folded(path) = <<>> THEN <<Here>> ELSE Folded(path)
  BY <1>1, CleanIs
<1>3. CASE IsAbsolute(path)
  <2>1. path[1] = Root
    BY <1>3 DEF IsAbsolute
  <2>2. IsAbsolute(input)
    BY <1>2, <2>1, FoldedRoot DEF IsAbsolute
  <2>3. Identity(path) = input /\ Identity(input) = Clean(input)
    BY <1>1, <1>3, <2>2 DEF Identity, Join
  <2> QED
    BY <1>1, <2>3, CleanTwice
<1>4. CASE ~IsAbsolute(path)
  <2>1. Root \notin ToSet(path)
    BY <1>4 DEF IsAbsolute, ToSet
  <2>2. ~IsAbsolute(input)
    <3>1. input[1] \in ToSet(input)
      BY <1>1 DEF ToSet
    <3>2. ToSet(input) \subseteq ToSet(path) \cup {Here}
      BY <1>1, CleanComponents
    <3>3. Root # Here
      BY DEF Root, Here
    <3> QED
      BY <2>1, <3>1, <3>2, <3>3 DEF IsAbsolute
  <2>3. Identity(path) = Clean(Cwd \o path) /\ Identity(input) = Clean(Cwd \o input)
    BY <1>4, <2>2 DEF Identity, Join
  <2>4. Folded(Cwd \o path) = Folded(Cwd \o Folded(path))
    BY <2>1, FileSystemAssumption, FoldedTail
  <2>5. Folded(Cwd \o input) = Folded(Cwd \o Folded(path))
    <3>1. CASE Folded(path) = <<>>
      <4>1. Cwd \in Seq(Int) /\ Here \in Int
        BY FileSystemAssumption DEF Here
      <4>2. Cwd \o <<Here>> = Append(Cwd, Here) /\ Cwd \o <<>> = Cwd
        BY <4>1
      <4>3. Folded(Append(Cwd, Here)) = Push(Folded(Cwd), Here)
        BY <4>1, FoldedAppend
      <4>4. Push(Folded(Cwd), Here) = Folded(Cwd)
        BY DEF Push, Here, Up
      <4> QED
        BY <1>2, <3>1, <4>2, <4>3, <4>4
    <3> QED
      BY <1>2, <3>1
  <2> QED
    BY <1>1, <2>3, <2>4, <2>5 DEF Clean, Folded
<1> QED
  BY <1>3, <1>4

\* What counting comes to depends on where a path leads and on its last name.
SameBut(outcome, path, other, from) ==
  \/ outcome = Failed(path) /\ other = Failed(from)
  \/ \E reason \in Reasons : outcome = Skipped(path, reason) /\ other = Skipped(from, reason)
  \/ \E kind \in Texts : outcome = Measured(path, kind) /\ other = Measured(from, kind)

IsOfKind(outcome, path, kind, opts) ==
  LET isLink == kind \in {"link", "dangling", "loop"}
  IN  /\ kind = "absent" => outcome = Skipped(path, Unreadable)
      /\ isLink /\ ~opts.follow => outcome = Skipped(path, Symlink)
      /\ kind = "dangling" /\ opts.follow => outcome = Skipped(path, Unreadable)
      /\ kind = "loop" /\ opts.follow => outcome = Skipped(path, Unsupported)
      /\ kind \in {"dir", "locked", "other"} => outcome = Skipped(path, Unsupported)
      /\ kind = "oversized" => outcome = Skipped(path, Oversized)
      /\ kind = "binary" => outcome = Skipped(path, Binary)
      /\ kind = "failing" => outcome = Failed(path)
      /\ kind \in Texts /\ (isLink => opts.follow) => outcome = Measured(path, kind)

\* OutcomeOf, kind by kind.
LEMMA OutcomeByKind ==
  ASSUME NEW t, NEW opts, NEW path, NEW kind, kind = KindOf(t, Identity(path))
  PROVE  IsOfKind(OutcomeOf(t, opts, path), path, kind, opts)
<1>1. Texts \cap NotMeasured = {}
  BY FileSystemAssumption
<1> QED
  BY <1>1 DEF IsOfKind, OutcomeOf, NotMeasured

LEMMA SameFile ==
  ASSUME NEW t \in [Nodes -> Kinds], NEW opts, NEW path, NEW from,
         Identity(path) = Identity(from), Last(path) = Last(from)
  PROVE  SameBut(OutcomeOf(t, opts, path), path, OutcomeOf(t, opts, from), from)
<1>1. PICK kind : kind = KindOf(t, Identity(path)) /\ kind = KindOf(t, Identity(from))
  OBVIOUS
<1>2. kind \in Kinds
  BY <1>1 DEF KindOf, Kinds, NotMeasured
<1> DEFINE isLink == kind \in {"link", "dangling", "loop"}
           reasons == {Unreadable, Symlink, Unsupported, Oversized, Binary}
<1>3. \/ kind = "absent" \/ (isLink /\ ~opts.follow) \/ (kind = "dangling" /\ opts.follow)
      \/ (kind = "loop" /\ opts.follow) \/ kind \in {"dir", "locked", "other"} \/ kind = "oversized"
      \/ kind = "binary" \/ kind = "failing" \/ (kind \in Texts /\ (isLink => opts.follow))
  BY <1>2, FileSystemAssumption DEF Kinds, NotMeasured
<1>4. \A reason \in reasons : reason \in Reasons
  BY DEF Unreadable, Symlink, Unsupported, Oversized, Binary, Reasons
<1>5. PICK outcome : outcome = OutcomeOf(t, opts, path)
  OBVIOUS
<1>6. PICK other : other = OutcomeOf(t, opts, from)
  OBVIOUS
<1>7. \/ outcome = Failed(path) /\ other = Failed(from)
      \/ \E reason \in reasons : outcome = Skipped(path, reason) /\ other = Skipped(from, reason)
      \/ kind \in Texts /\ outcome = Measured(path, kind) /\ other = Measured(from, kind)
  <2>1. IsOfKind(outcome, path, kind, opts) /\ IsOfKind(other, from, kind, opts)
    BY <1>1, <1>5, <1>6, OutcomeByKind
  <2> QED
    BY <1>3, <2>1 DEF IsOfKind
<1>8. SameBut(outcome, path, other, from)
  <2>1. CASE outcome = Failed(path) /\ other = Failed(from)
    BY <2>1 DEF SameBut
  <2>2. CASE \E reason \in reasons : outcome = Skipped(path, reason) /\ other = Skipped(from, reason)
    <3>1. PICK reason \in Reasons : outcome = Skipped(path, reason) /\ other = Skipped(from, reason)
      BY <1>4, <2>2
    <3> QED
      BY <3>1 DEF SameBut
  <2>3. CASE kind \in Texts /\ outcome = Measured(path, kind) /\ other = Measured(from, kind)
    BY <2>3 DEF SameBut
  <2> QED
    BY <1>7, <2>1, <2>2, <2>3
<1> QED
  BY <1>5, <1>6, <1>8

\* Of one outcome everything is selected or nothing.
LEMMA OnePicked ==
  ASSUME NEW outcome, NEW seq, seq = <<outcome>>, NEW S, S = {1} \/ S = {}, NEW part, Picks(part, seq, S)
  PROVE  /\ S = {1} => DOMAIN part = 1 .. 1 /\ part = [k \in 1 .. 1 |-> part[k]] /\ part[1] = outcome
                        /\ ToSet(part) = {outcome}
         /\ S = {} => DOMAIN part = 1 .. 0 /\ part = [k \in 1 .. 0 |-> part[k]] /\ ToSet(part) = {}
<1>1. PICK list : Chosen(list, S) /\ part = [k \in 1 .. Cardinality(S) |-> seq[list[k]]]
  BY DEF Picks
<1>2. CASE S = {1}
  <2>1. Cardinality(S) = 1
    BY <1>2, FS_Singleton
  <2>2. 1 \in 1 .. 1 /\ list[1] = 1
    BY <1>1, <1>2, <2>1 DEF Chosen
  <2>3. DOMAIN part = 1 .. 1 /\ part[1] = outcome
    BY <1>1, <2>1, <2>2
  <2>4. part = [k \in 1 .. 1 |-> part[k]]
    BY <1>1, <2>1
  <2>5. ToSet(part) = {outcome}
    BY <2>3 DEF ToSet
  <2> QED
    BY <1>2, <2>3, <2>4, <2>5
<1>3. CASE S = {}
  <2>1. Cardinality(S) = 0
    BY <1>3, FS_EmptySet
  <2>2. DOMAIN part = 1 .. 0 /\ part = [k \in 1 .. 0 |-> part[k]]
    BY <1>1, <2>1
  <2>3. ToSet(part) = {}
    BY <2>2 DEF ToSet
  <2> QED
    BY <1>3, <2>2, <2>3
<1> QED
  BY <1>2, <1>3

\* The report of one outcome has it, as a file or as a skip.
LEMMA OneReported ==
  ASSUME NEW outcome, NEW seq, seq = <<outcome>>, outcome.path \in Seq(Int),
         NEW report,
         report = Aggregate(Filtered(seq, IsMeasured), <<>> \o Filtered(seq, IsSkipped)),
         \/ /\ IsMeasured(outcome) /\ ~IsSkipped(outcome) /\ outcome.language \in Int
            /\ outcome.tokens \in 0 .. MaxCount /\ outcome.bytes \in 0 .. MaxCount
         \/ IsSkipped(outcome) /\ ~IsMeasured(outcome) /\ outcome.reason \in Int
  PROVE  /\ ToSet(report.files) = {o \in {outcome} : IsMeasured(o)}
         /\ ToSet(report.skipped.details) = {o \in {outcome} : IsSkipped(o)}
<1>1. DOMAIN seq = 1 .. 1 /\ seq[1] = outcome
  OBVIOUS
<1>2. PICK M : M = {i \in 1 .. 1 : IsMeasured(seq[i])}
  OBVIOUS
<1>3. PICK K : K = {i \in 1 .. 1 : IsSkipped(seq[i])}
  OBVIOUS
<1>4. PICK files : files = Filtered(seq, IsMeasured)
  OBVIOUS
<1>5. PICK skips : skips = Filtered(seq, IsSkipped)
  OBVIOUS
<1>6. Picks(files, seq, M) /\ Picks(skips, seq, K)
  BY <1>1, <1>2, <1>3, <1>4, <1>5, OutcomesChosen
<1>7. PICK details : details = <<>> \o skips
  OBVIOUS
<1>8. report = Aggregate(files, details)
  BY <1>4, <1>5, <1>7
<1>9. \A i \in 1 .. 1 : i = 1
  OBVIOUS
<1>10. ASSUME NEW m \in {0, 1}, DOMAIN skips = 1 .. m, skips = [k \in 1 .. m |-> skips[k]],
              \A i \in 1 .. m : skips[i] = outcome /\ outcome.reason \in Int
       PROVE  ToSet(SkippedSummary(details).details) = ToSet(skips)
  <2>1. <<>> \in Seq({}) /\ Len(<<>>) = 0 /\ ToSet(<<>>) = {} /\ m \in Nat
    BY DEF ToSet
  <2>2. PICK d \in Nat : d = m /\ DOMAIN details = 1 .. d
    BY <1>7, <1>10, <2>1, ConcatSet
  <2>3. ToSet(details) = ToSet(skips)
    BY <1>7, <1>10, <2>1, ConcatSet
  <2>4. \A i \in 1 .. d : details[i].path \in Seq(Int) /\ details[i].reason \in Int
    <3>1. \A i \in 1 .. d : details[i] \in ToSet(details)
      BY <2>2 DEF ToSet
    <3>2. \A skip \in ToSet(skips) : skip.path \in Seq(Int) /\ skip.reason \in Int
      BY <1>10 DEF ToSet
    <3> QED
      BY <3>1, <3>2, <2>3
  <2> QED
    BY <2>2, <2>3, <2>4, DetailsSorted
<1>11. ASSUME NEW m \in Nat, AreFiles(files, m), Fits(files, 1 .. m)
       PROVE  ToSet(report.files) = ToSet(files) /\ report.skipped = SkippedSummary(details)
  <2>1. DOMAIN files = 1 .. m /\ \A i \in 1 .. m : files[i].path \in Seq(Int)
    BY <1>11 DEF AreFiles
  <2>2. AddsFilesUp(report, files, m) /\ report.skipped = SkippedSummary(details)
    BY <1>8, <1>11, AggregateIs
  <2>3. report.files = Sorted(files, ByPath)
    BY <2>2 DEF AddsFilesUp
  <2> QED
    BY <2>1, <2>2, <2>3, SortedByPath
<1>12. CASE /\ IsMeasured(outcome) /\ ~IsSkipped(outcome) /\ outcome.language \in Int
            /\ outcome.tokens \in 0 .. MaxCount /\ outcome.bytes \in 0 .. MaxCount
  <2>1. M = {1} /\ K = {}
    BY <1>1, <1>2, <1>3, <1>12
  <2>2. DOMAIN files = 1 .. 1 /\ files[1] = outcome /\ ToSet(files) = {outcome}
    BY <1>6, <2>1, OnePicked
  <2>3. DOMAIN skips = 1 .. 0 /\ skips = [k \in 1 .. 0 |-> skips[k]] /\ ToSet(skips) = {}
    BY <1>6, <2>1, OnePicked
  <2>4. outcome.tokens \in Nat /\ outcome.bytes \in Nat
        /\ outcome.tokens =< MaxCount /\ outcome.bytes =< MaxCount /\ 1 =< MaxCount
    BY <1>12, AggregationAssumption
  <2>5. AreFiles(files, 1)
    BY <1>9, <1>12, <2>2, <2>4 DEF AreFiles
  <2>6. Fits(files, 1 .. 1)
    <3>1. TokensIn(files)[1] = outcome.tokens /\ BytesIn(files)[1] = outcome.bytes
      BY <2>2 DEF TokensIn, BytesIn
    <3>2. PICK all \in SUBSET (1 .. 1) : all = 1 .. 1 /\ all = {1}
      <4>1. 1 .. 1 = {1}
        BY <1>9
      <4> QED
        BY <4>1
    <3>3. Weighs(TokensIn(files), all) /\ Weighs(BytesIn(files), all)
      BY <2>5, SumsAreNatural
    <3>4. 1 \in all /\ all \ {1} = {}
      BY <3>2
    <3>5. SumOver(TokensIn(files), all) = TokensIn(files)[1] + SumOver(TokensIn(files), {})
      <4>1. SumOver(TokensIn(files), all) = TokensIn(files)[1] + SumOver(TokensIn(files), all \ {1})
        BY <3>3, <3>4, SumTake
      <4> QED
        BY <3>4, <4>1
    <3>6. SumOver(BytesIn(files), all) = BytesIn(files)[1] + SumOver(BytesIn(files), {})
      <4>1. SumOver(BytesIn(files), all) = BytesIn(files)[1] + SumOver(BytesIn(files), all \ {1})
        BY <3>3, <3>4, SumTake
      <4> QED
        BY <3>4, <4>1
    <3>7. SumOver(TokensIn(files), all) = outcome.tokens /\ SumOver(BytesIn(files), all) = outcome.bytes
      BY <3>1, <3>5, <3>6, <2>4, SumNone
    <3>8. Cardinality(all) = 1
      BY <3>2, FS_Singleton
    <3> QED
      BY <3>2, <3>7, <3>8, <2>4 DEF Fits
  <2>7. ToSet(report.files) = {outcome} /\ report.skipped = SkippedSummary(details)
    BY <1>11, <2>2, <2>5, <2>6
  <2>8. ToSet(report.skipped.details) = {}
    BY <1>10, <2>3, <2>7
  <2> QED
    BY <1>12, <2>7, <2>8
<1>13. CASE IsSkipped(outcome) /\ ~IsMeasured(outcome) /\ outcome.reason \in Int
  <2>1. M = {} /\ K = {1}
    BY <1>1, <1>2, <1>3, <1>9, <1>13
  <2>2. DOMAIN skips = 1 .. 1 /\ skips[1] = outcome /\ skips = [k \in 1 .. 1 |-> skips[k]]
        /\ ToSet(skips) = {outcome}
    BY <1>6, <2>1, OnePicked
  <2>3. DOMAIN files = 1 .. 0 /\ ToSet(files) = {}
    <3>1. (M = {1} \/ M = {}) /\ Picks(files, seq, M) /\ M = {}
      BY <1>6, <2>1
    <3> QED
      BY <3>1, OnePicked, ZenonT(30)
  <2>4. AreFiles(files, 0)
    BY <2>3 DEF AreFiles
  <2>5. Fits(files, 1 .. 0)
    <3>1. PICK none : none = 1 .. 0 /\ none = {}
      <4>1. 1 .. 0 = {}
        OBVIOUS
      <4> QED
        BY <4>1
    <3>2. Cardinality(none) = 0
      BY <3>1, FS_EmptySet
    <3>3. SumOver(TokensIn(files), none) = 0 /\ SumOver(BytesIn(files), none) = 0
      BY <3>1, SumNone
    <3> QED
      BY <3>1, <3>2, <3>3, AggregationAssumption DEF Fits
  <2>6. ToSet(report.files) = {} /\ report.skipped = SkippedSummary(details)
    BY <1>11, <2>3, <2>4, <2>5
  <2>7. ToSet(report.skipped.details) = {outcome}
    BY <1>9, <1>10, <1>13, <2>2, <2>6
  <2> QED
    BY <1>13, <2>6, <2>7
<1> QED
  BY <1>12, <1>13

\* What a scan of one path to a file comes to.
LEMMA ScanOfOne ==
  ASSUME NEW path \in Seq(Int), path # <<>>, \A k \in 2 .. Len(path) : path[k] # Root,
         inputs = <<path>>, options.includes = {}, options.excludes = {},
         tree = history[1], ~IsDirectory(tree, Identity(path)),
         NEW outcome, outcome = OutcomeOf(tree, options, Clean(path)), ~HasFailed(outcome),
         NEW seq, seq = <<outcome>>
  PROVE  ScanAlone = Aggregate(Filtered(seq, IsMeasured), <<>> \o Filtered(seq, IsSkipped))
<1>1. PICK input \in Seq(Int) : input = Clean(path) /\ Clean(input) = input
  BY CleanIs, CleanTwice
<1>2. PICK root \in Seq(Int) : root = Identity(path) /\ Identity(input) = root /\ root # <<>>
  BY <1>1, IdentityOfClean, IdentityType
<1>3. PICK at : at = <<1>>
  OBVIOUS
<1>4. PICK when : when = [node \in {Identity(inputs[1])} |-> 1]
  OBVIOUS
<1>5. /\ DOMAIN Sequential!inputs = {1} /\ Sequential!inputs[1] = path
      /\ Sequential!options = options /\ inputs[1] = path
  BY DEF Sequential!inputs, inputs, Sequential!options, options
<1>6. Sequential!Files(at, 1) = {root}
  <2>1. \A shown : Admits(options, shown, Cwd)
    BY DEF Admits, AdmitsRelative
  <2>2. FilesOf(tree, options, path) = {root}
    BY <1>1, <1>2, <2>1 DEF FilesOf
  <2> QED
    BY <1>3, <1>5, <2>2, SequentialSets
<1>7. Sequential!Unread(at, 1) = {}
  <2>1. UnreadOf(tree, options, path) = {}
    BY <1>1, <1>2 DEF UnreadOf
  <2> QED
    BY <1>3, <1>5, <2>1, SequentialSets
<1>8. Sequential!AllFiles(at) = {root}
  BY <1>5, <1>6 DEF Sequential!AllFiles
<1>9. PICK identities : /\ identities = Sequential!InOrder(Sequential!AllFiles(at))
                        /\ DOMAIN identities = 1 .. 1 /\ identities[1] = root
  <2>1. PICK S : S = {root}
    OBVIOUS
  <2>2. S \in SUBSET Seq(Int) /\ IsFiniteSet(S) /\ Cardinality(S) = 1
    BY <2>1, FS_Singleton
  <2>3. InOrder(S) \in [1 .. 1 -> S]
    BY <2>2, InOrderLists
  <2>4. DOMAIN InOrder(S) = 1 .. 1 /\ InOrder(S)[1] \in S
    BY <2>3
  <2> QED
    BY <1>8, <2>1, <2>4, SameOrder
<1>10. Sequential!PathOf(at, root) = input
  <2>1. Sequential!Min({i \in DOMAIN Sequential!inputs : root \in Sequential!Files(at, i)}) = 1
    <3>1. PICK S : S = {i \in DOMAIN Sequential!inputs : root \in Sequential!Files(at, i)}
      OBVIOUS
    <3>2. S = {1}
      BY <1>5, <1>6, <3>1
    <3>3. S \in SUBSET Nat /\ 1 \in S /\ \A m \in S : 1 =< m
      BY <3>2
    <3> QED
      BY <3>1, <3>3, MinIs
  <2>2. Sequential!PathOf(at, root) = Shown(input, root)
    BY <1>1, <1>5, <2>1, SameClean, SameShown DEF Sequential!PathOf
  <2>3. Beneath(root, root) = <<>>
    BY <1>2 DEF Beneath
  <2>4. input \o <<>> = input
    OBVIOUS
  <2> QED
    BY <1>1, <1>2, <2>2, <2>3, <2>4 DEF Shown
<1>11. Sequential!OutcomeOf(history[when[root]], options, Sequential!PathOf(at, root)) = outcome
  <2>1. when[root] = 1
    BY <1>2, <1>4, <1>5
  <2> QED
    BY <1>1, <1>10, <2>1, SameOutcome
<1>12. [i \in DOMAIN identities |->
          Sequential!OutcomeOf(history[when[identities[i]]], options, Sequential!PathOf(at, identities[i]))] = seq
  <2>1. \A i \in 1 .. 1 : i = 1
    OBVIOUS
  <2>2. seq = [i \in 1 .. 1 |-> outcome]
    OBVIOUS
  <2> QED
    BY <1>9, <1>11, <2>1, <2>2
<1>13. Sequential!FlattenSeq([i \in DOMAIN Sequential!inputs |->
                                Sequential!SetToSeq(Sequential!Unread(at, i))]) = <<>>
  <2>1. PICK lists : lists = [i \in DOMAIN Sequential!inputs |-> Sequential!SetToSeq(Sequential!Unread(at, i))]
    OBVIOUS
  <2>2. lists = Append(<<>>, <<>>)
    <3>1. lists[1] = <<>> /\ DOMAIN lists = {1}
      BY <1>5, <1>7, <2>1, SameSequences, SetToSeqOfNone
    <3>2. \A i \in 1 .. 1 : i = 1
      OBVIOUS
    <3>3. 1 .. 1 = {1}
      BY <3>2
    <3>4. lists = [i \in 1 .. 1 |-> <<>>]
      BY <2>1, <3>1, <3>2, <3>3
    <3> QED
      BY <3>4
  <2>3. <<>> \in Seq({<<>>}) /\ <<>> \in Seq({}) /\ <<>> \in {<<>>}
    OBVIOUS
  <2>4. FlattenSeq(Append(<<>>, <<>>)) = FlattenSeq(<<>>) \o <<>>
    BY <2>3, FlattenSeqAppends
  <2>5. FlattenSeq(lists) = <<>>
    BY <2>2, <2>4, FlattenSeqOfNone
  <2> QED
    BY <2>1, <2>5, SameSequences
<1>14. Sequential!Answer(at, when) = Sequential!Conclusion(seq, <<>>)
  BY <1>5, <1>9, <1>12, <1>13 DEF Sequential!Answer
<1>15. Sequential!Conclusion(seq, <<>>)
         = Aggregate(Filtered(seq, IsMeasured), <<>> \o Filtered(seq, IsSkipped))
  <2>1. \A i \in DOMAIN seq : ~Sequential!HasFailed(seq[i])
    BY SameParts
  <2>2. {i \in DOMAIN seq : Sequential!HasFailed(seq[i])} = {}
    BY <2>1
  <2>3. Sequential!Conclusion(seq, <<>>)
          = Sequential!Aggregate(Sequential!Filtered(seq, Sequential!IsMeasured),
                                 <<>> \o Sequential!Filtered(seq, Sequential!IsSkipped))
    BY <2>2 DEF Sequential!Conclusion
  <2> QED
    BY <2>3, SameParts, SameAggregate
<1> QED
  BY <1>3, <1>4, <1>14, <1>15 DEF ScanAlone

\* The file systems there have been begin with one that a scan may find.
FirstTree == history[1] \in Trees

\* What count_file is asked.
LEMMA AskedIs ==
  ASSUME TypeInv, call \in CallsFor(request), call.function = "count_file"
  PROVE  /\ IsOfOneFile(request) /\ inputs = <<inputs[1]>> /\ inputs[1] \in Seq(Int) /\ inputs[1] # <<>>
         /\ Classify[Last(inputs[1])] \in Int
         /\ options = [options EXCEPT !.follow = FALSE]
         /\ options.includes = {} /\ options.excludes = {}
         /\ \A k \in 2 .. Len(inputs[1]) : inputs[1][k] # Root
<1>1. request \in Requests
  BY DEF TypeInv
<1>2. IsOfOneFile(request)
  BY <1>1, BindingsAssumption
<1>3. inputs = <<inputs[1]>> /\ inputs[1] # <<>> /\ inputs \in Seq(Seq(Int))
  BY <1>2, InputsAreSequences DEF IsOfOneFile, inputs
<1>4. DOMAIN inputs = {1} /\ inputs[1] \in Seq(Int)
  <2>1. Len(inputs) = 1
    BY <1>3
  <2>2. DOMAIN inputs = 1 .. 1
    BY <1>3, <2>1
  <2>3. \A i \in 1 .. 1 : i = 1
    OBVIOUS
  <2>4. 1 .. 1 = {1}
    BY <2>3
  <2>5. 1 \in DOMAIN inputs
    BY <2>2, <2>4
  <2>6. inputs[1] \in Seq(Int)
    <3>1. PICK S : S = Seq(Int)
      OBVIOUS
    <3>2. inputs \in Seq(S)
      BY <1>3, <3>1
    <3>3. PICK list : list = inputs
      OBVIOUS
    <3>4. list \in Seq(S) /\ 1 \in DOMAIN list
      BY <2>5, <3>2, <3>3
    <3>5. list[1] \in S
      BY <3>4
    <3> QED
      BY <3>1, <3>3, <3>5
  <2> QED
    BY <2>2, <2>4, <2>6
<1>5. Last(inputs[1]) \in ToSet(inputs[1])
  <2>1. Len(inputs[1]) \in DOMAIN inputs[1]
    BY <1>3, <1>4
  <2> QED
    BY <2>1 DEF Last, ToSet
<1>6. Classify[Last(inputs[1])] \in Int
  <2>1. 1 \in DOMAIN inputs
    BY <1>4
  <2> QED
    BY <1>1, <1>5, <2>1, ScanAssumption DEF inputs
<1> QED
  BY <1>2, <1>3, <1>4, <1>6 DEF IsOfOneFile, inputs, options

\* What is found by counting is in what a scan reports of the same.
LEMMA SameReported ==
  ASSUME NEW path, inputs[1] = path, NEW from, Last(path) = Last(from),
         NEW outcome, NEW other, SameBut(outcome, path, other, from), ~HasFailed(outcome),
         NEW scanned, ToSet(scanned.files) = {o \in {other} : IsMeasured(o)},
         ToSet(scanned.skipped.details) = {o \in {other} : IsSkipped(o)}
  PROVE  IsReportedBy(FileAnswer(outcome), scanned)
<1>1. PICK files : files = ToSet(scanned.files) /\ files = {o \in {other} : IsMeasured(o)}
  OBVIOUS
<1>2. PICK skips : skips = ToSet(scanned.skipped.details) /\ skips = {o \in {other} : IsSkipped(o)}
  OBVIOUS
<1>3. PICK value : value = FileAnswer(outcome)
  OBVIOUS
<1>4. CASE outcome = Failed(path)
  BY <1>4 DEF Failed, HasFailed
<1>5. CASE \E reason \in Reasons : outcome = Skipped(path, reason) /\ other = Skipped(from, reason)
  <2>1. PICK reason \in Reasons : outcome = Skipped(path, reason) /\ other = Skipped(from, reason)
    BY <1>5
  <2>2. ~IsMeasured(outcome) /\ ~IsMeasured(other) /\ IsSkipped(other)
    BY <2>1 DEF Skipped, IsMeasured, IsSkipped
  <2>3. files = {} /\ skips = {other}
    BY <1>1, <1>2, <2>2
  <2>4. value.tokens = {} /\ value.bytes = {} /\ value.language = {} /\ value.skipped = {outcome}
    BY <1>3, <2>2 DEF FileAnswer
  <2>5. [other EXCEPT !.path = path] = outcome
    BY <2>1 DEF Skipped
  <2>6. value.skipped = {[skip EXCEPT !.path = inputs[1]] : skip \in skips}
    BY <2>3, <2>4, <2>5
  <2>7. ASSUME NEW field \in {"tokens", "bytes", "language"}
        PROVE  value[field] = {file[field] : file \in files}
    <3>1. {file[field] : file \in files} = {}
      BY <2>3
    <3>2. CASE field = "tokens"
      BY <2>4, <3>1, <3>2
    <3>3. CASE field = "bytes"
      BY <2>4, <3>1, <3>3
    <3>4. CASE field = "language"
      BY <2>4, <3>1, <3>4
    <3> QED
      BY <2>7, <3>2, <3>3, <3>4
  <2> QED
    BY <1>1, <1>2, <1>3, <2>6, <2>7 DEF IsReportedBy
<1>6. CASE \E kind \in Texts : outcome = Measured(path, kind) /\ other = Measured(from, kind)
  <2>1. PICK kind \in Texts : outcome = Measured(path, kind) /\ other = Measured(from, kind)
    BY <1>6
  <2>2. IsMeasured(outcome) /\ IsMeasured(other) /\ ~IsSkipped(other)
    BY <2>1 DEF Measured, IsMeasured, IsSkipped
  <2>3. files = {other} /\ skips = {}
    BY <1>1, <1>2, <2>2
  <2>4. /\ value.tokens = {outcome.tokens} /\ value.bytes = {outcome.bytes}
        /\ value.language = {outcome.language} /\ value.skipped = {}
    BY <1>3, <2>2 DEF FileAnswer
  <2>5. /\ outcome.tokens = other.tokens /\ outcome.bytes = other.bytes
        /\ outcome.language = other.language
    BY <2>1 DEF Measured
  <2>6. value.skipped = {[skip EXCEPT !.path = inputs[1]] : skip \in skips}
    BY <2>3, <2>4
  <2>7. ASSUME NEW field \in {"tokens", "bytes", "language"}
        PROVE  value[field] = {file[field] : file \in files}
    <3>1. {file[field] : file \in files} = {other[field]}
      BY <2>3
    <3>2. CASE field = "tokens"
      BY <2>4, <2>5, <3>1, <3>2
    <3>3. CASE field = "bytes"
      BY <2>4, <2>5, <3>1, <3>3
    <3>4. CASE field = "language"
      BY <2>4, <2>5, <3>1, <3>4
    <3> QED
      BY <2>7, <3>2, <3>3, <3>4
  <2> QED
    BY <1>1, <1>2, <1>3, <2>6, <2>7 DEF IsReportedBy
<1> QED
  BY <1>4, <1>5, <1>6 DEF SameBut

\* When nothing changes, a file counted by itself is what a scan of its path reports.
LEMMA OneFileAgrees ==
  ASSUME Inv, FirstTree, call \in CallsFor(request), call.function = "count_file", changed = {},
         NEW outcome, outcome = OutcomeOf(tree, [options EXCEPT !.follow = FALSE], inputs[1]),
         ~HasFailed(outcome)
  PROVE  AgreesWithScan(FileAnswer(outcome))
<1>1. PICK path \in Seq(Int) : inputs[1] = path /\ inputs = <<path>> /\ path # <<>>
  BY AskedIs DEF Inv
<1>2. /\ Classify[Last(path)] \in Int /\ options = [options EXCEPT !.follow = FALSE]
      /\ options.includes = {} /\ options.excludes = {}
      /\ \A k \in 2 .. Len(path) : path[k] # Root
  BY <1>1, AskedIs DEF Inv
<1>3. /\ tree = history[1] /\ tree \in [Nodes -> Kinds] /\ tree \in Trees
  <2>1. 1 \in DOMAIN history /\ history[1] \in [Nodes -> Kinds] /\ tree \in [Nodes -> Kinds]
    BY HistoryIs DEF Inv
  <2>2. \A node \in Nodes : history[1][node] = tree[node]
    BY <2>1 DEF changed
  <2>3. history[1] = tree
    BY <2>1, <2>2
  <2> QED
    BY <2>1, <2>3 DEF FirstTree
<1>4. outcome = OutcomeOf(tree, options, path)
  BY <1>1, <1>2
<1>5. PICK kind : kind = KindOf(tree, Identity(path))
  OBVIOUS
<1>6. IsOfKind(outcome, path, kind, options)
  BY <1>4, <1>5, OutcomeByKind
<1>7. \A reason : FileAnswer(Skipped(path, reason)).skipped = {Skipped(path, reason)}
  BY DEF FileAnswer, Skipped, IsMeasured
<1>8. CASE IsMissing(tree, options, path)
  <2>1. outcome = Skipped(path, Unreadable)
    BY <1>5, <1>6, <1>8 DEF IsMissing, IsOfKind
  <2>2. ~IsDirectory(tree, Identity(path))
    BY <1>8 DEF IsMissing, IsDirectory
  <2> QED
    BY <1>1, <1>7, <1>8, <2>1, <2>2 DEF AgreesWithScan
<1>9. CASE ~IsMissing(tree, options, path) /\ IsDirectory(tree, Identity(path))
  <2>1. outcome = Skipped(path, Unsupported)
    BY <1>5, <1>6, <1>9 DEF IsDirectory, IsOfKind
  <2> QED
    BY <1>1, <1>7, <1>9, <2>1 DEF AgreesWithScan
<1>10. CASE ~IsMissing(tree, options, path) /\ ~IsDirectory(tree, Identity(path))
  <2>1. Last(path) \in Nat
    <3>1. Last(path) \in Nat \/ KindOf(tree, Identity(path)) \in {"dir", "locked", "absent"}
      <4>1. IsOfOneFile(request) /\ request.inputs[1] = path
        BY <1>1, AskedIs DEF Inv, inputs
      <4> QED
        BY <1>3, <4>1 DEF IsOfOneFile
    <3> QED
      BY <1>10, <3>1 DEF IsMissing, IsDirectory
  <2>2. PICK from \in Seq(Int) : from = Clean(path) /\ Last(from) = Last(path) /\ Identity(from) = Identity(path)
    BY <1>1, <1>2, <2>1, CleanIs, IdentityOfClean, LastOfClean
  <2>3. PICK other : other = OutcomeOf(tree, options, from)
    OBVIOUS
  <2>4. SameBut(outcome, path, other, from)
    BY <1>3, <1>4, <2>2, <2>3, SameFile
  <2>5. ~HasFailed(other)
    BY <2>4 DEF SameBut, HasFailed, Failed, Skipped, Measured
  <2>6. PICK seq : seq = <<other>>
    OBVIOUS
  <2>7. ScanAlone = Aggregate(Filtered(seq, IsMeasured), <<>> \o Filtered(seq, IsSkipped))
    BY <1>1, <1>2, <1>3, <1>10, <2>2, <2>3, <2>5, <2>6, ScanOfOne
  <2>8. /\ other.path = from
        /\ \/ /\ IsMeasured(other) /\ ~IsSkipped(other) /\ other.language \in Int
              /\ other.tokens \in 0 .. MaxCount /\ other.bytes \in 0 .. MaxCount
           \/ IsSkipped(other) /\ ~IsMeasured(other) /\ other.reason \in Int
    <3>1. CASE \E reason \in Reasons : other = Skipped(from, reason)
      BY <3>1 DEF Skipped, IsSkipped, IsMeasured, Reasons
    <3>2. CASE \E type \in Texts : other = Measured(from, type)
      <4>1. PICK type \in Texts : other = Measured(from, type)
        BY <3>2
      <4>2. Tokens[type] \in 0 .. MaxCount /\ Bytes[type] \in 0 .. MaxCount
        BY FileSystemAssumption
      <4>3. other.tokens = Tokens[type] /\ other.bytes = Bytes[type] /\ other.path = from
            /\ other.language = Classify[Last(path)] /\ IsMeasured(other) /\ ~IsSkipped(other)
        BY <4>1, <2>2 DEF Measured, IsMeasured, IsSkipped
      <4> QED
        BY <1>2, <4>2, <4>3
    <3>3. CASE other = Failed(from)
      BY <2>5, <3>3 DEF Failed, HasFailed
    <3> QED
      BY <2>4, <3>1, <3>2, <3>3 DEF SameBut
  <2>9. /\ ToSet(ScanAlone.files) = {o \in {other} : IsMeasured(o)}
        /\ ToSet(ScanAlone.skipped.details) = {o \in {other} : IsSkipped(o)}
    BY <2>2, <2>6, <2>7, <2>8, OneReported
  <2>10. IsReportedBy(FileAnswer(outcome), ScanAlone)
    BY <1>1, <2>2, <2>4, <2>9, SameReported
  <2> QED
    BY <1>1, <1>10, <2>10 DEF AgreesWithScan
<1> QED
  BY <1>8, <1>9, <1>10

\* What a scan that succeeds reports reaches Python whole.
LEMMA ScanIsWhole ==
  ASSUME Inv, ResultInv, Succeeded
  PROVE  IsWhole(Convert(result))
<1>1. result # Unknown /\ result # Overflow /\ \A kind, path : result # Error(kind, path)
  BY DEF Succeeded, Error
<1>2. /\ paths # Pending /\ \A i \in DOMAIN outcomes : outcomes[i] # Pending /\ ~HasFailed(outcomes[i])
      /\ result = Aggregate(Filtered(outcomes, IsMeasured), skipped \o Filtered(outcomes, IsSkipped))
  BY <1>1 DEF ResultInv
<1>3. PICK at \in [1 .. next - 1 -> DOMAIN history] : Looked(at) /\ Counted(at)
  BY DEF Inv
<1>4. PICK files : files = Filtered(outcomes, IsMeasured)
  OBVIOUS
<1>5. PICK skips : skips = Filtered(outcomes, IsSkipped)
  OBVIOUS
<1>6. PICK details : details = skipped \o skips
  OBVIOUS
<1>7. PICK m \in Nat, k \in Nat :
        /\ AreFiles(files, m)
        /\ DOMAIN skips = 1 .. k /\ skips = [i \in 1 .. k |-> skips[i]]
        /\ \A i \in 1 .. k : skips[i].path \in Seq(Int) /\ skips[i].reason \in Reasons
  BY <1>2, <1>4, <1>5, OutcomesDivided
<1>8. PICK S : /\ skipped \in Seq(S)
               /\ \A skip \in S : skip.path \in Seq(Int) /\ skip.reason \in Reasons
  BY <1>3, SkippedAre DEF Inv
<1>9. PICK d \in Nat : d = Len(skipped) + k /\ DOMAIN details = 1 .. d /\ Len(details) = d
  BY <1>6, <1>7, <1>8, ConcatSet
<1>10. ToSet(details) = ToSet(skipped) \cup ToSet(skips)
  BY <1>6, <1>7, <1>8, ConcatSet
<1>11. \A i \in 1 .. d : details[i].path \in Seq(Int) /\ details[i].reason \in Int
  <2>1. \A i \in 1 .. d : details[i] \in ToSet(details)
    BY <1>9 DEF ToSet
  <2>2. ToSet(skipped) \subseteq S
    BY <1>8 DEF ToSet
  <2>3. \A skip \in ToSet(skips) : skip.path \in Seq(Int) /\ skip.reason \in Reasons
    BY <1>7 DEF ToSet
  <2>4. \A i \in 1 .. d : details[i].path \in Seq(Int) /\ details[i].reason \in Reasons
    BY <2>1, <2>2, <2>3, <1>8, <1>10
  <2> QED
    BY <2>4 DEF Reasons
<1>12. result = Aggregate(files, details)
  BY <1>2, <1>4, <1>5, <1>6
<1>13. Fits(files, 1 .. m)
  BY <1>1, <1>7, <1>12, AggregateIs
<1> QED
  BY <1>7, <1>9, <1>11, <1>12, <1>13, WholeAnswer

\* Where an answer comes from.
IsAnswered ==
  \/ call.function = "scan" /\ Succeeded /\ answer = Convert(result)
  \/ /\ call.function = "count_file"
     /\ \E outcome : /\ outcome = OutcomeOf(tree, [options EXCEPT !.follow = FALSE], inputs[1])
                     /\ ~HasFailed(outcome) /\ answer = FileAnswer(outcome)

AnswerInv == stage = "answered" /\ ~Raised => IsAnswered

LEMMA NextFirstTree ==
  ASSUME Inv, FirstTree, [Next]_vars
  PROVE  FirstTree'
<1>1. CASE Change
  <2>1. PICK list : list = history /\ list \in Seq([Nodes -> Kinds]) /\ list # <<>>
    BY DEF Inv, TypeInv
  <2>2. Append(list, tree')[1] = list[1]
    BY <2>1
  <2> QED
    BY <1>1, <2>1, <2>2 DEF Change, FirstTree
<1>2. CASE ~Change
  <2>1. history' = history
    BY <1>2 DEF Next, Reject, Discover, MissingInput, StartPool, Read, Deliver, Fail, Conclude,
                Finished, vars, disk
  <2> QED
    BY <2>1 DEF FirstTree
<1> QED
  BY <1>1, <1>2

LEMMA NextAnswerInv ==
  ASSUME Inv, ResultInv, ErrorInv, AnswerInv, [BindingsNext]_<<callVars, vars>>
  PROVE  AnswerInv'
<1>1. CASE Prepare
  <2>1. stage' = "engine" \/ \E exception : answer' = [raised |-> exception]
    BY <1>1 DEF Prepare, Finish, Raise
  <2> QED
    BY <2>1 DEF AnswerInv, Raised
<1>2. CASE Run
  <2>1. stage' = "engine"
    BY <1>2 DEF Run, callVars
  <2> QED
    BY <2>1 DEF AnswerInv
<1>3. CASE Respond
  <2>1. /\ result # Unknown /\ call' = call /\ call.function = "scan" /\ result' = result
        /\ answer' = IF Succeeded THEN Convert(result) ELSE MapScanError(result)
    BY <1>3 DEF Respond, Finish, vars
  <2>2. CASE Succeeded
    <3>1. Succeeded' /\ Convert(result)' = Convert(result) /\ answer' = Convert(result)
      BY <2>1, <2>2 DEF Succeeded, Convert, ConvertSkipped
    <3> QED
      BY <2>1, <3>1 DEF AnswerInv, IsAnswered
  <2>3. CASE ~Succeeded
    <3>1. result = Overflow \/ \E kind \in {"no inputs", "glob", "input", "count"} :
                                   \E path : result = Error(kind, path)
      BY <2>1, <2>3, ResultIs
    <3>2. \E exception : answer' = [raised |-> exception]
      BY <2>1, <2>3, <3>1, ErrorsMapped DEF Raise
    <3> QED
      BY <3>2 DEF AnswerInv, Raised
  <2> QED
    BY <2>2, <2>3
<1>4. CASE CountFile
  <2>1. PICK outcome : outcome = OutcomeOf(tree, [options EXCEPT !.follow = FALSE], inputs[1])
    OBVIOUS
  <2>2. /\ call' = call /\ call.function = "count_file" /\ tree' = tree /\ request' = request
        /\ answer' = IF HasFailed(outcome) THEN Raise("TokenizerError") ELSE FileAnswer(outcome)
    BY <1>4, <2>1 DEF CountFile, Finish, vars, disk
  <2>3. outcome = OutcomeOf(tree, [options EXCEPT !.follow = FALSE], inputs[1])'
    BY <2>1, <2>2 DEF OutcomeOf, KindOf, options, inputs
  <2>4. CASE HasFailed(outcome)
    BY <2>2, <2>4 DEF AnswerInv, Raised, Raise
  <2>5. CASE ~HasFailed(outcome)
    BY <2>2, <2>3, <2>5 DEF AnswerInv, IsAnswered
  <2> QED
    BY <2>4, <2>5
<1>5. CASE UNCHANGED <<callVars, vars>>
  <2>1. /\ call' = call /\ stage' = stage /\ answer' = answer
        /\ tree' = tree /\ request' = request /\ result' = result
    BY <1>5 DEF callVars, vars, disk
  <2>2. (Raised' <=> Raised) /\ (Succeeded' <=> Succeeded) /\ Convert(result)' = Convert(result)
    BY <2>1 DEF Raised, Succeeded, Convert, ConvertSkipped
  <2>3. PICK own : own = OutcomeOf(tree, [options EXCEPT !.follow = FALSE], inputs[1])
    OBVIOUS
  <2>4. OutcomeOf(tree, [options EXCEPT !.follow = FALSE], inputs[1])' = own
    BY <2>1, <2>3 DEF OutcomeOf, KindOf, options, inputs
  <2>5. IsAnswered => IsAnswered'
    BY <2>1, <2>2, <2>3, <2>4 DEF IsAnswered
  <2> QED
    BY <2>1, <2>2, <2>5 DEF AnswerInv
<1> QED
  BY <1>1, <1>2, <1>3, <1>4, <1>5 DEF BindingsNext, Answered

\* Nothing is lost or changed on the way to Python: what a scan answers accounts for all
\* of its tokens, files and skips, and count_file answers what a scan of its path would,
\* when nothing changes meanwhile (PyScanResult::from, count_file).
THEOREM AnswersFaithful == BindingsSpec => []AnswersAgree
<1>1. Init => ResultInv /\ ErrorInv
  BY DEF Init, ResultInv, ErrorInv
<1>2. Inv /\ ResultInv /\ ErrorInv /\ [Next]_vars => ResultInv' /\ ErrorInv'
  BY NextResultInv, NextErrorInv
<1>3. Init => FirstTree
  <2>1. <<tree>>[1] = tree
    OBVIOUS
  <2> QED
    BY <2>1 DEF Init, FirstTree
<1>4. Inv /\ FirstTree /\ [Next]_vars => FirstTree'
  BY NextFirstTree
<1>5. BindingsInit => AnswerInv
  BY DEF BindingsInit, AnswerInv
<1>6. Inv /\ ResultInv /\ ErrorInv /\ AnswerInv /\ [BindingsNext]_<<callVars, vars>> => AnswerInv'
  BY NextAnswerInv
<1>7. BindingsInit => call \in CallsFor(request)
  BY DEF BindingsInit
<1>8. call \in CallsFor(request) /\ [BindingsNext]_<<callVars, vars>> => (call \in CallsFor(request))'
  <2> SUFFICES ASSUME [BindingsNext]_<<callVars, vars>>, call \in CallsFor(request)
               PROVE  (call \in CallsFor(request))'
    OBVIOUS
  <2>1. call' = call /\ request' = request
    BY DEF BindingsNext, Prepare, Run, Respond, CountFile, Answered, callVars, vars,
           Next, Reject, Discover, MissingInput, StartPool, Read, Deliver, Fail, Conclude, Change, Finished
  <2> QED
    BY <2>1
<1>9. Inv /\ ResultInv /\ FirstTree /\ AnswerInv /\ call \in CallsFor(request) => AnswersAgree
  <2> SUFFICES ASSUME Inv, ResultInv, FirstTree, AnswerInv, call \in CallsFor(request),
                      stage = "answered", ~Raised
               PROVE  IF call.function = "scan" THEN IsWhole(answer)
                      ELSE changed = {} => AgreesWithScan(answer)
    BY DEF AnswersAgree
  <2>1. CASE call.function = "scan" /\ Succeeded /\ answer = Convert(result)
    BY <2>1, ScanIsWhole
  <2>2. CASE /\ call.function = "count_file"
             /\ \E outcome : /\ outcome = OutcomeOf(tree, [options EXCEPT !.follow = FALSE], inputs[1])
                             /\ ~HasFailed(outcome) /\ answer = FileAnswer(outcome)
    BY <2>2, OneFileAgrees
  <2> QED
    BY <2>1, <2>2 DEF AnswerInv, IsAnswered
<1> QED
  BY <1>1, <1>2, <1>3, <1>4, <1>5, <1>6, <1>7, <1>8, <1>9, SpecInv, CallIsScan, PTL DEF Spec, BindingsSpec
=============================================================================
