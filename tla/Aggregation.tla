----------------------------- MODULE Aggregation -----------------------------
(***************************************************************************)
(* The deterministic aggregation of one scan (tokm-core/src/aggregate.rs): *)
(* totals, languages and sorted files, skip accounting, and the roll-up of *)
(* files into directories.  A file is [path, language, tokens, bytes], a   *)
(* skipped path is [path, reason], and languages and reasons are numbered  *)
(* in the order in which the code sorts them.                              *)
(***************************************************************************)
EXTENDS Paths, FiniteSetsExt

CONSTANT MaxCount   \* u64::MAX

ASSUME AggregationAssumption == MaxCount \in Nat \ {0}

\* ScanError::AggregateOverflow
Overflow == [error |-> "overflow"]

\* SkipReason, in its order.
Binary      == 1
Oversized   == 2
Unreadable  == 5
Unsupported == 6
Symlink     == 7
Reasons == 1 .. 7

\* ScanTotals::default
NoTotals == [files |-> 0, tokens |-> 0, bytes |-> 0]

\* add_file: checked sums, which stop the aggregation when one does not fit.
AddFile(totals, file) ==
  IF totals = Overflow THEN Overflow
  ELSE LET sum == [files  |-> totals.files + 1,
                   tokens |-> totals.tokens + file.tokens,
                   bytes  |-> totals.bytes + file.bytes]
       IN  IF \E field \in DOMAIN sum : sum[field] > MaxCount THEN Overflow ELSE sum

\* The totals of a sequence of files.
TotalsOf(files) == FoldLeft(AddFile, NoTotals, files)

\* by_language, whose totals are part of those of all files.
ByLanguage(files) ==
  [language \in {file.language : file \in ToSet(files)} |->
     TotalsOf(Filtered(files, LAMBDA file : file.language = language))]

\* Languages by tokens descending, then name.
LanguageList(files) ==
  LET byLanguage == ByLanguage(files)
      above(left, right) ==
        \/ left.tokens > right.tokens
        \/ left.tokens = right.tokens /\ left.name < right.name
      entry(language) ==
        [name   |-> language,
         files  |-> byLanguage[language].files,
         tokens |-> byLanguage[language].tokens,
         bytes  |-> byLanguage[language].bytes]
  IN  Ranked({entry(language) : language \in DOMAIN byLanguage}, above)

ByPath(left, right) == Less(left.path, right.path)

\* SkippedSummary::from_details: the details in order, a total and a count of each reason.
SkippedSummary(details) ==
  LET before(left, right) ==
        \/ ByPath(left, right)
        \/ left.path = right.path /\ left.reason < right.reason
  IN  [total   |-> Len(details),
       count   |-> [reason \in Reasons |->
                      Cardinality({i \in DOMAIN details : details[i].reason = reason})],
       details |-> Sorted(details, before)]

\* aggregate
Aggregate(measured, skipped) ==
  IF TotalsOf(measured) = Overflow THEN Overflow
  ELSE [totals    |-> TotalsOf(measured),
        languages |-> LanguageList(measured),
        files     |-> Sorted(measured, ByPath),
        skipped   |-> SkippedSummary(skipped)]

-----------------------------------------------------------------------------
(* aggregate_directories *)

\* normalize_root
NormalizeRoot(path) == IF Clean(path) = <<Here>> THEN <<>> ELSE Clean(path)

\* is_within
IsWithin(path, root) == IF root = <<>> THEN ~IsAbsolute(path) ELSE StartsWith(path, root)

\* Mutant of RootOf: the narrowest of the matching roots.
RootOf_narrowest(path, roots) ==
  LET directory == Parent(path)
      candidates == {IF root = path THEN directory ELSE root : root \in roots}
      matching == {root \in candidates : IsWithin(directory, root)}
  IN  IF matching = {} THEN directory
      ELSE CHOOSE root \in matching : \A other \in matching : Len(root) >= Len(other)

\* The widest root that a file's directory is within, or else the directory itself.
RootOf(path, roots) ==
  LET directory == Parent(path)
      candidates == {IF root = path THEN directory ELSE root : root \in roots}
      matching == {root \in candidates : IsWithin(directory, root)}
  IN  IF matching = {} THEN directory
      ELSE CHOOSE root \in matching : \A other \in matching : Len(root) =< Len(other)

\* The directories from the file's own up to its root.
Ancestors(path, roots) ==
  {SubSeq(path, 1, k) : k \in Len(RootOf(path, roots)) .. Len(path) - 1}

\* The totals of the files that have a directory among their ancestors.
TotalsBelow(files, roots, directory) ==
  TotalsOf(Filtered(files, LAMBDA file : directory \in Ancestors(file.path, roots)))

\* The directories in the order of their paths, as all there is; "." stands for the
\* empty path.
AggregateDirectories(files, inputs) ==
  LET roots == {NormalizeRoot(input) : input \in inputs}
      shown(directory) == IF directory = <<>> THEN <<Here>> ELSE directory
      directories == UNION {Ancestors(file.path, roots) : file \in ToSet(files)}
      totals(directory) == TotalsBelow(files, roots, directory)
      entry(directory) ==
        [path   |-> shown(directory),
         files  |-> totals(directory).files,
         tokens |-> totals(directory).tokens,
         bytes  |-> totals(directory).bytes]
  IN  IF \E directory \in directories : totals(directory) = Overflow THEN Overflow
      ELSE [all |-> Ranked({entry(directory) : directory \in directories}, ByPath)]
=============================================================================
