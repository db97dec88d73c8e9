-------------------------------- MODULE Report --------------------------------
(***************************************************************************)
(* What the report of a scan or of a diff shows (tokm-cli/src/output.rs):  *)
(* the rows of each table in their order, and what JSON holds.  Widths,    *)
(* labels and grouping are left out.  The arguments are [format, quiet,    *)
(* view, sort, context, price], the last two being sets of one number, or  *)
(* empty.                                                                  *)
(***************************************************************************)
EXTENDS DirectoryTree, Figures

\* compare_directories, compare_files
Order(sort, left, right) ==
  CASE sort = "path"     -> ByPath(left, right)
    [] sort = "tokens"   -> \/ left.tokens > right.tokens
                            \/ left.tokens = right.tokens /\ ByPath(left, right)
    [] sort = "language" -> \/ left.language < right.language
                            \/ left.language = right.language /\ ByPath(left, right)

\* diff_impact
Impact(file) == file.tokens.added + file.tokens.removed

\* compare_diff_files
DiffOrder(sort, left, right) ==
  IF sort = "tokens"
  THEN \/ Impact(left) > Impact(right)
       \/ Impact(left) = Impact(right) /\ ByPath(left, right)
  ELSE Order(sort, left, right)

\* What sort_by makes of the entries of a scan or a diff.
InSortOrder(sort, entries) == Sorted(entries, LAMBDA left, right : Order(sort, left, right))
InDiffOrder(sort, files) == Sorted(files, LAMBDA left, right : DiffOrder(sort, left, right))

\* write_skip_summary: nothing, or the total and the reasons there are.
SkipCounts(skipped) ==
  IF skipped.total = 0 THEN [total |-> 0, count |-> <<>>]
  ELSE [total |-> skipped.total,
        count |-> [reason \in {reason \in Reasons : skipped.count[reason] > 0} |->
                     skipped.count[reason]]]

\* write_verbose_skips, write_skip_details
SkipLines(snapshot, details) ==
  [i \in DOMAIN details |->
     [snapshot |-> snapshot, reason |-> details[i].reason, path |-> details[i].path]]

\* write_context_summary, write_cost_summary: the tokens are shown once.
Context(tokens, args) == {ContextComparison(tokens, window) : window \in args.context}
Cost(tokens, args) == {CostEstimate(tokens, price) : price \in args.price}
Summaries(tokens, args) ==
  [tokens  |-> IF args.context \cup args.price = {} THEN {} ELSE {tokens},
   context |-> Context(tokens, args),
   cost    |-> Cost(tokens, args)]

-----------------------------------------------------------------------------
(* Densities *)

\* Mutant of RatioTenths: the rest of the division is dropped.
RatioTenths_truncated(numerator, denominator) ==
  IF denominator = 0 THEN 0 ELSE (numerator * 10) \div denominator

\* rounded_ratio_tenths
RatioTenths(numerator, denominator) ==
  IF denominator = 0 THEN 0 ELSE (numerator * 10 + denominator \div 2) \div denominator

\* tokens_per_kb_tenths, bytes_per_token_tenths
TokensPerKb(totals) == RatioTenths(totals.tokens * Kilo, totals.bytes)
BytesPerToken(totals) == RatioTenths(totals.bytes, totals.tokens)
Density(totals) ==
  [tokens_per_kb |-> TokensPerKb(totals), bytes_per_token |-> BytesPerToken(totals)]

-----------------------------------------------------------------------------
(* The report of a scan *)

\* write_language_table
LanguageTable(result) ==
  LET percentages == Percentages([i \in DOMAIN result.languages |-> result.languages[i].tokens])
  IN  [rows  |-> [i \in DOMAIN result.languages |->
                    [name    |-> result.languages[i].name,
                     files   |-> result.languages[i].files,
                     tokens  |-> result.languages[i].tokens,
                     percent |-> percentages[i]]],
       total |-> [files   |-> result.totals.files,
                  tokens  |-> result.totals.tokens,
                  percent |-> IF result.totals.tokens = 0 THEN 0 ELSE 1000],
       skips |-> SkipCounts(result.skipped)]

\* write_density_table
DensityTable(result) ==
  [rows  |-> [i \in DOMAIN result.languages |->
                [name    |-> result.languages[i].name,
                 files   |-> result.languages[i].files,
                 tokens  |-> result.languages[i].tokens,
                 density |-> Density(result.languages[i])]],
   total |-> [files   |-> result.totals.files,
              tokens  |-> result.totals.tokens,
              density |-> Density(result.totals)],
   skips |-> SkipCounts(result.skipped)]

\* write_file_table
FileTable(result, sort) ==
  [rows  |-> InSortOrder(sort, result.files),
   total |-> result.totals,
   skips |-> SkipCounts(result.skipped)]

\* write_directory_table
DirectoryTable(result, directories, sort) ==
  [rows  |-> InSortOrder(sort, directories),
   total |-> result.totals,
   skips |-> SkipCounts(result.skipped)]

\* write_directory_tree shows no total.
Tree(result, directories) ==
  [rows |-> TreeLines(directories), skips |-> SkipCounts(result.skipped)]

\* Mutant of Json: the directories are left out of the report of a tree.
Json_without_tree(result, directories, args) ==
  [totals      |-> result.totals,
   context     |-> Context(result.totals.tokens, args),
   cost        |-> Cost(result.totals.tokens, args),
   directories |-> IF args.view = "dirs" THEN directories ELSE <<>>,
   languages   |-> result.languages,
   densities   |-> <<>>,
   files       |-> result.files,
   skipped     |-> result.skipped]

\* write_json, json_skipped: everything there is, with what the view adds to it.
Json(result, directories, args) ==
  [totals      |-> result.totals,
   context     |-> Context(result.totals.tokens, args),
   cost        |-> Cost(result.totals.tokens, args),
   directories |-> IF args.view \in {"dirs", "tree"} THEN directories ELSE <<>>,
   languages   |-> result.languages,
   densities   |-> IF args.view = "density"
                   THEN [i \in DOMAIN result.languages |-> Density(result.languages[i])] ELSE <<>>,
   files       |-> result.files,
   skipped     |-> result.skipped]

\* The table of each view.
Table(result, directories, args) ==
  CASE args.view = "languages" -> LanguageTable(result)
    [] args.view = "density"   -> DensityTable(result)
    [] args.view = "files"     -> FileTable(result, args.sort)
    [] args.view = "dirs"      -> DirectoryTable(result, directories, args.sort)
    [] args.view = "tree"      -> Tree(result, directories)

\* What is written of a scan and its directories: nothing, one of the two formats, or
\* Overflow if the sums of the directories do not fit.
Written(result, directories, args) ==
  CASE args.format = "table" /\ args.quiet                        -> <<>>
    [] args.view \in {"dirs", "tree"} /\ directories = Overflow   -> Overflow
    [] args.format = "json"                                       -> Json(result, directories.all, args)
    [] OTHER -> [table     |-> Table(result, directories.all, args),
                 summaries |-> Summaries(result.totals.tokens, args)]

\* write_scan_report
ScanReport(result, inputs, args) ==
  Written(result, AggregateDirectories(result.files, inputs), args)

-----------------------------------------------------------------------------
(* The report of a diff *)

\* write_diff_table: the changes of languages, or of files in their order.
DiffTable(diff, args) ==
  [tokens |-> diff.tokens,
   rows   |-> IF args.view = "files"
              THEN InDiffOrder(args.sort, diff.files)
              ELSE diff.languages,
   skips  |-> [base |-> SkipCounts(diff.base_skipped), head |-> SkipCounts(diff.head_skipped)],
   head   |-> Summaries(diff.head.tokens, args)]

\* Mutant of DiffJson: what the head skipped is copied from the base.
DiffJson_copied(diff, args) ==
  [snapshots |-> [base |-> [totals |-> diff.base, skipped |-> diff.base_skipped],
                  head |-> [totals |-> diff.head, skipped |-> diff.base_skipped]],
   tokens    |-> diff.tokens,
   context   |-> Context(diff.head.tokens, args),
   cost      |-> Cost(diff.head.tokens, args),
   languages |-> diff.languages,
   files     |-> diff.files]

\* write_diff_json
DiffJson(diff, args) ==
  [snapshots |-> [base |-> [totals |-> diff.base, skipped |-> diff.base_skipped],
                  head |-> [totals |-> diff.head, skipped |-> diff.head_skipped]],
   tokens    |-> diff.tokens,
   context   |-> Context(diff.head.tokens, args),
   cost      |-> Cost(diff.head.tokens, args),
   languages |-> diff.languages,
   files     |-> diff.files]

\* write_diff_report
DiffReport(diff, args) ==
  CASE args.format = "json" -> DiffJson(diff, args)
    [] args.quiet           -> <<>>
    [] OTHER                -> DiffTable(diff, args)
=============================================================================
