---------------------------------- MODULE Cli ----------------------------------
(***************************************************************************)
(* One run of the tokm command, from its arguments to its exit code        *)
(* (tokm-cli/src/main.rs, app.rs, args.rs).  Standard input is counted     *)
(* here; what measuring files and trees comes to is the subject of other   *)
(* modules: a scan or a diff fails or has tokens by language.              *)
(***************************************************************************)
EXTENDS Counting

CONSTANTS
  Commands,   \* what may be asked for, and the world it meets
  Artifacts,  \* what may be put in the place of a tokenizer's artifact meanwhile
  NoBudget,   \* --max-tokens is not given
  Running,    \* the command has not exited
  Nothing     \* nothing read, selected or measured

Panic == 101  \* the exit code of a panic

\* What a measurement comes to: tokens by language, and of standard input its file or skip.
Executions == [languages : Seq(Nat), files : Seq(ByteCounts), skipped : Seq(ByteSkips)]

ASSUME CliAssumption ==
  /\ Artifacts \subseteq Int
  /\ {Running, NoBudget, Unlimited} \cap Int = {}
  /\ Nothing \notin Counters /\ Nothing \notin Executions
  /\ \A command \in Commands :
       /\ command.limit = ParseFileSize(command.limit_text)
       /\ command.limit_text = Unlimited \/ command.limit_text \in Seq(Int)
       /\ command.price = ParsePrice(command.price_text)
       /\ command.stdin \in Seq(0 .. 255) /\ Len(command.stdin) =< MaxNumber
       /\ command.invalid_utf8 \in {"skip", "lossy"} /\ command.normalize \in BOOLEAN
       /\ command.comparison \in Seq(Int)
       /\ command.tokens \in Seq(Nat)
       /\ command.window \in Nat \ {0} /\ command.budget \in Nat \cup {NoBudget}
       /\ command.artifact \in Int

VARIABLES
  command,   \* the arguments and the world they meet
  pc,        \* the step of main and execute that is next
  artifact,  \* what is at the path of the tokenizer's artifact
  buffer,    \* what from_file has read of it
  counter,   \* the token counter of the options
  execution, \* what execute returned
  stdout,    \* how much of the report is written
  stderr,    \* the messages on stderr
  exit       \* the exit code

loading == <<artifact, buffer, counter>>
vars == <<command, pc, loading, execution, stdout, stderr, exit>>

Init ==
  /\ command \in Commands
  /\ pc = "parse"
  /\ artifact = command.artifact
  /\ buffer = Nothing
  /\ counter = Nothing
  /\ execution = Nothing
  /\ stdout = "nothing"
  /\ stderr = <<>>
  /\ exit = Running

Goto(step) == pc' = step

\* Mutant of Exit: main goes on after it set its exit code.
Exit_going_on(code) == UNCHANGED pc /\ exit' = code

Exit(code) == pc' = "exited" /\ exit' = code
Say(message) == stderr' = Append(stderr, message)

\* eprintln! before an exit: it panics when stderr cannot be written.
Complain(message, code) ==
  \/ Say(message) /\ Exit(code)
  \/ UNCHANGED stderr /\ Exit(Panic)

\* --help and --version: try_parse stops there, and stdout gets the text.
ShowHelp ==
  /\ pc = "parse" /\ command.kind = "help"
  /\ stdout' = "help" /\ Exit(0)
  /\ UNCHANGED <<command, loading, execution, stderr>>

\* Args::try_parse: --verbose and --quiet exclude each other, and so do the selectors
\* of a tokenizer, the views, and a tree and an order.  An encoding, a model, a price or
\* a size may not parse.
Conflict ==
  LET selectors == command.selectors
  IN  \/ command.verbose /\ command.quiet
      \/ Cardinality(Selected(selectors)) > 1
      \/ Cardinality(command.views) > 1
      \/ "tree" \in command.views /\ command.sort # "default"
      \/ selectors.encoding # None /\ FromStr(selectors.encoding) = None
      \/ selectors.model # None /\ ForModel(selectors.model) = None
      \/ command.price = Invalid \/ command.limit = Invalid

\* The message is printed if it can be.
ParseFails ==
  /\ pc = "parse" /\ command.kind # "help" /\ Conflict
  /\ Say("usage") \/ UNCHANGED stderr
  /\ Exit(2)
  /\ UNCHANGED <<command, loading, execution, stdout>>

Parses ==
  /\ pc = "parse" /\ command.kind # "help" /\ ~Conflict
  /\ Goto("execute")
  /\ UNCHANGED <<command, loading, execution, stdout, stderr, exit>>

-----------------------------------------------------------------------------
(* execute: the options *)

\* Views that a diff does not have, and an order that --dirs does not have.
UnusableView ==
  \/ command.kind = "diff" /\ command.views \cap {"dirs", "density", "tree"} # {}
  \/ "dirs" \in command.views /\ command.sort = "language"

RefuseView ==
  /\ pc = "execute" /\ UnusableView
  /\ Complain("usage", 2)
  /\ UNCHANGED <<command, loading, execution, stdout>>

FromArtifact == command.selectors.tokenizer_file # None

\* scan_options: an encoding, a model's or the default one.
SelectBuiltin ==
  /\ pc = "execute" /\ ~UnusableView /\ ~FromArtifact
  /\ counter' = CounterFor(command.selectors)
  /\ Goto("input")
  /\ UNCHANGED <<command, artifact, buffer, execution, stdout, stderr, exit>>

\* from_file: all bytes of the artifact are read, once.
ReadArtifact ==
  /\ pc = "execute" /\ ~UnusableView /\ FromArtifact
  /\ artifact # Missing
  /\ buffer' = artifact
  /\ Goto("load")
  /\ UNCHANGED <<command, artifact, counter, execution, stdout, stderr, exit>>

MissingArtifact ==
  /\ pc = "execute" /\ ~UnusableView /\ FromArtifact
  /\ artifact = Missing
  /\ Complain("operational", 1)
  /\ UNCHANGED <<command, loading, execution, stdout>>

\* Mutant of BuildCounter: the fingerprint is of the file as it is by now.
BuildCounter_rereading ==
  /\ pc = "load" /\ Loads(buffer)
  /\ counter' = ArtifactCounter(buffer, artifact)
  /\ Goto("input")
  /\ UNCHANGED <<command, artifact, buffer, execution, stdout, stderr, exit>>

\* The tokenizer and its fingerprint are made of the bytes that were read.
BuildCounter ==
  /\ pc = "load" /\ Loads(buffer)
  /\ counter' = ArtifactCounter(buffer, buffer)
  /\ Goto("input")
  /\ UNCHANGED <<command, artifact, buffer, execution, stdout, stderr, exit>>

BrokenArtifact ==
  /\ pc = "load" /\ ~Loads(buffer)
  /\ Complain("operational", 1)
  /\ UNCHANGED <<command, loading, execution, stdout>>

\* Somebody replaces the artifact, once, while the command loads it.
ReplaceArtifact ==
  /\ pc \in {"parse", "execute", "load"} /\ FromArtifact
  /\ artifact = command.artifact
  /\ artifact' \in Artifacts \ {artifact}
  /\ UNCHANGED <<command, pc, buffer, counter, execution, stdout, stderr, exit>>

-----------------------------------------------------------------------------
(* execute_scan, execute_diff *)

\* Args::input_mode: one "-" alone is standard input.
InputMode ==
  LET dashes == Cardinality({i \in DOMAIN command.paths : command.paths[i] = "-"})
  IN  IF dashes = 0 THEN "filesystem"
      ELSE IF dashes = 1 /\ Len(command.paths) = 1 THEN "stdin"
      ELSE "mixed"

FromStdin == command.kind = "scan" /\ InputMode = "stdin"

\* The places of ".." in a comparison, a sequence of points and letters.
Ranges(comparison) ==
  {i \in DOMAIN comparison : OccursAt(<<Point, Point>>, comparison, i)}

\* Mutant of ParseComparison: a third point is part of the head.
ParseComparison_three_points(comparison) ==
  IF Ranges(comparison) = {}
  THEN IF comparison = <<>> THEN Invalid
       ELSE [mode |-> "worktree", base |-> comparison, head |-> <<>>]
  ELSE LET at   == Min(Ranges(comparison))
           base == SubSeq(comparison, 1, at - 1)
           head == SubSeq(comparison, at + 2, Len(comparison))
       IN  IF base = <<>> \/ head = <<>> \/ Ranges(head) # {}
           THEN Invalid
           ELSE [mode |-> "trees", base |-> base, head |-> head]

\* execute_diff: A..B is split at the first "..", anything else is a base revision.
ParseComparison(comparison) ==
  IF Ranges(comparison) = {}
  THEN IF comparison = <<>> THEN Invalid
       ELSE [mode |-> "worktree", base |-> comparison, head |-> <<>>]
  ELSE LET at   == Min(Ranges(comparison))
           base == SubSeq(comparison, 1, at - 1)
           head == SubSeq(comparison, at + 2, Len(comparison))
       IN  IF base = <<>> \/ head = <<>> \/ head[1] = Point \/ Ranges(head) # {}
           THEN Invalid
           ELSE [mode |-> "trees", base |-> base, head |-> head]

UnusableInput ==
  \/ command.kind = "scan" /\ InputMode = "mixed"
  \/ FromStdin /\ command.views \cap {"dirs", "tree"} # {}
  \/ command.kind = "diff" /\ ParseComparison(command.comparison) = Invalid

RefuseInput ==
  /\ pc = "input" /\ UnusableInput
  /\ Complain("usage", 2)
  /\ UNCHANGED <<command, loading, execution, stdout>>

ExecuteFails ==
  /\ pc = "input" /\ ~UnusableInput
  /\ Complain("operational", 1)
  /\ UNCHANGED <<command, loading, execution, stdout>>

\* scan, diff_trees or diff_worktree (for a diff, what counts is the head).
Execute ==
  /\ pc = "input" /\ ~UnusableInput /\ ~FromStdin
  /\ execution' = [languages |-> command.tokens, files |-> <<>>, skipped |-> <<>>]
  /\ Goto("report")
  /\ UNCHANGED <<command, loading, stdout, stderr, exit>>

\* Mutant of ReadBounded: no byte past the limit.
ReadBounded_to_limit(limit) ==
  IF Admits(limit, Len(command.stdin)) THEN command.stdin ELSE SubSeq(command.stdin, 1, limit)

\* read_bounded: one byte past the limit is enough to tell.
ReadBounded(limit) ==
  IF Admits(limit, Len(command.stdin)) THEN command.stdin
  ELSE SubSeq(command.stdin, 1, limit + 1)

\* stdin_result and stdin_skip_summary: one file or one skip, named "-".
StdinResult(outcome) ==
  IF "tokens" \in DOMAIN outcome
  THEN [languages |-> <<outcome.tokens>>, files |-> <<outcome>>, skipped |-> <<>>]
  ELSE [languages |-> <<>>, files |-> <<>>, skipped |-> <<outcome>>]

Options ==
  [counter       |-> counter,
   text_policy   |-> IF command.normalize THEN "normalized" ELSE "literal",
   invalid_utf8  |-> command.invalid_utf8,
   max_file_size |-> command.limit]

\* execute_scan of standard input.
ExecuteStdin ==
  /\ pc = "input" /\ ~UnusableInput /\ FromStdin
  /\ execution' = StdinResult(CountBytes(ReadBounded(command.limit), Options))
  /\ Goto("report")
  /\ UNCHANGED <<command, loading, stdout, stderr, exit>>

-----------------------------------------------------------------------------
(* main, after execute *)

MeasuredTokens == Total(execution.languages)

\* write_report; a quiet table writes nothing.
WriteReport ==
  /\ pc = "report"
  /\ stdout' = IF command.quiet /\ command.format = "table" THEN "nothing" ELSE "report"
  /\ Goto("verbose")
  /\ UNCHANGED <<command, loading, execution, stderr, exit>>

\* The reader of stdout went away.
BrokenPipe ==
  /\ pc = "report" /\ ~(command.quiet /\ command.format = "table")
  /\ stdout' = "cut" /\ Exit(0)
  /\ UNCHANGED <<command, loading, execution, stderr>>

\* Mutant of ReportFails: any failure counts as a reader that went away.
ReportFails_silently ==
  /\ pc = "report" /\ ~(command.quiet /\ command.format = "table")
  /\ stdout' = "torn" /\ Exit(0)
  /\ UNCHANGED <<command, loading, execution, stderr>>

\* The report cannot be written for another reason.
ReportFails ==
  /\ pc = "report" /\ ~(command.quiet /\ command.format = "table")
  /\ stdout' = "torn" /\ Complain("cannot write output", 1)
  /\ UNCHANGED <<command, loading, execution>>

\* write_verbose_skips
WriteSkips ==
  /\ pc = "verbose"
  /\ IF command.verbose THEN Say("skips") ELSE UNCHANGED stderr
  /\ Goto("budget")
  /\ UNCHANGED <<command, loading, execution, stdout, exit>>

SkipsFail ==
  /\ pc = "verbose" /\ command.verbose
  /\ Complain("cannot write diagnostics", 1)
  /\ UNCHANGED <<command, loading, execution, stdout>>

OverBudget == command.budget # NoBudget /\ MeasuredTokens > command.budget

Succeed ==
  /\ pc = "budget" /\ ~OverBudget
  /\ Exit(0)
  /\ UNCHANGED <<command, loading, execution, stdout, stderr>>

\* write_budget_failure
BudgetFailure ==
  /\ pc = "budget" /\ OverBudget
  /\ Say([exceeded_by |-> MeasuredTokens - command.budget]) /\ Exit(3)
  /\ UNCHANGED <<command, loading, execution, stdout>>

BudgetFailureFails ==
  /\ pc = "budget" /\ OverBudget
  /\ Complain("cannot write budget failure", 1)
  /\ UNCHANGED <<command, loading, execution, stdout>>

Exited == pc = "exited" /\ UNCHANGED vars

Next ==
  \/ ShowHelp \/ ParseFails \/ Parses
  \/ RefuseView \/ SelectBuiltin
  \/ ReadArtifact \/ MissingArtifact \/ BuildCounter \/ BrokenArtifact \/ ReplaceArtifact
  \/ RefuseInput \/ ExecuteFails \/ Execute \/ ExecuteStdin
  \/ WriteReport \/ BrokenPipe \/ ReportFails
  \/ WriteSkips \/ SkipsFail
  \/ Succeed \/ BudgetFailure \/ BudgetFailureFails
  \/ Exited

Spec == Init /\ [][Next]_vars

-----------------------------------------------------------------------------
(* Properties *)

HasMeasured == execution # Nothing

\* The type invariant; a command has exited exactly when it has an exit code, and it
\* has measured only with a counter (main, execute).
TypeOK ==
  /\ pc \in {"parse", "execute", "load", "input", "report", "verbose", "budget", "exited"}
  /\ stdout \in {"nothing", "help", "report", "cut", "torn"}
  /\ exit \in {Running, 0, 1, 2, 3, Panic}
  /\ (pc = "exited") = (exit # Running)
  /\ counter \in Counters \cup {Nothing} /\ execution \in Executions \cup {Nothing}
  /\ HasMeasured => counter # Nothing

\* Where marks of three bytes begin, and the bytes that are no part of UTF-8 text.
Marks(bytes) == {i \in DOMAIN bytes : OccursAt(MarkBytes, bytes, i)}
Invalids(bytes) ==
  {i \in DOMAIN bytes : bytes[i] > 127 /\ Marks(bytes) \cap (i - 2 .. i) = {}}

\* Why bytes are skipped, if they are.
SkipsFor(bytes) ==
  LET starts(prefix) == IsPrefix(prefix, bytes)
      inspected == SubSeq(bytes, 1, Min({InspectedBytes, Len(bytes)}))
  IN  IF starts(Utf16LE)
      THEN {<<"unsupported encoding", IF starts(Utf32LE) THEN "UTF-32LE" ELSE "UTF-16LE">>}
      ELSE IF starts(Utf16BE) THEN {<<"unsupported encoding", "UTF-16BE">>}
      ELSE IF starts(Utf32BE) THEN {<<"unsupported encoding", "UTF-32BE">>}
      ELSE IF 0 \in ToSet(inspected) THEN {<<"binary", "none">>}
      ELSE IF Invalids(bytes) # {} /\ command.invalid_utf8 = "skip" THEN {<<"invalid UTF-8", "none">>}
      ELSE {}

\* The tokens of bytes by a definition, from where marks, cut marks and line ends are.
TokensOf(bytes, definition) ==
  LET cut == {i \in Invalids(bytes) : OccursAt(SubSeq(MarkBytes, 1, 2), bytes, i)}
      characters == Len(bytes) - 2 * Cardinality(Marks(bytes)) - Cardinality(cut)
      returns == {i \in DOMAIN bytes : bytes[i] = CR}
      pairs == {i \in returns : OccursAt(<<LF>>, bytes, i + 1)}
      leading == Marks(bytes) \cap {1}
  IN  IF command.normalize
      THEN definition * (characters - Cardinality(pairs) - Cardinality(leading))
      ELSE definition * characters + Cardinality(returns)

\* The definition of the tokenizer that the command has selected and read.
Definition ==
  IF FromArtifact THEN buffer ELSE CounterFor(command.selectors).definition

\* What the command measures by itself of the world it meets.
Truth ==
  IF ~FromStdin THEN command.tokens
  ELSE IF Admits(command.limit, Len(command.stdin)) /\ SkipsFor(command.stdin) = {}
       THEN <<TokensOf(command.stdin, Definition)>>
       ELSE <<>>

\* Exit codes mean what README.md says of them, whatever fails on the way: 3 is said
\* only of a report that went out whole over the budget, with the excess last on
\* stderr; 2 of commands that measured and wrote nothing; 0 of a measurement within
\* the budget or cut off by its reader; a report torn otherwise is a failure, and a
\* failure nobody can be told of is a panic (main).
ExitCodes ==
  /\ exit = 3 => /\ command.budget # NoBudget
                 /\ Total(Truth) > command.budget
                 /\ stdout \in {"report", "nothing"}
                 /\ Last(stderr).exceeded_by + command.budget = Total(Truth)
  /\ exit = 2 => ~HasMeasured /\ stdout = "nothing"
  /\ exit = 0 => \/ stdout = "help"
                 \/ /\ HasMeasured /\ execution.languages = Truth
                    /\ \/ stdout = "cut"
                       \/ stdout # "torn" /\ command.budget = NoBudget
                       \/ stdout # "torn" /\ Total(Truth) =< command.budget
  /\ stdout = "torn" => exit \in {1, Panic}

\* A budget is enforced: a command that measured too much never succeeds.
\* "Fail when the total exceeds this token budget."
BudgetEnforced ==
  exit # Running /\ HasMeasured /\ command.budget # NoBudget =>
    (MeasuredTokens > command.budget => exit # 0)

\* Standard input is admitted exactly up to the limit as it is written, to the byte:
\* no product of number and unit is taken for a smaller one, a byte past the limit is
\* noticed, and none is missing from what is measured (parse_file_size, read_bounded,
\* count_bytes).
StdinToTheByte ==
  FromStdin /\ HasMeasured =>
    LET limit == command.limit_text
        within == \/ limit = Unlimited
                  \/ \E k \in DOMAIN limit, power \in 0 .. 3 :
                       /\ ToSet(SubSeq(limit, 1, k)) \subseteq 0 .. 9
                       /\ SubSeq(limit, k + 1, Len(limit)) \in Spellings(power)
                       /\ Len(command.stdin) =< Number(SubSeq(limit, 1, k)) * Multiplier(power)
    IN  /\ within = (\A skip \in ToSet(execution.skipped) : skip.reason # "oversized")
        /\ \A file \in ToSet(execution.files) : file.bytes = Len(command.stdin)

\* Standard input within the limit is measured or skipped as its bytes say: the most
\* specific encoding is named, a zero byte is seen only where it is looked for, and
\* otherwise every character is counted once, a pair of \r\n as one line end and a
\* leading mark as none when normalised (decode, normalize, count_bytes).
StdinCounted ==
  FromStdin /\ HasMeasured /\ Admits(command.limit, Len(command.stdin)) =>
    IF SkipsFor(command.stdin) # {}
    THEN /\ execution.files = <<>> /\ execution.languages = <<>>
         /\ {<<skip.reason, skip.detail>> : skip \in ToSet(execution.skipped)}
              = SkipsFor(command.stdin)
    ELSE /\ execution.skipped = <<>>
         /\ execution.languages = <<TokensOf(command.stdin, Definition)>>
         /\ \A file \in ToSet(execution.files) :
              file.decoded_lossily = (Invalids(command.stdin) # {})

\* The identity shown beside a count is that of the tokenizer that counted, even if
\* the artifact is replaced while it is loaded, and it is the one that was selected,
\* in a state that its file was in (from_file: one read serves tokenizer and hash).
IdentityTellsTokens ==
  FromStdin /\ HasMeasured =>
    \A file \in ToSet(execution.files) :
      LET definition == file.fingerprint.definition
      IN  /\ file.tokens = TokensOf(command.stdin, definition)
          /\ IF FromArtifact
             THEN /\ file.fingerprint.kind = "artifact"
                  /\ definition \in {command.artifact, artifact}
             ELSE file.fingerprint = CounterFor(command.selectors).fingerprint

\* A comparison that is accepted can be read in one way only: A...B, which means
\* something else to Git, is refused wherever the points are (execute_diff).
RangesUnambiguous ==
  command.kind = "diff" /\ HasMeasured =>
    LET parsed == ParseComparison(command.comparison)
    IN  /\ Cardinality(Ranges(command.comparison)) =< 1
        /\ parsed.base # <<>>
        /\ (parsed.mode = "trees") = (Ranges(command.comparison) # {})
        /\ parsed.mode = "trees" =>
             parsed.head # <<>>
               /\ parsed.base \o <<Point, Point>> \o parsed.head = command.comparison

\* The percentages of a report add up to the 100.0% below them, none is off by a
\* tenth or more, and more tokens never show as a smaller share
\* (allocated_percent_tenths).
SharesAddUp ==
  HasMeasured /\ MeasuredTokens > 0 =>
    LET measured == execution.languages
        shares == Percentages(measured)
        total == MeasuredTokens
    IN  /\ Total(shares) = 1000
        /\ \A i \in DOMAIN shares :
             /\ shares[i] * total - measured[i] * 1000 \in (1 - total) .. (total - 1)
             /\ \A j \in DOMAIN shares : measured[i] > measured[j] => shares[i] >= shares[j]

\* Of a context window tokens remain or are exceeded, never both, and the share
\* shown is nearest (ContextComparison::new).
ContextAddsUp ==
  HasMeasured =>
    LET tokens == MeasuredTokens
        shown == ContextComparison(tokens, command.window)
    IN  /\ tokens + shown.remaining = command.window + shown.exceeded
        /\ shown.remaining = 0 \/ shown.exceeded = 0
        /\ 2 * (shown.percent * command.window - tokens * 1000)
             \in -command.window .. command.window

\* A price is taken exactly as it is written, shown in a form that is read back as
\* itself, and the cost is the nearest to the exact product (parse_price,
\* format_input_price, CostEstimate::new).
PricesExact ==
  command.price # Invalid =>
    LET text == command.price_text
        scale == 10 ^ Len(Fraction(text))
        exact == Number(Whole(text) \o Fraction(text))
    IN  /\ command.price * scale = exact * 10 ^ Decimals
        /\ ParsePrice(FormatPrice(command.price)) = command.price
        /\ HasMeasured =>
             LET cost == CostEstimate(MeasuredTokens, command.price)
             IN  2 * (cost * Divisor - MeasuredTokens * command.price)
                   \in (1 - Divisor) .. Divisor
=============================================================================
