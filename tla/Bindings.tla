------------------------------- MODULE Bindings -------------------------------
(***************************************************************************)
(* A call of scan or count_file from Python (tokm-python/src/lib.rs): the  *)
(* arguments are checked one after the other, the engine runs without the  *)
(* interpreter's lock while the file system may change, and its result or  *)
(* its error becomes an object or an exception of Python.                  *)
(***************************************************************************)
EXTENDS Scan, Tokenizers

CONSTANTS
  CallsFor(_)  \* CallsFor(request): the calls that lead to a request, if they lead so far:
               \* [function, paths, selectors, artifact, invalid_utf8, threads]

\* What count_file can be asked: a path, and nothing about discovery.  A path has its
\* root in front, and a path that does not end in a name leads to no file.
IsOfOneFile(asked) ==
  LET path == asked.inputs[1]
  IN  /\ asked.inputs = <<path>> /\ path # <<>>
      /\ \A k \in 2 .. Len(path) : path[k] # Root
      /\ Last(path) \in Nat \/ \A t \in Trees : KindOf(t, Identity(path)) \in {"dir", "locked", "absent"}
      /\ asked.options = [asked.options EXCEPT !.follow = FALSE]
      /\ asked.options.includes = {} /\ asked.options.excludes = {}

ASSUME BindingsAssumption ==
  \A asked \in Requests : \A python \in CallsFor(asked) :
    /\ python.artifact \in Nat \cup {Broken}
    /\ python.function = "count_file" => IsOfOneFile(asked)

VARIABLES
  call,
  stage,    \* of the call: "prepare", "engine" or "answered"
  answer    \* what Python gets

callVars == <<call, stage, answer>>

BindingsInit ==
  /\ Init
  /\ call \in CallsFor(request)
  /\ stage = "prepare"
  /\ answer = Unknown

Raise(exception) == [raised |-> exception]

Finish(value) == answer' = value /\ stage' = "answered"

\* scan, scan_options, count_options: what they look at, in this order, and what they
\* raise.  Paths are a path or a list of paths.
Checks ==
  LET selectors == call.selectors
  IN  <<[fails |-> call.paths = "neither",                    raises |-> "ValueError"],
        [fails |-> call.invalid_utf8 \notin {"skip", "lossy"}, raises |-> "ConfigurationError"],
        [fails |-> Cardinality(Selected(selectors)) > 1,      raises |-> "ConfigurationError"],
        [fails |-> selectors.tokenizer_file # None /\ ~Loads(call.artifact),
                                                              raises |-> "TokenizerError"],
        [fails |-> selectors.model # None /\ ForModel(selectors.model) = None,
                                                              raises |-> "TokenizerError"],
        [fails |-> selectors.encoding # None /\ FromStr(selectors.encoding) = None,
                                                              raises |-> "TokenizerError"],
        [fails |-> call.threads = 0,                          raises |-> "ConfigurationError"]>>

FirstFailing == SelectInSeq(Checks, LAMBDA check : check.fails)

Prepare ==
  /\ stage = "prepare"
  /\ IF FirstFailing = 0 THEN stage' = "engine" /\ UNCHANGED answer
     ELSE Finish(Raise(Checks[FirstFailing].raises))
  /\ UNCHANGED <<call, vars>>

\* The engine's scan.
Run ==
  /\ stage = "engine" /\ call.function = "scan"
  /\ Next
  /\ UNCHANGED callVars

\* Mutant of MapScanError: a glob that does not compile is taken for a bad input.
MapScanError_by_phase(error) ==
  IF error # Overflow /\ error.error = "count" THEN Raise("TokenizerError")
  ELSE Raise("InputError")

\* map_scan_error, map_count_error
MapScanError(error) ==
  CASE error = Overflow         -> Raise("InputError")
    [] error.error = "glob"     -> Raise("ConfigurationError")
    [] error.error = "count"    -> Raise("TokenizerError")
    [] error.error \in {"no inputs", "input"} -> Raise("InputError")

\* PySkippedSummary::from
ConvertSkipped(summary) ==
  [total |-> summary.total, count |-> summary.count, details |-> summary.details]

\* PyScanResult::from: the languages become a dictionary by their names.
Convert(scanned) ==
  [totals    |-> scanned.totals,
   languages |-> [name \in {language.name : language \in ToSet(scanned.languages)} |->
                    CHOOSE language \in ToSet(scanned.languages) : language.name = name],
   files     |-> scanned.files,
   skipped   |-> ConvertSkipped(scanned.skipped)]

\* The end of scan.
Respond ==
  /\ stage = "engine" /\ call.function = "scan"
  /\ result # Unknown
  /\ Finish(IF Succeeded THEN Convert(result) ELSE MapScanError(result))
  /\ UNCHANGED <<call, vars>>

\* PyFileResult of an outcome.
FileAnswer(outcome) ==
  IF IsMeasured(outcome)
  THEN [path |-> outcome.path, language |-> {outcome.language}, tokens |-> {outcome.tokens},
        bytes |-> {outcome.bytes}, skipped |-> {}]
  ELSE [path |-> outcome.path, language |-> {}, tokens |-> {}, bytes |-> {}, skipped |-> {outcome}]

\* Mutant of CountFile: links are followed.
CountFile_following ==
  /\ stage = "engine" /\ call.function = "count_file"
  /\ LET outcome == OutcomeOf(tree, [options EXCEPT !.follow = TRUE], inputs[1])
     IN  Finish(IF HasFailed(outcome) THEN Raise("TokenizerError") ELSE FileAnswer(outcome))
  /\ UNCHANGED <<call, vars>>

\* count_file reads one path, as it is written; it cannot be told to follow links.
CountFile ==
  /\ stage = "engine" /\ call.function = "count_file"
  /\ LET outcome == OutcomeOf(tree, [options EXCEPT !.follow = FALSE], inputs[1])
     IN  Finish(IF HasFailed(outcome) THEN Raise("TokenizerError") ELSE FileAnswer(outcome))
  /\ UNCHANGED <<call, vars>>

Answered == stage = "answered" /\ UNCHANGED <<callVars, vars>>

BindingsNext == Prepare \/ Run \/ Respond \/ CountFile \/ Answered

BindingsSpec == BindingsInit /\ [][BindingsNext]_<<callVars, vars>>

-----------------------------------------------------------------------------
(* Properties *)

Raised == stage = "answered" /\ "raised" \in DOMAIN answer

\* What may be wrong with the options, with the tokenizer or a file it counts, and with
\* the inputs, at any moment of the call.
BadOptions ==
  \/ call.invalid_utf8 \notin {"skip", "lossy"} \/ call.threads = 0
  \/ Cardinality(Selected(call.selectors)) > 1
  \/ call.function = "scan" /\ inputs # <<>> /\ ~FiltersCompile(options)
BadTokenizer ==
  \/ call.selectors.tokenizer_file # None /\ call.artifact \in {Missing, Broken}
  \/ call.selectors.model # None /\ ForModel(call.selectors.model) = None
  \/ call.selectors.encoding # None /\ FromStr(call.selectors.encoding) = None
FailingFile ==
  \E i \in DOMAIN history : \E node \in Nodes : history[i][node] = "failing"
BadInputs ==
  /\ call.function = "scan"
  /\ \/ inputs = <<>> \/ result = Overflow
     \/ \E i \in DOMAIN inputs, j \in DOMAIN history :
          IsMissing(history[j], options, Clean(inputs[i]))

\* An exception accuses what is at fault, and a call with faulty options or without its
\* tokenizer gets an exception before it looks at any file, whatever its inputs are
\* (map_scan_error, scan_options, count_options).
DefectsTyped ==
  /\ Raised =>
       \/ answer.raised = "ConfigurationError" /\ BadOptions
       \/ answer.raised = "TokenizerError" /\ (BadTokenizer \/ FailingFile)
       \/ answer.raised = "InputError" /\ BadInputs /\ ~BadOptions /\ ~BadTokenizer
       \/ answer.raised = "ValueError" /\ call.paths = "neither"
  /\ stage = "answered" /\ (BadOptions \/ BadTokenizer \/ call.paths = "neither") =>
       /\ Raised
       /\ found = <<>> /\ paths = Pending

\* The whole that Python gets: languages by name and files account for all tokens and
\* files of the totals, and skips for their total.
IsWhole(value) ==
  LET names == DOMAIN value.languages
      of(name) == Filtered(value.files, LAMBDA file : file.language = name)
      all(field) == Sum(SetToSeq(names), LAMBDA name : value.languages[name][field])
  IN  /\ \A field \in {"files", "tokens", "bytes"} : all(field) = value.totals[field]
      /\ \A name \in names : value.languages[name].tokens = Sum(of(name), LAMBDA file : file.tokens)
      /\ value.skipped.total = Len(value.skipped.details)

\* What a scan of the path of count_file would answer, if nothing changes.
ScanAlone == Sequential!Answer(<<1>>, [node \in {Identity(inputs[1])} |-> 1])

\* A file counted by itself is what a scan of its path reports, the same tokens, bytes and
\* language or the same reason; what is not there and what is a directory are skips.
IsReportedBy(value, scanned) ==
  /\ value.skipped = {[skip EXCEPT !.path = inputs[1]] : skip \in ToSet(scanned.skipped.details)}
  /\ \A field \in {"tokens", "bytes", "language"} :
       value[field] = {file[field] : file \in ToSet(scanned.files)}

AgreesWithScan(value) ==
  CASE IsMissing(tree, options, inputs[1]) -> value.skipped = {Skipped(inputs[1], Unreadable)}
    [] IsDirectory(tree, Identity(inputs[1])) -> value.skipped = {Skipped(inputs[1], Unsupported)}
    [] OTHER -> IsReportedBy(value, ScanAlone)

\* Nothing is lost or changed on the way to Python, and the two ways of asking for one
\* file agree (PyScanResult::from, count_file).
AnswersAgree ==
  stage = "answered" /\ ~Raised =>
    IF call.function = "scan" THEN IsWhole(answer)
    ELSE changed = {} => AgreesWithScan(answer)
=============================================================================
