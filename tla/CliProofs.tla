------------------------------- MODULE CliProofs -------------------------------
(***************************************************************************)
(* Proofs about one run of the tokm command: its exit codes, what it       *)
(* counts of standard input, and the figures that it shows.                *)
(***************************************************************************)
EXTENDS TextProofs

-----------------------------------------------------------------------------
(* The inductive invariant *)

Notices == {"usage", "operational", "cannot write output", "skips", "cannot write diagnostics",
          "cannot write budget failure"}
Messages == Notices \cup [exceeded_by : Int]

TypeInv == TypeOK /\ command \in Commands /\ stderr \in Seq(Messages)

\* The counter is of what was selected, and of one state of the artifact.
Counts ==
  IF FromArtifact
  THEN /\ Loads(buffer) /\ buffer \in {command.artifact, artifact}
       /\ counter = ArtifactCounter(buffer, buffer)
  ELSE counter = CounterFor(command.selectors)

Loading ==
  /\ artifact = command.artifact \/ artifact \in Artifacts
  /\ pc = "load" => FromArtifact /\ buffer \in {command.artifact, artifact}
  /\ pc \in {"parse", "execute", "load"} => counter = Nothing
  /\ pc = "input" => counter # Nothing
  /\ counter # Nothing => Counts

Accepted ==
  /\ pc \in {"execute", "load", "input", "report", "verbose", "budget"} \/ counter # Nothing
       => command.kind # "help" /\ ~Conflict
  /\ HasMeasured => ~UnusableInput

\* What execute returns.
Executed ==
  IF FromStdin THEN StdinResult(CountBytes(ReadBounded(command.limit), Options))
  ELSE [languages |-> command.tokens, files |-> <<>>, skipped |-> <<>>]

Measuring ==
  /\ pc \in {"parse", "execute", "load", "input"} => ~HasMeasured /\ stdout = "nothing"
  /\ pc \in {"report", "verbose", "budget"} => HasMeasured
  /\ pc = "report" => stdout = "nothing"
  /\ pc \in {"verbose", "budget"} => stdout \in {"report", "nothing"}
  /\ HasMeasured => execution = Executed

\* How a run has ended.
Ended ==
  /\ exit = 3 => /\ HasMeasured /\ OverBudget /\ stdout \in {"report", "nothing"}
                 /\ Last(stderr).exceeded_by = MeasuredTokens - command.budget
  /\ exit = 2 => ~HasMeasured /\ stdout = "nothing"
  /\ exit = 0 => \/ stdout = "help"
                 \/ HasMeasured /\ stdout = "cut"
                 \/ HasMeasured /\ stdout # "torn" /\ ~OverBudget
  /\ stdout = "torn" => exit \in {1, Panic}

Inv == TypeInv /\ Loading /\ Accepted /\ Measuring /\ Ended

\* What is said of the arguments stays so.
Frame ==
  /\ (Conflict' <=> Conflict) /\ (UnusableInput' <=> UnusableInput)
  /\ (UnusableView' <=> UnusableView) /\ (FromArtifact' <=> FromArtifact)
  /\ (FromStdin' <=> FromStdin)

LEMMA ArgumentsStay ==
  ASSUME command' = command
  PROVE  Frame
<1>1. InputMode' = InputMode
  BY DEF InputMode
<1>2. (Conflict' <=> Conflict) /\ (FromArtifact' <=> FromArtifact) /\ (UnusableView' <=> UnusableView)
  BY DEF Conflict, FromArtifact, UnusableView
<1>3. FromStdin' <=> FromStdin
  BY <1>1 DEF FromStdin
<1>4. UnusableInput' <=> UnusableInput
  BY <1>1, <1>3 DEF UnusableInput
<1> QED
  BY <1>2, <1>3, <1>4 DEF Frame

\* What has been measured stays, with the counter.
LEMMA MeasuredStays ==
  ASSUME command' = command, UNCHANGED <<counter, execution>>
  PROVE  /\ Executed' = Executed /\ (HasMeasured' <=> HasMeasured)
         /\ (OverBudget' <=> OverBudget) /\ MeasuredTokens' = MeasuredTokens
<1>1. FromStdin' <=> FromStdin
  BY ArgumentsStay DEF Frame
<1>2. ReadBounded(command.limit)' = ReadBounded(command.limit) /\ Options' = Options
  BY DEF ReadBounded, Options
<1>3. CountBytes(ReadBounded(command.limit), Options)' = CountBytes(ReadBounded(command.limit), Options)
  BY <1>2
<1> QED
  BY <1>1, <1>3 DEF Executed, HasMeasured, OverBudget, MeasuredTokens

LEMMA Sentinels ==
  /\ Running \notin Int /\ NoBudget \notin Int /\ Unlimited \notin Int
  /\ Nothing \notin Counters /\ Nothing \notin Executions
<1>1. {Running, NoBudget, Unlimited} \cap Int = {}
  BY CliAssumption
<1>2. Nothing \notin Counters /\ Nothing \notin Executions
  BY CliAssumption
<1> QED
  BY <1>1, <1>2

LEMMA InitInv == Init => Inv
<1> SUFFICES ASSUME Init  PROVE Inv
  OBVIOUS
<1>1. exit = Running /\ exit \notin {0, 1, 2, 3, Panic}
  BY Sentinels DEF Init, Panic
<1>2. TypeInv
  BY <1>1 DEF Init, TypeInv, TypeOK, HasMeasured
<1>3. Loading /\ Accepted /\ Measuring
  BY DEF Init, Loading, Accepted, Measuring, HasMeasured
<1>4. Ended
  BY <1>1 DEF Init, Ended
<1> QED
  BY <1>2, <1>3, <1>4 DEF Inv

-----------------------------------------------------------------------------
(* The steps *)

\* A step that leaves counter and execution alone keeps what was measured, and what it says
\* on the way is a message.
LEMMA KeepsMeasuring ==
  ASSUME Inv, UNCHANGED <<command, loading, execution>>
  PROVE  /\ Frame
         /\ Executed' = Executed /\ (HasMeasured' <=> HasMeasured)
         /\ (OverBudget' <=> OverBudget) /\ MeasuredTokens' = MeasuredTokens
         /\ (Counts' <=> Counts)
<1>1. Frame
  BY ArgumentsStay
<1>2. /\ Executed' = Executed /\ (HasMeasured' <=> HasMeasured)
      /\ (OverBudget' <=> OverBudget) /\ MeasuredTokens' = MeasuredTokens
  BY MeasuredStays DEF loading
<1>3. Counts' <=> Counts
  BY <1>1 DEF Counts, Frame, loading
<1> QED
  BY <1>1, <1>2, <1>3

LEMMA Exits ==
  ASSUME Inv, UNCHANGED <<command, loading, execution>>, pc # "exited", pc' = "exited",
         exit' \in {0, 1, 2, 3, Panic}, stderr' \in Seq(Messages),
         stdout' \in {"nothing", "help", "report", "cut", "torn"}, Ended'
  PROVE  Inv'
<1>1. /\ Frame /\ Executed' = Executed /\ (HasMeasured' <=> HasMeasured)
      /\ (Counts' <=> Counts)
  BY KeepsMeasuring
<1>2. TypeInv'
  BY <1>1, Sentinels DEF Inv, TypeInv, TypeOK, loading, Panic
<1>3. Loading'
  BY <1>1 DEF Inv, Loading, loading, Frame
<1>4. Accepted'
  BY <1>1 DEF Inv, Accepted, loading, Frame
<1>5. Measuring'
  BY <1>1 DEF Inv, Measuring
<1> QED
  BY <1>2, <1>3, <1>4, <1>5 DEF Inv

\* A run that fails, with a message or none.
Failing ==
  /\ pc # "exited" /\ pc' = "exited" /\ exit' \in {1, 2, Panic} /\ stderr' \in Seq(Messages)
  /\ \/ stdout' = stdout
     \/ stdout' = "torn" /\ exit' # 2
  /\ exit' = 2 => ~HasMeasured /\ stdout = "nothing"
  /\ UNCHANGED <<command, loading, execution>>

LEMMA Fails ==
  ASSUME Inv, stdout # "torn", Failing
  PROVE  Inv'
<1>0. UNCHANGED <<command, loading, execution>>
  BY DEF Failing
<1>1. HasMeasured' <=> HasMeasured
  BY <1>0, KeepsMeasuring
<1>2. Ended'
  BY <1>1 DEF Ended, Panic, Failing, Notices
<1>3. stdout' \in {"nothing", "help", "report", "cut", "torn"}
  BY DEF Inv, TypeInv, TypeOK, Failing
<1> QED
  BY <1>0, <1>2, <1>3, Exits DEF Failing

\* What is said are messages.
LEMMA Saying ==
  ASSUME Inv
  PROVE  /\ stderr \in Seq(Messages)
         /\ \A message \in Notices \cup [exceeded_by : Int] : Append(stderr, message) \in Seq(Messages)
<1>1. stderr \in Seq(Messages)
  BY DEF Inv, TypeInv
<1>2. \A message \in Messages : Append(stderr, message) \in Seq(Messages)
  BY <1>1
<1> QED
  BY <1>1, <1>2 DEF Messages

LEMMA FailingSteps ==
  ASSUME Inv,
         \/ ParseFails \/ RefuseView \/ MissingArtifact \/ BrokenArtifact \/ RefuseInput
         \/ ExecuteFails \/ ReportFails \/ SkipsFail \/ BudgetFailureFails
  PROVE  Inv'
<1>1. /\ pc \in {"parse", "execute", "load", "input"} => ~HasMeasured /\ stdout = "nothing"
      /\ pc = "report" => stdout = "nothing"
      /\ pc \in {"verbose", "budget"} => stdout \in {"report", "nothing"}
  BY DEF Inv, Measuring
<1>2. stdout # "torn" /\ Failing
  <2>1. CASE ParseFails
    BY <1>1, <2>1, Saying DEF ParseFails, Exit, Say, Panic, Failing, Notices
  <2>2. CASE RefuseView
    BY <1>1, <2>2, Saying DEF RefuseView, Complain, Exit, Say, Panic, Failing, Notices
  <2>3. CASE MissingArtifact
    BY <1>1, <2>3, Saying DEF MissingArtifact, Complain, Exit, Say, Panic, Failing, Notices
  <2>4. CASE BrokenArtifact
    BY <1>1, <2>4, Saying DEF BrokenArtifact, Complain, Exit, Say, Panic, Failing, Notices
  <2>5. CASE RefuseInput
    BY <1>1, <2>5, Saying DEF RefuseInput, Complain, Exit, Say, Panic, Failing, Notices
  <2>6. CASE ExecuteFails
    BY <1>1, <2>6, Saying DEF ExecuteFails, Complain, Exit, Say, Panic, Failing, Notices
  <2>7. CASE ReportFails
    <3>1. stderr' \in Seq(Messages)
      BY <2>7, Saying DEF ReportFails, Complain, Say, Notices
    <3>2. pc # "exited" /\ pc' = "exited" /\ stdout # "torn"
      BY <1>1, <2>7 DEF ReportFails, Complain, Exit
    <3>3. exit' \in {1, Panic} /\ exit' # 2
      <4>1. exit' = 1 \/ exit' = Panic
        BY <2>7 DEF ReportFails, Complain, Exit
      <4> QED
        BY <4>1 DEF Panic
    <3>4. UNCHANGED <<command, loading, execution>> /\ stdout' \in {stdout, "torn"}
      BY <2>7 DEF ReportFails
    <3> QED
      BY <3>1, <3>2, <3>3, <3>4 DEF Failing
  <2>8. CASE SkipsFail
    <3>1. stderr' \in Seq(Messages)
      BY <2>8, Saying DEF SkipsFail, Complain, Say, Notices
    <3>2. pc # "exited" /\ pc' = "exited" /\ stdout # "torn"
      BY <1>1, <2>8 DEF SkipsFail, Complain, Exit
    <3>3. exit' \in {1, Panic} /\ exit' # 2
      <4>1. exit' = 1 \/ exit' = Panic
        BY <2>8 DEF SkipsFail, Complain, Exit
      <4> QED
        BY <4>1 DEF Panic
    <3>4. UNCHANGED <<command, loading, execution>> /\ stdout' \in {stdout, "torn"}
      BY <2>8 DEF SkipsFail
    <3> QED
      BY <3>1, <3>2, <3>3, <3>4 DEF Failing
  <2>9. CASE BudgetFailureFails
    <3>1. stderr' \in Seq(Messages)
      BY <2>9, Saying DEF BudgetFailureFails, Complain, Say, Notices
    <3>2. pc # "exited" /\ pc' = "exited" /\ stdout # "torn"
      BY <1>1, <2>9 DEF BudgetFailureFails, Complain, Exit
    <3>3. exit' \in {1, Panic} /\ exit' # 2
      <4>1. exit' = 1 \/ exit' = Panic
        BY <2>9 DEF BudgetFailureFails, Complain, Exit
      <4> QED
        BY <4>1 DEF Panic
    <3>4. UNCHANGED <<command, loading, execution>> /\ stdout' \in {stdout, "torn"}
      BY <2>9 DEF BudgetFailureFails
    <3> QED
      BY <3>1, <3>2, <3>3, <3>4 DEF Failing
  <2> QED
    BY <2>1, <2>2, <2>3, <2>4, <2>5, <2>6, <2>7, <2>8, <2>9
<1> QED
  BY <1>2, Fails

-----------------------------------------------------------------------------
(* What execute returns *)

LEMMA TotalNatural ==
  ASSUME NEW numbers \in Seq(Nat)
  PROVE  Total(numbers) \in Nat
<1>1. PICK n \in Nat : DOMAIN numbers = 1 .. n /\ \A i \in 1 .. n : numbers[i] \in Nat
  OBVIOUS
<1>2. Weighs(numbers, 1 .. n) /\ \A i \in 1 .. n : numbers[i] >= 0
  BY <1>1, UptoIsFinite DEF Weighs
<1>3. Total(numbers) = SumOver(numbers, 1 .. n) /\ SumOver(numbers, 1 .. n) \in Int
  BY <1>1, <1>2, TotalIs, SumType
<1>4. 1 .. n \in SUBSET (1 .. n)
  OBVIOUS
<1>5. 0 =< SumOver(numbers, 1 .. n)
  BY <1>2, <1>4, SumPart
<1> QED
  BY <1>3, <1>5

LEMMA SkippedTyped ==
  ASSUME NEW skip \in ByteSkips
  PROVE  [languages |-> <<>>, files |-> <<>>, skipped |-> <<skip>>] \in Executions
BY DEF Executions

LEMMA ResultTyped ==
  ASSUME NEW bytes \in Seq(Int), counter \in Counters, command \in Commands,
         NEW outcome, Oversized(bytes, outcome) \/ Refused(bytes, outcome) \/ Counted(bytes, outcome)
  PROVE  StdinResult(outcome) \in Executions
<1>1. CASE Oversized(bytes, outcome) \/ Refused(bytes, outcome)
  <2>1. PICK reason \in {"oversized", "unsupported encoding", "binary", "invalid UTF-8"},
             detail \in {"none", "UTF-32LE", "UTF-32BE", "UTF-16LE", "UTF-16BE"} :
               outcome = [reason |-> reason, detail |-> detail]
    BY <1>1 DEF Oversized, Refused
  <2>2. outcome \in ByteSkips
    BY <2>1 DEF ByteSkips
  <2>3. "tokens" \notin DOMAIN outcome
    BY <2>1
  <2>4. PICK skip \in ByteSkips : skip = outcome
    BY <2>2
  <2>5. StdinResult(skip) = [languages |-> <<>>, files |-> <<>>, skipped |-> <<skip>>]
    BY <2>3, <2>4 DEF StdinResult
  <2> QED
    BY <2>4, <2>5, SkippedTyped
<1>2. CASE Counted(bytes, outcome)
  <2>1. PICK tokens \in Nat : tokens = TokensOf(bytes, counter.definition)
    BY <1>2 DEF Counted
  <2>2. PICK text_policy \in {"normalized", "literal"} :
          text_policy = IF command.normalize THEN "normalized" ELSE "literal"
    OBVIOUS
  <2>3. PICK lossy \in BOOLEAN : lossy = (Invalids(bytes) # {})
    OBVIOUS
  <2>4. PICK l \in Nat : l = Len(bytes)
    OBVIOUS
  <2>5. outcome = [tokens |-> tokens, bytes |-> l, decoded_lossily |-> lossy,
                   fingerprint |-> counter.fingerprint, text_policy |-> text_policy,
                   invalid_utf8 |-> command.invalid_utf8]
    BY <1>2, <2>1, <2>2, <2>3, <2>4 DEF Counted
  <2>6. counter.fingerprint \in Fingerprints
    BY DEF Counters
  <2>7. command.invalid_utf8 \in {"skip", "lossy"}
    BY CliAssumption
  <2>8. outcome \in ByteCounts /\ "tokens" \in DOMAIN outcome /\ outcome.tokens = tokens
    BY <2>5, <2>6, <2>7 DEF ByteCounts
  <2>9. StdinResult(outcome) = [languages |-> <<tokens>>, files |-> <<outcome>>, skipped |-> <<>>]
    BY <2>8 DEF StdinResult
  <2>10. <<outcome>> \in Seq(ByteCounts) /\ <<tokens>> \in Seq(Nat)
    BY <2>8
  <2> QED
    BY <2>9, <2>10 DEF Executions
<1> QED
  BY <1>1, <1>2

LEMMA ExecutedTyped ==
  ASSUME command \in Commands, ~Conflict, counter \in Counters
  PROVE  Executed \in Executions
<1>1. CASE FromStdin
  <2>1. PICK bytes \in Seq(Int) : bytes = ReadBounded(command.limit)
    BY ReadBoundedIs
  <2>2. PICK outcome : outcome = CountBytes(bytes, Options)
    OBVIOUS
  <2>3. Oversized(bytes, outcome) \/ Refused(bytes, outcome) \/ Counted(bytes, outcome)
    BY <2>2, CountBytesIs
  <2>4. StdinResult(outcome) \in Executions
    BY <2>3, ResultTyped
  <2> QED
    BY <1>1, <2>1, <2>2, <2>4 DEF Executed
<1>2. CASE ~FromStdin
  <2>1. command.tokens \in Seq(Nat)
    BY CliAssumption
  <2>2. Executed = [languages |-> command.tokens, files |-> <<>>, skipped |-> <<>>]
    BY <1>2 DEF Executed
  <2> QED
    BY <2>1, <2>2 DEF Executions
<1> QED
  BY <1>1, <1>2

\* The counters of what was selected.
LEMMA SelectedCounter ==
  ASSUME ~Conflict
  PROVE  CounterFor(command.selectors) \in Counters
<1>1. PICK selectors : selectors = command.selectors
  OBVIOUS
<1>2. /\ selectors.encoding # None => FromStr(selectors.encoding) \in Nat
      /\ selectors.model # None => ForModel(selectors.model) \in Nat
  <2>1. FromStr(selectors.encoding) \in {O200kBase, Cl100kBase, None}
    BY DEF FromStr
  <2>2. ForModel(selectors.model) \in {O200kBase, Cl100kBase, None}
    BY DEF ForModel
  <2> QED
    BY <1>1, <2>1, <2>2 DEF Conflict, O200kBase, Cl100kBase
<1>3. PICK encoding : encoding = IF selectors.model # None THEN ForModel(selectors.model)
                                 ELSE IF selectors.encoding # None THEN FromStr(selectors.encoding)
                                 ELSE O200kBase
  OBVIOUS
<1>4. encoding \in Nat
  BY <1>2, <1>3 DEF O200kBase
<1>5. CounterFor(selectors) = BuiltinCounter(encoding)
  BY <1>3 DEF CounterFor
<1> QED
  BY <1>1, <1>4, <1>5 DEF BuiltinCounter, Counters, Fingerprints

LEMMA LoadedCounter ==
  ASSUME NEW bytes \in Nat
  PROVE  ArtifactCounter(bytes, bytes) \in Counters
BY DEF ArtifactCounter, Counters, Fingerprints

-----------------------------------------------------------------------------
(* The other steps *)

LEMMA ParsesInv ==
  ASSUME Inv, Parses
  PROVE  Inv'
<1>1. UNCHANGED <<command, loading, execution, stdout, stderr, exit>> /\ pc = "parse" /\ pc' = "execute"
      /\ command.kind # "help" /\ ~Conflict
  BY DEF Parses, Goto
<1>2. /\ Frame /\ Executed' = Executed /\ (HasMeasured' <=> HasMeasured) /\ (OverBudget' <=> OverBudget)
      /\ MeasuredTokens' = MeasuredTokens /\ (Counts' <=> Counts)
  BY <1>1, KeepsMeasuring
<1>3. TypeInv'
  BY <1>1, <1>2 DEF Inv, TypeInv, TypeOK, loading
<1>4. Loading'
  BY <1>1, <1>2 DEF Inv, Loading, loading, Frame
<1>5. Accepted' /\ Measuring'
  BY <1>1, <1>2 DEF Inv, Accepted, Measuring, Frame, loading
<1>6. Ended'
  BY <1>1, <1>2 DEF Inv, Ended
<1> QED
  BY <1>3, <1>4, <1>5, <1>6 DEF Inv

LEMMA SelectBuiltinInv ==
  ASSUME Inv, SelectBuiltin
  PROVE  Inv'
<1>1. UNCHANGED <<command, artifact, buffer, execution, stdout, stderr, exit>>
      /\ pc = "execute" /\ pc' = "input" /\ ~FromArtifact /\ counter' = CounterFor(command.selectors)
  BY DEF SelectBuiltin, Goto
<1>2. Frame
  BY <1>1, ArgumentsStay
<1>3. ~HasMeasured /\ ~HasMeasured' /\ stdout = "nothing"
  BY <1>1 DEF Inv, Measuring, HasMeasured
<1>4. ~Conflict /\ command.kind # "help"
  BY <1>1 DEF Inv, Accepted
<1>5. counter' \in Counters /\ counter' # Nothing
  BY <1>1, <1>4, SelectedCounter, Sentinels
<1>6. TypeInv'
  BY <1>1, <1>3, <1>5 DEF Inv, TypeInv, TypeOK
<1>7. Counts'
  BY <1>1, <1>2 DEF Counts, Frame
<1>8. Loading'
  BY <1>1, <1>2, <1>5, <1>7 DEF Inv, Loading, Frame
<1>9. Accepted' /\ Measuring'
  BY <1>1, <1>2, <1>3, <1>4 DEF Inv, Accepted, Measuring, Frame
<1>10. Ended'
  <2>1. exit = Running /\ Running \notin {0, 1, 2, 3, Panic}
    BY <1>1, Sentinels DEF Inv, TypeInv, TypeOK, Panic
  <2> QED
    BY <1>1, <1>3, <2>1 DEF Ended
<1> QED
  BY <1>6, <1>8, <1>9, <1>10 DEF Inv

LEMMA ReadArtifactInv ==
  ASSUME Inv, ReadArtifact
  PROVE  Inv'
<1>1. UNCHANGED <<command, artifact, counter, execution, stdout, stderr, exit>>
      /\ pc = "execute" /\ pc' = "load" /\ FromArtifact /\ buffer' = artifact
  BY DEF ReadArtifact, Goto
<1>2. Frame
  BY <1>1, ArgumentsStay
<1>3. ~HasMeasured /\ ~HasMeasured' /\ stdout = "nothing" /\ counter = Nothing
  BY <1>1 DEF Inv, Measuring, HasMeasured, Loading
<1>4. TypeInv'
  BY <1>1, <1>3 DEF Inv, TypeInv, TypeOK
<1>5. Loading'
  BY <1>1, <1>2, <1>3 DEF Inv, Loading, Frame
<1>6. Accepted' /\ Measuring'
  BY <1>1, <1>2, <1>3 DEF Inv, Accepted, Measuring, Frame
<1>7. Ended'
  <2>1. exit = Running /\ Running \notin {0, 1, 2, 3, Panic}
    BY <1>1, Sentinels DEF Inv, TypeInv, TypeOK, Panic
  <2> QED
    BY <1>1, <1>3, <2>1 DEF Ended
<1> QED
  BY <1>4, <1>5, <1>6, <1>7 DEF Inv

LEMMA BuildCounterInv ==
  ASSUME Inv, BuildCounter
  PROVE  Inv'
<1>1. UNCHANGED <<command, artifact, buffer, execution, stdout, stderr, exit>>
      /\ pc = "load" /\ pc' = "input" /\ counter' = ArtifactCounter(buffer, buffer) /\ Loads(buffer)
  BY DEF BuildCounter, Goto
<1>2. Frame
  BY <1>1, ArgumentsStay
<1>3. ~HasMeasured /\ ~HasMeasured' /\ stdout = "nothing"
  BY <1>1 DEF Inv, Measuring, HasMeasured
<1>4. ~Conflict /\ command.kind # "help"
  BY <1>1 DEF Inv, Accepted
<1>5. counter' \in Counters /\ counter' # Nothing
  <2>1. buffer \in {command.artifact, artifact}
    BY <1>1 DEF Inv, Loading
  <2>2. artifact = command.artifact \/ artifact \in Artifacts
    BY DEF Inv, Loading
  <2>3. command.artifact \in Int /\ Artifacts \subseteq Int
    <3>1. command \in Commands
      BY DEF Inv, TypeInv
    <3> QED
      BY <3>1, CliAssumption
  <2>4. artifact \in Int
    BY <2>2, <2>3
  <2>5. buffer \in Int
    BY <2>1, <2>3, <2>4
  <2>6. buffer \in Nat
    BY <1>1, <2>5 DEF Loads
  <2> QED
    BY <1>1, <2>6, LoadedCounter, Sentinels
<1>6. TypeInv'
  BY <1>1, <1>3, <1>5 DEF Inv, TypeInv, TypeOK
<1>7. Counts'
  BY <1>1, <1>2 DEF Counts, Frame, Inv, Loading
<1>8. Loading'
  BY <1>1, <1>2, <1>5, <1>7 DEF Inv, Loading, Frame
<1>9. Accepted' /\ Measuring'
  BY <1>1, <1>2, <1>3, <1>4 DEF Inv, Accepted, Measuring, Frame
<1>10. Ended'
  <2>1. exit = Running /\ Running \notin {0, 1, 2, 3, Panic}
    BY <1>1, Sentinels DEF Inv, TypeInv, TypeOK, Panic
  <2> QED
    BY <1>1, <1>3, <2>1 DEF Ended
<1> QED
  BY <1>6, <1>8, <1>9, <1>10 DEF Inv

LEMMA ReplaceArtifactInv ==
  ASSUME Inv, ReplaceArtifact
  PROVE  Inv'
<1>1. UNCHANGED <<command, pc, buffer, counter, execution, stdout, stderr, exit>>
      /\ pc \in {"parse", "execute", "load"} /\ artifact' \in Artifacts /\ artifact = command.artifact
  BY DEF ReplaceArtifact
<1>2. Frame
  BY <1>1, ArgumentsStay
<1>3. counter = Nothing /\ ~HasMeasured /\ ~HasMeasured' /\ stdout = "nothing"
  BY <1>1 DEF Inv, Measuring, HasMeasured, Loading
<1>4. TypeInv'
  BY <1>1, <1>3 DEF Inv, TypeInv, TypeOK
<1>5. Loading'
  BY <1>1, <1>2, <1>3 DEF Inv, Loading, Frame
<1>6. Accepted' /\ Measuring'
  BY <1>1, <1>2, <1>3 DEF Inv, Accepted, Measuring, Frame
<1>7. Ended'
  <2>1. exit = Running /\ Running \notin {0, 1, 2, 3, Panic}
    BY <1>1, Sentinels DEF Inv, TypeInv, TypeOK, Panic
  <2> QED
    BY <1>1, <1>3, <2>1 DEF Ended
<1> QED
  BY <1>4, <1>5, <1>6, <1>7 DEF Inv

LEMMA ExecuteInv ==
  ASSUME Inv, Execute \/ ExecuteStdin
  PROVE  Inv'
<1>1. UNCHANGED <<command, artifact, buffer, counter, stdout, stderr, exit>>
      /\ pc = "input" /\ pc' = "report" /\ ~UnusableInput
  BY DEF Execute, ExecuteStdin, Goto, loading
<1>2. execution' = Executed
  BY DEF Execute, ExecuteStdin, Executed
<1>3. Frame
  BY <1>1, ArgumentsStay
<1>4. Executed' = Executed
  <2>1. ReadBounded(command.limit)' = ReadBounded(command.limit) /\ Options' = Options
    BY <1>1 DEF ReadBounded, Options
  <2>2. CountBytes(ReadBounded(command.limit), Options)' = CountBytes(ReadBounded(command.limit), Options)
    BY <2>1
  <2>3. FromStdin' <=> FromStdin
    BY <1>3 DEF Frame
  <2> QED
    BY <1>1, <2>2, <2>3 DEF Executed
<1>5. counter # Nothing /\ counter \in Counters
  BY <1>1 DEF Inv, Loading, TypeInv, TypeOK
<1>6. ~Conflict /\ command.kind # "help" /\ command \in Commands
  BY <1>1 DEF Inv, Accepted, TypeInv
<1>7. execution' \in Executions /\ HasMeasured'
  BY <1>2, <1>5, <1>6, ExecutedTyped, Sentinels DEF HasMeasured
<1>8. stdout = "nothing"
  BY <1>1 DEF Inv, Measuring
<1>9. TypeInv'
  BY <1>1, <1>5, <1>7 DEF Inv, TypeInv, TypeOK
<1>10. Counts' <=> Counts
  BY <1>1, <1>3 DEF Counts, Frame
<1>11. Loading'
  BY <1>1, <1>3, <1>10 DEF Inv, Loading, Frame
<1>12. Accepted'
  BY <1>1, <1>3, <1>6 DEF Accepted, Frame
<1>13. Measuring'
  BY <1>1, <1>2, <1>4, <1>7, <1>8 DEF Measuring
<1>14. Ended'
  <2>1. exit = Running /\ Running \notin {0, 1, 2, 3, Panic}
    BY <1>1, Sentinels DEF Inv, TypeInv, TypeOK, Panic
  <2> QED
    BY <1>1, <1>8, <2>1 DEF Ended
<1> QED
  BY <1>9, <1>11, <1>12, <1>13, <1>14 DEF Inv

LEMMA WritingInv ==
  ASSUME Inv, WriteReport \/ WriteSkips
  PROVE  Inv'
<1>1. /\ UNCHANGED <<command, loading, execution, exit>>
      /\ \/ pc = "report" /\ pc' = "verbose" /\ stdout' \in {"report", "nothing"}
         \/ pc = "verbose" /\ pc' = "budget" /\ stdout' = stdout
  BY DEF WriteReport, WriteSkips, Goto
<1>2. stderr' \in Seq(Messages)
  BY Saying DEF WriteReport, WriteSkips, Say, Notices
<1>3. /\ Frame /\ Executed' = Executed /\ (HasMeasured' <=> HasMeasured)
      /\ (Counts' <=> Counts)
  BY <1>1, KeepsMeasuring
<1>4. HasMeasured /\ stdout \in {"report", "nothing"} /\ exit = Running
  BY <1>1 DEF Inv, Measuring, TypeInv, TypeOK
<1>5. stdout' \in {"report", "nothing"}
  BY <1>1, <1>4
<1>6. TypeInv'
  BY <1>1, <1>2, <1>3, <1>5 DEF Inv, TypeInv, TypeOK, loading
<1>7. Loading'
  BY <1>1, <1>3 DEF Inv, Loading, loading, Frame
<1>8. Accepted'
  BY <1>1, <1>3 DEF Inv, Accepted, loading, Frame
<1>9. Measuring'
  BY <1>1, <1>3, <1>5 DEF Inv, Measuring
<1>10. Ended'
  <2>1. Running \notin {0, 1, 2, 3, Panic}
    BY Sentinels DEF Panic
  <2> QED
    BY <1>1, <1>4, <1>5, <2>1 DEF Ended
<1> QED
  BY <1>6, <1>7, <1>8, <1>9, <1>10 DEF Inv

LEMMA EndingInv ==
  ASSUME Inv, ShowHelp \/ BrokenPipe \/ Succeed \/ BudgetFailure
  PROVE  Inv'
<1>1. pc # "exited" /\ pc' = "exited" /\ UNCHANGED <<command, loading, execution>>
  BY DEF ShowHelp, BrokenPipe, Succeed, BudgetFailure, Exit
<1>2. /\ (HasMeasured' <=> HasMeasured) /\ (OverBudget' <=> OverBudget) /\ MeasuredTokens' = MeasuredTokens
      /\ command' = command
  BY <1>1, KeepsMeasuring
<1>3. /\ pc \in {"report", "budget"} => HasMeasured
      /\ pc = "budget" => stdout \in {"report", "nothing"}
  BY DEF Inv, Measuring
<1>4. stdout \in {"nothing", "help", "report", "cut", "torn"} /\ stderr \in Seq(Messages)
  BY DEF Inv, TypeInv, TypeOK
<1>5. CASE ShowHelp
  <2>1. exit' = 0 /\ stdout' = "help" /\ stderr' = stderr
    BY <1>5 DEF ShowHelp, Exit
  <2>2. Ended'
    BY <2>1 DEF Ended
  <2> QED
    BY <1>1, <1>4, <2>1, <2>2, Exits
<1>6. CASE BrokenPipe
  <2>1. exit' = 0 /\ stdout' = "cut" /\ stderr' = stderr /\ HasMeasured
    BY <1>3, <1>6 DEF BrokenPipe, Exit
  <2>2. Ended'
    BY <1>2, <2>1 DEF Ended
  <2> QED
    BY <1>1, <1>4, <2>1, <2>2, Exits
<1>7. CASE Succeed
  <2>1. exit' = 0 /\ stdout' = stdout /\ stderr' = stderr /\ HasMeasured /\ ~OverBudget
        /\ stdout \in {"report", "nothing"}
    BY <1>3, <1>7 DEF Succeed, Exit
  <2>2. Ended'
    BY <1>2, <2>1 DEF Ended
  <2> QED
    BY <1>1, <1>4, <2>1, <2>2, Exits
<1>8. CASE BudgetFailure
  <2>1. exit' = 3 /\ stdout' = stdout /\ HasMeasured /\ OverBudget /\ stdout \in {"report", "nothing"}
        /\ stderr' = Append(stderr, [exceeded_by |-> MeasuredTokens - command.budget])
    BY <1>3, <1>8 DEF BudgetFailure, Exit, Say
  <2>2. PICK excess : excess = MeasuredTokens - command.budget
    OBVIOUS
  <2>3. excess \in Int
    <3>1. MeasuredTokens \in Int
      <4>1. execution \in Executions
        BY <2>1 DEF Inv, TypeInv, TypeOK, HasMeasured
      <4>2. execution.languages \in Seq(Nat)
        BY <4>1 DEF Executions
      <4> QED
        BY <4>2, TotalNatural DEF MeasuredTokens
    <3>2. command \in Commands
      BY DEF Inv, TypeInv
    <3>3. command.budget \in Int
      BY <2>1, <3>2, CliAssumption DEF OverBudget
    <3> QED
      BY <2>2, <3>1, <3>3
  <2>4. PICK message : message = [exceeded_by |-> excess]
    OBVIOUS
  <2>5. message \in [exceeded_by : Int] /\ message.exceeded_by = excess
    BY <2>3, <2>4
  <2>6. stderr' \in Seq(Messages) /\ stderr' = Append(stderr, message)
    BY <2>1, <2>2, <2>4, <2>5, Saying
  <2>7. Last(stderr') = message
    <3>1. PICK said \in Seq(Messages) : said = stderr
      BY <1>4
    <3>2. message \in Messages
      BY <2>5 DEF Messages
    <3>3. Len(Append(said, message)) = Len(said) + 1 /\ Append(said, message)[Len(said) + 1] = message
      BY <3>1, <3>2
    <3> QED
      BY <2>6, <3>1, <3>3 DEF Last
  <2>8. Ended'
    BY <1>2, <2>1, <2>2, <2>5, <2>7 DEF Ended
  <2> QED
    BY <1>1, <1>4, <2>1, <2>6, <2>8, Exits
<1> QED
  BY <1>5, <1>6, <1>7, <1>8

LEMMA StutterInv ==
  ASSUME Inv, UNCHANGED vars
  PROVE  Inv'
<1>1. UNCHANGED <<command, loading, execution>> /\ UNCHANGED <<pc, stdout, stderr, exit>>
  BY DEF vars
<1>2. /\ Frame /\ Executed' = Executed /\ (HasMeasured' <=> HasMeasured) /\ (OverBudget' <=> OverBudget)
      /\ MeasuredTokens' = MeasuredTokens /\ (Counts' <=> Counts)
  BY <1>1, KeepsMeasuring
<1>3. TypeInv'
  BY <1>1, <1>2 DEF Inv, TypeInv, TypeOK, loading
<1>4. Loading'
  BY <1>1, <1>2 DEF Inv, Loading, loading, Frame
<1>5. Accepted' /\ Measuring'
  BY <1>1, <1>2 DEF Inv, Accepted, Measuring, Frame, loading
<1>6. Ended'
  BY <1>1, <1>2 DEF Inv, Ended
<1> QED
  BY <1>3, <1>4, <1>5, <1>6 DEF Inv

\* The invariant of one run of the command.
THEOREM CliInv == Spec => []Inv
<1>1. Init => Inv
  BY InitInv
<1>2. ASSUME Inv, [Next]_vars  PROVE Inv'
  <2>1. CASE \/ ParseFails \/ RefuseView \/ MissingArtifact \/ BrokenArtifact \/ RefuseInput
             \/ ExecuteFails \/ ReportFails \/ SkipsFail \/ BudgetFailureFails
    BY <1>2, <2>1, FailingSteps
  <2>2. CASE Parses
    BY <1>2, <2>2, ParsesInv
  <2>3. CASE SelectBuiltin
    BY <1>2, <2>3, SelectBuiltinInv
  <2>4. CASE ReadArtifact
    BY <1>2, <2>4, ReadArtifactInv
  <2>5. CASE BuildCounter
    BY <1>2, <2>5, BuildCounterInv
  <2>6. CASE ReplaceArtifact
    BY <1>2, <2>6, ReplaceArtifactInv
  <2>7. CASE Execute \/ ExecuteStdin
    BY <1>2, <2>7, ExecuteInv
  <2>8. CASE WriteReport \/ WriteSkips
    BY <1>2, <2>8, WritingInv
  <2>9. CASE ShowHelp \/ BrokenPipe \/ Succeed \/ BudgetFailure
    BY <1>2, <2>9, EndingInv
  <2>10. CASE Exited \/ UNCHANGED vars
    BY <1>2, <2>10, StutterInv DEF Exited
  <2> QED
    BY <1>2, <2>1, <2>2, <2>3, <2>4, <2>5, <2>6, <2>7, <2>8, <2>9, <2>10 DEF Next
<1> QED
  BY <1>1, <1>2, PTL DEF Spec

\* The type invariant of the command line holds; a command has exited exactly when it has
\* an exit code, and it has measured only with a counter (main, execute).
THEOREM CliTypeCorrect == Spec => []TypeOK
<1>1. Inv => TypeOK
  BY DEF Inv, TypeInv
<1> QED
  BY <1>1, CliInv, PTL

-----------------------------------------------------------------------------
(* Standard input *)

LEMMA ElementsOfOne ==
  ASSUME NEW x
  PROVE  ToSet(<<x>>) = {x} /\ ToSet(<<>>) = {}
BY DEF ToSet

\* The counter of what was selected, whose identity is its own.
LEMMA CounterIs ==
  ASSUME Inv, HasMeasured
  PROVE  /\ counter \in Counters /\ Definition = counter.definition
         /\ counter.fingerprint.definition = counter.definition
         /\ command \in Commands /\ ~Conflict /\ execution = Executed /\ ~UnusableInput
         /\ IF FromArtifact
            THEN counter.fingerprint.kind = "artifact" /\ counter.definition \in {command.artifact, artifact}
            ELSE counter = CounterFor(command.selectors)
<1>1. counter \in Counters /\ counter # Nothing /\ Counts /\ command \in Commands /\ execution = Executed
      /\ ~UnusableInput
  BY DEF Inv, TypeInv, TypeOK, Loading, Measuring, Accepted
<1>2. ~Conflict
  BY <1>1 DEF Inv, Accepted
<1>3. CASE FromArtifact
  BY <1>1, <1>2, <1>3 DEF Counts, ArtifactCounter, Definition
<1>4. CASE ~FromArtifact
  <2>1. counter = CounterFor(command.selectors)
    BY <1>1, <1>4 DEF Counts
  <2>2. \A encoding : BuiltinCounter(encoding).fingerprint.definition = BuiltinCounter(encoding).definition
    BY DEF BuiltinCounter
  <2>3. counter.fingerprint.definition = counter.definition
    BY <2>1, <2>2 DEF CounterFor
  <2> QED
    BY <1>1, <1>2, <1>4, <2>1, <2>3 DEF Definition
<1> QED
  BY <1>3, <1>4

\* What comes of standard input.
StdinOversized ==
  /\ ~Admits(command.limit, Len(command.stdin))
  /\ execution = [languages |-> <<>>, files |-> <<>>,
                  skipped |-> <<[reason |-> "oversized", detail |-> "none"]>>]
StdinRefused(reason, detail) ==
  /\ Admits(command.limit, Len(command.stdin)) /\ reason # "oversized"
  /\ SkipsFor(command.stdin) = {<<reason, detail>>}
  /\ execution = [languages |-> <<>>, files |-> <<>>,
                  skipped |-> <<[reason |-> reason, detail |-> detail]>>]
StdinMeasured(file) ==
  /\ Admits(command.limit, Len(command.stdin)) /\ SkipsFor(command.stdin) = {}
  /\ TokensOf(command.stdin, Definition) \in Nat
  /\ execution = [languages |-> <<file.tokens>>, files |-> <<file>>, skipped |-> <<>>]
  /\ file.tokens = TokensOf(command.stdin, Definition)
  /\ file.bytes = Len(command.stdin)
  /\ file.decoded_lossily = (Invalids(command.stdin) # {})
  /\ file.fingerprint = counter.fingerprint

LEMMA StdinIs ==
  ASSUME Inv, HasMeasured, FromStdin
  PROVE  \/ StdinOversized
         \/ \E reason, detail : StdinRefused(reason, detail)
         \/ \E file : StdinMeasured(file)
<1>1. /\ counter \in Counters /\ Definition = counter.definition /\ command \in Commands
      /\ ~Conflict /\ execution = Executed
  BY CounterIs
<1>2. PICK bytes \in Seq(Int) : bytes = ReadBounded(command.limit)
  BY <1>1, ReadBoundedIs
<1>3. /\ Admits(command.limit, Len(command.stdin)) => bytes = command.stdin
      /\ ~Admits(command.limit, Len(command.stdin)) => ~Admits(command.limit, Len(bytes))
  BY <1>1, <1>2, ReadBoundedIs
<1>4. PICK outcome : outcome = CountBytes(bytes, Options)
  OBVIOUS
<1>5. Oversized(bytes, outcome) \/ Refused(bytes, outcome) \/ Counted(bytes, outcome)
  BY <1>1, <1>4, CountBytesIs
<1>6. execution = StdinResult(outcome)
  BY <1>1, <1>2, <1>4 DEF Executed
<1>7. CASE Oversized(bytes, outcome)
  <2>1. outcome = [reason |-> "oversized", detail |-> "none"] /\ ~Admits(command.limit, Len(command.stdin))
    BY <1>3, <1>7 DEF Oversized
  <2>2. "tokens" \notin DOMAIN outcome
    BY <2>1
  <2>3. execution = [languages |-> <<>>, files |-> <<>>, skipped |-> <<outcome>>]
    BY <1>6, <2>2 DEF StdinResult
  <2> QED
    BY <2>1, <2>3 DEF StdinOversized
<1>8. CASE Refused(bytes, outcome)
  <2>1. Admits(command.limit, Len(command.stdin)) /\ bytes = command.stdin
    BY <1>3, <1>8 DEF Refused
  <2>2. PICK reason \in {"unsupported encoding", "binary", "invalid UTF-8"},
             detail \in {"none", "UTF-32LE", "UTF-32BE", "UTF-16LE", "UTF-16BE"} :
               SkipsFor(bytes) = {<<reason, detail>>} /\ outcome = [reason |-> reason, detail |-> detail]
    BY <1>8 DEF Refused
  <2>3. "tokens" \notin DOMAIN outcome /\ reason # "oversized"
    BY <2>2
  <2>4. execution = [languages |-> <<>>, files |-> <<>>, skipped |-> <<outcome>>]
    BY <1>6, <2>3 DEF StdinResult
  <2>5. StdinRefused(reason, detail)
    BY <2>1, <2>2, <2>3, <2>4 DEF StdinRefused
  <2> QED
    BY <2>5
<1>9. CASE Counted(bytes, outcome)
  <2>1. Admits(command.limit, Len(command.stdin)) /\ bytes = command.stdin
    BY <1>3, <1>9 DEF Counted
  <2>2. PICK text_policy : text_policy = IF command.normalize THEN "normalized" ELSE "literal"
    OBVIOUS
  <2>3. PICK lossy : lossy = (Invalids(bytes) # {})
    OBVIOUS
  <2>4. PICK tokens \in Nat : tokens = TokensOf(bytes, counter.definition)
    BY <1>9 DEF Counted
  <2>5. outcome = [tokens |-> tokens, bytes |-> Len(bytes), decoded_lossily |-> lossy,
                   fingerprint |-> counter.fingerprint, text_policy |-> text_policy,
                   invalid_utf8 |-> command.invalid_utf8]
    BY <1>9, <2>2, <2>3, <2>4 DEF Counted
  <2>6. /\ "tokens" \in DOMAIN outcome /\ outcome.tokens = tokens /\ outcome.bytes = Len(bytes)
        /\ outcome.decoded_lossily = lossy /\ outcome.fingerprint = counter.fingerprint
    BY <2>5
  <2>7. execution = [languages |-> <<outcome.tokens>>, files |-> <<outcome>>, skipped |-> <<>>]
    BY <1>6, <2>6 DEF StdinResult
  <2>8. SkipsFor(bytes) = {}
    BY <1>9 DEF Counted
  <2>9. StdinMeasured(outcome)
    BY <1>1, <2>1, <2>3, <2>4, <2>6, <2>7, <2>8 DEF StdinMeasured
  <2> QED
    BY <2>9
<1> QED
  BY <1>5, <1>7, <1>8, <1>9

\* Standard input within the limit is measured or skipped as its bytes say: the most
\* specific encoding is named, a zero byte is seen only where it is looked for, and
\* otherwise every character is counted once, a pair of \r\n as one line end and a
\* leading mark as none when normalised (decode, normalize, count_bytes).
THEOREM CliStdinCounted == Spec => []StdinCounted
<1>1. Inv => StdinCounted
  <2> SUFFICES ASSUME Inv, FromStdin, HasMeasured, Admits(command.limit, Len(command.stdin))
               PROVE  StdinCounted
    BY DEF StdinCounted
  <2>1. ~StdinOversized
    BY DEF StdinOversized
  <2>2. ASSUME NEW reason, NEW detail, StdinRefused(reason, detail)  PROVE StdinCounted
    <3>1. PICK skip : skip = [reason |-> reason, detail |-> detail]
      OBVIOUS
    <3>2. execution = [languages |-> <<>>, files |-> <<>>, skipped |-> <<skip>>]
          /\ SkipsFor(command.stdin) = {<<reason, detail>>}
      BY <2>2, <3>1 DEF StdinRefused
    <3>3. ToSet(execution.skipped) = {skip}
      BY <3>2, ElementsOfOne
    <3>4. {<<one.reason, one.detail>> : one \in ToSet(execution.skipped)} = {<<reason, detail>>}
      BY <3>1, <3>3
    <3> QED
      BY <3>2, <3>4 DEF StdinCounted
  <2>3. ASSUME NEW file, StdinMeasured(file)  PROVE StdinCounted
    <3>1. /\ SkipsFor(command.stdin) = {}
          /\ execution = [languages |-> <<file.tokens>>, files |-> <<file>>, skipped |-> <<>>]
          /\ file.tokens = TokensOf(command.stdin, Definition)
          /\ file.decoded_lossily = (Invalids(command.stdin) # {})
      BY <2>3 DEF StdinMeasured
    <3>2. ToSet(execution.files) = {file}
      BY <3>1, ElementsOfOne
    <3> QED
      BY <3>1, <3>2 DEF StdinCounted
  <2> QED
    BY <2>1, <2>2, <2>3, StdinIs
<1> QED
  BY <1>1, CliInv, PTL

\* The identity shown beside a count is that of the tokenizer that counted, even if
\* the artifact is replaced while it is loaded, and it is the one that was selected,
\* in a state that its file was in (from_file: one read serves tokenizer and hash).
THEOREM CliIdentityTellsTokens == Spec => []IdentityTellsTokens
<1>1. Inv => IdentityTellsTokens
  <2> SUFFICES ASSUME Inv, FromStdin, HasMeasured, NEW file \in ToSet(execution.files)
               PROVE  /\ file.tokens = TokensOf(command.stdin, file.fingerprint.definition)
                      /\ IF FromArtifact
                         THEN /\ file.fingerprint.kind = "artifact"
                              /\ file.fingerprint.definition \in {command.artifact, artifact}
                         ELSE file.fingerprint = CounterFor(command.selectors).fingerprint
    BY DEF IdentityTellsTokens
  <2>1. /\ Definition = counter.definition /\ counter.fingerprint.definition = counter.definition
        /\ IF FromArtifact
           THEN counter.fingerprint.kind = "artifact" /\ counter.definition \in {command.artifact, artifact}
           ELSE counter = CounterFor(command.selectors)
    BY CounterIs
  <2>2. ~StdinOversized
    BY ElementsOfOne DEF StdinOversized
  <2>3. \A reason, detail : ~StdinRefused(reason, detail)
    BY ElementsOfOne DEF StdinRefused
  <2>4. PICK measured : StdinMeasured(measured)
    BY <2>2, <2>3, StdinIs
  <2>5. file = measured
    <3>1. execution.files = <<measured>>
      BY <2>4 DEF StdinMeasured
    <3> QED
      BY <3>1, ElementsOfOne
  <2>6. file.tokens = TokensOf(command.stdin, Definition) /\ file.fingerprint = counter.fingerprint
    BY <2>4, <2>5 DEF StdinMeasured
  <2> QED
    BY <2>1, <2>6
<1> QED
  BY <1>1, CliInv, PTL

-----------------------------------------------------------------------------
(* Exit codes *)

\* What was measured is what there was to measure.
LEMMA MeasuredIsTruth ==
  ASSUME Inv, HasMeasured
  PROVE  /\ execution.languages = Truth /\ MeasuredTokens = Total(Truth) /\ MeasuredTokens \in Nat
         /\ execution.languages \in Seq(Nat)
<1>1. execution.languages \in Seq(Nat)
  <2>1. execution \in Executions
    BY DEF Inv, TypeInv, TypeOK, HasMeasured
  <2> QED
    BY <2>1 DEF Executions
<1>2. execution.languages = Truth
  <2>1. CASE ~FromStdin
    <3>1. execution = [languages |-> command.tokens, files |-> <<>>, skipped |-> <<>>]
      BY <2>1, CounterIs DEF Executed
    <3> QED
      BY <2>1, <3>1 DEF Truth
  <2>2. CASE FromStdin
    <3>1. CASE StdinOversized
      BY <2>2, <3>1 DEF StdinOversized, Truth
    <3>2. ASSUME NEW reason, NEW detail, StdinRefused(reason, detail)  PROVE execution.languages = Truth
      <4>1. SkipsFor(command.stdin) # {} /\ execution.languages = <<>>
        BY <3>2 DEF StdinRefused
      <4> QED
        BY <2>2, <4>1 DEF Truth
    <3>3. ASSUME NEW file, StdinMeasured(file)  PROVE execution.languages = Truth
      <4>1. /\ Admits(command.limit, Len(command.stdin)) /\ SkipsFor(command.stdin) = {}
            /\ execution.languages = <<TokensOf(command.stdin, Definition)>>
        BY <3>3 DEF StdinMeasured
      <4> QED
        BY <2>2, <4>1 DEF Truth
    <3> QED
      BY <2>2, <3>1, <3>2, <3>3, StdinIs
  <2> QED
    BY <2>1, <2>2
<1> QED
  BY <1>1, <1>2, TotalNatural DEF MeasuredTokens

\* Exit codes mean what README.md says of them, whatever fails on the way: 3 is said
\* only of a report that went out whole over the budget, with the excess last on
\* stderr; 2 of commands that measured and wrote nothing; 0 of a measurement within
\* the budget or cut off by its reader; a report torn otherwise is a failure, and a
\* failure nobody can be told of is a panic (main).
THEOREM CliExitCodes == Spec => []ExitCodes
<1>1. Inv => ExitCodes
  <2> SUFFICES ASSUME Inv  PROVE ExitCodes
    OBVIOUS
  <2>1. /\ exit = 3 => /\ HasMeasured /\ OverBudget /\ stdout \in {"report", "nothing"}
                       /\ Last(stderr).exceeded_by = MeasuredTokens - command.budget
        /\ exit = 2 => ~HasMeasured /\ stdout = "nothing"
        /\ exit = 0 => \/ stdout = "help"
                       \/ HasMeasured /\ stdout = "cut"
                       \/ HasMeasured /\ stdout # "torn" /\ ~OverBudget
        /\ stdout = "torn" => exit \in {1, Panic}
    BY DEF Inv, Ended
  <2>2. command.budget \in Nat \cup {NoBudget}
    <3>1. command \in Commands
      BY DEF Inv, TypeInv
    <3> QED
      BY <3>1, CliAssumption
  <2>3. PICK total : total = Total(Truth)
    OBVIOUS
  <2>4. HasMeasured => execution.languages = Truth /\ MeasuredTokens = total /\ total \in Nat
    BY <2>3, MeasuredIsTruth
  <2>5. ASSUME exit = 3
        PROVE  /\ command.budget # NoBudget /\ total > command.budget
               /\ stdout \in {"report", "nothing"} /\ Last(stderr).exceeded_by + command.budget = total
    <3>1. HasMeasured /\ MeasuredTokens = total /\ total \in Nat
      BY <2>1, <2>4, <2>5
    <3>2. command.budget # NoBudget /\ total > command.budget /\ command.budget \in Nat
      BY <2>1, <2>2, <2>5, <3>1 DEF OverBudget
    <3>3. Last(stderr).exceeded_by = total - command.budget
      BY <2>1, <2>5, <3>1
    <3> QED
      BY <2>1, <2>5, <3>1, <3>2, <3>3
  <2>6. ASSUME exit = 0
        PROVE  \/ stdout = "help"
               \/ /\ HasMeasured /\ execution.languages = Truth
                  /\ \/ stdout = "cut"
                     \/ stdout # "torn" /\ command.budget = NoBudget
                     \/ stdout # "torn" /\ total =< command.budget
    <3>1. CASE HasMeasured /\ stdout # "torn" /\ ~OverBudget
      <4>1. command.budget # NoBudget => total =< command.budget
        BY <2>2, <2>4, <3>1 DEF OverBudget
      <4> QED
        BY <2>4, <3>1, <4>1
    <3> QED
      BY <2>1, <2>4, <2>6, <3>1
  <2> QED
    BY <2>1, <2>3, <2>5, <2>6 DEF ExitCodes
<1> QED
  BY <1>1, CliInv, PTL

-----------------------------------------------------------------------------
(* The figures that are shown *)

\* Half of a divisor is added before a division, which rounds to the nearest.
LEMMA RoundsToNearest ==
  ASSUME NEW a \in Nat, NEW w \in Nat \ {0}, NEW p, p = (a + w \div 2) \div w
  PROVE  p \in Nat /\ 2 * (p * w - a) \in -w .. w
OBVIOUS

\* Of a context window tokens remain or are exceeded, never both, and the share
\* shown is nearest (ContextComparison::new).
THEOREM CliContextAddsUp == Spec => []ContextAddsUp
<1>1. Inv => ContextAddsUp
  <2> SUFFICES ASSUME Inv, HasMeasured  PROVE ContextAddsUp
    BY DEF ContextAddsUp
  <2>1. PICK tokens \in Nat : tokens = MeasuredTokens
    BY MeasuredIsTruth
  <2>2. PICK window \in Nat \ {0} : window = command.window
    <3>1. command \in Commands
      BY DEF Inv, TypeInv
    <3> QED
      BY <3>1, CliAssumption
  <2>3. PICK shown : shown = ContextComparison(tokens, window)
    OBVIOUS
  <2>4. /\ shown.percent = (tokens * 1000 + window \div 2) \div window
        /\ shown.remaining = IF window > tokens THEN window - tokens ELSE 0
        /\ shown.exceeded = IF tokens > window THEN tokens - window ELSE 0
    BY <2>3 DEF ContextComparison, SaturatingSub
  <2>5. 2 * (shown.percent * window - tokens * 1000) \in -window .. window
    <3>1. PICK a \in Nat : a = tokens * 1000
      OBVIOUS
    <3>2. PICK p : p = shown.percent
      OBVIOUS
    <3>3. p = (a + window \div 2) \div window
      BY <2>4, <3>1, <3>2
    <3>4. 2 * (p * window - a) \in -window .. window
      BY <3>3, RoundsToNearest
    <3> QED
      BY <3>1, <3>2, <3>4
  <2>6. /\ tokens + shown.remaining = window + shown.exceeded
        /\ shown.remaining = 0 \/ shown.exceeded = 0
    BY <2>4
  <2> QED
    BY <2>1, <2>2, <2>3, <2>5, <2>6 DEF ContextAddsUp
<1> QED
  BY <1>1, CliInv, PTL

-----------------------------------------------------------------------------
(* Comparisons *)

TwoPoints == <<Point, Point>>

LEMMA RangesAre ==
  ASSUME NEW comparison \in Seq(Int), NEW n \in Nat, n = Len(comparison)
  PROVE  Ranges(comparison)
           = {i \in 1 .. n : i + 1 =< n /\ comparison[i] = Point /\ comparison[i + 1] = Point}
<1>1. DOMAIN comparison = 1 .. n
  BY BytesAre
<1>2. ASSUME NEW i \in 1 .. n
      PROVE  OccursAt(<<10, 10>>, comparison, i)
               <=> i + 1 =< n /\ comparison[i] = 10 /\ comparison[i + 1] = 10
  <2>1. i \in Int /\ i >= 1
    OBVIOUS
  <2> QED
    BY <2>1, TwoPointsOccurs
<1> QED
  BY <1>1, <1>2 DEF Ranges, Point

\* What is accepted is split where the only range is.
LEMMA AcceptedComparison ==
  ASSUME NEW comparison \in Seq(Int), NEW parsed, parsed = ParseComparison(comparison), parsed # Invalid
  PROVE  \/ /\ Ranges(comparison) = {} /\ parsed.mode = "worktree" /\ parsed.base # <<>>
         \/ /\ \E at : Ranges(comparison) = {at}
            /\ parsed.mode = "trees" /\ parsed.base # <<>> /\ parsed.head # <<>>
            /\ parsed.base \o <<Point, Point>> \o parsed.head = comparison
<1>1. CASE Ranges(comparison) = {}
  <2>1. comparison # <<>> /\ parsed = [mode |-> "worktree", base |-> comparison, head |-> <<>>]
    BY <1>1 DEF ParseComparison
  <2> QED
    BY <1>1, <2>1
<1>2. CASE Ranges(comparison) # {}
  <2>1. PICK n \in Nat : n = Len(comparison)
    OBVIOUS
  <2>2. PICK ranges \in SUBSET (1 .. n) : ranges = Ranges(comparison) /\ ranges # {}
    BY <1>2, <2>1, RangesAre
  <2>3. ranges = {i \in 1 .. n : i + 1 =< n /\ comparison[i] = Point /\ comparison[i + 1] = Point}
    BY <2>1, <2>2, RangesAre
  <2>4. PICK at \in ranges : at = Min(ranges) /\ \A i \in ranges : at =< i
    <3>1. PICK least \in ranges : \A i \in ranges : least =< i
      <4>1. ranges \in SUBSET Nat
        BY <2>2
      <4> QED
        BY <2>2, <4>1, LeastNatural
    <3>2. Min(ranges) \in ranges /\ \A i \in ranges : Min(ranges) =< i
      BY <3>1 DEF Min
    <3> QED
      BY <3>2
  <2>5. PICK base : base = SubSeq(comparison, 1, at - 1)
    OBVIOUS
  <2>6. PICK head : head = SubSeq(comparison, at + 2, n)
    OBVIOUS
  <2>7. /\ base # <<>> /\ head # <<>> /\ head[1] # Point /\ Ranges(head) = {}
        /\ parsed = [mode |-> "trees", base |-> base, head |-> head]
    BY <1>2, <2>1, <2>2, <2>4, <2>5, <2>6 DEF ParseComparison
  <2>8. at \in 1 .. n /\ at + 1 =< n /\ comparison[at] = Point /\ comparison[at + 1] = Point
    BY <2>3
  <2>9. /\ base \in Seq(Int) /\ Len(base) = at - 1
        /\ \A k \in 1 .. at - 1 : base[k] = comparison[k]
    <3>1. 1 \in Int /\ at - 1 \in Int /\ 1 =< 1 /\ 1 =< at - 1 + 1 /\ at - 1 =< Len(comparison)
      BY <2>1, <2>8
    <3>2. /\ base \in Seq(Int) /\ Len(base) = at - 1 - 1 + 1
          /\ \A k \in 1 .. at - 1 - 1 + 1 : base[k] = comparison[1 + k - 1]
      BY <2>5, <3>1, PartIs
    <3>3. at - 1 - 1 + 1 = at - 1 /\ \A k \in 1 .. at - 1 : 1 + k - 1 = k
      BY <2>8
    <3> QED
      BY <3>2, <3>3
  <2>10. /\ head \in Seq(Int) /\ Len(head) = n - at - 1
         /\ \A k \in 1 .. n - at - 1 : head[k] = comparison[at + 1 + k]
    <3>1. at + 2 \in Int /\ n \in Int /\ 1 =< at + 2 /\ at + 2 =< n + 1 /\ n =< Len(comparison)
      BY <2>1, <2>8
    <3>2. /\ head \in Seq(Int) /\ Len(head) = n - (at + 2) + 1
          /\ \A k \in 1 .. n - (at + 2) + 1 : head[k] = comparison[at + 2 + k - 1]
      BY <2>6, <3>1, PartIs
    <3>3. n - (at + 2) + 1 = n - at - 1 /\ \A k \in 1 .. n - at - 1 : at + 2 + k - 1 = at + 1 + k
      BY <2>8
    <3> QED
      BY <3>2, <3>3
  <2>11. PICK m \in Nat : m = n - at - 1 /\ m = Len(head)
    BY <2>10
  <2>12. m # 0
    BY <2>7, <2>10, <2>11
  <2>13. ASSUME NEW i \in ranges, i # at  PROVE FALSE
    <3>1. i \in 1 .. n /\ i + 1 =< n /\ comparison[i] = Point /\ comparison[i + 1] = Point /\ at < i
      BY <1>2, <2>3, <2>4, <2>13, SMTT(30)
    <3>2. CASE i = at + 1
      <4>1. head[1] = comparison[at + 1 + 1] /\ at + 1 + 1 = i + 1
        BY <2>10, <2>11, <2>12, <3>2
      <4> QED
        BY <2>7, <3>1, <4>1
    <3>3. CASE i # at + 1
      <4>1. PICK k \in 1 .. m : k = i - at - 1
        BY <2>8, <2>11, <3>1, <3>3
      <4>2. k + 1 =< m /\ k + 1 \in 1 .. m /\ at + 1 + k = i /\ at + 1 + (k + 1) = i + 1
        BY <2>8, <2>11, <3>1, <4>1
      <4>3. head[k] = Point /\ head[k + 1] = Point
        BY <2>10, <2>11, <3>1, <4>2
      <4>4. Ranges(head) = {j \in 1 .. m : j + 1 =< m /\ head[j] = Point /\ head[j + 1] = Point}
        BY <2>10, <2>11, RangesAre
      <4>5. k \in Ranges(head)
        BY <4>2, <4>3, <4>4
      <4> QED
        BY <2>7, <4>5
    <3> QED
      BY <3>2, <3>3
  <2>14. Ranges(comparison) = {at}
    BY <2>2, <2>13
  <2>15. base \o <<Point, Point>> \o head = comparison
    <3>1. PICK points : points = <<Point, Point>>
      OBVIOUS
    <3>2. points \in Seq(Int) /\ Len(points) = 2 /\ points[1] = Point /\ points[2] = Point
      BY <3>1 DEF Point
    <3>3. PICK before : before = base \o points
      OBVIOUS
    <3>4. /\ before \in Seq(Int) /\ Len(before) = Len(base) + Len(points)
          /\ \A k \in 1 .. Len(base) + Len(points) :
               before[k] = IF k =< Len(base) THEN base[k] ELSE points[k - Len(base)]
      BY <2>9, <3>2, <3>3, ConcatProperties, Zenon
    <3>5. Len(before) = at + 1 /\ \A k \in 1 .. at + 1 : before[k] = comparison[k]
      <4>1. Len(before) = at + 1
        BY <2>8, <2>9, <3>2, <3>4
      <4>2. ASSUME NEW k \in 1 .. at + 1  PROVE before[k] = comparison[k]
        <5>1. before[k] = IF k =< at - 1 THEN base[k] ELSE points[k - (at - 1)]
          BY <2>8, <2>9, <3>2, <3>4, SMTT(30)
        <5>2. CASE k =< at - 1
          BY <2>9, <5>1, <5>2
        <5>3. CASE k = at
          <6>1. k - (at - 1) = 1
            BY <5>3
          <6> QED
            BY <2>8, <3>2, <5>1, <5>3, <6>1
        <5>4. CASE k = at + 1
          <6>1. k - (at - 1) = 2 /\ ~(k =< at - 1)
            BY <2>8, <5>4
          <6> QED
            BY <2>8, <3>2, <5>1, <5>4, <6>1
        <5> QED
          BY <2>8, <5>2, <5>3, <5>4
      <4> QED
        BY <4>1, <4>2
    <3>6. PICK first \in Seq(Int) : first = before
      BY <3>4
    <3>7. PICK second \in Seq(Int) : second = head
      BY <2>10
    <3>8. PICK whole : whole = first \o second
      OBVIOUS
    <3>9. /\ whole \in Seq(Int) /\ Len(whole) = Len(first) + Len(second)
          /\ \A k \in 1 .. Len(first) + Len(second) :
               whole[k] = IF k =< Len(first) THEN first[k] ELSE second[k - Len(first)]
      BY <3>8, ConcatProperties, Zenon
    <3>10. Len(first) = at + 1 /\ Len(second) = m /\ at + 1 + m = n
      <4>1. Len(first) = at + 1
        BY <3>5, <3>6
      <4>2. Len(second) = m
        BY <2>11, <3>7
      <4>3. at + 1 + m = n
        BY <2>8, <2>11
      <4> QED
        BY <4>1, <4>2, <4>3
    <3>11. whole \in Seq(Int) /\ Len(whole) = n
      BY <3>9, <3>10
    <3>12. ASSUME NEW k \in 1 .. n  PROVE whole[k] = comparison[k]
      <4>1. whole[k] = IF k =< at + 1 THEN before[k] ELSE head[k - (at + 1)]
        BY <3>6, <3>7, <3>9, <3>10
      <4>2. CASE k =< at + 1
        BY <2>8, <3>5, <4>1, <4>2
      <4>3. CASE ~(k =< at + 1)
        <5>1. PICK j \in 1 .. m : j = k - (at + 1) /\ at + 1 + j = k
          BY <2>8, <2>11, <4>3
        <5> QED
          BY <2>10, <2>11, <4>1, <4>3, <5>1
      <4> QED
        BY <4>2, <4>3
    <3>13. whole = comparison
      BY <2>1, <3>11, <3>12, SameBytes
    <3> QED
      BY <3>1, <3>3, <3>6, <3>7, <3>8, <3>13
  <2>16. /\ parsed.mode = "trees" /\ parsed.base = base /\ parsed.head = head
         /\ base # <<>> /\ head # <<>>
    BY <2>7
  <2> QED
    BY <2>14, <2>15, <2>16
<1> QED
  BY <1>1, <1>2

\* A comparison that is accepted can be read in one way only: A...B, which means
\* something else to Git, is refused wherever the points are (execute_diff).
THEOREM CliRangesUnambiguous == Spec => []RangesUnambiguous
<1>1. Inv => RangesUnambiguous
  <2> SUFFICES ASSUME Inv, HasMeasured, command.kind = "diff"  PROVE RangesUnambiguous
    BY DEF RangesUnambiguous
  <2>1. PICK comparison \in Seq(Int) : comparison = command.comparison
    <3>1. command \in Commands
      BY DEF Inv, TypeInv
    <3> QED
      BY <3>1, CliAssumption
  <2>2. PICK parsed : parsed = ParseComparison(comparison)
    OBVIOUS
  <2>3. parsed # Invalid
    BY <2>1, <2>2, CounterIs DEF UnusableInput
  <2>4. \/ /\ Ranges(comparison) = {} /\ parsed.mode = "worktree" /\ parsed.base # <<>>
        \/ /\ \E at : Ranges(comparison) = {at}
           /\ parsed.mode = "trees" /\ parsed.base # <<>> /\ parsed.head # <<>>
           /\ parsed.base \o <<Point, Point>> \o parsed.head = comparison
    BY <2>2, <2>3, AcceptedComparison
  <2>5. Cardinality(Ranges(comparison)) =< 1
    <3>1. CASE Ranges(comparison) = {}
      BY <3>1, FS_EmptySet
    <3>2. CASE \E at : Ranges(comparison) = {at}
      <4>1. PICK at : Ranges(comparison) = {at}
        BY <3>2
      <4>2. Cardinality({at}) = 1
        BY FS_Singleton
      <4> QED
        BY <4>1, <4>2
    <3> QED
      BY <2>4, <3>1, <3>2
  <2> QED
    BY <2>1, <2>2, <2>4, <2>5 DEF RangesUnambiguous
<1> QED
  BY <1>1, CliInv, PTL

-----------------------------------------------------------------------------
(* Percentages *)

\* The percentages of a report add up to the 100.0% below them, none is off by a
\* tenth or more, and more tokens never show as a smaller share
\* (allocated_percent_tenths).
THEOREM CliSharesAddUp == Spec => []SharesAddUp
<1>1. Inv => SharesAddUp
  <2> SUFFICES ASSUME Inv, HasMeasured, MeasuredTokens > 0  PROVE SharesAddUp
    BY DEF SharesAddUp
  <2>1. PICK measured \in Seq(Nat) : measured = execution.languages
    BY MeasuredIsTruth
  <2>2. PICK total \in Nat \ {0} : total = MeasuredTokens
    BY MeasuredIsTruth
  <2>3. total = Total(measured)
    BY <2>1, <2>2 DEF MeasuredTokens
  <2>4. PICK n \in Nat : n = Len(measured)
    BY <2>1
  <2>5. PICK shares : shares = Percentages(measured)
    OBVIOUS
  <2>6. Fair(shares, measured, n, total)
    BY <2>3, <2>4, <2>5, SharesAre
  <2>7. /\ Total(shares) = 1000
        /\ \A i \in DOMAIN shares :
             /\ shares[i] * total - measured[i] * 1000 \in (1 - total) .. (total - 1)
             /\ \A j \in DOMAIN shares : measured[i] > measured[j] => shares[i] >= shares[j]
    BY <2>6, SMTT(30) DEF Fair
  <2>8. /\ Total(Percentages(execution.languages)) = 1000
        /\ \A i \in DOMAIN Percentages(execution.languages) :
             /\ Percentages(execution.languages)[i] * MeasuredTokens - execution.languages[i] * 1000
                  \in (1 - MeasuredTokens) .. (MeasuredTokens - 1)
             /\ \A j \in DOMAIN Percentages(execution.languages) :
                  execution.languages[i] > execution.languages[j]
                    => Percentages(execution.languages)[i] >= Percentages(execution.languages)[j]
    BY <2>1, <2>2, <2>5, <2>7
  <2> QED
    BY <2>8 DEF SharesAddUp
<1> QED
  BY <1>1, CliInv, PTL

-----------------------------------------------------------------------------
(* Limits *)

\* Standard input is admitted exactly up to the limit as it is written, to the byte:
\* no product of number and unit is taken for a smaller one, a byte past the limit is
\* noticed, and none is missing from what is measured (parse_file_size, read_bounded,
\* count_bytes).
THEOREM CliStdinToTheByte == Spec => []StdinToTheByte
<1> DEFINE Reading(k, power) ==
             /\ ToSet(SubSeq(command.limit_text, 1, k)) \subseteq 0 .. 9
             /\ SubSeq(command.limit_text, k + 1, Len(command.limit_text)) \in Spellings(power)
             /\ Len(command.stdin) =< Number(SubSeq(command.limit_text, 1, k)) * Multiplier(power)
           Within == \/ command.limit_text = Unlimited
                     \/ \E k \in DOMAIN command.limit_text, power \in 0 .. 3 : Reading(k, power)
<1>1. ASSUME Inv, FromStdin, HasMeasured  PROVE StdinToTheByte
  <2>1. command \in Commands /\ ~Conflict
    BY <1>1, CounterIs
  <2>2. /\ command.limit = ParseFileSize(command.limit_text)
        /\ command.limit_text = Unlimited \/ command.limit_text \in Seq(Int)
        /\ command.limit # Invalid
    BY <2>1, CliAssumption DEF Conflict
  <2>3. PICK bytes \in Nat : bytes = Len(command.stdin)
    <3>1. command.stdin \in Seq(Int)
      BY <2>1, ReadBoundedIs
    <3> QED
      BY <3>1
  <2>4. Within <=> Admits(command.limit, bytes)
    <3>1. CASE command.limit_text = Unlimited
      <4>1. command.limit = Unlimited
        BY <2>2, <3>1 DEF ParseFileSize
      <4> QED
        BY <3>1, <4>1 DEF Admits
    <3>2. CASE command.limit_text # Unlimited
      <4>1. PICK text \in Seq(Int) : text = command.limit_text /\ text # Unlimited
        BY <2>2, <3>2
      <4>2. PICK limit : limit = command.limit
        OBVIOUS
      <4>3. PICK n \in Nat : n = Len(text)
        OBVIOUS
      <4>4. limit = ParseFileSize(text) /\ limit # Invalid
        BY <2>2, <4>1, <4>2
      <4>5. /\ limit \in Nat
            /\ (\E k \in DOMAIN text, power \in 0 .. 3 :
                  /\ ToSet(SubSeq(text, 1, k)) \subseteq 0 .. 9
                  /\ SubSeq(text, k + 1, Len(text)) \in Spellings(power)
                  /\ bytes =< Number(SubSeq(text, 1, k)) * Multiplier(power))
                 <=> bytes =< limit
        BY <4>1, <4>3, <4>4, LimitReads
      <4>6. limit # Unlimited
        <5>1. Unlimited \notin Int
          BY CliAssumption
        <5> QED
          BY <4>5, <5>1
      <4>7. Within <=> bytes =< limit
        BY <2>3, <4>1, <4>5
      <4> QED
        BY <4>2, <4>6, <4>7 DEF Admits
    <3> QED
      BY <3>1, <3>2
  <2>6. Within \in BOOLEAN
    OBVIOUS
  <2> HIDE DEF Within
  <2>5. /\ Within = (\A skip \in ToSet(execution.skipped) : skip.reason # "oversized")
        /\ \A file \in ToSet(execution.files) : file.bytes = Len(command.stdin)
    <3>1. CASE StdinOversized
      <4>1. PICK skip : skip = [reason |-> "oversized", detail |-> "none"]
        OBVIOUS
      <4>2. ToSet(execution.skipped) = {skip} /\ ToSet(execution.files) = {}
        BY <3>1, <4>1, ElementsOfOne DEF StdinOversized
      <4>3. ~Admits(command.limit, bytes)
        BY <2>3, <3>1 DEF StdinOversized
      <4>4. (\A other \in ToSet(execution.skipped) : other.reason # "oversized") = FALSE
        BY <4>1, <4>2
      <4>5. Within = FALSE
        BY <2>4, <2>6, <4>3
      <4> QED
        BY <4>2, <4>4, <4>5
    <3>2. ASSUME NEW reason, NEW detail, StdinRefused(reason, detail)
          PROVE  /\ Within = (\A skip \in ToSet(execution.skipped) : skip.reason # "oversized")
                 /\ \A file \in ToSet(execution.files) : file.bytes = Len(command.stdin)
      <4>1. PICK skip : skip = [reason |-> reason, detail |-> detail]
        OBVIOUS
      <4>2. ToSet(execution.skipped) = {skip} /\ ToSet(execution.files) = {}
        BY <3>2, <4>1, ElementsOfOne DEF StdinRefused
      <4>3. Admits(command.limit, bytes) /\ skip.reason # "oversized"
        BY <2>3, <3>2, <4>1 DEF StdinRefused
      <4> QED
        BY <2>4, <4>2, <4>3
    <3>3. ASSUME NEW file, StdinMeasured(file)
          PROVE  /\ Within = (\A skip \in ToSet(execution.skipped) : skip.reason # "oversized")
                 /\ \A other \in ToSet(execution.files) : other.bytes = Len(command.stdin)
      <4>1. ToSet(execution.skipped) = {} /\ ToSet(execution.files) = {file}
        BY <3>3, ElementsOfOne DEF StdinMeasured
      <4>2. Admits(command.limit, bytes) /\ file.bytes = Len(command.stdin)
        BY <2>3, <3>3 DEF StdinMeasured
      <4> QED
        BY <2>4, <4>1, <4>2
    <3> QED
      BY <1>1, <3>1, <3>2, <3>3, StdinIs
  <2> QED
    BY <2>5 DEF StdinToTheByte, Within
<1>2. Inv => StdinToTheByte
  BY <1>1 DEF StdinToTheByte
<1> QED
  BY <1>2, CliInv, PTL
=============================================================================
