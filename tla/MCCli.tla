------------------------------- MODULE MCCli -------------------------------
(* Commands over measurements of up to three languages.  Prices have two decimals *)
(* and are of up to four characters; standard input is of up to five bytes, or of *)
(* sizes around a limit.                                                          *)
EXTENDS Cli

Command == [kind |-> "scan", paths |-> <<".">>, comparison |-> <<Letter>>,
            verbose |-> FALSE, quiet |-> FALSE, views |-> {}, sort |-> "default",
            format |-> "table", budget |-> NoBudget, limit_text |-> <<2>>, limit |-> 2,
            stdin |-> <<>>, tokens |-> <<>>, window |-> 1, price_text |-> <<0>>, price |-> 0,
            selectors |-> NoSelectors, normalize |-> FALSE, invalid_utf8 |-> "skip",
            artifact |-> Missing]
Stdin == [Command EXCEPT !.paths = <<"-">>, !.limit_text = Unlimited, !.limit = Unlimited]

MCArtifacts == {Missing, Broken, 3, 4}

\* Every way to combine the arguments.
Arguments ==
  {[Command EXCEPT !.kind = input[1], !.paths = input[2], !.comparison = input[3],
                   !.verbose = diagnostics[1], !.quiet = diagnostics[2],
                   !.views = views, !.sort = sort, !.format = format,
                   !.budget = 1, !.stdin = <<97, 97>>, !.tokens = <<1, 1>>] :
     input \in {<<"help", <<".">>, <<>>>>, <<"diff", <<".">>, <<>>>>, <<"diff", <<".">>, <<Letter>>>>}
               \cup {<<"scan", paths, <<>>>> : paths \in {<<".">>, <<"-">>, <<"-", "-">>, <<"src", "-">>}},
     diagnostics \in {<<FALSE, FALSE>>, <<TRUE, FALSE>>, <<FALSE, TRUE>>, <<TRUE, TRUE>>},
     views \in {{}, {"files"}, {"dirs"}, {"tree"}, {"density", "tree"}},
     sort \in {"default", "tokens", "language"}, format \in {"table", "json"}}

\* Comparisons of up to five characters.
Comparisons ==
  {[Command EXCEPT !.kind = "diff", !.comparison = comparison] :
     comparison \in UNION {[1 .. n -> {Point, Letter}] : n \in 0 .. 5}}

\* Every selector of a tokenizer, and pairs of them, with artifacts in every state.
Models == {<<"gpt-", "5">>, <<"gpt-", "5", "x">>, <<"gpt-", "4">>, <<"gpt-", "4", ".1">>,
           <<"gpt-", "4", ".1", "-", "mini">>, <<"gpt-", "4", ".1", "x">>, <<"gpt-", "4", "o">>,
           <<"gpt-", "4", "-", "turbo">>, <<"gpt-", "3.5-turbo", "-", "x">>, <<"x">>}
Selectors ==
  {NoSelectors}
  \cup {[NoSelectors EXCEPT !.encoding = name] : name \in {"o200k_base", "cl100k_base", "p50k_base"}}
  \cup {[NoSelectors EXCEPT !.model = model] : model \in Models}
  \cup {[NoSelectors EXCEPT !.tokenizer_file = "tokenizer.json"]}
  \cup {[NoSelectors EXCEPT !.model = <<"gpt-", "4">>, !.encoding = "o200k_base"],
        [NoSelectors EXCEPT !.model = <<"gpt-", "4">>, !.tokenizer_file = "tokenizer.json"]}
Selections ==
  {[Stdin EXCEPT !.stdin = <<97, CR, LF>>, !.selectors = selectors, !.artifact = artifact_,
                 !.normalize = normalize, !.paths = paths] :
     selectors \in Selectors, artifact_ \in MCArtifacts,
     normalize \in BOOLEAN, paths \in {<<"-">>, <<"-", "-">>}}

\* Every content of up to three bytes, and longer ones of line ends and marks.
Words(units, lengths) == UNION {[1 .. n -> units] : n \in lengths}
Contents ==
  Words({0, LF, CR, 254, 255, 239, 187, 191, 97}, 0 .. 3)
  \cup {FlattenSeq(word) : word \in Words({<<LF>>, <<CR>>, <<97>>, MarkBytes}, {4})}
  \cup {mark \o word : mark \in {<<255, 254, 0>>, <<0, 0, 254>>, <<239, 187>>, MarkBytes},
                       word \in Words({0, CR, 254, 255, 187, 191, 97}, 1 .. 2)}
Documents ==
  {[Stdin EXCEPT !.stdin = content, !.normalize = normalize, !.invalid_utf8 = invalid_utf8] :
     content \in Contents, normalize \in BOOLEAN, invalid_utf8 \in {"skip", "lossy"}}

\* Every measurement, window and budget.
Measurements ==
  {[Command EXCEPT !.tokens = tokens, !.window = window, !.budget = budget] :
     tokens \in UNION {[1 .. n -> {0, 1, 2, 5}] : n \in 0 .. 3},
     window \in {1, 2, 3, 7}, budget \in {NoBudget, 0, 2, 7}}

\* Standard input around its limit, and limits as they are written: numbers of up to
\* two digits with every unit, the greatest number, and what is no size.
SizeTexts ==
  {digits \o unit : digits \in UNION {[1 .. n -> {0, 1, 2, 9}] : n \in 0 .. 2},
                    unit \in UNION {Spellings(power) : power \in 0 .. 3}
                             \cup {<<Letter>>, <<LetterB, LetterB>>, <<LetterI, LetterB>>}}
  \cup {<<1, 0, 0, 0>>, <<1, 0, 0, 1>>, Unlimited}
Around(limit) == IF limit \in Nat THEN {n \in limit - 1 .. limit + 2 : n \in 0 .. MaxNumber} ELSE {3}
Inputs ==
  UNION {{[Stdin EXCEPT !.stdin = [i \in 1 .. size |-> 97], !.limit_text = text,
                        !.limit = ParseFileSize(text), !.budget = 18] :
            size \in Around(ParseFileSize(text))} :
          text \in SizeTexts}

\* Prices as they are written.
Texts == UNION {[1 .. n -> {0, 1, 9, Point, Letter}] : n \in 0 .. 4}
Prices ==
  {[Command EXCEPT !.tokens = tokens, !.price_text = text, !.price = ParsePrice(text)] :
     tokens \in {<<5>>, <<1, 2>>}, text \in Texts}

AllCommands ==
  Arguments \cup Comparisons \cup Selections \cup Documents \cup Measurements \cup Inputs \cup Prices
SomeCommands == Measurements
=============================================================================
