------------------------------ MODULE Tokenizers ------------------------------
(***************************************************************************)
(* The counters of tokens and their identities                             *)
(* (tokm-core/src/tokenizer/).  A tokenizer's definition is a number: two  *)
(* are shipped with tokm, and others are the contents of artifacts.        *)
(***************************************************************************)
EXTENDS Integers, SequencesExt

CONSTANT None   \* no selector, no encoding

\* BuiltinEncoding
O200kBase  == 1
Cl100kBase == 2

\* What may be at an artifact's path: a definition, no file, or no tokenizer.
Missing == 0
Broken  == -1
Loads(artifact) == artifact > 0

\* for_model; a model's name is the sequence of its parts.
ForModel(model) ==
  LET starts(prefixes) == \E prefix \in prefixes : IsPrefix(prefix, model)
  IN  CASE \/ model \in {<<"gpt-", "5">>, <<"gpt-", "4", ".1">>, <<"gpt-", "4", "o">>}
           \/ starts({<<"gpt-", "5">>, <<"gpt-", "4", ".1", "-">>, <<"gpt-", "4", "o", "-">>})
             -> O200kBase
        [] \/ model \in {<<"gpt-", "4">>, <<"gpt-", "3.5-turbo">>}
           \/ starts({<<"gpt-", "4", "-">>, <<"gpt-", "3.5-turbo", "-">>})
             -> Cl100kBase
        [] OTHER -> None

\* BuiltinEncoding::from_str
FromStr(name) ==
  CASE name = "o200k_base"  -> O200kBase
    [] name = "cl100k_base" -> Cl100kBase
    [] OTHER                -> None

\* TokenCounter and its TokenizerFingerprint.
Fingerprints == [kind : {"builtin", "artifact"}, definition : Nat]
Counters == [definition : Nat, fingerprint : Fingerprints]

\* BuiltinTokenCounter::new, with the identity that goes with every count.
BuiltinCounter(encoding) ==
  [definition  |-> encoding,
   fingerprint |-> [kind |-> "builtin", definition |-> encoding]]

\* HuggingFaceTokenCounter::from_file, of the bytes read of the artifact and of those
\* that are hashed.
ArtifactCounter(bytes, hashed) ==
  [definition  |-> bytes,
   fingerprint |-> [kind |-> "artifact", definition |-> hashed]]

\* The selectors of a tokenizer: an encoding, a model or an artifact, each None or given.
Selected(selectors) == {kind \in DOMAIN selectors : selectors[kind] # None}
NoSelectors == [encoding |-> None, model |-> None, tokenizer_file |-> None]

\* The counter of selectors that name no artifact.
CounterFor(selectors) ==
  BuiltinCounter(IF selectors.model # None THEN ForModel(selectors.model)
                 ELSE IF selectors.encoding # None THEN FromStr(selectors.encoding)
                 ELSE O200kBase)

\* TokenCounter::count: definitions differ in the tokens of a character, and a carriage
\* return is one more.
Count(definition, text) ==
  definition * Len(text) + Cardinality({i \in DOMAIN text : text[i] = 13})
=============================================================================
