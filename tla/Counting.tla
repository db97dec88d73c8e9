------------------------------- MODULE Counting -------------------------------
(***************************************************************************)
(* Counting a string and counting bytes, the entry points that every       *)
(* frontend shares (tokm-core/src/count.rs, file.rs).  Options are         *)
(* [counter, text_policy, invalid_utf8, max_file_size].  That a cache does *)
(* not change what count_bytes returns is the subject of module Measure.   *)
(***************************************************************************)
EXTENDS Text, Tokenizers, Figures

\* MaxFileSize::admits
Admits(limit, bytes) == limit = Unlimited \/ bytes =< limit

\* str::len: the characters beyond ASCII take three bytes.
ByteLength(text) == Len(text) + 2 * Cardinality({i \in DOMAIN text : text[i] > 127})

\* count_text: the tokens of the text as the policy changes it, the bytes of the original.
CountText(text, options) ==
  [tokens      |-> Count(options.counter.definition, Apply(options.text_policy, text)),
   bytes       |-> ByteLength(text),
   fingerprint |-> options.counter.fingerprint,
   text_policy |-> options.text_policy]

\* ByteOutcome: what counting bytes comes to.
ByteCounts ==
  [tokens : Nat, bytes : Nat, decoded_lossily : BOOLEAN,
   fingerprint : Fingerprints, text_policy : {"literal", "normalized"},
   invalid_utf8 : {"skip", "lossy"}]
ByteSkips ==
  [reason : {"oversized", "unsupported encoding", "binary", "invalid UTF-8"},
   detail : {"none", "UTF-32LE", "UTF-32BE", "UTF-16LE", "UTF-16BE"}]

\* count_bytes: a measurement of the bytes, or the reason why they are skipped.
CountBytes(bytes, options) ==
  LET decoded == Decode(bytes, options.invalid_utf8)
  IN  IF ~Admits(options.max_file_size, Len(bytes))
      THEN [reason |-> "oversized", detail |-> "none"]
      ELSE IF "reason" \in DOMAIN decoded THEN decoded
      ELSE [tokens          |-> CountText(decoded.text, options).tokens,
            bytes           |-> Len(bytes),
            decoded_lossily |-> decoded.decoded_lossily,
            fingerprint     |-> options.counter.fingerprint,
            text_policy     |-> options.text_policy,
            invalid_utf8    |-> options.invalid_utf8]
=============================================================================
