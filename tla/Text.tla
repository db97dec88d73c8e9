--------------------------------- MODULE Text ---------------------------------
(***************************************************************************)
(* From the bytes of a file or of standard input to the text whose tokens  *)
(* are counted: decoding (tokm-core/src/decode.rs) and the text policy     *)
(* (text_policy.rs).                                                       *)
(*                                                                         *)
(* A content is a sequence of bytes, a text a sequence of characters.  Of  *)
(* the characters beyond ASCII there is one, the byte-order mark U+FEFF,   *)
(* in UTF-8 the bytes EF BB BF.                                            *)
(***************************************************************************)
EXTENDS Iterators

CONSTANT InspectedBytes   \* BINARY_INSPECTION_BYTES: 8192

ASSUME TextAssumption == InspectedBytes \in Nat

LF == 10
CR == 13
MarkBytes == <<239, 187, 191>>
Mark        == 65279     \* U+FEFF
Replacement == 65533     \* U+FFFD

\* The byte-order marks of other encodings.
Utf32LE == <<255, 254, 0, 0>>
Utf32BE == <<0, 0, 254, 255>>
Utf16LE == <<255, 254>>
Utf16BE == <<254, 255>>

\* unsupported_bom: the most specific mark is looked for first.
UnsupportedBom(bytes) ==
  IF IsPrefix(Utf32LE, bytes) THEN "UTF-32LE"
  ELSE IF IsPrefix(Utf32BE, bytes) THEN "UTF-32BE"
  ELSE IF IsPrefix(Utf16LE, bytes) THEN "UTF-16LE"
  ELSE IF IsPrefix(Utf16BE, bytes) THEN "UTF-16BE"
  ELSE "none"

OccursAt(word, seq, i) ==
  i + Len(word) - 1 =< Len(seq) /\ SubSeq(seq, i, i + Len(word) - 1) = word

\* The bytes that go on with the mark, whole or not, that began before them.
Continues(bytes, i) ==
  \E k \in {1, 2} : i > k /\ SubSeq(bytes, i - k, i) = SubSeq(MarkBytes, 1, k + 1)

\* The places where characters begin, and the character that begins at a place: a
\* replacement for each byte, or beginning of a mark, that is none.
Starts(bytes) == {i \in DOMAIN bytes : ~Continues(bytes, i)}
CharacterAt(bytes, i) ==
  CASE bytes[i] < 128                -> bytes[i]
    [] OccursAt(MarkBytes, bytes, i) -> Mark
    [] OTHER                         -> Replacement

\* from_utf8_lossy
Characters(bytes) ==
  IF \A i \in DOMAIN bytes : bytes[i] < 128 THEN bytes
  ELSE LET starts == Ranked(Starts(bytes), <)
       IN  [k \in DOMAIN starts |-> CharacterAt(bytes, starts[k])]

\* DecodeOutcome, from_utf8 failing where the lossy text has a replacement.
Decode(bytes, invalid_utf8) ==
  LET skipped(reason, detail) == [reason |-> reason, detail |-> detail]
      text == Characters(bytes)
      lossy == Replacement \in ToSet(text)
      binary == \E i \in DOMAIN bytes : i =< InspectedBytes /\ bytes[i] = 0
  IN  IF UnsupportedBom(bytes) # "none"
      THEN skipped("unsupported encoding", UnsupportedBom(bytes))
      ELSE IF binary THEN skipped("binary", "none")
      ELSE IF lossy /\ invalid_utf8 = "skip" THEN skipped("invalid UTF-8", "none")
      ELSE [text |-> text, decoded_lossily |-> lossy]

\* Mutant of Normalize: each carriage return becomes a line feed.
Normalize_each(text) ==
  LET without_bom == IF IsPrefix(<<Mark>>, text) THEN Tail(text) ELSE text
  IN  [i \in DOMAIN without_bom |-> IF without_bom[i] = CR THEN LF ELSE without_bom[i]]

\* A carriage return, with the line feed after it if there is one, becomes a line feed.
LineEnds(text) ==
  LET end == Len(text)
      from[i \in 1 .. end + 2] ==
        IF i > end THEN <<>>
        ELSE IF text[i] # CR THEN <<text[i]>> \o from[i + 1]
        ELSE IF i < end /\ text[i + 1] = LF THEN <<LF>> \o from[i + 2]
        ELSE <<LF>> \o from[i + 1]
  IN  IF CR \notin ToSet(text) THEN text ELSE from[1]

\* normalize: one mark is taken from the front.
Normalize(text) == LineEnds(IF IsPrefix(<<Mark>>, text) THEN Tail(text) ELSE text)

\* TextPolicy::apply
Apply(text_policy, text) ==
  IF text_policy = "normalized" THEN Normalize(text) ELSE text
=============================================================================
