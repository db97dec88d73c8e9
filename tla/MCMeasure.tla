------------------------------ MODULE MCMeasure ------------------------------
(* Small instances of Measure. *)
EXTENDS Measure

CONSTANTS w1, w2, w3, w4, w5

MCWorkers == {w1, w2}

Call(cached, follow, policy, counting) ==
  [cache |-> cached, follow_symlinks |-> follow,
   invalid_utf8 |-> policy, count |-> counting]

\* Two scan workers with the same options.
AlikeOptions == [w \in MCWorkers |-> Call(TRUE, TRUE, "lossy", "cl100k")]

\* Processes that share a cache directory and disagree on decoding, on the
\* tokenizer, on using the cache at all, and on following links.
SharingWorkers == {w1, w2, w3, w4, w5}
SharingOptions ==
  [w \in SharingWorkers |->
     CASE w = w1 -> Call(TRUE, TRUE, "lossy", "cl100k")
       [] w = w2 -> Call(TRUE, TRUE, "skip", "cl100k")
       [] w = w3 -> Call(TRUE, TRUE, "lossy", "o200k")
       [] w = w4 -> Call(FALSE, TRUE, "lossy", "cl100k")
       [] w = w5 -> Call(TRUE, FALSE, "lossy", "cl100k")]

\* Two files of one size, whose chunks a torn read can mix.
Torn == {<<"a", "a">>, <<"b", "b">>}

\* A file at the limit of one chunk, and what it may grow to.
Growing == {<<"a">>, <<"b", "a">>}

\* A text whose NUL comes after the inspected prefix, invalid UTF-8, a binary file.
Encodings == {<<"a", "nul">>, <<"bad">>, <<"nul">>}
=============================================================================
