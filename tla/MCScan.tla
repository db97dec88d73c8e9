------------------------------- MODULE MCScan -------------------------------
(* Small instances of Scan.  The current directory /1 has a subdirectory 2 with *)
(* a file 3, a file 4 and a hidden file 9; /6/7 is a file outside of it. The root *)
(* of the file system may be scanned as well.                                     *)
EXTENDS Scan

CONSTANTS w1, w2

MCWorkers == {w1, w2}
Symmetry == Permutations(MCWorkers)
MCCwd == <<Root, 1>>

Dir     == <<Root, 1, 2>>
InDir   == <<Root, 1, 2, 3>>
Source  == <<Root, 1, 4>>
Hidden  == <<Root, 1, 9>>
Other   == <<Root, 6>>
InOther == <<Root, 6, 7>>
MCNodes == {<<Root>>, MCCwd, Dir, InDir, Source, Hidden, Other, InOther}

\* The file that the link leads to holds nothing but a mark.
MCTokens == [small |-> 1, large |-> 2, link |-> 0]
MCBytes  == [small |-> 2, large |-> 1, link |-> 3]
MCClassify == [name \in Root .. 9 |-> IF name \in {3, 7} THEN 1 ELSE 2]

\* The file system with the given kinds of 2, 2/3 and 4.
TreeOf(dir, inDir, source) ==
  [node \in MCNodes |->
     CASE node \in {<<Root>>, MCCwd, Other} -> "dir"
       [] node = Dir              -> dir
       [] node = InDir            -> inDir
       [] node = Source           -> source
       [] node = Hidden           -> "small"
       [] node = InOther          -> "large"]

AllTrees ==
  {TreeOf("dir", inDir, "large") :
     inDir \in {"small", "failing", "link", "dangling", "loop", "binary", "absent"}}
  \cup {TreeOf("dir", inDir, "failing") : inDir \in {"small", "failing", "link"}}
  \cup {TreeOf("dir", "small", "oversized"), TreeOf("dir", "binary", "oversized"),
        TreeOf("dir", "small", "other"), TreeOf("locked", "absent", "large")}

AllPaths == {<<Here>>, <<2>>, <<2, Up, 2, 3>>, <<Root, 1, 2>>, <<Up, 6>>, <<Root, 1, 4>>, <<5>>, <<Root>>}

\* Two inputs: any two of those that lead to the same files in three ways, and some that
\* need a look of their own (above each other, outside of the directory, missing).
Overlapped == {<<Here>>, <<2>>, <<Root, 1, 2>>, <<Root, 1, 4>>}
AllPairs ==
  {<<a, b>> : a \in Overlapped, b \in Overlapped}
  \cup {<<<<2>>, <<2, Up, 2, 3>>>>, <<<<2, Up, 2, 3>>, <<Here>>>>,
        <<<<Up, 6>>, <<Here>>>>, <<<<Here>>, <<Up, 6>>>>,
        <<<<Root, 1, 2>>, <<Root>>>>, <<<<Root>>, <<Root, 1, 2>>>>,
        <<<<2>>, <<5>>>>, <<<<5>>, <<2>>>>}

Plain == [follow |-> FALSE, hidden |-> FALSE, no_ignore |-> FALSE,
          includes |-> {}, excludes |-> {}]
AllOptions ==
  {Plain,
   [Plain EXCEPT !.follow = TRUE],
   [Plain EXCEPT !.hidden = TRUE, !.no_ignore = TRUE],
   [Plain EXCEPT !.includes = {Ending(3), Ending(7)}, !.excludes = {Everything(<<Up, 6>>)}],
   [Plain EXCEPT !.includes = {Malformed}]}

\* Requests of at most two inputs, overlapping or not.
AllRequests ==
  [inputs : {<<>>} \cup {<<a>> : a \in AllPaths} \cup AllPairs,
   options : AllOptions]

\* Files that disappear, appear or change while the scan runs.
AllChanges == {<<InDir, "absent">>, <<InDir, "large">>, <<Source, "failing">>}

NoChanges == {}

\* Requests with the subdirectory once more than needed, or with a file beside it.
Overlapping == [inputs : {<<<<Here>>, <<2>>>>}, options : AllOptions]
FileAndDirectory == [inputs : {<<<<4>>, <<2>>>>, <<<<2>>, <<4>>>>}, options : AllOptions]
=============================================================================
