----------------------------- MODULE MCGitDiff -----------------------------
(* A repository with a file 1, a directory 2 with a file 3 and a hidden directory *)
(* 8 with a file 1; its metadata is the file 9/1.  The current directory is /5.    *)
EXTENDS GitDiff

MCCwd == <<Root, 5>>
MCTokens == [small |-> 1, large |-> 2]
MCClassify == [name \in 0 .. 9 |-> IF name = 1 THEN 1 ELSE 2]

Top      == <<1>>
InDir    == <<2, 3>>
InHidden == <<8, 1>>
Metadata == <<9, 1>>
Untracked == <<4>>

WithSubmodule == (Top :> "large") @@ (<<4>> :> "submodule")
Committed == {(Top :> top) @@ (InDir :> inDir) @@ (InHidden :> "small") :
                top \in {"small", "large", "binary"}, inDir \in {"small", "large", "link"}}
             \cup {Top :> "small", WithSubmodule}

\* Trees with objects that cannot be read or counted, also where nobody looks.
Damaged ==
  {(Top :> "small") @@ (InDir :> "corrupt"), (Top :> "failing") @@ (InDir :> "small"),
   (Top :> "small") @@ (<<2>> :> "lost"), (Top :> "small") @@ (<<8>> :> "lost"),
   (Top :> "small") @@ (<<3>> :> "lost"), (Top :> "small") @@ (InHidden :> "corrupt"),
   (Top :> "small") @@ (<<4>> :> "corrupt"), (<<3>> :> "lost") @@ (InDir :> "corrupt")}

Worktrees == {(Metadata :> "small") @@ (Untracked :> "small") @@ tree :
                tree \in Committed \ {WithSubmodule}}
MCEdits == {<<Top, "large">>, <<Top, "failing">>, <<InDir, "small">>, <<Untracked, "oversized">>}

Plain == [follow |-> FALSE, hidden |-> FALSE, no_ignore |-> FALSE,
          includes |-> {}, excludes |-> {}]
AllOptions ==
  {Plain,
   [Plain EXCEPT !.follow = TRUE, !.includes = {Malformed}],
   [Plain EXCEPT !.hidden = TRUE, !.no_ignore = TRUE, !.follow = TRUE],
   [Plain EXCEPT !.includes = {Everything(<<2>>)}, !.excludes = {Ending(4)}]}
Roots == {<<Here>>, <<Up>>, <<6>>, <<Root, 5>>, <<Root, 5, 6>>, <<Root, 7>>}

\* A tree and the worktree, with every set of options from every place.
WorktreeDiffs(roots) ==
  [history : {[kind |-> "worktree", base |-> tree, head |-> tree] : tree \in Committed},
   worktree : Worktrees,
   request : [mode : {"worktree"}, root : roots, options : AllOptions]]

\* Two trees, which do not depend on the place.
TreeDiffs ==
  [history : [kind : {"bare"}, base : Committed, head : Committed],
   worktree : {Top :> "small"},
   request : [mode : {"trees"}, root : {<<Here>>}, options : AllOptions]]

\* Snapshots at hand, which depend on nothing else.
SnapshotDiffs ==
  [history : {[kind |-> "none", base |-> NoTree, head |-> NoTree]},
   worktree : {Top :> "small"},
   request : [mode : {"snapshots"}, root : {<<Here>>}, options : {Plain}]]

\* Diffs that find an object, a revision, a worktree or the repository missing.
DamagedDiffs ==
  LET trees == Damaged \cup {NoTree, WithSubmodule}
  IN  [history : [kind : {"worktree", "bare", "none"}, base : trees, head : trees],
       worktree : {(Top :> "small") @@ (InDir :> "large"), Untracked :> "failing"},
       request : [mode : {"trees", "worktree"}, root : {<<Here>>}, options : AllOptions]]

AllDiffs == WorktreeDiffs(Roots) \cup TreeDiffs \cup SnapshotDiffs \cup DamagedDiffs

\* Diffs of a repository beneath the current directory.
DiffsFromAbove == WorktreeDiffs({<<6>>})

File(path, language, count) ==
  [path |-> path, language |-> language, tokens |-> count, bytes |-> 1]
SnapshotFiles ==
  {{}} \cup {{File(Top, language, count)} : language \in {1, 2}, count \in 0 .. 3}
  \cup {{File(Top, language, count), File(InDir, 2, 1)} : language \in {1, 2}, count \in 0 .. 3}
MCSnapshots ==
  {[semantics |-> semantics] @@ Aggregate(SetToSeq(files), <<>>) :
     semantics \in {1, 2}, files \in SnapshotFiles}

NoEdits == {}
NothingIgnored == {}
SomeIgnored == {<<2>>}
=============================================================================
