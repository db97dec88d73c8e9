------------------------------ MODULE FileSystem ------------------------------
(***************************************************************************)
(* What a file system is to a scan: the nodes that a walk of a directory   *)
(* comes to (walk.rs) and what counting the file at a path comes to        *)
(* (file.rs).  A tree gives the kind of each node.                         *)
(***************************************************************************)
EXTENDS DirectoryTree

CONSTANTS
  Nodes,     \* the absolute clean paths that the file system may have
  Cwd,       \* the current directory
  Ignored,   \* nodes that .gitignore or the like names
  Tokens,    \* Tokens[kind] of the kinds whose files are measured
  Bytes,     \* Bytes[kind] of them
  Classify   \* Classify[name]: the language of a file name

\* What a path may be: a regular file (of any size and content), a directory that
\* can be listed or not, a symbolic link to a file, to nothing or to a directory
\* above it, a file of another type, or nothing.
Texts == DOMAIN Tokens
NotMeasured == {"binary", "oversized", "failing", "dir", "locked",
                "dangling", "loop", "other", "absent"}
Kinds == Texts \cup NotMeasured

ASSUME FileSystemAssumption ==
  /\ IsFiniteSet(Nodes) /\ Nodes \cup {Cwd} \subseteq Seq(Int)
  /\ \A node \in Nodes \cup {Cwd} : IsAbsolute(node) /\ \A k \in 2 .. Len(node) : node[k] \in Nat
  /\ "link" \in Texts /\ DOMAIN Bytes = Texts /\ Texts \cap NotMeasured = {}
  /\ \A kind \in Texts : Tokens[kind] \in 0 .. MaxCount /\ Bytes[kind] \in 0 .. MaxCount
  /\ \A kind \in Texts : Bytes[kind] = 0 => Tokens[kind] = 0
  /\ \A name \in (UNION {ToSet(node) : node \in Nodes}) \cup {Here} : Classify[name] \in Int

KindOf(tree, node) == IF node \in Nodes THEN tree[node] ELSE "absent"

\* The identity of a path: absolute and clean.
Identity(path) == Clean(Join(Cwd, path))

\* The walker passes over hidden and ignored entries, unless told not to.
PassesOver(options, node) ==
  \/ ~options.hidden /\ IsHiddenName(Last(node))
  \/ ~options.no_ignore /\ node \in Ignored

\* The nodes that a walk of the directory root comes to.
Visited(tree, options, root) ==
  {node \in Nodes :
     /\ StartsWith(node, root)
     /\ KindOf(tree, node) # "absent"
     /\ \A k \in Len(root) + 1 .. Len(node) :
          /\ KindOf(tree, SubSeq(node, 1, k - 1)) = "dir"
          /\ ~PassesOver(options, SubSeq(node, 1, k))}

\* Entries that the walker yields as errors: what cannot be listed or followed.
WalkFails(tree, options, node) ==
  \/ KindOf(tree, node) = "locked"
  \/ options.follow /\ KindOf(tree, node) \in {"dangling", "loop"}

IsDirectory(tree, node) == KindOf(tree, node) \in {"dir", "locked"}

\* An input that leads nowhere fails the whole scan.
IsMissing(tree, options, input) ==
  \/ KindOf(tree, Identity(input)) = "absent"
  \/ options.follow /\ KindOf(tree, Identity(input)) = "dangling"

\* The path under which the walk of input shows a node.
Shown(input, node) == Clean(input \o Beneath(node, Identity(input)))

Measured(path, kind) ==
  [path |-> path, language |-> Classify[Last(path)], tokens |-> Tokens[kind], bytes |-> Bytes[kind]]
Skipped(path, reason) == [path |-> path, reason |-> reason]
Failed(path) == [path |-> path, failed |-> TRUE]

IsMeasured(outcome) == "tokens" \in DOMAIN outcome
IsSkipped(outcome)  == "reason" \in DOMAIN outcome
HasFailed(outcome)  == "failed" \in DOMAIN outcome

\* count_file_with_cache of what is at a path.
OutcomeOf(tree, options, path) ==
  LET kind == KindOf(tree, Identity(path))
      isLink == kind \in {"link", "dangling", "loop"}
  IN  CASE kind = "absent"                           -> Skipped(path, Unreadable)
        [] isLink /\ ~options.follow                 -> Skipped(path, Symlink)
        [] kind = "dangling" /\ options.follow       -> Skipped(path, Unreadable)
        [] kind = "loop" /\ options.follow           -> Skipped(path, Unsupported)
        [] kind \in {"dir", "locked", "other"}       -> Skipped(path, Unsupported)
        [] kind = "oversized"                        -> Skipped(path, Oversized)
        [] kind = "binary"                           -> Skipped(path, Binary)
        [] kind = "failing"                          -> Failed(path)
        [] kind \in Texts /\ (isLink => options.follow) -> Measured(path, kind)
=============================================================================
