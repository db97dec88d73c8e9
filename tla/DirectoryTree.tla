---------------------------- MODULE DirectoryTree ----------------------------
(***************************************************************************)
(* The tree that --tree draws of the directories of a scan                 *)
(* (tokm-cli/src/output.rs).                                               *)
(***************************************************************************)
EXTENDS Aggregation

\* Mutant of TreeParent: the parent of a bare name has no name.
TreeParent_bare(path) ==
  IF path \in {<<Here>>, <<Root>>} THEN {} ELSE {Parent(path)}

\* tree_parent, the set of it or nothing: "." is above every relative path.
TreeParent(path) ==
  IF path \in {<<Here>>, <<Root>>} THEN {}
  ELSE IF Len(path) = 1 THEN {<<Here>>}
  ELSE {Parent(path)}

\* write_directory_tree, write_tree_children: the lines of the tree in their order.
\* The directories without a parent among the others are roots, siblings are in the
\* order of their paths, and depth is the width of a line's prefix.
TreeLines(directories) ==
  LET shown == ToSet(directories)
      parents(directory) == {parent \in shown : parent.path \in TreeParent(directory.path)}
      roots == {directory \in shown : parents(directory) = {}}
      children(parent) == {directory \in shown : parent \in parents(directory)}
      line(directory, depth) ==
        [path |-> directory.path, tokens |-> directory.tokens, depth |-> depth]
      indented(lines) == [i \in DOMAIN lines |-> [lines[i] EXCEPT !.depth = @ + 1]]
      drawn[directory \in shown] ==
        LET siblings == SetToSortSeq(children(directory), ByPath)
        IN  <<line(directory, 0)>>
              \o FlattenSeq([i \in DOMAIN siblings |-> indented(drawn[siblings[i]])])
      tops == SetToSortSeq(roots, ByPath)
  IN  FlattenSeq([i \in DOMAIN tops |-> drawn[tops[i]]])
=============================================================================
