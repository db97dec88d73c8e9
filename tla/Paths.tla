-------------------------------- MODULE Paths --------------------------------
(***************************************************************************)
(* Logical paths as tokm-core compares, cleans and sorts them: the         *)
(* components of a Rust Path, and the globs that filter them (walk.rs).    *)
(*                                                                         *)
(* A path is the sequence of its components.  A name is a natural number;  *)
(* the special components are smaller and in the order of Rust's Component,*)
(* so that paths are in the order of a BTreeMap<PathBuf, _>.  Hidden names,*)
(* those with a leading dot, are the numbers from FirstHidden on.          *)
(***************************************************************************)
EXTENDS Iterators

CONSTANT FirstHidden   \* the first of the names that start with a dot

Root == -3             \* RootDir
Here == -2             \* CurDir
Up   == -1             \* ParentDir

IsAbsolute(path) == path # <<>> /\ path[1] = Root

\* Path::join
Join(path, other) == IF IsAbsolute(other) THEN other ELSE path \o other

\* Path::starts_with; StripPrefix when it does.
StartsWith(path, prefix) == IsPrefix(prefix, path)
Beneath(path, prefix) == SubSeq(path, Len(prefix) + 1, Len(path))

\* strip_prefix(prefix).unwrap_or(path)
StripPrefix(path, prefix) ==
  IF StartsWith(path, prefix) THEN Beneath(path, prefix) ELSE path

\* Path::parent, of a path that has one.
Parent(path) == Front(path)

\* One component more: "." adds nothing, and ".." takes a name away if there is one.
Push(out, component) ==
  CASE component = Here -> out
    [] component = Up   -> IF out = <<>> \/ Last(out) = Up THEN Append(out, Up)
                           ELSE IF Last(out) = Root THEN out
                           ELSE Front(out)
    [] OTHER            -> Append(out, component)

\* PathClean::clean
Clean(path) ==
  LET cleaned == FoldLeft(Push, <<>>, path)
  IN  IF cleaned = <<>> THEN <<Here>> ELSE cleaned

\* The order of paths: that of the first components that differ.
Less(left, right) ==
  \E k \in 1 .. Len(right) :
    /\ Len(left) >= k - 1
    /\ SubSeq(left, 1, k - 1) = SubSeq(right, 1, k - 1)
    /\ Len(left) = k - 1 \/ left[k] < right[k]

\* A set of paths as a BTreeMap<PathBuf, _> yields it.
InOrder(paths) == Ranked(paths, Less)

IsHiddenName(name) == name >= FirstHidden

\* is_hidden: some component starts with a dot.
IsHidden(path) == \E k \in DOMAIN path : IsHiddenName(path[k])

-----------------------------------------------------------------------------
(* Globs.  A * of globset also matches separators. *)

Exactly(path)    == [kind |-> "exactly", path |-> path]    \* src/lib.rs
Everything(path) == [kind |-> "everything", path |-> path] \* src/**
Ending(name)     == [kind |-> "ending", path |-> <<name>>] \* *.rs
Malformed        == [kind |-> "malformed", path |-> <<>>]  \* [

\* GlobSet::is_match
Matches(glob, path) ==
  CASE glob.kind = "exactly"    -> path = glob.path
    [] glob.kind = "everything" -> IsStrictPrefix(glob.path, path)
    [] glob.kind = "ending"     -> IsSuffix(glob.path, path)
    [] OTHER                    -> FALSE

\* Filters::admits_relative: an exclude beats an include, and no include means all.
AdmitsRelative(options, path) ==
  /\ ~ \E glob \in options.excludes : Matches(glob, path)
  /\ \/ options.includes = {}
     \/ \E glob \in options.includes : Matches(glob, path)

\* Filters::admits: below the current directory, globs match the relative path.
Admits(options, path, current_directory) ==
  AdmitsRelative(options, StripPrefix(path, current_directory))

\* Filters::new compiles every glob.
FiltersCompile(options) == Malformed \notin options.includes \cup options.excludes
=============================================================================
