---------------------------- MODULE SequentialScan ----------------------------
(***************************************************************************)
(* What a scan promises (tokm-core/src/scan.rs): the answer of one who     *)
(* looks at the inputs one after the other, reads each file that they lead *)
(* to once, in the order of the files, and adds up what was read.  Each    *)
(* look falls at a moment of the scan, and between two moments the file    *)
(* system may have changed.  Module Scan, with its workers and its steps   *)
(* of discovery, implements it.                                            *)
(***************************************************************************)
EXTENDS FileSystem

CONSTANTS
  Trees,       \* the file systems a scan may find
  Requests,    \* what may be asked for: [inputs, options]
  Changes,     \* <<node, kind>> of the changes the file system may undergo
  Unknown      \* the scan has not returned

VARIABLES
  history,     \* the file systems there have been since the scan began
  request,
  result

vars == <<history, request, result>>

options == request.options
inputs  == request.inputs

Error(kind, path) == [error |-> kind, path |-> path]

\* When each input is looked at.
Discoveries ==
  {at \in [DOMAIN inputs -> DOMAIN history] : \A i, j \in DOMAIN inputs : i =< j => at[i] =< at[j]}

\* The inputs that are not there when they are looked at.
Missing(at) == {i \in DOMAIN inputs : IsMissing(history[at[i]], options, Clean(inputs[i]))}

\* The files that input i leads to, and what the walk cannot read.
Files(at, i) ==
  LET input == Clean(inputs[i])
      root  == Identity(input)
      files == IF IsDirectory(history[at[i]], root)
               THEN {node \in Visited(history[at[i]], options, root) :
                       /\ ~IsDirectory(history[at[i]], node)
                       /\ ~WalkFails(history[at[i]], options, node)}
               ELSE {root}
  IN  {node \in files : Admits(options, Shown(input, node), Cwd)}

Unread(at, i) ==
  LET input  == Clean(inputs[i])
      root   == Identity(input)
      unread == {node \in Visited(history[at[i]], options, root) :
                   IsDirectory(history[at[i]], root) /\ WalkFails(history[at[i]], options, node)}
  IN  {Skipped(Shown(input, node), Unreadable) : node \in unread}

AllFiles(at) == UNION {Files(at, i) : i \in DOMAIN inputs}

\* A file goes by the path under which the first input that leads to it shows it.
PathOf(at, node) ==
  Shown(Clean(inputs[Min({i \in DOMAIN inputs : node \in Files(at, i)})]), node)

\* What the outcomes come to: the first failure, or the whole.
Conclusion(outcomes, unread) ==
  LET failed == {i \in DOMAIN outcomes : HasFailed(outcomes[i])}
  IN  IF failed # {} THEN Error("count", outcomes[Min(failed)].path)
      ELSE Aggregate(Filtered(outcomes, IsMeasured), unread \o Filtered(outcomes, IsSkipped))

\* The answer, when the inputs are looked at and the files are read at these moments.
Answer(at, when) ==
  LET files == InOrder(AllFiles(at))
      outcome(file) == OutcomeOf(history[when[file]], options, PathOf(at, file))
  IN  Conclusion([i \in DOMAIN files |-> outcome(files[i])],
                 FlattenSeq([i \in DOMAIN inputs |-> SetToSeq(Unread(at, i))]))

-----------------------------------------------------------------------------

Init ==
  /\ history \in {<<tree>> : tree \in Trees}
  /\ request \in Requests
  /\ result = Unknown

\* Somebody changes the file system.
Change ==
  /\ result = Unknown
  /\ \E change \in Changes :
       history' = Append(history, [Last(history) EXCEPT ![change[1]] = change[2]])
  /\ UNCHANGED <<request, result>>

Refuse ==
  /\ result = Unknown
  /\ \/ inputs = <<>> /\ result' = Error("no inputs", <<>>)
     \/ inputs # <<>> /\ ~FiltersCompile(options) /\ result' = Error("glob", <<>>)
  /\ UNCHANGED <<history, request>>

Miss ==
  /\ result = Unknown
  /\ inputs # <<>> /\ FiltersCompile(options)
  /\ \E at \in Discoveries :
       Missing(at) # {} /\ result' = Error("input", Clean(inputs[Min(Missing(at))]))
  /\ UNCHANGED <<history, request>>

Scan ==
  /\ result = Unknown
  /\ inputs # <<>> /\ FiltersCompile(options)
  /\ \E at \in Discoveries :
       /\ Missing(at) = {}
       /\ \E when \in [AllFiles(at) -> at[Len(inputs)] .. Len(history)] : result' = Answer(at, when)
  /\ UNCHANGED <<history, request>>

Next == Change \/ Refuse \/ Miss \/ Scan

Spec == Init /\ [][Next]_vars
=============================================================================
