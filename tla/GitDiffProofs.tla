----------------------------- MODULE GitDiffProofs -----------------------------
(***************************************************************************)
(* Proofs about modules GitDiff and TokenDiff: for any trees, worktree,    *)
(* options and edits, what a diff compares is whole and without the        *)
(* metadata of Git, it is silent about what nobody changed, and the        *)
(* changes it tells of add up to the difference, in sums that never wrap.  *)
(***************************************************************************)
EXTENDS GitDiff, PathProofs

-----------------------------------------------------------------------------
(* Snapshots of outcomes *)

\* A file or a skip of the path.
Accounts(outcome, path) ==
  /\ outcome.path = path
  /\ IF "tokens" \in DOMAIN outcome
     THEN outcome.tokens \in 0 .. MaxCount /\ outcome.language \in Int /\ outcome.bytes \in Nat
     ELSE outcome.reason \in Int

\* Each path has one outcome.
AreOutcomes(paths, outcome) ==
  /\ IsFiniteSet(paths) /\ paths \subseteq Seq(Int)
  /\ \A path \in paths : Accounts(outcome[path], path)

MeasuredOf(paths, outcome) == {path \in paths : "tokens" \in DOMAIN outcome[path]}

\* A snapshot: files of paths of their own, with as many tokens as its totals say.
IsSnapshot(snapshot) ==
  /\ snapshot # Absent
  /\ AreFiles(snapshot.files, Len(snapshot.files)) /\ Absent \notin ToSet(snapshot.files)
  /\ \A i, j \in DOMAIN snapshot.files : snapshot.files[i].path = snapshot.files[j].path => i = j
  /\ snapshot.totals.tokens = SumOver(TokensIn(snapshot.files), 1 .. Len(snapshot.files))
  /\ snapshot.totals.tokens =< MaxCount
  /\ snapshot.totals.files = Len(snapshot.files)

\* The snapshot has the outcomes of the paths and nothing else.
Gives(snapshot, paths, outcome) ==
  /\ IsSnapshot(snapshot)
  /\ ToSet(snapshot.files) = {outcome[path] : path \in MeasuredOf(paths, outcome)}
  /\ ToSet(snapshot.skipped.details) = {outcome[path] : path \in paths \ MeasuredOf(paths, outcome)}

LEMMA ImageIsFinite ==
  ASSUME NEW S, IsFiniteSet(S), NEW f
  PROVE  IsFiniteSet({f[x] : x \in S})
<1>1. PICK g : g = [x \in S |-> f[x]]
  OBVIOUS
<1>2. PICK T : T = {f[x] : x \in S}
  OBVIOUS
<1>3. g \in Surjection(S, T)
  BY <1>1, <1>2 DEF Surjection
<1> QED
  BY <1>2, <1>3, FS_Surjection

\* A set as a sequence has the elements of the set.
LEMMA ListsElements ==
  ASSUME NEW S, IsFiniteSet(S)
  PROVE  /\ \E n \in Nat : DOMAIN SetToSeq(S) = 1 .. n
         /\ IsInjective(SetToSeq(S))
         /\ ToSet(SetToSeq(S)) = S
         /\ \A i \in DOMAIN SetToSeq(S) : SetToSeq(S)[i] \in S
<1>1. PICK seq : seq = SetToSeq(S)
  OBVIOUS
<1>2. PICK n \in Nat : n = Cardinality(S)
  BY SetToSeqLists
<1>3. seq \in Seq(S) /\ Len(seq) = n /\ \A x \in S : \E i \in 1 .. n : seq[i] = x
  BY <1>1, <1>2, SetToSeqLists
<1>4. DOMAIN seq = 1 .. n /\ \A i \in 1 .. n : seq[i] \in S
  BY <1>3
<1>5. ToSet(seq) = S
  BY <1>3, <1>4 DEF ToSet
<1>6. IsInjective(seq)
  BY <1>1, SetToSeqLists
<1> QED
  BY <1>1, <1>4, <1>5, <1>6

\* Aggregation keeps the outcomes, whatever it sorts and counts.
LEMMA SnapshotIs ==
  ASSUME NEW paths, NEW outcome, AreOutcomes(paths, outcome), NEW snapshot,
         snapshot = SnapshotOf({outcome[path] : path \in paths}), snapshot # Overflow
  PROVE  Gives(snapshot, paths, outcome)
<1>1. PICK all : all = {outcome[path] : path \in paths}
  OBVIOUS
<1>2. PICK measured : measured = {o \in all : "tokens" \in DOMAIN o}
  OBVIOUS
<1>3. PICK skipped : skipped = all \ measured
  OBVIOUS
<1>4. IsFiniteSet(measured) /\ IsFiniteSet(skipped)
  <2>1. IsFiniteSet(all)
    BY <1>1, ImageIsFinite DEF AreOutcomes
  <2> QED
    BY <2>1, <1>2, <1>3, FS_Subset
<1>5. PICK files : files = SetToSeq(measured)
  OBVIOUS
<1>6. PICK details : details = SetToSeq(skipped)
  OBVIOUS
<1>7. PICK n \in Nat : DOMAIN files = 1 .. n /\ ToSet(files) = measured /\ \A i \in 1 .. n : files[i] \in measured
  BY <1>4, <1>5, ListsElements
<1>71. \A i, j \in 1 .. n : files[i] = files[j] => i = j
  <2>1. IsInjective(files)
    BY <1>4, <1>5, ListsElements
  <2> QED
    BY <1>7, <2>1 DEF IsInjective
<1>8. PICK m \in Nat : DOMAIN details = 1 .. m /\ ToSet(details) = skipped /\ \A i \in 1 .. m : details[i] \in skipped
  BY <1>4, <1>6, ListsElements
<1>9. /\ ToSet(snapshot.files) = ToSet(Sorted(files, ByPath))
      /\ ToSet(snapshot.skipped.details) = ToSet(SkippedSummary(details).details)
      /\ snapshot # Absent
      /\ snapshot.files = Sorted(files, ByPath)
      /\ Aggregate(files, details) # Overflow
      /\ snapshot.totals = Aggregate(files, details).totals
      /\ snapshot.files = Aggregate(files, details).files
  <2>1. PICK aggregate : aggregate = Aggregate(files, details)
    OBVIOUS
  <2>2. snapshot = IF aggregate = Overflow THEN Overflow
                   ELSE [semantics |-> 1, totals |-> aggregate.totals, languages |-> aggregate.languages,
                         files |-> aggregate.files, skipped |-> aggregate.skipped]
    BY <1>1, <1>2, <1>3, <1>5, <1>6, <2>1 DEF SnapshotOf
  <2>3. aggregate # Overflow
    BY <2>2
  <2>4. PICK x, y, z :
          aggregate = [totals |-> x, languages |-> y, files |-> Sorted(files, ByPath), skipped |-> z]
          /\ z = SkippedSummary(details)
    BY <2>1, <2>3 DEF Aggregate
  <2>5. snapshot = [semantics |-> 1, totals |-> x, languages |-> y,
                    files |-> Sorted(files, ByPath), skipped |-> z]
    BY <2>2, <2>3, <2>4
  <2>6. DOMAIN snapshot # DOMAIN Absent
    <3>1. "semantics" \in DOMAIN snapshot /\ DOMAIN Absent = {"absent"}
      BY <2>5 DEF Absent
    <3> QED
      BY <3>1
  <2>7. snapshot.totals = aggregate.totals /\ snapshot.files = aggregate.files
    BY <2>4, <2>5
  <2> QED
    BY <2>1, <2>3, <2>4, <2>5, <2>6, <2>7
<1>10. \A o \in all : o.path \in Seq(Int) /\ ("tokens" \notin DOMAIN o => o.reason \in Int)
  BY <1>1 DEF AreOutcomes, Accounts
<1>11. ToSet(Sorted(files, ByPath)) = measured
  <2>1. \A i \in 1 .. n : files[i].path \in Seq(Int)
    BY <1>2, <1>7, <1>10
  <2> QED
    BY <1>7, <2>1, SortedByPath
<1>12. ToSet(SkippedSummary(details).details) = skipped
  <2>1. \A i \in 1 .. m : details[i].path \in Seq(Int) /\ details[i].reason \in Int
    BY <1>2, <1>3, <1>8, <1>10
  <2> QED
    BY <1>8, <2>1, DetailsSorted
<1>13. /\ measured = {outcome[path] : path \in MeasuredOf(paths, outcome)}
       /\ skipped = {outcome[path] : path \in paths \ MeasuredOf(paths, outcome)}
  BY <1>1, <1>2, <1>3 DEF MeasuredOf
<1>14. AreFiles(files, n)
  <2>1. \A o \in all : "tokens" \in DOMAIN o => o.tokens \in Nat /\ o.language \in Int /\ o.bytes \in Nat
    <3>1. \A t \in 0 .. MaxCount : t \in Nat
      OBVIOUS
    <3> QED
      BY <1>1, <3>1 DEF AreOutcomes, Accounts
  <2>2. ASSUME NEW i \in 1 .. n
        PROVE  /\ files[i].path \in Seq(Int) /\ files[i].language \in Int
               /\ files[i].tokens \in Nat /\ files[i].bytes \in Nat
    BY <1>2, <1>7, <1>10, <2>1
  <2> QED
    BY <1>7, <2>2 DEF AreFiles
<1>15. ASSUME NEW i \in 1 .. n, NEW j \in 1 .. n, files[i].path = files[j].path
       PROVE  i = j
  <2>1. \A o \in all : o = outcome[o.path]
    BY <1>1 DEF AreOutcomes, Accounts
  <2>2. files[i] \in all /\ files[j] \in all
    BY <1>2, <1>7
  <2> QED
    BY <1>71, <1>15, <2>1, <2>2
<1>16. PICK report : /\ report = Aggregate(files, details) /\ report # Overflow
                     /\ snapshot.totals = report.totals /\ snapshot.files = report.files
  <2>1. PICK report : report = Aggregate(files, details)
    OBVIOUS
  <2> QED
    BY <1>9, <2>1
<1>17. Fits(files, 1 .. n) /\ AddsFilesUp(report, files, n)
  BY <1>14, <1>16, AggregateIs
<1>18. IsSnapshot(snapshot)
  <2>1. PICK list : list = Sorted(files, ByPath)
    OBVIOUS
  <2>2. /\ AreFiles(list, n)
        /\ SumOver(TokensIn(list), 1 .. n) = SumOver(TokensIn(files), 1 .. n)
        /\ \A i, j \in 1 .. n : i < j => Less(list[i].path, list[j].path)
    BY <1>14, <1>15, <2>1, SortedFiles
  <2>3. snapshot.files = list /\ Len(list) = n /\ DOMAIN list = 1 .. n
    BY <1>16, <1>17, <2>1 DEF AddsFilesUp
  <2>4. ASSUME NEW i \in 1 .. n, NEW j \in 1 .. n, list[i].path = list[j].path
        PROVE  i = j
    <3>1. list[i].path \in Seq(Int)
      BY <2>2 DEF AreFiles
    <3>2. ~(i < j) /\ ~(j < i)
      BY <2>2, <2>4, <3>1, LessIrreflexive
    <3> QED
      BY <3>2
  <2>5. /\ snapshot.totals.tokens = SumOver(TokensIn(list), 1 .. n) /\ snapshot.totals.tokens =< MaxCount
        /\ snapshot.totals.files = n
    BY <1>16, <1>17, <2>2 DEF AddsFilesUp, Fits
  <2>6. Absent \notin ToSet(list)
    <3>1. ToSet(list) = measured
      BY <1>11, <2>1
    <3>2. DOMAIN Absent = {"absent"}
      BY DEF Absent
    <3> QED
      BY <1>2, <3>1, <3>2
  <2> QED
    BY <1>9, <2>2, <2>3, <2>4, <2>5, <2>6 DEF IsSnapshot
<1> QED
  BY <1>9, <1>11, <1>12, <1>13, <1>18 DEF Gives

\* A snapshot has a file where its outcomes have one.
LEMMA GivenFiles ==
  ASSUME NEW paths, NEW outcome, AreOutcomes(paths, outcome), NEW snapshot, Gives(snapshot, paths, outcome)
  PROVE  /\ PathsOf(snapshot) = MeasuredOf(paths, outcome)
         /\ \A path \in MeasuredOf(paths, outcome) : FileAt(snapshot, path) = outcome[path]
         /\ \A path : path \notin MeasuredOf(paths, outcome) => FileAt(snapshot, path) = Absent
<1>1. \A path \in MeasuredOf(paths, outcome) : outcome[path].path = path
  BY DEF MeasuredOf, AreOutcomes, Accounts
<1>2. PathsOf(snapshot) = MeasuredOf(paths, outcome)
  BY <1>1 DEF PathsOf, Gives
<1>3. ASSUME NEW path \in MeasuredOf(paths, outcome)  PROVE FileAt(snapshot, path) = outcome[path]
  <2>1. /\ outcome[path] \in ToSet(snapshot.files) /\ outcome[path].path = path
        /\ \A file \in ToSet(snapshot.files) : file.path = path => file = outcome[path]
    BY <1>1, <1>3 DEF Gives
  <2> QED
    BY <1>2, <1>3, <2>1 DEF FileAt
<1> QED
  BY <1>2, <1>3 DEF FileAt

\* A snapshot accounts for each of the paths.
LEMMA GivenPaths ==
  ASSUME NEW paths, NEW outcome, AreOutcomes(paths, outcome), NEW snapshot, Gives(snapshot, paths, outcome)
  PROVE  {o.path : o \in ToSet(snapshot.files) \cup ToSet(snapshot.skipped.details)} = paths
<1>1. ToSet(snapshot.files) \cup ToSet(snapshot.skipped.details) = {outcome[path] : path \in paths}
  BY DEF Gives, MeasuredOf
<1> QED
  BY <1>1 DEF AreOutcomes, Accounts

-----------------------------------------------------------------------------
(* What the snapshots hold *)

\* The tokens at each of the paths, those of one language, and the files at hand.
At(snapshot, P) == [path \in P |-> TokensOf(FileAt(snapshot, path))]

TokensIfOf(file, language) ==
  IF file # Absent /\ file.language = language THEN file.tokens ELSE 0

LanguageAt(snapshot, language, P) == [path \in P |-> TokensIfOf(FileAt(snapshot, path), language)]

\* Every file is found under its path, and nothing under another.
LEMMA FilesFound ==
  ASSUME NEW snapshot, IsSnapshot(snapshot), NEW n, n = Len(snapshot.files)
  PROVE  /\ n \in Nat /\ DOMAIN snapshot.files = 1 .. n
         /\ \A i \in 1 .. n : /\ snapshot.files[i].path \in PathsOf(snapshot)
                              /\ FileAt(snapshot, snapshot.files[i].path) = snapshot.files[i]
                              /\ snapshot.files[i] # Absent
         /\ \A path \in PathsOf(snapshot) : \E i \in 1 .. n : snapshot.files[i].path = path
         /\ \A path : path \notin PathsOf(snapshot) => FileAt(snapshot, path) = Absent
<1>1. n \in Nat /\ DOMAIN snapshot.files = 1 .. n
  BY DEF IsSnapshot, AreFiles
<1>2. ToSet(snapshot.files) = {snapshot.files[i] : i \in 1 .. n}
  BY <1>1 DEF ToSet
<1>3. ASSUME NEW i \in 1 .. n
      PROVE  /\ snapshot.files[i].path \in PathsOf(snapshot)
             /\ FileAt(snapshot, snapshot.files[i].path) = snapshot.files[i]
             /\ snapshot.files[i] # Absent
  <2>1. snapshot.files[i] \in ToSet(snapshot.files)
    BY <1>2
  <2>2. snapshot.files[i].path \in PathsOf(snapshot)
    BY <2>1 DEF PathsOf
  <2>3. \A file \in ToSet(snapshot.files) : file.path = snapshot.files[i].path => file = snapshot.files[i]
    BY <1>1, <1>2 DEF IsSnapshot
  <2> QED
    BY <2>1, <2>2, <2>3 DEF FileAt, IsSnapshot
<1>4. ASSUME NEW path \in PathsOf(snapshot)
      PROVE  \E i \in 1 .. n : snapshot.files[i].path = path
  <2>1. PICK file \in ToSet(snapshot.files) : file.path = path
    BY DEF PathsOf
  <2>2. PICK i \in 1 .. n : file = snapshot.files[i]
    BY <1>2
  <2> QED
    BY <2>1, <2>2
<1>5. ASSUME NEW path, path \notin PathsOf(snapshot)
      PROVE  FileAt(snapshot, path) = Absent
  BY <1>5 DEF FileAt
<1> QED
  BY <1>1, <1>3, <1>4, <1>5

\* What the paths weigh and what their files weigh add up to the same.
LEMMA SumByPath ==
  ASSUME NEW snapshot, IsSnapshot(snapshot), NEW n, n = Len(snapshot.files),
         NEW P, IsFiniteSet(P), PathsOf(snapshot) \subseteq P,
         NEW w, NEW v, \A i \in 1 .. n : w[i] \in Int /\ v[snapshot.files[i].path] = w[i],
         \A path \in P \ PathsOf(snapshot) : v[path] = 0
  PROVE  SumOver(v, P) = SumOver(w, 1 .. n)
<1>1. /\ n \in Nat /\ DOMAIN snapshot.files = 1 .. n
      /\ \A i \in 1 .. n : snapshot.files[i].path \in PathsOf(snapshot)
      /\ \A path \in PathsOf(snapshot) : \E i \in 1 .. n : snapshot.files[i].path = path
  BY FilesFound
<1>2. PICK f : f = [i \in 1 .. n |-> snapshot.files[i].path]
  OBVIOUS
<1>3. PICK S : S = 1 .. n
  OBVIOUS
<1>4. Weighs(w, S)
  BY <1>1, <1>3, UptoIsFinite DEF Weighs
<1>5. ASSUME NEW path \in P
      PROVE  v[path] = SumOver(w, {i \in S : f[i] = path})
  <2>1. CASE path \in PathsOf(snapshot)
    <3>1. PICK i \in 1 .. n : snapshot.files[i].path = path
      BY <1>1, <2>1
    <3>0. \A j \in 1 .. n : snapshot.files[i].path = snapshot.files[j].path => i = j
      BY <1>1 DEF IsSnapshot
    <3>2. {j \in S : f[j] = path} = {i}
      BY <1>2, <1>3, <3>0, <3>1
    <3>3. Weighs(w, {i}) /\ i \in {i} /\ {i} \ {i} = {}
      BY <1>3, <1>4, FS_Subset DEF Weighs
    <3>4. SumOver(w, {i}) = w[i] + SumOver(w, {i} \ {i})
      BY <3>3, SumTake
    <3>5. SumOver(w, {i} \ {i}) = 0
      BY <3>3, SumNone
    <3>6. v[path] = w[i] /\ w[i] \in Int
      BY <3>1
    <3>7. v[path] = SumOver(w, {i})
      BY <3>4, <3>5, <3>6
    <3> QED
      BY <3>2, <3>7
  <2>2. CASE path \notin PathsOf(snapshot)
    <3>1. {j \in S : f[j] = path} = {}
      BY <1>1, <1>2, <1>3, <2>2
    <3> QED
      BY <2>2, <3>1, SumNone
  <2> QED
    BY <2>1, <2>2
<1>6. Groups(f, S, P, w, v)
  BY <1>1, <1>2, <1>3, <1>5 DEF Groups
<1> QED
  BY <1>3, <1>4, <1>6, SumFibres

\* The tokens at the paths of a snapshot are its total.
LEMMA SnapshotTotal ==
  ASSUME NEW snapshot, IsSnapshot(snapshot), NEW P, IsFiniteSet(P), PathsOf(snapshot) \subseteq P
  PROVE  /\ Weighs(At(snapshot, P), P) /\ \A path \in P : At(snapshot, P)[path] \in Nat
         /\ SumOver(At(snapshot, P), P) = snapshot.totals.tokens
<1>1. PICK n : n = Len(snapshot.files)
  OBVIOUS
<1>2. /\ n \in Nat /\ DOMAIN snapshot.files = 1 .. n
      /\ \A i \in 1 .. n : /\ snapshot.files[i].path \in PathsOf(snapshot)
                           /\ FileAt(snapshot, snapshot.files[i].path) = snapshot.files[i]
                           /\ snapshot.files[i] # Absent
      /\ \A path \in PathsOf(snapshot) : \E i \in 1 .. n : snapshot.files[i].path = path
      /\ \A path : path \notin PathsOf(snapshot) => FileAt(snapshot, path) = Absent
  BY <1>1, FilesFound
<1>3. PICK v : v = At(snapshot, P)
  OBVIOUS
<1>4. PICK w : w = TokensIn(snapshot.files)
  OBVIOUS
<1>5. \A i \in 1 .. n : w[i] = snapshot.files[i].tokens /\ w[i] \in Nat
  BY <1>1, <1>2, <1>4 DEF IsSnapshot, AreFiles, TokensIn
<1>6. \A i \in 1 .. n : v[snapshot.files[i].path] = w[i]
  BY <1>2, <1>3, <1>5 DEF At, TokensOf
<1>7. \A path \in P \ PathsOf(snapshot) : v[path] = 0
  BY <1>2, <1>3 DEF At, TokensOf
<1>8. \A path \in P : v[path] \in Nat
  BY <1>2, <1>5, <1>6, <1>7
<1>9. SumOver(v, P) = SumOver(w, 1 .. n)
  BY <1>1, <1>5, <1>6, <1>7, SumByPath
<1> QED
  BY <1>1, <1>3, <1>4, <1>8, <1>9 DEF Weighs, IsSnapshot

\* The tokens of a language at the paths of a snapshot are those of its files.
LEMMA SnapshotLanguage ==
  ASSUME NEW snapshot, IsSnapshot(snapshot), NEW P, IsFiniteSet(P), PathsOf(snapshot) \subseteq P,
         NEW language
  PROVE  /\ Weighs(LanguageAt(snapshot, language, P), P)
         /\ SumOver(LanguageAt(snapshot, language, P), P) = LanguageTokens(snapshot, language)
<1>1. PICK n : n = Len(snapshot.files)
  OBVIOUS
<1>2. /\ n \in Nat /\ DOMAIN snapshot.files = 1 .. n
      /\ \A i \in 1 .. n : /\ snapshot.files[i].path \in PathsOf(snapshot)
                           /\ FileAt(snapshot, snapshot.files[i].path) = snapshot.files[i]
                           /\ snapshot.files[i] # Absent
      /\ \A path \in PathsOf(snapshot) : \E i \in 1 .. n : snapshot.files[i].path = path
      /\ \A path : path \notin PathsOf(snapshot) => FileAt(snapshot, path) = Absent
  BY <1>1, FilesFound
<1>3. PICK files : files = snapshot.files
  OBVIOUS
<1>4. AreFiles(files, n)
  BY <1>1, <1>3 DEF IsSnapshot
<1>5. PICK v : v = LanguageAt(snapshot, language, P)
  OBVIOUS
<1>6. PICK S \in SUBSET (1 .. n) : S = OfLanguage(files, n, language)
  BY DEF OfLanguage
<1>7. PICK w : w = [i \in 1 .. n |-> IF i \in S THEN TokensIn(files)[i] ELSE 0]
  OBVIOUS
<1>8. \A i \in 1 .. n : TokensIn(files)[i] = files[i].tokens /\ files[i].tokens \in Nat
  BY <1>4 DEF AreFiles, TokensIn
<1>9. \A i \in 1 .. n : w[i] \in Int /\ v[files[i].path] = w[i]
  BY <1>2, <1>3, <1>5, <1>6, <1>7, <1>8 DEF LanguageAt, TokensIfOf, OfLanguage
<1>10. \A path \in P \ PathsOf(snapshot) : v[path] = 0
  BY <1>2, <1>5 DEF LanguageAt, TokensIfOf
<1>11. ASSUME NEW path \in P
       PROVE  v[path] \in Int
  <2>1. CASE path \in PathsOf(snapshot)
    <3>1. PICK i \in 1 .. n : files[i].path = path
      BY <1>2, <1>3, <2>1
    <3> QED
      BY <1>9, <3>1
  <2> QED
    BY <1>10, <2>1
<1>12. SumOver(v, P) = SumOver(w, 1 .. n)
  BY <1>1, <1>3, <1>9, <1>10, SumByPath
<1>13. SumOver(w, 1 .. n) = SumOver(TokensIn(files), S)
  <2>1. PICK all \in SUBSET (1 .. n) : all = 1 .. n
    OBVIOUS
  <2>2. Weighs(TokensIn(files), all)
    BY <1>4, SumsAreNatural
  <2> QED
    <3>1. PICK count : count = TokensIn(files)
      OBVIOUS
    <3>2. PICK T \in SUBSET all : T = S
      BY <2>1
    <3>3. \A i \in all : w[i] = IF i \in T THEN count[i] ELSE 0
      BY <1>7, <2>1, <3>1, <3>2
    <3>4. CountsPart(w, count, all, T)
      BY <3>3 DEF CountsPart
    <3>5. Weighs(count, all)
      BY <2>2, <3>1
    <3>6. SumOver(w, all) = SumOver(count, T)
      BY <3>4, <3>5, SumOfPart
    <3> QED
      BY <2>1, <3>1, <3>2, <3>6
<1>14. LanguageTokens(snapshot, language) = SumOver(TokensIn(files), S)
  <2>1. PICK Before : Before = [i \in S |-> {j \in S : j < i}]
    OBVIOUS
  <2>2. PICK list : list = Arranged(files, Before)
    OBVIOUS
  <2>3. Filtered(files, LAMBDA file : file.language = language) = list
    BY <1>2, <1>3, <1>6, <2>1, <2>2 DEF Filtered, Ranked, Arranged, OfLanguage
  <2>4. Orders(S, Before)
    BY <1>2, <2>1, IndicesOrder
  <2>5. PICK m : m = Cardinality(S)
    OBVIOUS
  <2>6. AreFiles(list, m) /\ SumOver(TokensIn(list), 1 .. m) = SumOver(TokensIn(files), S)
    BY <1>4, <2>2, <2>4, <2>5, ArrangedFiles
  <2>7. PICK all \in SUBSET (1 .. m) : all = 1 .. m
    OBVIOUS
  <2>8. PICK counts : counts = TokensIn(list)
    OBVIOUS
  <2>9. m \in Nat /\ DOMAIN counts = 1 .. m /\ Weighs(counts, 1 .. m)
    BY <2>6, <2>7, <2>8, SumsAreNatural DEF AreFiles, TokensIn
  <2>10. Total(counts) = SumOver(counts, 1 .. m)
    BY <2>9, TotalIs
  <2>11. Sum(list, LAMBDA file : file.tokens) = Total(counts)
    BY <2>8 DEF Sum, TokensIn
  <2>12. LanguageTokens(snapshot, language) = Sum(list, LAMBDA file : file.tokens)
    BY <1>3, <2>3 DEF LanguageTokens
  <2> QED
    BY <2>6, <2>8, <2>10, <2>11, <2>12
<1> QED
  BY <1>5, <1>11, <1>12, <1>13, <1>14 DEF Weighs

-----------------------------------------------------------------------------
(* What the filters see *)

\* The facts about what is asked for, of every state.
Asked ==
  /\ request.mode \in {"trees", "worktree", "snapshots"}
  /\ request.root \in Seq(Int) /\ Clean(request.root) = request.root
  /\ {"includes", "excludes"} \subseteq DOMAIN options

Seen(path) == StripPrefix(Shown(path), Cwd)

MetadataGlobs ==
  LET metadata == Append(request.root, GitName)
  IN  {Exactly(<<GitName>>), Everything(<<GitName>>), Exactly(metadata), Everything(metadata)}

LEMMA WorktreeOptionsAre ==
  ASSUME Asked
  PROVE  /\ WorktreeOptions.includes = options.includes
         /\ WorktreeOptions.excludes = options.excludes \cup MetadataGlobs
BY DEF Asked, WorktreeOptions, MetadataGlobs

LEMMA ShownIs ==
  ASSUME Asked, NEW path \in Seq(Nat), path # <<>>
  PROVE  /\ Shown(path) = Prefix(request.root) \o path
         /\ StripPrefix(Shown(path), request.root) = path
         /\ Prefix(request.root) \in Seq(Int)
BY CleanBelow, CleanRoot DEF Asked, Shown

\* What is not within the metadata of any repository is not excluded as such.
LEMMA NotMetadata ==
  ASSUME Asked, NEW path \in Seq(Int), GitName \notin ToSet(path), NEW glob \in MetadataGlobs
  PROVE  ~Matches(glob, path)
<1>0. request.root \in Seq(Int) /\ GitName \in Int
  BY GitDiffAssumption DEF Asked
<1>1. \A i \in 1 .. Len(path) : path[i] # GitName
  BY DEF ToSet
<1>2. ASSUME NEW metadata \in Seq(Int), NEW k \in 1 .. Len(metadata), metadata[k] = GitName
      PROVE  path # metadata /\ ~IsStrictPrefix(metadata, path)
  <2>1. k \in 1 .. Len(path) => path[k] # GitName
    BY <1>1
  <2>2. Len(path) \in Nat /\ Len(metadata) \in Nat
    OBVIOUS
  <2>3. path # metadata
    BY <1>2, <2>1
  <2>4. ~IsPrefix(metadata, path)
    BY <1>2, <2>1, <2>2 DEF IsPrefix
  <2> QED
    BY <2>3, <2>4 DEF IsStrictPrefix
<1>3. <<GitName>> \in Seq(Int) /\ 1 \in 1 .. Len(<<GitName>>) /\ <<GitName>>[1] = GitName
  BY <1>0
<1>4. PICK metadata : metadata = Append(request.root, GitName)
  OBVIOUS
<1>5. PICK k \in Nat : k = Len(metadata)
  BY <1>0, <1>4
<1>6. metadata \in Seq(Int) /\ k \in 1 .. Len(metadata) /\ metadata[k] = GitName
  BY <1>0, <1>4, <1>5
<1>7. /\ path # <<GitName>> /\ ~IsStrictPrefix(<<GitName>>, path)
      /\ path # metadata /\ ~IsStrictPrefix(metadata, path)
  BY <1>2, <1>3, <1>6
<1>8. glob \in {Exactly(<<GitName>>), Everything(<<GitName>>), Exactly(metadata), Everything(metadata)}
  BY <1>4 DEF MetadataGlobs
<1>9. ASSUME NEW whole \in {<<GitName>>, metadata}
      PROVE  ~Matches(Exactly(whole), path) /\ ~Matches(Everything(whole), path)
  BY <1>7, <1>9 DEF Matches, Exactly, Everything
<1> QED
  BY <1>8, <1>9

\* From the repository itself a file is seen under its path.
LEMMA SeenFromRoot ==
  ASSUME Asked, request.root \in {<<Here>>, Cwd}, NEW path \in Seq(Nat), path # <<>>
  PROVE  Seen(path) = path
<1>0. Cwd \in Seq(Int) /\ Cwd # <<>> /\ Cwd[1] = Root
  BY GitDiffAssumption DEF IsAbsolute
<1>1. CASE request.root = Cwd
  BY <1>1, ShownIs DEF Seen
<1>2. CASE request.root = <<Here>>
  <2>1. Shown(path) = <<>> \o path
    BY <1>2, ShownIs DEF Prefix
  <2>2. <<>> \o path = path
    OBVIOUS
  <2>3. path[1] \in Nat /\ 1 \in 1 .. Len(Cwd)
    BY <1>0
  <2>4. ~IsPrefix(Cwd, path)
    BY <1>0, <2>3 DEF IsPrefix, Root
  <2> QED
    BY <2>1, <2>2, <2>4 DEF Seen, StripPrefix, StartsWith
<1> QED
  BY <1>1, <1>2

\* The filters let the same paths through in both scans.
LEMMA SameFilters ==
  ASSUME Asked, SameView, NEW path \in Seq(Nat), path # <<>>, GitName \notin ToSet(path)
  PROVE  Admits(WorktreeOptions, Shown(path), Cwd) <=> AdmitsRelative(options, path)
<1>0. /\ Cwd \in Seq(Int) /\ request.root \in Seq(Int) /\ Clean(request.root) = request.root
  BY GitDiffAssumption DEF Asked
<1>1. PICK seen : seen = Seen(path)
  OBVIOUS
<1>2. PICK prefix \in Seq(Int) : prefix = Prefix(request.root)
  BY ShownIs
<1>3. PICK shown : shown = prefix \o path
  OBVIOUS
<1>4. Shown(path) = shown /\ shown \in Seq(Int)
  BY <1>2, <1>3, ShownIs
<1>5. Admits(WorktreeOptions, Shown(path), Cwd) <=> AdmitsRelative(WorktreeOptions, seen)
  BY <1>1 DEF Admits, Seen
<1>6. CASE options.includes = {} /\ options.excludes = {} /\ GitName \notin ToSet(request.root)
  <2>1. GitName \notin ToSet(prefix)
    BY <1>2, <1>6 DEF Prefix, ToSet
  <2>2. GitName \notin ToSet(shown)
    <3>1. \A i \in 1 .. Len(prefix) : prefix[i] # GitName
      BY <2>1 DEF ToSet
    <3>2. \A i \in 1 .. Len(path) : path[i] # GitName
      BY DEF ToSet
    <3>3. PICK n \in Nat : n = Len(prefix)
      OBVIOUS
    <3>4. PICK m \in Nat : m = Len(path)
      OBVIOUS
    <3>5. /\ DOMAIN shown = 1 .. n + m
          /\ \A i \in 1 .. n + m : shown[i] = IF i =< n THEN prefix[i] ELSE path[i - n]
      BY <1>3, <3>3, <3>4
    <3>6. \A i \in 1 .. n + m : i > n => i - n \in 1 .. m
      OBVIOUS
    <3>7. \A i \in 1 .. n + m : shown[i] # GitName
      BY <3>1, <3>2, <3>3, <3>4, <3>5, <3>6
    <3> QED
      BY <3>5, <3>7 DEF ToSet
  <2>3. GitName \notin ToSet(seen) /\ seen \in Seq(Int)
    BY <1>0, <1>1, <1>4, <2>2, StripComponents DEF Seen
  <2>4. AdmitsRelative(WorktreeOptions, seen)
    BY <1>6, <2>3, WorktreeOptionsAre, NotMetadata DEF AdmitsRelative
  <2> QED
    BY <1>5, <1>6, <2>4 DEF AdmitsRelative
<1>7. CASE request.root \in {<<Here>>, Cwd}
  <2>1. seen = path
    BY <1>1, <1>7, SeenFromRoot
  <2>2. path \in Seq(Int)
    OBVIOUS
  <2>3. \A glob \in MetadataGlobs : ~Matches(glob, path)
    BY <2>2, NotMetadata
  <2> QED
    BY <1>5, <2>1, <2>3, WorktreeOptionsAre DEF AdmitsRelative
<1> QED
  BY <1>0, <1>6, <1>7 DEF SameView

\* The metadata of the repository is excluded where the filters see it.
LEMMA MetadataExcluded ==
  ASSUME Asked, MetadataSeen, NEW path \in Seq(Nat), path # <<>>, path[1] = GitName
  PROVE  ~Admits(WorktreeOptions, Shown(path), Cwd)
<1>0. /\ Cwd \in Seq(Int) /\ request.root \in Seq(Int) /\ Clean(request.root) = request.root
      /\ GitName \in Nat
  BY GitDiffAssumption DEF Asked
<1>1. PICK prefix \in Seq(Int) : prefix = Prefix(request.root)
  BY ShownIs
<1>2. PICK metadata : metadata = prefix \o <<GitName>>
  OBVIOUS
<1>3. metadata \in Seq(Int) /\ Clean(Append(request.root, GitName)) = metadata
  <2>1. Append(request.root, GitName) = request.root \o <<GitName>>
    <3>1. GitName \in Int
      BY <1>0
    <3> QED
      BY <1>0, <3>1, AppendIsConcat
  <2>2. <<GitName>> \in Seq(Nat) /\ <<GitName>> # <<>>
    BY <1>0
  <2>3. Clean(request.root \o <<GitName>>) = Prefix(request.root) \o <<GitName>>
    BY <1>0, <2>2, CleanBelow
  <2>4. metadata \in Seq(Int)
    <3>1. <<GitName>> \in Seq(Int)
      BY <1>0
    <3> QED
      BY <1>2, <3>1, ConcatProperties
  <2> QED
    BY <1>1, <1>2, <2>1, <2>3, <2>4
<1>4. PICK below : below = Tail(path)
  OBVIOUS
<1>5. below \in Seq(Int) /\ path = <<GitName>> \o below
  BY <1>4
<1>6. Shown(path) = metadata \o below
  <2>1. <<GitName>> \in Seq(Int)
    BY <1>0
  <2>2. (prefix \o <<GitName>>) \o below = prefix \o (<<GitName>> \o below)
    BY <1>5, <2>1, ConcatTwice
  <2>3. Shown(path) = prefix \o path
    BY <1>1, ShownIs
  <2> QED
    BY <1>2, <1>5, <2>2, <2>3
<1>7. PICK seen : seen = StripPrefix(metadata, Cwd)
  OBVIOUS
<1>8. seen \in {<<GitName>>, Append(request.root, GitName)} /\ ~IsStrictPrefix(metadata, Cwd)
  BY <1>3, <1>7 DEF MetadataSeen
<1>9. Seen(path) = seen \o below
  <2>1. StripPrefix(metadata \o below, Cwd) = StripPrefix(metadata, Cwd) \o below
    BY <1>0, <1>3, <1>5, <1>8, StripBelow
  <2> QED
    BY <1>6, <1>7, <2>1 DEF Seen
<1>10. {Exactly(seen), Everything(seen)} \subseteq WorktreeOptions.excludes
  BY <1>8, WorktreeOptionsAre DEF MetadataGlobs
<1>11. seen \in Seq(Int)
  <2>1. GitName \in Int
    BY <1>0
  <2>2. <<GitName>> \in Seq(Int) /\ Append(request.root, GitName) \in Seq(Int)
    BY <1>0, <2>1
  <2> QED
    BY <1>8, <2>2
<1>12. CASE below = <<>>
  <2>1. seen \o below = seen
    BY <1>11, <1>12
  <2> QED
    BY <1>9, <1>10, <2>1 DEF Admits, AdmitsRelative, Seen, Matches, Exactly
<1>13. CASE below # <<>>
  <2>1. PICK whole : whole = seen \o below
    OBVIOUS
  <2>2. Len(whole) = Len(seen) + Len(below) /\ Len(below) > 0 /\ Len(seen) \in Nat
    BY <1>5, <1>11, <1>13, <2>1
  <2>3. \A i \in 1 .. Len(seen) : whole[i] = seen[i]
    BY <1>5, <1>11, <2>1
  <2>4. IsStrictPrefix(seen, whole)
    BY <1>5, <1>11, <2>2, <2>3 DEF IsStrictPrefix, IsPrefix
  <2> QED
    BY <1>9, <1>10, <2>1, <2>4 DEF Admits, AdmitsRelative, Seen, Matches, Everything
<1> QED
  BY <1>12, <1>13

-----------------------------------------------------------------------------
(* What the scans give *)

VisitedIn(tree) == {path \in DOMAIN tree : Visits(path)}
TreeOutcomes(tree) == [path \in DOMAIN tree |-> TreeOutcome(path, tree[path])]
WorktreeOutcomes(files) == [path \in DOMAIN files |-> WorktreeOutcome(path, files[path])]

\* The snapshot of a tree that could be read.
IsTreeSnapshot(snapshot, tree) ==
  /\ IsTree(tree) /\ Faults(tree) = {}
  /\ Gives(snapshot, VisitedIn(tree), TreeOutcomes(tree))

\* The snapshot of the files that the worktree had when it was scanned: those that it
\* has now, as far as nobody edited them.
IsWorktreeSnapshot(snapshot) ==
  \E files :
    /\ IsWorktree(files) /\ DOMAIN files = DOMAIN worktree
    /\ \A path \in DOMAIN worktree \ edited : files[path] = worktree[path]
    /\ \A path \in AdmittedInWorktree : files[path] # "failing"
    /\ Gives(snapshot, AdmittedInWorktree, WorktreeOutcomes(files))

\* What is measured has its tokens, what is skipped has a reason.
LEMMA OutcomeTypes ==
  ASSUME NEW path, NEW kind, Classify[Last(path)] \in Int
  PROVE  /\ kind \in TreeKinds \ {"lost", "corrupt", "failing"} =>
              /\ Accounts(TreeOutcome(path, kind), path)
              /\ "tokens" \in DOMAIN TreeOutcome(path, kind) <=> kind \in DOMAIN Tokens
              /\ kind \in DOMAIN Tokens => TreeOutcome(path, kind) = Measured(path, kind)
         /\ kind \in WorktreeKinds \ {"failing"} =>
              /\ Accounts(WorktreeOutcome(path, kind), path)
              /\ kind # "link" => ("tokens" \in DOMAIN WorktreeOutcome(path, kind) <=> kind \in DOMAIN Tokens)
              /\ kind \in DOMAIN Tokens => WorktreeOutcome(path, kind) = Measured(path, kind)
<1>1. DOMAIN Tokens \cap {"oversized", "binary", "link", "submodule", "failing", "corrupt", "lost"} = {}
  BY GitDiffAssumption
<1>2. ASSUME NEW k \in DOMAIN Tokens
      PROVE  Accounts(Measured(path, k), path) /\ "tokens" \in DOMAIN Measured(path, k)
  <2>1. Tokens[k] \in 0 .. MaxCount
    BY GitDiffAssumption
  <2> QED
    BY <2>1 DEF Measured, Accounts
<1>3. ASSUME NEW reason \in Int
      PROVE  Accounts(Skipped(path, reason), path) /\ "tokens" \notin DOMAIN Skipped(path, reason)
  BY DEF Skipped, Accounts
<1>4. Oversized \in Int /\ Binary \in Int /\ Symlink \in Int /\ Unsupported \in Int
  BY DEF Oversized, Binary, Symlink, Unsupported
<1>5. "small" \in DOMAIN Tokens
  BY GitDiffAssumption
<1>6. ASSUME kind \in DOMAIN Tokens
      PROVE  TreeOutcome(path, kind) = Measured(path, kind) /\ WorktreeOutcome(path, kind) = Measured(path, kind)
  BY <1>1, <1>6 DEF TreeOutcome, WorktreeOutcome
<1>7. ASSUME kind \in {"oversized", "binary", "link", "submodule"}
      PROVE  \E reason \in Int : TreeOutcome(path, kind) = Skipped(path, reason)
  BY <1>1, <1>4, <1>7 DEF TreeOutcome
<1>8. ASSUME kind \in {"oversized", "binary"}
      PROVE  \E reason \in Int : WorktreeOutcome(path, kind) = Skipped(path, reason)
  BY <1>1, <1>4, <1>8 DEF WorktreeOutcome
<1>9. WorktreeOutcome(path, "link") \in {Measured(path, "small"), Skipped(path, Symlink)}
  BY <1>1 DEF WorktreeOutcome
<1>10. ASSUME kind \in TreeKinds \ {"lost", "corrupt", "failing"}
       PROVE  /\ Accounts(TreeOutcome(path, kind), path)
              /\ "tokens" \in DOMAIN TreeOutcome(path, kind) <=> kind \in DOMAIN Tokens
  <2>1. kind \in DOMAIN Tokens \/ kind \in {"oversized", "binary", "link", "submodule"}
    BY <1>10 DEF TreeKinds
  <2>2. CASE kind \in DOMAIN Tokens
    BY <1>2, <1>6, <2>2
  <2>3. CASE kind \in {"oversized", "binary", "link", "submodule"}
    BY <1>1, <1>3, <1>7, <2>3
  <2> QED
    BY <2>1, <2>2, <2>3
<1>11. ASSUME kind \in WorktreeKinds \ {"failing"}
       PROVE  /\ Accounts(WorktreeOutcome(path, kind), path)
              /\ kind # "link" => ("tokens" \in DOMAIN WorktreeOutcome(path, kind) <=> kind \in DOMAIN Tokens)
  <2>1. kind \in DOMAIN Tokens \/ kind \in {"oversized", "binary"} \/ kind = "link"
    BY <1>11 DEF WorktreeKinds
  <2>2. CASE kind \in DOMAIN Tokens
    BY <1>2, <1>6, <2>2
  <2>3. CASE kind \in {"oversized", "binary"}
    BY <1>1, <1>3, <1>8, <2>3
  <2>4. CASE kind = "link"
    BY <1>2, <1>3, <1>4, <1>5, <1>9, <2>4
  <2> QED
    BY <2>1, <2>2, <2>3, <2>4
<1> QED
  BY <1>6, <1>10, <1>11

\* Every path that is visited has an outcome.
LEMMA TreeOutcomesAre ==
  ASSUME NEW tree, IsTree(tree), Faults(tree) = {}
  PROVE  /\ AreOutcomes(VisitedIn(tree), TreeOutcomes(tree))
         /\ MeasuredOf(VisitedIn(tree), TreeOutcomes(tree)) =
              {path \in VisitedIn(tree) : tree[path] \in DOMAIN Tokens}
         /\ \A path \in VisitedIn(tree) : tree[path] \notin {"lost", "corrupt", "failing"}
<1>1. \A path \in VisitedIn(tree) :
        tree[path] \in TreeKinds \ {"lost", "corrupt", "failing"} /\ Classify[Last(path)] \in Int
  BY DEF VisitedIn, Visits, Faults, IsTree
<1>2. IsFiniteSet(VisitedIn(tree))
  <2>1. VisitedIn(tree) \subseteq DOMAIN tree
    BY DEF VisitedIn
  <2> QED
    BY <2>1, FS_Subset DEF IsTree
<1>3. VisitedIn(tree) \subseteq Seq(Int)
  <2>1. Seq(Nat) \subseteq Seq(Int)
    OBVIOUS
  <2> QED
    BY <2>1 DEF VisitedIn, IsTree
<1>4. \A path \in VisitedIn(tree) : TreeOutcomes(tree)[path] = TreeOutcome(path, tree[path])
  BY DEF TreeOutcomes, VisitedIn
<1> QED
  BY <1>1, <1>2, <1>3, <1>4, OutcomeTypes DEF AreOutcomes, MeasuredOf

LEMMA TreeSnapshot ==
  ASSUME NEW tree, IsTree(tree), Faults(tree) = {}, NEW snapshot, snapshot = ScanTree(tree), snapshot # Overflow
  PROVE  IsTreeSnapshot(snapshot, tree)
<1>1. {TreeOutcome(path, tree[path]) : path \in {path \in {path \in DOMAIN tree : tree[path] # "lost"} : Visits(path)}}
        = {TreeOutcomes(tree)[path] : path \in VisitedIn(tree)}
  BY TreeOutcomesAre DEF TreeOutcomes, VisitedIn
<1>2. snapshot = SnapshotOf({TreeOutcomes(tree)[path] : path \in VisitedIn(tree)})
  BY <1>1 DEF ScanTree
<1> QED
  BY <1>2, TreeOutcomesAre, SnapshotIs DEF IsTreeSnapshot

LEMMA WorktreeOutcomesAre ==
  ASSUME NEW files, IsWorktree(files), DOMAIN files = DOMAIN worktree,
         \A path \in AdmittedInWorktree : files[path] # "failing"
  PROVE  /\ AreOutcomes(AdmittedInWorktree, WorktreeOutcomes(files))
         /\ \A path \in AdmittedInWorktree :
              /\ files[path] # "link" =>
                   (path \in MeasuredOf(AdmittedInWorktree, WorktreeOutcomes(files)) <=> files[path] \in DOMAIN Tokens)
              /\ files[path] \in DOMAIN Tokens => WorktreeOutcomes(files)[path] = Measured(path, files[path])
<1>0. AdmittedInWorktree \subseteq DOMAIN files
  BY DEF AdmittedInWorktree
<1>1. \A path \in AdmittedInWorktree :
        files[path] \in WorktreeKinds \ {"failing"} /\ Classify[Last(path)] \in Int
  BY <1>0 DEF IsWorktree
<1>2. IsFiniteSet(AdmittedInWorktree)
  BY <1>0, FS_Subset DEF IsWorktree
<1>3. AdmittedInWorktree \subseteq Seq(Int)
  <2>1. Seq(Nat) \subseteq Seq(Int)
    OBVIOUS
  <2> QED
    BY <1>0, <2>1 DEF IsWorktree
<1>4. \A path \in AdmittedInWorktree : WorktreeOutcomes(files)[path] = WorktreeOutcome(path, files[path])
  BY <1>0 DEF WorktreeOutcomes
<1> QED
  BY <1>1, <1>2, <1>3, <1>4, OutcomeTypes DEF AreOutcomes, MeasuredOf

LEMMA WorktreeSnapshot ==
  ASSUME Asked, IsWorktree(worktree), WorktreeErrors = {},
         NEW snapshot, snapshot = ScanWorktree, snapshot # Overflow
  PROVE  IsWorktreeSnapshot(snapshot)
<1>1. \A path \in AdmittedInWorktree : worktree[path] # "failing"
  BY DEF WorktreeErrors
<1>2. \A path \in AdmittedInWorktree :
        WorktreeOutcome(StripPrefix(Shown(path), request.root), worktree[path]) = WorktreeOutcomes(worktree)[path]
  <2> SUFFICES ASSUME NEW path \in AdmittedInWorktree
               PROVE  WorktreeOutcome(StripPrefix(Shown(path), request.root), worktree[path])
                        = WorktreeOutcomes(worktree)[path]
    OBVIOUS
  <2>1. path \in DOMAIN worktree /\ path \in Seq(Nat) /\ path # <<>>
    BY DEF AdmittedInWorktree, IsWorktree
  <2>2. StripPrefix(Shown(path), request.root) = path
    BY <2>1, ShownIs
  <2> QED
    BY <2>1, <2>2 DEF WorktreeOutcomes
<1>3. snapshot = SnapshotOf({WorktreeOutcomes(worktree)[path] : path \in AdmittedInWorktree})
  <2>1. {WorktreeOutcome(StripPrefix(Shown(path), request.root), worktree[path]) : path \in AdmittedInWorktree}
          = {WorktreeOutcomes(worktree)[path] : path \in AdmittedInWorktree}
    BY <1>2
  <2> QED
    BY <2>1 DEF ScanWorktree
<1>4. Gives(snapshot, AdmittedInWorktree, WorktreeOutcomes(worktree))
  BY <1>1, <1>3, WorktreeOutcomesAre, SnapshotIs
<1> QED
  BY <1>1, <1>4 DEF IsWorktreeSnapshot

-----------------------------------------------------------------------------
(* The invariant *)

\* The committed trees and the worktree are such as Git has them.
Committed ==
  /\ history.kind \in {"none", "bare", "worktree"}
  /\ history.base = NoTree \/ IsTree(history.base)
  /\ history.head = NoTree \/ IsTree(history.head)
  /\ IsWorktree(worktree) /\ edited \subseteq DOMAIN worktree

\* A base snapshot is that of the base, as the caller has it or as it was scanned.
BaseScanned ==
  base # Absent =>
    IF request.mode = "snapshots" THEN base \in Snapshots
    ELSE /\ history.kind # "none" /\ history.base # NoTree
         /\ request.mode = "worktree" => history.kind # "bare"
         /\ IsTreeSnapshot(base, history.base)

\* A head snapshot is that of the head or of the worktree.
HeadScanned ==
  head # Absent =>
    CASE request.mode = "snapshots" -> head \in Snapshots
      [] request.mode = "trees"     -> history.head # NoTree /\ IsTreeSnapshot(head, history.head)
      [] request.mode = "worktree"  -> IsWorktreeSnapshot(head)

\* The steps come in their order.
Phases ==
  /\ pc \in {"base", "head", "check", "compare", "done"}
  /\ pc = "head" => base # Absent /\ request.mode # "snapshots"
  /\ pc \in {"check", "compare"} => base # Absent /\ head # Absent
  /\ pc \in {"base", "head", "check"} => todo = <<>> /\ changes = <<>>
  /\ pc # "compare" => todo = <<>>
  /\ pc # "done" => ~HasVerdict

BothPaths == PathsOf(base) \cup PathsOf(head)

\* What has been compared, and what has not.
Comparing ==
  /\ \E n \in Nat : todo \in [1 .. n -> BothPaths]
  /\ IsInjective(todo)
  /\ \E S : changes \in Seq(S)
  /\ \A change \in ToSet(changes) :
       /\ change.path \in BothPaths \ ToSet(todo)
       /\ TokensOf(FileAt(base, change.path)) # TokensOf(FileAt(head, change.path))
  /\ HasVerdict => base # Absent /\ head # Absent /\ verdict.files = changes

Deltas ==
  /\ DOMAIN tokens = Fields
  /\ tokens.added \in 0 .. MaxCount /\ tokens.removed \in 0 .. MaxCount

Inv == Asked /\ Committed /\ BaseScanned /\ HeadScanned /\ Phases /\ Comparing /\ Deltas

LEMMA InvInit == Init => Inv
<1> SUFFICES ASSUME Init  PROVE Inv
  OBVIOUS
<1>1. PICK scenario \in Scenarios :
        history = scenario.history /\ worktree = scenario.worktree /\ request = scenario.request
  BY DEF Init
<1>2. Asked
  BY <1>1, GitDiffAssumption DEF Asked, options
<1>3. Committed
  BY <1>1, GitDiffAssumption DEF Committed, Init
<1>4. /\ base = Absent /\ head = Absent /\ todo = <<>> /\ changes = <<>> /\ tokens = NoDelta
      /\ verdict = Absent /\ pc = "base"
  BY DEF Init, InitComparison
<1>5. ~HasVerdict
  BY <1>4 DEF HasVerdict, Absent
<1>6. Phases /\ BaseScanned /\ HeadScanned
  BY <1>4, <1>5 DEF Phases, BaseScanned, HeadScanned
<1>7. Comparing
  <2>1. todo \in [1 .. 0 -> BothPaths] /\ 0 \in Nat
    BY <1>4
  <2>2. changes \in Seq({}) /\ ToSet(changes) = {}
    BY <1>4 DEF ToSet
  <2>3. IsInjective(todo)
    BY <1>4 DEF IsInjective
  <2> QED
    BY <1>5, <2>1, <2>2, <2>3 DEF Comparing
<1>8. Deltas
  BY <1>4, AggregationAssumption DEF Deltas, NoDelta, Fields
<1> QED
  BY <1>2, <1>3, <1>6, <1>7, <1>8 DEF Inv

\* What the snapshots are does not change by itself.
LEMMA AskedKept ==
  ASSUME Asked, UNCHANGED request
  PROVE  Asked'
BY DEF Asked, options

LEMMA BaseKept ==
  ASSUME BaseScanned, UNCHANGED <<history, request, base>>
  PROVE  BaseScanned'
<1>1. \A path : Visits(path) <=> Visits(path)'
  BY DEF Visits, options
<1>2. ASSUME NEW snapshot, NEW tree  PROVE IsTreeSnapshot(snapshot, tree) => IsTreeSnapshot(snapshot, tree)'
  <2>1. VisitedIn(tree) = VisitedIn(tree)'
    BY <1>1 DEF VisitedIn
  <2>2. Faults(tree) = Faults(tree)'
    BY <1>1 DEF Faults, options
  <2> QED
    BY <2>1, <2>2 DEF IsTreeSnapshot
<1> QED
  BY <1>2 DEF BaseScanned

LEMMA AdmittedKept ==
  ASSUME UNCHANGED request, DOMAIN worktree' = DOMAIN worktree
  PROVE  AdmittedInWorktree' = AdmittedInWorktree
<1>1. WorktreeOptions' = WorktreeOptions
  BY DEF WorktreeOptions, options
<1>2. \A path : PassesOver(path)' <=> PassesOver(path)
  BY DEF PassesOver, IsIgnored, options
<1>3. \A path : Shown(path)' = Shown(path)
  BY DEF Shown
<1> QED
  BY <1>1, <1>2, <1>3 DEF AdmittedInWorktree

LEMMA HeadKept ==
  ASSUME Asked, HeadScanned, UNCHANGED <<history, request, head>>, DOMAIN worktree' = DOMAIN worktree,
         edited \subseteq edited', \A path \in DOMAIN worktree \ edited' : worktree'[path] = worktree[path]
  PROVE  HeadScanned'
<1>1. \A path : Visits(path) <=> Visits(path)'
  BY DEF Visits, options
<1>2. ASSUME NEW snapshot, NEW tree  PROVE IsTreeSnapshot(snapshot, tree) => IsTreeSnapshot(snapshot, tree)'
  <2>1. VisitedIn(tree) = VisitedIn(tree)'
    BY <1>1 DEF VisitedIn
  <2>2. Faults(tree) = Faults(tree)'
    BY <1>1 DEF Faults, options
  <2> QED
    BY <2>1, <2>2 DEF IsTreeSnapshot
<1>3. ASSUME NEW snapshot, IsWorktreeSnapshot(snapshot)  PROVE IsWorktreeSnapshot(snapshot)'
  <2>1. PICK files :
          /\ IsWorktree(files) /\ DOMAIN files = DOMAIN worktree
          /\ \A path \in DOMAIN worktree \ edited : files[path] = worktree[path]
          /\ \A path \in AdmittedInWorktree : files[path] # "failing"
          /\ Gives(snapshot, AdmittedInWorktree, WorktreeOutcomes(files))
    BY <1>3 DEF IsWorktreeSnapshot
  <2>2. WorktreeOutcomes(files)' = WorktreeOutcomes(files)
    BY DEF WorktreeOutcomes, WorktreeOutcome, options
  <2>3. AdmittedInWorktree' = AdmittedInWorktree
    BY AdmittedKept
  <2>4. \A path \in DOMAIN worktree' \ edited' : files[path] = worktree'[path]
    BY <2>1
  <2> QED
    BY <2>1, <2>2, <2>3, <2>4 DEF IsWorktreeSnapshot
<1>4. PICK snapshot : snapshot = head
  OBVIOUS
<1>5. head' = snapshot /\ request' = request /\ history' = history
  BY <1>4
<1>6. CASE request.mode = "snapshots"
  BY <1>4, <1>5, <1>6 DEF HeadScanned
<1>7. CASE request.mode = "trees"
  BY <1>2, <1>4, <1>5, <1>7 DEF HeadScanned
<1>8. CASE request.mode = "worktree"
  BY <1>3, <1>4, <1>5, <1>8 DEF HeadScanned
<1> QED
  BY <1>6, <1>7, <1>8 DEF Asked

\* Snapshots at hand are what scans returned.
LEMMA SnapshotsAre ==
  ASSUME NEW snapshot \in Snapshots
  PROVE  /\ IsSnapshot(snapshot) /\ Len(snapshot.files) \in Nat
         /\ DOMAIN snapshot.files = 1 .. Len(snapshot.files) /\ IsFiniteSet(DOMAIN snapshot.files)
         /\ \A i \in DOMAIN snapshot.files :
              /\ snapshot.files[i].path \in Seq(Int) /\ snapshot.files[i].language \in Int
              /\ snapshot.files[i].tokens \in 0 .. MaxCount
         /\ \A i, j \in DOMAIN snapshot.files : snapshot.files[i].path = snapshot.files[j].path => i = j
<1>1. /\ snapshot # Absent
      /\ snapshot.files \in Seq([path : Seq(Int), language : Int, tokens : 0 .. MaxCount, bytes : Nat])
      /\ IsInjective([i \in DOMAIN snapshot.files |-> snapshot.files[i].path])
      /\ snapshot.totals.tokens = Sum(snapshot.files, LAMBDA file : file.tokens)
      /\ snapshot.totals.tokens =< MaxCount
      /\ snapshot.totals.files = Len(snapshot.files)
  BY GitDiffAssumption
<1>2. PICK n \in Nat : n = Len(snapshot.files)
  BY <1>1
<1>3. DOMAIN snapshot.files = 1 .. n /\ IsFiniteSet(1 .. n)
  BY <1>1, <1>2, UptoIsFinite
<1>4. \A i, j \in DOMAIN snapshot.files : snapshot.files[i].path = snapshot.files[j].path => i = j
  BY <1>1 DEF IsInjective
<1>5. \A i \in 1 .. n : /\ snapshot.files[i].path \in Seq(Int) /\ snapshot.files[i].language \in Int
                       /\ snapshot.files[i].tokens \in 0 .. MaxCount /\ snapshot.files[i].bytes \in Nat
                       /\ snapshot.files[i] # Absent
  <2>0. PICK File : File = [path : Seq(Int), language : Int, tokens : 0 .. MaxCount, bytes : Nat]
    OBVIOUS
  <2>1. \A i \in 1 .. n : snapshot.files[i] \in File
    <3>1. snapshot.files \in Seq(File)
      BY <1>1, <2>0
    <3>2. PICK files : files = snapshot.files
      OBVIOUS
    <3>3. files \in Seq(File) /\ n = Len(files)
      BY <1>2, <3>1, <3>2
    <3>4. \A i \in 1 .. n : files[i] \in File
      BY <3>3
    <3> QED
      BY <3>2, <3>4
  <2>2. \A file \in [path : Seq(Int), language : Int, tokens : 0 .. MaxCount, bytes : Nat] :
          /\ file.path \in Seq(Int) /\ file.language \in Int
          /\ file.tokens \in 0 .. MaxCount /\ file.bytes \in Nat /\ file # Absent
    <3> SUFFICES ASSUME NEW file \in [path : Seq(Int), language : Int, tokens : 0 .. MaxCount, bytes : Nat]
                 PROVE  /\ file.path \in Seq(Int) /\ file.language \in Int
                        /\ file.tokens \in 0 .. MaxCount /\ file.bytes \in Nat /\ file # Absent
      OBVIOUS
    <3>1. "tokens" \in DOMAIN file /\ DOMAIN Absent = {"absent"}
      BY DEF Absent
    <3>2. file # Absent
      BY <3>1
    <3> QED
      BY <3>2
  <2> QED
    BY <2>0, <2>1, <2>2
<1>6. AreFiles(snapshot.files, n)
  BY <1>3, <1>5 DEF AreFiles
<1>7. snapshot.totals.tokens = SumOver(TokensIn(snapshot.files), 1 .. n)
  <2>1. PICK all \in SUBSET (1 .. n) : all = 1 .. n
    OBVIOUS
  <2>2. PICK count : count = TokensIn(snapshot.files)
    OBVIOUS
  <2>3. Weighs(count, 1 .. n) /\ DOMAIN count = 1 .. n
    BY <1>3, <1>6, <2>1, <2>2, SumsAreNatural DEF TokensIn
  <2>4. Total(count) = SumOver(count, 1 .. n)
    BY <2>3, TotalIs
  <2> QED
    BY <1>1, <2>2, <2>4 DEF Sum, TokensIn
<1>8. Absent \notin ToSet(snapshot.files)
  BY <1>3, <1>5 DEF ToSet
<1> QED
  BY <1>1, <1>2, <1>3, <1>4, <1>5, <1>6, <1>7, <1>8 DEF IsSnapshot

LEMMA PathsAreFinite ==
  ASSUME Inv
  PROVE  /\ base # Absent => IsFiniteSet(PathsOf(base)) /\ PathsOf(base) \subseteq Seq(Int)
         /\ head # Absent => IsFiniteSet(PathsOf(head)) /\ PathsOf(head) \subseteq Seq(Int)
<1>1. ASSUME NEW snapshot \in Snapshots
      PROVE  IsFiniteSet(PathsOf(snapshot)) /\ PathsOf(snapshot) \subseteq Seq(Int)
  <2>1. IsFiniteSet(DOMAIN snapshot.files) /\ \A file \in ToSet(snapshot.files) : file.path \in Seq(Int)
    BY SnapshotsAre DEF ToSet
  <2>2. PICK at : at = [i \in DOMAIN snapshot.files |-> snapshot.files[i].path]
    OBVIOUS
  <2>3. PathsOf(snapshot) = {at[i] : i \in DOMAIN snapshot.files}
    BY <2>2 DEF PathsOf, ToSet
  <2> QED
    BY <2>1, <2>3, ImageIsFinite DEF PathsOf
<1>2. ASSUME NEW snapshot, NEW paths, NEW outcome, AreOutcomes(paths, outcome), Gives(snapshot, paths, outcome)
      PROVE  IsFiniteSet(PathsOf(snapshot)) /\ PathsOf(snapshot) \subseteq Seq(Int)
  <2>1. PathsOf(snapshot) \subseteq paths
    BY <1>2, GivenFiles DEF MeasuredOf
  <2> QED
    BY <1>2, <2>1, FS_Subset DEF AreOutcomes
<1>3. ASSUME NEW snapshot, NEW tree, IsTreeSnapshot(snapshot, tree)
      PROVE  IsFiniteSet(PathsOf(snapshot)) /\ PathsOf(snapshot) \subseteq Seq(Int)
  BY <1>2, <1>3, TreeOutcomesAre DEF IsTreeSnapshot
<1>4. ASSUME NEW snapshot, IsWorktreeSnapshot(snapshot)
      PROVE  IsFiniteSet(PathsOf(snapshot)) /\ PathsOf(snapshot) \subseteq Seq(Int)
  BY <1>2, <1>4, WorktreeOutcomesAre DEF IsWorktreeSnapshot
<1>5. request.mode \in {"trees", "worktree", "snapshots"}
  BY DEF Inv, Asked
<1>6. base # Absent => IsFiniteSet(PathsOf(base)) /\ PathsOf(base) \subseteq Seq(Int)
  BY <1>1, <1>3 DEF Inv, BaseScanned
<1>7. ASSUME head # Absent  PROVE IsFiniteSet(PathsOf(head)) /\ PathsOf(head) \subseteq Seq(Int)
  <2>1. CASE request.mode = "snapshots"
    BY <1>1, <1>7, <2>1 DEF Inv, HeadScanned
  <2>2. CASE request.mode = "trees"
    BY <1>3, <1>7, <2>2 DEF Inv, HeadScanned
  <2>3. CASE request.mode = "worktree"
    BY <1>4, <1>7, <2>3 DEF Inv, HeadScanned
  <2> QED
    BY <1>5, <2>1, <2>2, <2>3
<1> QED
  BY <1>6, <1>7

\* While nothing is compared, what the snapshots are does not matter to it.
LEMMA NothingCompared ==
  ASSUME Comparing, todo = <<>>, changes = <<>>, UNCHANGED <<todo, changes>>, ~HasVerdict'
  PROVE  Comparing'
<1>1. todo' \in [1 .. 0 -> BothPaths'] /\ 0 \in Nat
  OBVIOUS
<1>2. changes' \in Seq({}) /\ ToSet(changes') = {}
  BY DEF ToSet
<1>3. IsInjective(todo')
  BY DEF IsInjective
<1> QED
  BY <1>1, <1>2, <1>3 DEF Comparing

\* A diff that stops has no verdict.
LEMMA StopsWithout ==
  ASSUME NEW error, Stop(error)
  PROVE  ~HasVerdict'
<1>1. verdict' = [error |-> error]
  BY DEF Stop
<1> QED
  BY <1>1 DEF HasVerdict

\* The steps before the comparison.
LEMMA InvScanBase == Inv /\ ScanBase => Inv'
<1> SUFFICES ASSUME Inv, ScanBase  PROVE Inv'
  OBVIOUS
<1>0. /\ UNCHANGED <<repository, request, head>> /\ pc = "base" /\ request.mode # "snapshots"
      /\ BaseErrors = {} /\ todo = <<>> /\ changes = <<>> /\ UNCHANGED <<todo, changes, tokens>>
      /\ ~HasVerdict /\ request.mode \in {"trees", "worktree", "snapshots"}
  BY DEF Inv, Phases, ScanBase, Stop, comparison, Asked
<1>1. /\ UNCHANGED <<history, worktree, edited>> /\ DOMAIN worktree' = DOMAIN worktree
      /\ edited \subseteq edited' /\ \A path \in DOMAIN worktree \ edited' : worktree'[path] = worktree[path]
  BY <1>0 DEF repository
<1>2. Asked' /\ Committed' /\ HeadScanned' /\ Deltas'
  BY <1>0, <1>1, AskedKept, HeadKept DEF Inv, Committed, Deltas
<1>3. /\ history.kind # "none" /\ history.base # NoTree /\ IsTree(history.base) /\ Faults(history.base) = {}
      /\ request.mode = "worktree" => history.kind # "bare"
  BY <1>0 DEF BaseErrors, TreeErrors, Inv, Committed
<1>4. CASE UNCHANGED base /\ pc' = "done" /\ ~HasVerdict'
  <2>1. BaseScanned'
    BY <1>0, <1>1, <1>4, BaseKept DEF Inv
  <2>2. Comparing'
    BY <1>0, <1>4, NothingCompared DEF Inv
  <2>3. Phases'
    BY <1>0, <1>4 DEF Phases
  <2> QED
    BY <1>2, <2>1, <2>2, <2>3 DEF Inv
<1>5. CASE /\ base' = ScanTree(history.base) /\ base' # Overflow
           /\ pc' = "head" /\ UNCHANGED verdict
  <2>1. PICK snapshot : snapshot = ScanTree(history.base)
    OBVIOUS
  <2>2. IsTreeSnapshot(snapshot, history.base) /\ snapshot # Overflow /\ base' = snapshot
    BY <1>3, <1>5, <2>1, TreeSnapshot
  <2>3. snapshot # Absent
    BY <2>2 DEF IsTreeSnapshot, Gives, IsSnapshot
  <2>4. IsTreeSnapshot(snapshot, history.base)'
    <3>1. \A path : Visits(path) <=> Visits(path)'
      BY <1>0 DEF Visits, options
    <3>2. \A tree : VisitedIn(tree) = VisitedIn(tree)'
      BY <3>1 DEF VisitedIn
    <3>3. \A tree : Faults(tree) = Faults(tree)'
      BY <1>0, <3>1 DEF Faults, options
    <3> QED
      BY <1>1, <2>2, <3>2, <3>3 DEF IsTreeSnapshot
  <2>5. BaseScanned'
    BY <1>0, <1>1, <1>3, <2>2, <2>4 DEF BaseScanned
  <2>6. ~HasVerdict'
    BY <1>0, <1>5 DEF HasVerdict
  <2>7. Comparing'
    BY <1>0, <2>6, NothingCompared DEF Inv
  <2>8. Phases'
    BY <1>0, <1>5, <2>2, <2>3, <2>6 DEF Phases
  <2> QED
    BY <1>2, <2>5, <2>7, <2>8 DEF Inv
<1> QED
  <2>1. CASE ScanTree(history.base) = Overflow
    BY <1>4, <2>1, StopsWithout DEF ScanBase, Stop
  <2>2. CASE ScanTree(history.base) # Overflow
    BY <1>5, <2>2 DEF ScanBase, comparison
  <2> QED
    BY <2>1, <2>2

LEMMA InvScanHead == Inv /\ ScanHead => Inv'
<1> SUFFICES ASSUME Inv, ScanHead  PROVE Inv'
  OBVIOUS
<1>0. /\ UNCHANGED <<repository, request, base>> /\ pc = "head" /\ HeadErrors = {}
      /\ base # Absent /\ todo = <<>> /\ changes = <<>> /\ UNCHANGED <<todo, changes, tokens>>
      /\ ~HasVerdict /\ request.mode \in {"trees", "worktree"}
  BY DEF Inv, Phases, ScanHead, Stop, comparison, Asked
<1>1. /\ UNCHANGED <<history, worktree, edited>> /\ DOMAIN worktree' = DOMAIN worktree
      /\ edited \subseteq edited' /\ \A path \in DOMAIN worktree \ edited' : worktree'[path] = worktree[path]
  BY <1>0 DEF repository
<1>2. Asked' /\ Committed' /\ BaseScanned' /\ Deltas'
  BY <1>0, <1>1, AskedKept, BaseKept DEF Inv, Committed, Deltas
<1>3. CASE UNCHANGED head /\ pc' = "done" /\ ~HasVerdict'
  <2>1. HeadScanned'
    BY <1>0, <1>1, <1>3, HeadKept DEF Inv
  <2>2. Comparing'
    BY <1>0, <1>3, NothingCompared DEF Inv
  <2>3. Phases'
    BY <1>0, <1>3 DEF Phases
  <2> QED
    BY <1>2, <2>1, <2>2, <2>3 DEF Inv
<1>4. ASSUME NEW snapshot, snapshot # Overflow, head' = snapshot, pc' = "check", UNCHANGED verdict,
             snapshot = IF request.mode = "trees" THEN ScanTree(history.head) ELSE ScanWorktree
      PROVE  Inv'
  <2>1. snapshot # Absent /\ HeadScanned'
    <3>1. CASE request.mode = "trees"
      <4>1. history.head # NoTree /\ IsTree(history.head) /\ Faults(history.head) = {}
        BY <1>0, <3>1 DEF HeadErrors, TreeErrors, Inv, Committed
      <4>2. IsTreeSnapshot(snapshot, history.head)
        BY <1>4, <3>1, <4>1, TreeSnapshot
      <4>3. snapshot # Absent
        BY <4>2 DEF IsTreeSnapshot, Gives, IsSnapshot
      <4>4. IsTreeSnapshot(snapshot, history.head)'
        <5>1. \A path : Visits(path) <=> Visits(path)'
          BY <1>0 DEF Visits, options
        <5>2. \A tree : VisitedIn(tree) = VisitedIn(tree)'
          BY <5>1 DEF VisitedIn
        <5>3. \A tree : Faults(tree) = Faults(tree)'
          BY <1>0, <5>1 DEF Faults, options
        <5> QED
          BY <1>1, <4>2, <5>2, <5>3 DEF IsTreeSnapshot
      <4> QED
        BY <1>0, <1>1, <1>4, <3>1, <4>1, <4>3, <4>4 DEF HeadScanned
    <3>2. CASE request.mode = "worktree"
      <4>1. IsWorktree(worktree) /\ WorktreeErrors = {}
        BY <1>0, <3>2 DEF HeadErrors, Inv, Committed
      <4>2. IsWorktreeSnapshot(snapshot)
        BY <1>4, <3>2, <4>1, WorktreeSnapshot DEF Inv
      <4>3. snapshot # Absent
        BY <4>2 DEF IsWorktreeSnapshot, Gives, IsSnapshot
      <4>4. IsWorktreeSnapshot(snapshot)'
        <5>1. AdmittedInWorktree' = AdmittedInWorktree
          BY <1>0, <1>1, AdmittedKept
        <5>2. \A files : WorktreeOutcomes(files)' = WorktreeOutcomes(files)
          BY <1>0 DEF WorktreeOutcomes, WorktreeOutcome, options
        <5> QED
          BY <1>1, <4>2, <5>1, <5>2 DEF IsWorktreeSnapshot
      <4> QED
        BY <1>0, <1>4, <3>2, <4>3, <4>4 DEF HeadScanned
    <3> QED
      BY <1>0, <3>1, <3>2
  <2>2. ~HasVerdict'
    BY <1>0, <1>4 DEF HasVerdict
  <2>3. Comparing'
    BY <1>0, <2>2, NothingCompared DEF Inv
  <2>4. Phases'
    BY <1>0, <1>4, <2>1, <2>2 DEF Phases
  <2> QED
    BY <1>2, <2>1, <2>3, <2>4 DEF Inv
<1>5. PICK snapshot : snapshot = IF request.mode = "trees" THEN ScanTree(history.head) ELSE ScanWorktree
  OBVIOUS
<1>6. CASE snapshot = Overflow
  BY <1>3, <1>5, <1>6, StopsWithout DEF ScanHead, Stop
<1>7. CASE snapshot # Overflow
  BY <1>4, <1>5, <1>7 DEF ScanHead, comparison
<1> QED
  BY <1>6, <1>7

LEMMA InvScanFails == Inv /\ ScanFails => Inv'
<1> SUFFICES ASSUME Inv, ScanFails  PROVE Inv'
  OBVIOUS
<1>1. PICK error : Stop(error)
  BY DEF ScanFails
<1>2. /\ UNCHANGED <<repository, request, base, head>> /\ todo = <<>> /\ changes = <<>>
      /\ UNCHANGED <<todo, changes, tokens>> /\ pc' = "done"
  BY <1>1 DEF Inv, Phases, ScanFails, Stop
<1>3. /\ UNCHANGED <<history, worktree, edited>> /\ DOMAIN worktree' = DOMAIN worktree
      /\ edited \subseteq edited' /\ \A path \in DOMAIN worktree \ edited' : worktree'[path] = worktree[path]
  BY <1>2 DEF repository
<1>4. Asked' /\ Committed' /\ BaseScanned' /\ HeadScanned' /\ Deltas'
  BY <1>2, <1>3, AskedKept, BaseKept, HeadKept DEF Inv, Committed, Deltas
<1>5. Comparing'
  BY <1>1, <1>2, StopsWithout, NothingCompared DEF Inv
<1>6. Phases'
  BY <1>1, <1>2, StopsWithout DEF Phases
<1> QED
  BY <1>4, <1>5, <1>6 DEF Inv

LEMMA InvTakeSnapshots == Inv /\ TakeSnapshots => Inv'
<1> SUFFICES ASSUME Inv, TakeSnapshots  PROVE Inv'
  OBVIOUS
<1>1. /\ UNCHANGED <<repository, request>> /\ todo = <<>> /\ changes = <<>>
      /\ UNCHANGED <<todo, changes, tokens, verdict>> /\ pc' = "check" /\ ~HasVerdict
      /\ request.mode = "snapshots" /\ base' \in Snapshots /\ head' \in Snapshots
  BY DEF Inv, Phases, TakeSnapshots, comparison
<1>2. base' # Absent /\ head' # Absent
  BY <1>1, GitDiffAssumption
<1>3. Asked' /\ Committed' /\ Deltas'
  BY <1>1, AskedKept DEF Inv, Committed, Deltas, repository
<1>4. BaseScanned' /\ HeadScanned'
  BY <1>1 DEF BaseScanned, HeadScanned
<1>5. ~HasVerdict'
  BY <1>1 DEF HasVerdict
<1>6. Comparing'
  BY <1>1, <1>5, NothingCompared DEF Inv
<1>7. Phases'
  BY <1>1, <1>2, <1>5 DEF Phases
<1> QED
  BY <1>3, <1>4, <1>6, <1>7 DEF Inv

\* Paths in order are paths once each.
LEMMA OrderedPaths ==
  ASSUME NEW S \in SUBSET Seq(Int), IsFiniteSet(S)
  PROVE  /\ \E n \in Nat : InOrder(S) \in [1 .. n -> S]
         /\ IsInjective(InOrder(S))
<1>1. PICK n \in Nat : n = Cardinality(S)
  BY FS_CardinalityType
<1>2. PICK listed : listed = InOrder(S)
  OBVIOUS
<1>3. listed \in [1 .. n -> S] /\ \A i, j \in 1 .. n : i < j <=> Less(listed[i], listed[j])
  BY <1>1, <1>2, InOrderLists
<1>4. ASSUME NEW i \in 1 .. n, NEW j \in 1 .. n, listed[i] = listed[j]  PROVE i = j
  <2>1. ~(i < j) /\ ~(j < i)
    BY <1>3, <1>4, LessIrreflexive
  <2> QED
    BY <2>1
<1> QED
  BY <1>2, <1>3, <1>4 DEF IsInjective

LEMMA InvCompatible == Inv /\ Compatible => Inv'
<1> SUFFICES ASSUME Inv, Compatible  PROVE Inv'
  OBVIOUS
<1>1. /\ UNCHANGED <<repository, request, base, head>> /\ changes = <<>>
      /\ UNCHANGED <<changes, tokens, verdict>> /\ pc' = "compare" /\ ~HasVerdict
      /\ base # Absent /\ head # Absent /\ todo' = InOrder(BothPaths)
  BY DEF Inv, Phases, Compatible, StartComparing, BothPaths
<1>2. /\ UNCHANGED <<history, worktree, edited>> /\ DOMAIN worktree' = DOMAIN worktree
      /\ edited \subseteq edited' /\ \A path \in DOMAIN worktree \ edited' : worktree'[path] = worktree[path]
  BY <1>1 DEF repository
<1>3. Asked' /\ Committed' /\ BaseScanned' /\ HeadScanned' /\ Deltas'
  BY <1>1, <1>2, AskedKept, BaseKept, HeadKept DEF Inv, Committed, Deltas
<1>4. IsFiniteSet(BothPaths) /\ BothPaths \subseteq Seq(Int)
  BY <1>1, PathsAreFinite, FS_Union DEF BothPaths
<1>5. (\E n \in Nat : todo' \in [1 .. n -> BothPaths]) /\ IsInjective(todo')
  BY <1>1, <1>4, OrderedPaths
<1>6. ~HasVerdict'
  BY <1>1 DEF HasVerdict
<1>7. Comparing'
  <2>1. BothPaths' = BothPaths
    BY <1>1 DEF BothPaths, PathsOf
  <2>2. changes' \in Seq({}) /\ ToSet(changes') = {}
    BY <1>1 DEF ToSet
  <2> QED
    BY <1>5, <1>6, <2>1, <2>2 DEF Comparing
<1>8. Phases'
  BY <1>1, <1>6 DEF Phases
<1> QED
  BY <1>3, <1>7, <1>8 DEF Inv

\* What is compared is a number of tokens, or none.
LEMMA CountsAre ==
  ASSUME Inv, base # Absent, head # Absent, NEW path, NEW snapshot \in {base, head}
  PROVE  /\ FileAt(snapshot, path) # Absent => FileAt(snapshot, path).tokens \in 0 .. MaxCount
         /\ TokensOf(FileAt(snapshot, path)) \in 0 .. MaxCount
<1>1. ASSUME NEW given, NEW paths, NEW outcome, AreOutcomes(paths, outcome), Gives(given, paths, outcome)
      PROVE  \A file \in ToSet(given.files) : file.tokens \in 0 .. MaxCount
  BY <1>1 DEF Gives, MeasuredOf, AreOutcomes, Accounts
<1>2. ASSUME NEW given, NEW tree, IsTreeSnapshot(given, tree)
      PROVE  \A file \in ToSet(given.files) : file.tokens \in 0 .. MaxCount
  BY <1>1, <1>2, TreeOutcomesAre DEF IsTreeSnapshot
<1>3. ASSUME NEW given, IsWorktreeSnapshot(given)
      PROVE  \A file \in ToSet(given.files) : file.tokens \in 0 .. MaxCount
  BY <1>1, <1>3, WorktreeOutcomesAre DEF IsWorktreeSnapshot
<1>4. ASSUME NEW given \in Snapshots
      PROVE  \A file \in ToSet(given.files) : file.tokens \in 0 .. MaxCount
  BY SnapshotsAre DEF ToSet
<1>5. \A file \in ToSet(base.files) : file.tokens \in 0 .. MaxCount
  BY <1>2, <1>4 DEF Inv, BaseScanned
<1>6. \A file \in ToSet(head.files) : file.tokens \in 0 .. MaxCount
  <2>1. CASE request.mode = "snapshots"
    BY <1>4, <2>1 DEF Inv, HeadScanned
  <2>2. CASE request.mode = "trees"
    BY <1>2, <2>2 DEF Inv, HeadScanned
  <2>3. CASE request.mode = "worktree"
    BY <1>3, <2>3 DEF Inv, HeadScanned
  <2> QED
    BY <2>1, <2>2, <2>3 DEF Inv, Asked
<1>7. FileAt(snapshot, path) # Absent => FileAt(snapshot, path) \in ToSet(snapshot.files)
  BY DEF FileAt, PathsOf
<1>8. 0 \in 0 .. MaxCount
  BY AggregationAssumption
<1> QED
  BY <1>5, <1>6, <1>7, <1>8 DEF TokensOf

\* The first of some things, and the others.
LEMMA TakesFirst ==
  ASSUME NEW S, NEW n \in Nat, NEW seq \in [1 .. n -> S], seq # <<>>, IsInjective(seq)
  PROVE  /\ Head(seq) \in S /\ Head(seq) \in ToSet(seq)
         /\ ToSet(Tail(seq)) = ToSet(seq) \ {Head(seq)}
         /\ \E m \in Nat : Tail(seq) \in [1 .. m -> S]
         /\ IsInjective(Tail(seq))
<1>1. seq \in Seq(S) /\ Len(seq) = n /\ n # 0 /\ DOMAIN seq = 1 .. n
  OBVIOUS
<1>2. PICK m \in Nat : m = n - 1
  BY <1>1
<1>3. PICK rest : rest = Tail(seq)
  OBVIOUS
<1>4. rest \in [1 .. m -> S] /\ \A i \in 1 .. m : rest[i] = seq[i + 1]
  <2>1. rest \in Seq(S) /\ Len(rest) = m
    BY <1>1, <1>2, <1>3
  <2>2. \A i \in 1 .. m : rest[i] = seq[i + 1]
    BY <1>1, <1>2, <1>3
  <2> QED
    BY <2>1, <2>2
<1>5. Head(seq) = seq[1] /\ 1 \in 1 .. n /\ seq[1] \in S
  BY <1>1
<1>6. \A i, j \in 1 .. n : seq[i] = seq[j] => i = j
  BY <1>1 DEF IsInjective
<1>7. IsInjective(rest)
  <2> SUFFICES ASSUME NEW i \in 1 .. m, NEW j \in 1 .. m, rest[i] = rest[j]  PROVE i = j
    BY <1>4 DEF IsInjective
  <2>1. i + 1 \in 1 .. n /\ j + 1 \in 1 .. n /\ seq[i + 1] = seq[j + 1]
    BY <1>2, <1>4
  <2> QED
    BY <1>6, <2>1
<1>8. ToSet(rest) = ToSet(seq) \ {seq[1]}
  <2>1. ToSet(seq) = {seq[i] : i \in 1 .. n} /\ ToSet(rest) = {rest[i] : i \in 1 .. m}
    BY <1>1, <1>4 DEF ToSet
  <2>2. \A i \in 1 .. m : rest[i] \in ToSet(seq) \ {seq[1]}
    <3> SUFFICES ASSUME NEW i \in 1 .. m  PROVE rest[i] \in ToSet(seq) \ {seq[1]}
      OBVIOUS
    <3>1. i + 1 \in 1 .. n /\ i + 1 # 1 /\ rest[i] = seq[i + 1]
      BY <1>2, <1>4
    <3> QED
      BY <1>5, <1>6, <2>1, <3>1
  <2>3. \A i \in 1 .. n : seq[i] # seq[1] => seq[i] \in ToSet(rest)
    <3> SUFFICES ASSUME NEW i \in 1 .. n, seq[i] # seq[1]  PROVE seq[i] \in ToSet(rest)
      OBVIOUS
    <3>1. i # 1
      OBVIOUS
    <3>2. i - 1 \in 1 .. m /\ rest[i - 1] = seq[i - 1 + 1] /\ i - 1 + 1 = i
      BY <3>1, <1>2, <1>4
    <3> QED
      BY <2>1, <3>2
  <2> QED
    BY <2>1, <2>2, <2>3
<1>9. seq[1] \in ToSet(seq)
  BY <1>1, <1>5 DEF ToSet
<1> QED
  BY <1>2, <1>3, <1>4, <1>5, <1>7, <1>8, <1>9

\* The sums keep their width.
LEMMA AddTyped ==
  ASSUME Deltas, NEW delta, delta.added \in Int, delta.removed \in Int, tokens' = Add(tokens, delta)
  PROVE  Deltas'
<1>1. tokens.added \in Int /\ tokens.removed \in Int /\ MaxCount \in Nat
  BY AggregationAssumption DEF Deltas
<1>2. \A n \in Int : n % (MaxCount + 1) \in 0 .. MaxCount
  BY <1>1
<1>3. /\ tokens'.added = (tokens.added + delta.added) % (MaxCount + 1)
      /\ tokens'.removed = (tokens.removed + delta.removed) % (MaxCount + 1)
      /\ DOMAIN tokens' = {"added", "removed", "net"}
  BY DEF Add
<1>4. tokens.added + delta.added \in Int /\ tokens.removed + delta.removed \in Int
  BY <1>1
<1> QED
  BY <1>2, <1>3, <1>4 DEF Deltas, Fields

LEMMA InvComparePath == Inv /\ ComparePath => Inv'
<1> SUFFICES ASSUME Inv, ComparePath  PROVE Inv'
  OBVIOUS
<1>1. /\ UNCHANGED <<repository, request, pc, base, head, verdict>>
      /\ pc = "compare" /\ todo # <<>> /\ todo' = Tail(todo) /\ ~HasVerdict
      /\ base # Absent /\ head # Absent
  BY DEF Inv, Phases, ComparePath, Same, Differs
<1>2. /\ UNCHANGED <<history, worktree, edited>> /\ DOMAIN worktree' = DOMAIN worktree
      /\ edited \subseteq edited' /\ \A path \in DOMAIN worktree \ edited' : worktree'[path] = worktree[path]
  BY <1>1 DEF repository
<1>3. Asked' /\ Committed' /\ BaseScanned' /\ HeadScanned'
  BY <1>1, <1>2, AskedKept, BaseKept, HeadKept DEF Inv, Committed
<1>4. ~HasVerdict'
  BY <1>1 DEF HasVerdict
<1>5. Phases'
  BY <1>1, <1>4 DEF Phases
<1>6. PICK n \in Nat : todo \in [1 .. n -> BothPaths]
  BY DEF Inv, Comparing
<1>7. /\ Head(todo) \in BothPaths /\ Head(todo) \in ToSet(todo)
      /\ ToSet(todo') = ToSet(todo) \ {Head(todo)}
      /\ \E m \in Nat : todo' \in [1 .. m -> BothPaths]
      /\ IsInjective(todo')
  BY <1>1, <1>6, TakesFirst DEF Inv, Comparing
<1>8. BothPaths' = BothPaths /\ base' = base /\ head' = head
  BY <1>1 DEF BothPaths, PathsOf
<1>9. CASE Same
  <2>1. UNCHANGED <<tokens, changes>>
    BY <1>9 DEF Same
  <2>2. Comparing'
    BY <1>4, <1>7, <1>8, <2>1 DEF Inv, Comparing
  <2>3. Deltas'
    BY <2>1 DEF Inv, Deltas
  <2> QED
    BY <1>3, <1>5, <2>2, <2>3 DEF Inv
<1>10. CASE Differs
  <2>1. PICK path, old, new :
          /\ path = Head(todo) /\ old = FileAt(base, path) /\ new = FileAt(head, path)
          /\ TokensOf(old) # TokensOf(new)
          /\ tokens' = Add(tokens, Delta(old, new))
          /\ changes' = Append(changes, Change(path, old, new))
    BY <1>10 DEF Differs
  <2>2. Comparing'
    <3>1. PICK S : changes \in Seq(S)
      BY DEF Inv, Comparing
    <3>2. PICK change : change = Change(path, old, new)
      OBVIOUS
    <3>3. change.path = path
      BY <3>2 DEF Change
    <3>4. changes' \in Seq(S \cup {change}) /\ ToSet(changes') = ToSet(changes) \cup {change}
      <4>1. changes \in Seq(S \cup {change})
        BY <3>1
      <4>2. PICK k \in Nat : k = Len(changes)
        BY <4>1
      <4>3. /\ changes' \in Seq(S \cup {change}) /\ Len(changes') = k + 1
            /\ changes'[k + 1] = change /\ \A i \in 1 .. k : changes'[i] = changes[i]
        BY <2>1, <3>2, <4>1, <4>2
      <4>4. ToSet(changes) = {changes[i] : i \in 1 .. k} /\ ToSet(changes') = {changes'[i] : i \in 1 .. k + 1}
        BY <4>1, <4>2, <4>3 DEF ToSet
      <4>5. \A i \in 1 .. k + 1 : i = k + 1 \/ i \in 1 .. k
        OBVIOUS
      <4>6. \A i \in 1 .. k : i \in 1 .. k + 1
        OBVIOUS
      <4>7. k + 1 \in 1 .. k + 1
        OBVIOUS
      <4>8. \A x \in ToSet(changes') : x \in ToSet(changes) \/ x = change
        BY <4>3, <4>4, <4>5
      <4>9. \A x \in ToSet(changes) : x \in ToSet(changes')
        BY <4>3, <4>4, <4>6
      <4>10. change \in ToSet(changes')
        BY <4>3, <4>4, <4>7
      <4> QED
        BY <4>3, <4>8, <4>9, <4>10
    <3>5. /\ change.path \in BothPaths \ ToSet(todo')
          /\ TokensOf(FileAt(base, change.path)) # TokensOf(FileAt(head, change.path))
      BY <1>7, <2>1, <3>3
    <3>6. \A other \in ToSet(changes') :
            /\ other.path \in BothPaths \ ToSet(todo')
            /\ TokensOf(FileAt(base, other.path)) # TokensOf(FileAt(head, other.path))
      BY <1>7, <3>4, <3>5 DEF Inv, Comparing
    <3> QED
      BY <1>4, <1>7, <1>8, <3>4, <3>6 DEF Comparing
  <2>3. Deltas'
    <3>1. /\ old # Absent => old.tokens \in 0 .. MaxCount
          /\ new # Absent => new.tokens \in 0 .. MaxCount
          /\ TokensOf(old) \in 0 .. MaxCount /\ TokensOf(new) \in 0 .. MaxCount
      BY <1>1, <2>1, CountsAre
    <3>2. Delta(old, new).added \in Int /\ Delta(old, new).removed \in Int
      BY <3>1 DEF Delta, Between, Reclassified
    <3> QED
      BY <2>1, <3>2, AddTyped DEF Inv
  <2> QED
    BY <1>3, <1>5, <2>2, <2>3 DEF Inv
<1> QED
  BY <1>9, <1>10 DEF ComparePath

LEMMA InvFinish == Inv /\ Finish => Inv'
<1> SUFFICES ASSUME Inv, Finish  PROVE Inv'
  OBVIOUS
<1>1. /\ UNCHANGED <<repository, request, base, head, todo, tokens, changes>>
      /\ pc = "compare" /\ pc' = "done" /\ todo = <<>> /\ verdict'.files = changes
      /\ base # Absent /\ head # Absent
  BY DEF Inv, Phases, Finish, Compared
<1>2. /\ UNCHANGED <<history, worktree, edited>> /\ DOMAIN worktree' = DOMAIN worktree
      /\ edited \subseteq edited' /\ \A path \in DOMAIN worktree \ edited' : worktree'[path] = worktree[path]
  BY <1>1 DEF repository
<1>3. Asked' /\ Committed' /\ BaseScanned' /\ HeadScanned' /\ Deltas'
  BY <1>1, <1>2, AskedKept, BaseKept, HeadKept DEF Inv, Committed, Deltas
<1>4. Comparing'
  <2>1. BothPaths' = BothPaths
    BY <1>1 DEF BothPaths, PathsOf
  <2> QED
    BY <1>1, <2>1 DEF Inv, Comparing
<1>5. Phases'
  BY <1>1 DEF Phases
<1> QED
  BY <1>3, <1>4, <1>5 DEF Inv

LEMMA InvIncompatible == Inv /\ Incompatible => Inv'
<1> SUFFICES ASSUME Inv, Incompatible  PROVE Inv'
  OBVIOUS
<1>1. /\ UNCHANGED <<repository, request, base, head, todo, tokens, changes>>
      /\ pc = "check" /\ pc' = "done" /\ todo = <<>> /\ changes = <<>>
      /\ verdict' = [error |-> "incompatible"]
  BY DEF Inv, Phases, Incompatible, Refuse
<1>2. /\ UNCHANGED <<history, worktree, edited>> /\ DOMAIN worktree' = DOMAIN worktree
      /\ edited \subseteq edited' /\ \A path \in DOMAIN worktree \ edited' : worktree'[path] = worktree[path]
  BY <1>1 DEF repository
<1>3. Asked' /\ Committed' /\ BaseScanned' /\ HeadScanned' /\ Deltas'
  BY <1>1, <1>2, AskedKept, BaseKept, HeadKept DEF Inv, Committed, Deltas
<1>4. ~HasVerdict'
  BY <1>1 DEF HasVerdict
<1>5. Comparing'
  BY <1>1, <1>4, NothingCompared DEF Inv
<1>6. Phases'
  BY <1>1, <1>4 DEF Phases
<1> QED
  BY <1>3, <1>5, <1>6 DEF Inv

LEMMA InvEdit == Inv /\ Edit => Inv'
<1> SUFFICES ASSUME Inv, Edit  PROVE Inv'
  OBVIOUS
<1>1. UNCHANGED <<history, request, pc, base, head, todo, tokens, changes, verdict>>
  BY DEF Edit, comparison
<1>2. PICK edit \in Edits :
        /\ edit[1] \in DOMAIN worktree \ edited
        /\ worktree' = [worktree EXCEPT ![edit[1]] = edit[2]]
        /\ edited' = edited \cup {edit[1]}
  BY DEF Edit
<1>3. /\ DOMAIN worktree' = DOMAIN worktree /\ edited \subseteq edited'
      /\ \A path \in DOMAIN worktree \ edited' : worktree'[path] = worktree[path]
  BY <1>2
<1>4. edit[2] \in WorktreeKinds
  BY <1>2, GitDiffAssumption
<1>5. Asked' /\ BaseScanned' /\ HeadScanned' /\ Deltas'
  BY <1>1, <1>3, AskedKept, BaseKept, HeadKept DEF Inv, Deltas
<1>6. Committed'
  BY <1>1, <1>2, <1>3, <1>4 DEF Inv, Committed, IsWorktree
<1>7. HasVerdict' <=> HasVerdict
  BY <1>1 DEF HasVerdict
<1>8. Comparing'
  <2>1. BothPaths' = BothPaths
    BY <1>1 DEF BothPaths, PathsOf
  <2> QED
    BY <1>1, <1>7, <2>1 DEF Inv, Comparing
<1>9. Phases'
  BY <1>1, <1>7 DEF Inv, Phases
<1> QED
  BY <1>5, <1>6, <1>8, <1>9 DEF Inv

LEMMA InvStutter == Inv /\ UNCHANGED vars => Inv'
<1> SUFFICES ASSUME Inv, UNCHANGED vars  PROVE Inv'
  OBVIOUS
<1>1. UNCHANGED <<history, worktree, edited, request, pc, base, head, todo, tokens, changes, verdict>>
  BY DEF vars, repository, comparison
<1>2. /\ DOMAIN worktree' = DOMAIN worktree /\ edited \subseteq edited'
      /\ \A path \in DOMAIN worktree \ edited' : worktree'[path] = worktree[path]
  BY <1>1
<1>3. Asked' /\ Committed' /\ BaseScanned' /\ HeadScanned' /\ Deltas'
  BY <1>1, <1>2, AskedKept, BaseKept, HeadKept DEF Inv, Committed, Deltas
<1>4. HasVerdict' <=> HasVerdict
  BY <1>1 DEF HasVerdict
<1>5. Comparing'
  <2>1. BothPaths' = BothPaths
    BY <1>1 DEF BothPaths, PathsOf
  <2> QED
    BY <1>1, <1>4, <2>1 DEF Inv, Comparing
<1>6. Phases'
  BY <1>1, <1>4 DEF Inv, Phases
<1> QED
  BY <1>3, <1>5, <1>6 DEF Inv

LEMMA InvHolds == Spec => []Inv
<1>1. Inv /\ [Next]_vars => Inv'
  BY InvScanBase, InvScanHead, InvScanFails, InvTakeSnapshots, InvCompatible, InvIncompatible,
     InvComparePath, InvFinish, InvEdit, InvStutter DEF Next, Finished
<1> QED
  BY InvInit, <1>1, PTL DEF Spec

-----------------------------------------------------------------------------
(* What the changes add up to *)

\* A change as one would count it without a width, and one that is part of another.
IsChange(delta) ==
  delta.added \in Nat /\ delta.removed \in Nat /\ delta.net = delta.added - delta.removed

IsPartOf(part, whole) == part.added =< whole.added /\ part.removed =< whole.removed

FitsWith(delta, other) ==
  delta.added + other.added =< MaxCount /\ delta.removed + other.removed =< MaxCount

\* The unchecked sum is the sum, as long as it fits.
LEMMA AddIs ==
  ASSUME NEW delta, NEW other, IsChange(delta), IsChange(other), FitsWith(delta, other)
  PROVE  /\ IsChange(Add(delta, other))
         /\ \A field \in Fields : /\ delta[field] \in Int /\ other[field] \in Int
                                  /\ Add(delta, other)[field] = delta[field] + other[field]
<1>1. /\ delta.added \in Nat /\ delta.removed \in Nat /\ delta.net = delta.added - delta.removed
      /\ other.added \in Nat /\ other.removed \in Nat /\ other.net = other.added - other.removed
      /\ delta.added + other.added =< MaxCount /\ delta.removed + other.removed =< MaxCount
      /\ MaxCount \in Nat
  BY AggregationAssumption DEF IsChange, FitsWith
<1>2. \A n \in Nat : n =< MaxCount => n % (MaxCount + 1) = n
  BY <1>1
<1>3. PICK sum : sum = Add(delta, other)
  OBVIOUS
<1>4. /\ sum.added = (delta.added + other.added) % (MaxCount + 1)
      /\ sum.removed = (delta.removed + other.removed) % (MaxCount + 1)
      /\ sum.net = delta.net + other.net
  BY <1>3 DEF Add
<1>5. /\ sum.added = delta.added + other.added
      /\ sum.removed = delta.removed + other.removed
  <2>1. /\ delta.added + other.added \in Nat /\ delta.added + other.added =< MaxCount
        /\ delta.removed + other.removed \in Nat /\ delta.removed + other.removed =< MaxCount
    BY <1>1
  <2>2. /\ (delta.added + other.added) % (MaxCount + 1) = delta.added + other.added
        /\ (delta.removed + other.removed) % (MaxCount + 1) = delta.removed + other.removed
    BY <1>2, <2>1
  <2> QED
    BY <1>4, <2>2
<1>6. IsChange(sum)
  BY <1>1, <1>4, <1>5 DEF IsChange
<1>7. \A field \in Fields : /\ delta[field] \in Int /\ other[field] \in Int
                           /\ sum[field] = delta[field] + other[field]
  BY <1>1, <1>4, <1>5 DEF Fields
<1> QED
  BY <1>3, <1>6, <1>7

\* The changes of the languages are parts of the whole change and add up to it.
FieldIn(map, field) == [language \in DOMAIN map |-> map[language][field]]

Splits(map, whole) ==
  /\ IsFiniteSet(DOMAIN map) /\ DOMAIN map \subseteq Int
  /\ \A language \in DOMAIN map : IsChange(map[language]) /\ IsPartOf(map[language], whole)
  /\ \A field \in Fields : SumOver(FieldIn(map, field), DOMAIN map) = whole[field]

NetIn(map, language) == IF language \in DOMAIN map THEN map[language].net ELSE 0

\* What add_language_delta adds to a language, it adds to it alone.
LEMMA AddToSplits ==
  ASSUME NEW map, NEW whole, IsChange(whole), Splits(map, whole),
         NEW language \in Int, NEW delta, IsChange(delta), FitsWith(whole, delta)
  PROVE  /\ Splits(AddTo(map, language, delta), Add(whole, delta))
         /\ \A other : NetIn(AddTo(map, language, delta), other)
                       = NetIn(map, other) + (IF other = language THEN delta.net ELSE 0)
<1>1. PICK L : L = DOMAIN map
  OBVIOUS
<1>2. PICK old : old = IF language \in L THEN map[language] ELSE NoDelta
  OBVIOUS
<1>3. PICK new : new = AddTo(map, language, delta)
  OBVIOUS
<1>4. /\ DOMAIN new = L \cup {language}
      /\ new[language] = Add(old, delta)
      /\ \A other \in L : other # language => new[other] = map[other]
  BY <1>1, <1>2, <1>3 DEF AddTo
<1>5. IsChange(NoDelta) /\ \A field \in Fields : NoDelta[field] = 0
  BY DEF IsChange, NoDelta, Fields
<1>6. IsChange(old) /\ IsPartOf(old, whole)
  <2>1. CASE language \in L
    BY <1>1, <1>2, <2>1 DEF Splits
  <2>2. CASE language \notin L
    BY <1>2, <1>5, <2>2 DEF IsPartOf, IsChange, NoDelta
  <2> QED
    BY <2>1, <2>2
<1>7. FitsWith(old, delta)
  BY <1>6, AggregationAssumption DEF FitsWith, IsPartOf, IsChange
<1>8. PICK sum : sum = Add(whole, delta)
  OBVIOUS
<1>9. PICK grown : grown = Add(old, delta)
  OBVIOUS
<1>10. /\ IsChange(sum)
       /\ \A field \in Fields : /\ whole[field] \in Int /\ delta[field] \in Int
                                /\ sum[field] = whole[field] + delta[field]
  BY <1>8, AddIs
<1>11. /\ IsChange(grown)
       /\ \A field \in Fields : /\ old[field] \in Int
                                /\ grown[field] = old[field] + delta[field]
  BY <1>6, <1>7, <1>9, AddIs
<1>12. /\ sum.added = whole.added + delta.added /\ sum.removed = whole.removed + delta.removed
       /\ grown.added = old.added + delta.added /\ grown.removed = old.removed + delta.removed
       /\ grown.net = old.net + delta.net
       /\ old.net \in Int /\ delta.net \in Int
  BY <1>10, <1>11 DEF Fields
<1>13. IsPartOf(grown, sum)
  BY <1>6, <1>12 DEF IsPartOf, IsChange
<1>14. ASSUME NEW other \in L
       PROVE  IsChange(map[other]) /\ IsPartOf(map[other], sum)
  <2>1. IsChange(map[other]) /\ IsPartOf(map[other], whole)
    BY <1>1 DEF Splits
  <2> QED
    BY <2>1, <1>12 DEF IsPartOf, IsChange
<1>15. \A other \in L \cup {language} : IsChange(new[other]) /\ IsPartOf(new[other], sum)
  BY <1>4, <1>9, <1>11, <1>13, <1>14
<1>16. ASSUME NEW field \in Fields
       PROVE  SumOver(FieldIn(new, field), L \cup {language}) = sum[field]
  <2>1. PICK w : w = FieldIn(map, field)
    OBVIOUS
  <2>2. PICK v : v = FieldIn(new, field)
    OBVIOUS
  <2>3. /\ \A other \in L : w[other] = map[other][field] /\ w[other] \in Int
        /\ \A other \in L \cup {language} : v[other] = new[other][field]
    <3>1. \A change : IsChange(change) => change[field] \in Int
      BY DEF IsChange, Fields
    <3> QED
      BY <1>1, <1>4, <1>14, <2>1, <2>2, <3>1 DEF FieldIn
  <2>4. PICK R : R = L \ {language}
    OBVIOUS
  <2>5. IsFiniteSet(L) /\ IsFiniteSet(R)
    BY <1>1, <2>4, FS_Subset DEF Splits
  <2>6. Weighs(w, L) /\ Weighs(w, R) /\ SumOver(w, R) \in Int
    BY <2>3, <2>4, <2>5, SumType DEF Weighs
  <2>7. \A other \in R : v[other] = w[other]
    BY <1>4, <2>3, <2>4
  <2>8. SumOver(w, R) = SumOver(v, R) /\ Weighs(v, R)
    BY <2>6, <2>7, SumSame DEF Weighs
  <2>9. SumOver(w, L) = old[field] + SumOver(w, R)
    <3>1. CASE language \in L
      <4>1. SumOver(w, L) = w[language] + SumOver(w, L \ {language})
        BY <2>6, <3>1, SumTake
      <4>2. w[language] = old[field]
        BY <1>2, <2>3, <3>1
      <4> QED
        BY <2>4, <4>1, <4>2
    <3>2. CASE language \notin L
      <4>1. R = L /\ old[field] = 0
        BY <1>2, <1>5, <2>4, <3>2
      <4> QED
        BY <2>6, <4>1
    <3> QED
      BY <3>1, <3>2
  <2>10. SumOver(v, R \cup {language}) = v[language] + SumOver(v, R)
    <3>1. v[language] = grown[field] /\ v[language] \in Int
      BY <1>4, <1>9, <1>10, <1>11, <2>3
    <3>2. language \notin R
      BY <2>4
    <3> QED
      BY <2>8, <3>1, <3>2, SumPut
  <2>11. R \cup {language} = L \cup {language}
    BY <2>4
  <2>12. v[language] = old[field] + delta[field]
    BY <1>4, <1>9, <1>11, <2>3
  <2>13. SumOver(w, L) = whole[field]
    BY <1>1, <2>1 DEF Splits
  <2>14. SumOver(v, L \cup {language}) = (old[field] + delta[field]) + SumOver(w, R)
    BY <2>8, <2>10, <2>11, <2>12
  <2>15. sum[field] = (old[field] + SumOver(w, R)) + delta[field]
    BY <1>10, <2>9, <2>13
  <2>16. old[field] \in Int /\ delta[field] \in Int /\ SumOver(w, R) \in Int
    BY <1>10, <1>11, <2>6
  <2> QED
    BY <2>2, <2>14, <2>15, <2>16
<1>17. IsFiniteSet(L \cup {language}) /\ L \cup {language} \subseteq Int
  BY <1>1, FS_AddElement DEF Splits
<1>18. Splits(new, sum)
  BY <1>4, <1>15, <1>16, <1>17 DEF Splits
<1>19. ASSUME NEW other
       PROVE  NetIn(new, other) = NetIn(map, other) + (IF other = language THEN delta.net ELSE 0)
  <2>1. CASE other = language
    BY <1>1, <1>2, <1>4, <1>5, <1>9, <1>12, <2>1 DEF NetIn, NoDelta
  <2>2. CASE other # language /\ other \in L
    <3>1. map[other].net \in Int
      BY <1>14, <2>2 DEF IsChange
    <3> QED
      BY <1>1, <1>4, <2>2, <3>1 DEF NetIn
  <2>3. CASE other # language /\ other \notin L
    BY <1>1, <1>4, <2>3 DEF NetIn
  <2> QED
    BY <2>1, <2>2, <2>3
<1> QED
  BY <1>3, <1>8, <1>18, <1>19

\* A file that may be there, as a snapshot has it.
IsEntry(file) == file # Absent => file.tokens \in Nat /\ file.language \in Int

\* The change of a file is within what both snapshots hold of it.
LEMMA DeltaIs ==
  ASSUME NEW old, NEW new, IsEntry(old), IsEntry(new)
  PROVE  /\ IsChange(Delta(old, new))
         /\ TokensOf(old) \in Nat /\ TokensOf(new) \in Nat
         /\ Delta(old, new).added =< TokensOf(new) /\ Delta(old, new).removed =< TokensOf(old)
         /\ Delta(old, new).net = TokensOf(new) - TokensOf(old)
<1>1. TokensOf(old) \in Nat /\ TokensOf(new) \in Nat
  BY DEF IsEntry, TokensOf
<1>2. CASE Reclassified(old, new)
  <2>1. TokensOf(old) = old.tokens /\ TokensOf(new) = new.tokens
    BY <1>2 DEF Reclassified, TokensOf
  <2>2. Delta(old, new) = [added |-> new.tokens, removed |-> old.tokens, net |-> new.tokens - old.tokens]
    BY <1>2 DEF Delta
  <2> QED
    BY <1>1, <2>1, <2>2 DEF IsChange
<1>3. CASE ~Reclassified(old, new)
  <2>1. PICK from \in Nat : from = TokensOf(old)
    BY <1>1
  <2>2. PICK to \in Nat : to = TokensOf(new)
    BY <1>1
  <2>3. Delta(old, new) = Between(from, to)
    BY <1>3, <2>1, <2>2 DEF Delta
  <2>4. /\ IsChange(Between(from, to))
        /\ Between(from, to).added =< to /\ Between(from, to).removed =< from
        /\ Between(from, to).net = to - from
    BY DEF Between, IsChange
  <2> QED
    BY <2>1, <2>2, <2>3, <2>4
<1> QED
  BY <1>2, <1>3

\* What the change of a file adds to the languages is what it adds to the whole, and to
\* each language what its own tokens changed by.
LEMMA LanguageDeltaSplits ==
  ASSUME NEW map, NEW whole, IsChange(whole), Splits(map, whole),
         NEW old, NEW new, IsEntry(old), IsEntry(new), old # Absent \/ new # Absent,
         FitsWith(whole, Delta(old, new))
  PROVE  /\ Splits(AddLanguageDelta(map, old, new, Delta(old, new)), Add(whole, Delta(old, new)))
         /\ \A language :
              NetIn(AddLanguageDelta(map, old, new, Delta(old, new)), language)
                = NetIn(map, language) + (TokensIfOf(new, language) - TokensIfOf(old, language))
<1>1. PICK delta : delta = Delta(old, new)
  OBVIOUS
<1>2. /\ IsChange(delta) /\ TokensOf(old) \in Nat /\ TokensOf(new) \in Nat
      /\ delta.added =< TokensOf(new) /\ delta.removed =< TokensOf(old)
      /\ delta.net = TokensOf(new) - TokensOf(old)
  BY <1>1, DeltaIs
<1>3. /\ FitsWith(whole, delta) /\ MaxCount \in Nat
      /\ whole.added \in Nat /\ whole.removed \in Nat /\ whole.net \in Int
  BY <1>1, AggregationAssumption DEF IsChange
<1>4. \A language : NetIn(map, language) \in Int
  BY DEF NetIn, Splits, IsChange
<1>5. CASE Reclassified(old, new)
  <2>1. /\ old # Absent /\ new # Absent /\ old.language # new.language
        /\ old.tokens \in Nat /\ new.tokens \in Nat /\ old.language \in Int /\ new.language \in Int
    BY <1>5 DEF Reclassified, IsEntry
  <2>2. PICK lost : lost = Between(old.tokens, 0)
    OBVIOUS
  <2>3. PICK gained : gained = Between(0, new.tokens)
    OBVIOUS
  <2>4. /\ IsChange(lost) /\ lost.added = 0 /\ lost.removed = old.tokens /\ lost.net = 0 - old.tokens
        /\ IsChange(gained) /\ gained.added = new.tokens /\ gained.removed = 0 /\ gained.net = new.tokens
    BY <2>1, <2>2, <2>3 DEF Between, IsChange
  <2>5. /\ delta.added = new.tokens /\ delta.removed = old.tokens
        /\ delta.net = new.tokens - old.tokens
    BY <1>1, <1>5 DEF Delta
  <2>6. FitsWith(whole, lost)
    BY <1>3, <2>1, <2>4, <2>5 DEF FitsWith
  <2>7. PICK less : less = Add(whole, lost)
    OBVIOUS
  <2>8. PICK without : without = AddTo(map, old.language, lost)
    OBVIOUS
  <2>9. /\ Splits(without, less)
        /\ \A language : NetIn(without, language)
                           = NetIn(map, language) + (IF language = old.language THEN lost.net ELSE 0)
    BY <2>1, <2>4, <2>6, <2>7, <2>8, AddToSplits
  <2>10. IsChange(less) /\ \A field \in Fields : less[field] = whole[field] + lost[field]
    BY <2>4, <2>6, <2>7, AddIs
  <2>11. /\ less.added = whole.added + 0 /\ less.removed = whole.removed + old.tokens
         /\ less.net = whole.net + (0 - old.tokens)
    BY <2>4, <2>10 DEF Fields
  <2>12. FitsWith(less, gained)
    BY <1>3, <2>1, <2>4, <2>5, <2>11 DEF FitsWith
  <2>13. PICK all : all = Add(less, gained)
    OBVIOUS
  <2>14. PICK with : with = AddTo(without, new.language, gained)
    OBVIOUS
  <2>15. /\ Splits(with, all)
         /\ \A language : NetIn(with, language)
                            = NetIn(without, language) + (IF language = new.language THEN gained.net ELSE 0)
    BY <2>1, <2>4, <2>9, <2>10, <2>12, <2>13, <2>14, AddToSplits
  <2>16. with = AddLanguageDelta(map, old, new, delta)
    BY <1>5, <2>2, <2>3, <2>8, <2>14 DEF AddLanguageDelta
  <2>17. \A field \in Fields : all[field] = less[field] + gained[field]
    BY <2>4, <2>10, <2>12, <2>13, AddIs
  <2>18. \A field \in Fields : Add(whole, delta)[field] = whole[field] + delta[field]
    BY <1>2, <1>3, AddIs
  <2>19. \A field \in Fields : all[field] = Add(whole, delta)[field]
    BY <1>3, <2>1, <2>4, <2>5, <2>11, <2>17, <2>18 DEF Fields
  <2>20. Splits(with, Add(whole, delta))
    BY <2>15, <2>19 DEF Splits, IsPartOf, Fields
  <2>21. ASSUME NEW language
         PROVE  NetIn(with, language)
                  = NetIn(map, language) + (TokensIfOf(new, language) - TokensIfOf(old, language))
    <3>1. NetIn(map, language) \in Int
      BY <1>4
    <3>2. /\ TokensIfOf(new, language) = IF language = new.language THEN new.tokens ELSE 0
          /\ TokensIfOf(old, language) = IF language = old.language THEN old.tokens ELSE 0
      BY <2>1 DEF TokensIfOf
    <3>3. NetIn(with, language)
            = (NetIn(map, language) + (IF language = old.language THEN 0 - old.tokens ELSE 0))
                + (IF language = new.language THEN new.tokens ELSE 0)
      BY <2>4, <2>9, <2>15
    <3> QED
      BY <2>1, <3>1, <3>2, <3>3
  <2> QED
    BY <1>1, <2>16, <2>20, <2>21
<1>6. CASE ~Reclassified(old, new)
  <2>1. PICK name : name = IF new = Absent THEN old.language ELSE new.language
    OBVIOUS
  <2>2. name \in Int
    BY <2>1 DEF IsEntry
  <2>3. PICK with : with = AddTo(map, name, delta)
    OBVIOUS
  <2>4. with = AddLanguageDelta(map, old, new, delta)
    BY <1>6, <2>1, <2>3 DEF AddLanguageDelta
  <2>5. /\ Splits(with, Add(whole, delta))
        /\ \A language : NetIn(with, language)
                           = NetIn(map, language) + (IF language = name THEN delta.net ELSE 0)
    BY <1>2, <1>3, <2>2, <2>3, AddToSplits
  <2>6. ASSUME NEW language
        PROVE  TokensIfOf(new, language) - TokensIfOf(old, language)
                 = IF language = name THEN delta.net ELSE 0
    <3>1. /\ TokensIfOf(new, language) = IF language = name THEN TokensOf(new) ELSE 0
          /\ TokensIfOf(old, language) = IF language = name THEN TokensOf(old) ELSE 0
      BY <1>6, <2>1 DEF TokensIfOf, TokensOf, Reclassified
    <3> QED
      BY <1>2, <3>1
  <2> QED
    BY <1>1, <2>4, <2>5, <2>6
<1> QED
  BY <1>5, <1>6

\* The changes of the files add up to the whole.
FieldOf(files, field) == [i \in DOMAIN files |-> files[i].tokens[field]]

AddUpTo(files, whole) ==
  \E n \in Nat :
    /\ DOMAIN files = 1 .. n
    /\ \A field \in Fields : /\ Weighs(FieldOf(files, field), 1 .. n)
                             /\ SumOver(FieldOf(files, field), 1 .. n) = whole[field]

LEMMA NoneAddUp == AddUpTo(<<>>, NoDelta) /\ Splits(<<>>, NoDelta) /\ IsChange(NoDelta)
<1>1. DOMAIN <<>> = 1 .. 0 /\ 1 .. 0 = {} /\ IsFiniteSet({}) /\ 0 \in Nat
  BY FS_EmptySet
<1>2. \A field \in Fields : NoDelta[field] = 0
  BY DEF NoDelta, Fields
<1>3. ASSUME NEW field \in Fields
      PROVE  /\ SumOver(FieldOf(<<>>, field), {}) = NoDelta[field]
             /\ SumOver(FieldIn(<<>>, field), {}) = NoDelta[field]
  BY <1>2, SumNone
<1>4. AddUpTo(<<>>, NoDelta)
  BY <1>1, <1>3 DEF AddUpTo, Weighs
<1>5. DOMAIN <<>> = {}
  BY <1>1
<1>6. Splits(<<>>, NoDelta)
  BY <1>1, <1>3, <1>5 DEF Splits
<1> QED
  BY <1>4, <1>6 DEF IsChange, NoDelta

LEMMA AppendAddsUp ==
  ASSUME NEW S, NEW files \in Seq(S), NEW whole, IsChange(whole), AddUpTo(files, whole),
         NEW change, IsChange(change.tokens), FitsWith(whole, change.tokens)
  PROVE  AddUpTo(Append(files, change), Add(whole, change.tokens))
<1>1. PICK n \in Nat :
        /\ DOMAIN files = 1 .. n
        /\ \A field \in Fields : /\ Weighs(FieldOf(files, field), 1 .. n)
                                 /\ SumOver(FieldOf(files, field), 1 .. n) = whole[field]
  BY DEF AddUpTo
<1>2. PICK more : more = Append(files, change)
  OBVIOUS
<1>3. /\ DOMAIN more = 1 .. n + 1 /\ more[n + 1] = change
      /\ \A i \in 1 .. n : more[i] = files[i]
  <2>1. Len(files) = n
    BY <1>1
  <2>2. files \in Seq(S \cup {change})
    OBVIOUS
  <2>3. more \in Seq(S \cup {change}) /\ Len(more) = n + 1
    BY <1>2, <2>1, <2>2
  <2> QED
    BY <1>2, <2>1, <2>2, <2>3
<1>4. PICK m \in Nat : m = n + 1
  OBVIOUS
<1>5. 1 .. m = 1 .. n \cup {m} /\ m \notin 1 .. n
  BY <1>4
<1>6. PICK sum : sum = Add(whole, change.tokens)
  OBVIOUS
<1>7. ASSUME NEW field \in Fields
      PROVE  Weighs(FieldOf(more, field), 1 .. m) /\ SumOver(FieldOf(more, field), 1 .. m) = sum[field]
  <2>1. PICK w : w = FieldOf(files, field)
    OBVIOUS
  <2>2. PICK v : v = FieldOf(more, field)
    OBVIOUS
  <2>3. Weighs(w, 1 .. n) /\ SumOver(w, 1 .. n) = whole[field]
    BY <1>1, <2>1
  <2>4. (\A i \in 1 .. n : v[i] = w[i]) /\ v[m] = change.tokens[field]
    BY <1>1, <1>3, <1>4, <1>5, <2>1, <2>2 DEF FieldOf
  <2>5. /\ whole[field] \in Int /\ change.tokens[field] \in Int
        /\ sum[field] = whole[field] + change.tokens[field]
    BY <1>6, AddIs
  <2>6. SumOver(w, 1 .. n) = SumOver(v, 1 .. n) /\ Weighs(v, 1 .. n)
    BY <2>3, <2>4, SumSame DEF Weighs
  <2>7. SumOver(v, (1 .. n) \cup {m}) = v[m] + SumOver(v, 1 .. n)
    BY <1>5, <2>4, <2>5, <2>6, SumPut
  <2>8. Weighs(v, (1 .. n) \cup {m})
    BY <2>4, <2>5, <2>6, FS_AddElement DEF Weighs
  <2>9. Weighs(v, 1 .. m) /\ SumOver(v, 1 .. m) = v[m] + SumOver(v, 1 .. n)
    BY <1>5, <2>7, <2>8
  <2>10. SumOver(v, 1 .. n) = whole[field]
    BY <2>3, <2>6
  <2>11. v[m] + SumOver(v, 1 .. n) = sum[field]
    BY <2>4, <2>5, <2>10
  <2> QED
    BY <2>2, <2>9, <2>11
<1> QED
  BY <1>2, <1>3, <1>4, <1>6, <1>7 DEF AddUpTo

\* The changes of the languages in the order in which they are told.
DeltaEntries(map) == {[name |-> language, tokens |-> map[language]] : language \in DOMAIN map}

HasMoreImpact(left, right) ==
  \/ left.tokens.added + left.tokens.removed > right.tokens.added + right.tokens.removed
  \/ /\ left.tokens.added + left.tokens.removed = right.tokens.added + right.tokens.removed
     /\ left.name < right.name

ByImpact(E) == [entry \in E |-> {other \in E : HasMoreImpact(other, entry)}]

DeltaList(map) ==
  AntiFunction([entry \in DeltaEntries(map) |-> 1 + Cardinality(ByImpact(DeltaEntries(map))[entry])])

LEMMA LanguageDeltasAre == LanguageDeltas = DeltaList(byLanguage)
<1>1. PICK E : E = DeltaEntries(byLanguage)
  OBVIOUS
<1>2. \A entry \in E : ByImpact(E)[entry] = {other \in E : HasMoreImpact(other, entry)}
  BY DEF ByImpact
<1>3. LanguageDeltas = AntiFunction([entry \in E |-> 1 + Cardinality({other \in E : HasMoreImpact(other, entry)})])
  BY <1>1 DEF LanguageDeltas, Ranked, DeltaEntries, HasMoreImpact
<1> QED
  BY <1>1, <1>2, <1>3 DEF DeltaList

\* What has been counted of the paths that are done: no more than both snapshots hold of
\* them, and the difference between the two.
Tallied(done) ==
  /\ tokens.added =< SumOver(At(head, BothPaths), done)
  /\ tokens.removed =< SumOver(At(base, BothPaths), done)
  /\ tokens.net = SumOver(At(head, BothPaths), done) - SumOver(At(base, BothPaths), done)
  /\ ~Relabelled =>
       \A language :
         NetIn(byLanguage, language) = SumOver(LanguageAt(head, language, BothPaths), done)
                                         - SumOver(LanguageAt(base, language, BothPaths), done)

\* The invariant of what is told.
Told ==
  /\ IsChange(tokens) /\ Splits(byLanguage, tokens) /\ AddUpTo(changes, tokens)
  /\ pc # "compare" /\ ~HasVerdict => tokens = NoDelta /\ byLanguage = <<>>
  /\ pc = "compare" => Tallied(BothPaths \ ToSet(todo))
  /\ HasVerdict => /\ Tallied(BothPaths)
                   /\ verdict.tokens = tokens /\ verdict.languages = DeltaList(byLanguage)
                   /\ verdict.files = changes

LEMMA ToldInit == Init => Told
<1> SUFFICES ASSUME Init  PROVE Told
  OBVIOUS
<1>1. tokens = NoDelta /\ byLanguage = <<>> /\ changes = <<>> /\ pc = "base" /\ ~HasVerdict
  BY DEF Init, InitComparison, HasVerdict, Absent
<1> QED
  BY <1>1, NoneAddUp DEF Told

\* While nothing is compared nothing is told.
LEMMA ToldNothing ==
  ASSUME Told, pc # "compare", ~HasVerdict, UNCHANGED <<tokens, byLanguage, changes>>,
         pc' # "compare", ~HasVerdict'
  PROVE  Told'
<1>1. tokens = NoDelta /\ byLanguage = <<>>
  BY DEF Told
<1> QED
  BY <1>1 DEF Told

\* What is told stays as it is while the comparison does.
LEMMA ToldKept ==
  ASSUME Told, UNCHANGED <<pc, base, head, comparison>>
  PROVE  Told'
<1>1. UNCHANGED <<pc, base, head, todo, tokens, byLanguage, changes, verdict>>
  BY DEF comparison
<1>2. BothPaths' = BothPaths /\ (Relabelled' <=> Relabelled)
  BY <1>1 DEF BothPaths, PathsOf, Relabelled, FileAt, Reclassified
<1>3. HasVerdict' <=> HasVerdict
  BY <1>1 DEF HasVerdict
<1>4. \A done : Tallied(done)' <=> Tallied(done)
  BY <1>1, <1>2 DEF Tallied
<1> QED
  BY <1>1, <1>2, <1>3, <1>4 DEF Told

\* Each snapshot that is there is one.
LEMMA SnapshotsHeld ==
  ASSUME Inv
  PROVE  /\ base # Absent => IsSnapshot(base)
         /\ head # Absent => IsSnapshot(head)
<1>1. \A given, tree : IsTreeSnapshot(given, tree) => IsSnapshot(given)
  BY DEF IsTreeSnapshot, Gives
<1>2. \A given : IsWorktreeSnapshot(given) => IsSnapshot(given)
  BY DEF IsWorktreeSnapshot, Gives
<1>3. \A given \in Snapshots : IsSnapshot(given)
  BY SnapshotsAre
<1>4. base # Absent => IsSnapshot(base)
  BY <1>1, <1>3 DEF Inv, BaseScanned
<1>5. ASSUME head # Absent  PROVE IsSnapshot(head)
  <2>1. CASE request.mode = "snapshots"
    BY <1>3, <1>5, <2>1 DEF Inv, HeadScanned
  <2>2. CASE request.mode = "trees"
    BY <1>1, <1>5, <2>2 DEF Inv, HeadScanned
  <2>3. CASE request.mode = "worktree"
    BY <1>2, <1>5, <2>3 DEF Inv, HeadScanned
  <2> QED
    BY <2>1, <2>2, <2>3 DEF Inv, Asked
<1> QED
  BY <1>4, <1>5

LEMMA EntriesAre ==
  ASSUME NEW snapshot, IsSnapshot(snapshot), NEW path
  PROVE  IsEntry(FileAt(snapshot, path))
<1>1. PICK n : n = Len(snapshot.files)
  OBVIOUS
<1>2. /\ \A i \in 1 .. n : FileAt(snapshot, snapshot.files[i].path) = snapshot.files[i]
      /\ \A at \in PathsOf(snapshot) : \E i \in 1 .. n : snapshot.files[i].path = at
      /\ \A at : at \notin PathsOf(snapshot) => FileAt(snapshot, at) = Absent
  BY <1>1, FilesFound
<1>3. \A i \in 1 .. n : snapshot.files[i].tokens \in Nat /\ snapshot.files[i].language \in Int
  BY <1>1 DEF IsSnapshot, AreFiles
<1>4. CASE path \in PathsOf(snapshot)
  <2>1. PICK i \in 1 .. n : snapshot.files[i].path = path
    BY <1>2, <1>4
  <2>2. FileAt(snapshot, path) = snapshot.files[i]
    BY <1>2, <2>1
  <2> QED
    BY <1>3, <2>2 DEF IsEntry
<1> QED
  BY <1>2, <1>4 DEF IsEntry

\* One path more is done: its file counts in all and for its language.
OneMore(snapshot, P, done, more, file) ==
  /\ SumOver(At(snapshot, P), done) \in Nat
  /\ SumOver(At(snapshot, P), more) = TokensOf(file) + SumOver(At(snapshot, P), done)
  /\ SumOver(At(snapshot, P), more) =< MaxCount
  /\ \A language :
       /\ SumOver(LanguageAt(snapshot, language, P), done) \in Int
       /\ SumOver(LanguageAt(snapshot, language, P), more)
            = TokensIfOf(file, language) + SumOver(LanguageAt(snapshot, language, P), done)

LEMMA OneMoreIs ==
  ASSUME NEW snapshot, IsSnapshot(snapshot), NEW P, IsFiniteSet(P), PathsOf(snapshot) \subseteq P,
         NEW done \in SUBSET P, NEW path \in P, path \notin done
  PROVE  OneMore(snapshot, P, done, done \cup {path}, FileAt(snapshot, path))
<1>1. PICK w : w = At(snapshot, P)
  OBVIOUS
<1>2. Weighs(w, P) /\ (\A at \in P : w[at] \in Nat) /\ SumOver(w, P) = snapshot.totals.tokens
  BY <1>1, SnapshotTotal
<1>3. w[path] = TokensOf(FileAt(snapshot, path))
  BY <1>1 DEF At
<1>4. Weighs(w, done) /\ w[path] \in Int
  BY <1>2, FS_Subset DEF Weighs
<1>5. SumOver(w, done \cup {path}) = w[path] + SumOver(w, done)
  BY <1>4, SumPut
<1>6. done \cup {path} \in SUBSET P /\ \A at \in P : w[at] >= 0
  BY <1>2
<1>7. 0 =< SumOver(w, done) /\ SumOver(w, done \cup {path}) =< SumOver(w, P)
  <2>1. PICK more \in SUBSET P : more = done \cup {path}
    BY <1>6
  <2> QED
    BY <1>2, <1>6, <2>1, SumPart
<1>8. SumOver(w, done) \in Int /\ SumOver(w, done \cup {path}) \in Int
  BY <1>4, <1>5, SumType
<1>9. SumOver(w, done \cup {path}) =< MaxCount
  <2>1. SumOver(w, P) \in Int /\ SumOver(w, P) =< MaxCount /\ MaxCount \in Nat
    BY <1>2, SumType, AggregationAssumption DEF IsSnapshot
  <2> QED
    BY <1>7, <1>8, <2>1
<1>10. ASSUME NEW language
       PROVE  /\ SumOver(LanguageAt(snapshot, language, P), done) \in Int
              /\ SumOver(LanguageAt(snapshot, language, P), done \cup {path})
                   = TokensIfOf(FileAt(snapshot, path), language)
                       + SumOver(LanguageAt(snapshot, language, P), done)
  <2>1. PICK v : v = LanguageAt(snapshot, language, P)
    OBVIOUS
  <2>2. Weighs(v, P)
    BY <2>1, SnapshotLanguage
  <2>3. v[path] = TokensIfOf(FileAt(snapshot, path), language)
    BY <2>1 DEF LanguageAt
  <2>4. Weighs(v, done) /\ v[path] \in Int
    BY <2>2, FS_Subset DEF Weighs
  <2>5. SumOver(v, done \cup {path}) = v[path] + SumOver(v, done)
    BY <2>4, SumPut
  <2> QED
    BY <2>1, <2>3, <2>4, <2>5, SumType
<1> QED
  BY <1>1, <1>3, <1>5, <1>7, <1>8, <1>9, <1>10 DEF OneMore

\* The steps that compare nothing.
LEMMA ToldBefore ==
  ASSUME Inv, Told, ScanBase \/ ScanHead \/ ScanFails \/ TakeSnapshots \/ Incompatible
  PROVE  Told'
<1>1. pc \in {"base", "head", "check"} /\ ~HasVerdict
  BY DEF Inv, Phases, ScanBase, ScanHead, ScanFails, TakeSnapshots, Incompatible
<1>2. UNCHANGED comparison => UNCHANGED <<tokens, byLanguage, changes>> /\ ~HasVerdict'
  BY <1>1 DEF comparison, HasVerdict
<1>3. \A error : Stop(error) => /\ UNCHANGED <<tokens, byLanguage, changes>> /\ ~HasVerdict'
                                /\ pc' = "done"
  BY StopsWithout DEF Stop
<1>4. Refuse => UNCHANGED <<tokens, byLanguage, changes>> /\ ~HasVerdict'
  BY DEF Refuse, HasVerdict
<1>5. UNCHANGED <<tokens, byLanguage, changes>> /\ ~HasVerdict' /\ pc' # "compare"
  <2>1. CASE ScanBase
    BY <2>1, <1>2, <1>3 DEF ScanBase
  <2>2. CASE ScanHead
    BY <2>2, <1>2, <1>3 DEF ScanHead
  <2>3. CASE ScanFails
    BY <2>3, <1>3 DEF ScanFails
  <2>4. CASE TakeSnapshots
    BY <2>4, <1>2 DEF TakeSnapshots
  <2>5. CASE Incompatible
    BY <2>5, <1>4 DEF Incompatible
  <2> QED
    BY <2>1, <2>2, <2>3, <2>4, <2>5
<1> QED
  BY <1>1, <1>5, ToldNothing

LEMMA ToldCompatible ==
  ASSUME Inv, Told, Compatible
  PROVE  Told'
<1>1. /\ UNCHANGED <<tokens, byLanguage, changes, verdict, base, head>> /\ pc' = "compare" /\ ~HasVerdict
      /\ base # Absent /\ head # Absent /\ todo' = InOrder(BothPaths) /\ pc = "check"
  BY DEF Inv, Phases, Compatible, StartComparing, BothPaths
<1>2. tokens = NoDelta /\ byLanguage = <<>>
  BY <1>1 DEF Told
<1>3. IsFiniteSet(BothPaths) /\ BothPaths \in SUBSET Seq(Int)
  BY <1>1, PathsAreFinite, FS_Union DEF BothPaths
<1>4. BothPaths \ ToSet(todo') = {}
  <2>1. \A path \in BothPaths : \E i \in 1 .. Cardinality(BothPaths) : InOrder(BothPaths)[i] = path
    BY <1>3, InOrderLists
  <2>2. InOrder(BothPaths) \in [1 .. Cardinality(BothPaths) -> BothPaths]
    BY <1>3, InOrderLists
  <2>3. ToSet(todo') = {todo'[i] : i \in 1 .. Cardinality(BothPaths)}
    BY <1>1, <2>2 DEF ToSet
  <2> QED
    BY <1>1, <2>1, <2>3
<1>5. BothPaths' = BothPaths /\ ~HasVerdict'
  BY <1>1 DEF BothPaths, PathsOf, HasVerdict
<1>6. Tallied({})'
  <2>1. /\ tokens'.added = 0 /\ tokens'.removed = 0 /\ tokens'.net = 0
        /\ \A language : NetIn(byLanguage', language) = 0
    BY <1>1, <1>2 DEF NoDelta, NetIn
  <2> QED
    BY <2>1, SumNone DEF Tallied
<1> QED
  BY <1>1, <1>4, <1>5, <1>6 DEF Told

\* What comparing a path adds is what the two snapshots hold of it.
LEMMA TalliedMore ==
  ASSUME IsSnapshot(base), IsSnapshot(head), IsFiniteSet(BothPaths),
         NEW done \in SUBSET BothPaths, NEW path \in BothPaths, path \notin done, Tallied(done),
         IsChange(tokens), NEW old, old = FileAt(base, path), NEW new, new = FileAt(head, path),
         UNCHANGED <<base, head>>,
         tokens'.added =< tokens.added + TokensOf(new), tokens'.added \in Nat,
         tokens'.removed =< tokens.removed + TokensOf(old), tokens'.removed \in Nat,
         tokens'.net = tokens.net + (TokensOf(new) - TokensOf(old)),
         ~Relabelled =>
           \A language :
             /\ NetIn(byLanguage, language) \in Int
             /\ NetIn(byLanguage', language)
                  = NetIn(byLanguage, language) + (TokensIfOf(new, language) - TokensIfOf(old, language))
  PROVE  Tallied(done \cup {path})'
<1>1. PICK P : P = BothPaths
  OBVIOUS
<1>2. IsFiniteSet(P) /\ PathsOf(base) \subseteq P /\ PathsOf(head) \subseteq P
  BY <1>1 DEF BothPaths
<1>3. BothPaths' = P /\ (Relabelled' <=> Relabelled)
  BY <1>1 DEF BothPaths, PathsOf, Relabelled, FileAt, Reclassified
<1>4. PICK more : more = done \cup {path}
  OBVIOUS
<1>5. /\ TokensOf(old) \in Nat /\ TokensOf(new) \in Nat
      /\ \A language : TokensIfOf(old, language) \in Int /\ TokensIfOf(new, language) \in Int
  BY EntriesAre DEF IsEntry, TokensOf, TokensIfOf
<1>6. /\ SumOver(At(head, P), done) \in Nat
      /\ SumOver(At(head, P), more) = TokensOf(new) + SumOver(At(head, P), done)
      /\ \A language :
           /\ SumOver(LanguageAt(head, language, P), done) \in Int
           /\ SumOver(LanguageAt(head, language, P), more)
                = TokensIfOf(new, language) + SumOver(LanguageAt(head, language, P), done)
  <2>1. done \in SUBSET P /\ path \in P
    BY <1>1
  <2>2. OneMore(head, P, done, more, new)
    BY <1>2, <1>4, <2>1, OneMoreIs
  <2> QED
    BY <2>2 DEF OneMore
<1>7. /\ SumOver(At(base, P), done) \in Nat
      /\ SumOver(At(base, P), more) = TokensOf(old) + SumOver(At(base, P), done)
      /\ \A language :
           /\ SumOver(LanguageAt(base, language, P), done) \in Int
           /\ SumOver(LanguageAt(base, language, P), more)
                = TokensIfOf(old, language) + SumOver(LanguageAt(base, language, P), done)
  <2>1. done \in SUBSET P /\ path \in P
    BY <1>1
  <2>2. OneMore(base, P, done, more, old)
    BY <1>2, <1>4, <2>1, OneMoreIs
  <2> QED
    BY <2>2 DEF OneMore
<1>8. /\ tokens.added =< SumOver(At(head, P), done) /\ tokens.added \in Nat
      /\ tokens.removed =< SumOver(At(base, P), done) /\ tokens.removed \in Nat
      /\ tokens.net = SumOver(At(head, P), done) - SumOver(At(base, P), done)
  BY <1>1 DEF Tallied, IsChange
<1>9. /\ tokens'.added =< SumOver(At(head, P), more)
      /\ tokens'.removed =< SumOver(At(base, P), more)
      /\ tokens'.net = SumOver(At(head, P), more) - SumOver(At(base, P), more)
  BY <1>5, <1>6, <1>7, <1>8
<1>10. ASSUME ~Relabelled, NEW language
       PROVE  NetIn(byLanguage', language) = SumOver(LanguageAt(head, language, P), more)
                                               - SumOver(LanguageAt(base, language, P), more)
  <2>1. NetIn(byLanguage, language) = SumOver(LanguageAt(head, language, P), done)
                                        - SumOver(LanguageAt(base, language, P), done)
    BY <1>1, <1>10 DEF Tallied
  <2>2. NetIn(byLanguage', language)
          = NetIn(byLanguage, language) + (TokensIfOf(new, language) - TokensIfOf(old, language))
    BY <1>10
  <2> QED
    BY <1>5, <1>6, <1>7, <2>1, <2>2
<1>11. \A language : NetIn(byLanguage, language)' = NetIn(byLanguage', language)
  BY DEF NetIn
<1>12. /\ At(head, P)' = At(head, P) /\ At(base, P)' = At(base, P)
       /\ \A language : /\ LanguageAt(head, language, P)' = LanguageAt(head, language, P)
                        /\ LanguageAt(base, language, P)' = LanguageAt(base, language, P)
  BY DEF At, LanguageAt, FileAt, PathsOf
<1>13. Tallied(more)'
  BY <1>3, <1>9, <1>10, <1>11, <1>12 DEF Tallied
<1> QED
  BY <1>4, <1>13

\* Files that no change of language tells apart have the same tokens in each language.
LEMMA SameTokens ==
  ASSUME ~Relabelled, NEW path, NEW old, old = FileAt(base, path), NEW new, new = FileAt(head, path),
         TokensOf(old) = TokensOf(new), NEW language
  PROVE  TokensIfOf(new, language) = TokensIfOf(old, language)
<1>1. (old # Absent => path \in PathsOf(base)) /\ (new # Absent => path \in PathsOf(head))
  BY DEF FileAt
<1>2. CASE old # Absent /\ new # Absent
  <2>1. old.tokens = new.tokens
    BY <1>2 DEF TokensOf
  <2>2. old.language = new.language
    BY <1>1, <1>2, <2>1 DEF Relabelled, Reclassified
  <2> QED
    BY <1>2, <2>1, <2>2 DEF TokensIfOf
<1>3. CASE old = Absent \/ new = Absent
  BY <1>3 DEF TokensOf, TokensIfOf
<1> QED
  BY <1>2, <1>3

LEMMA ToldComparePath ==
  ASSUME Inv, Told, ComparePath
  PROVE  Told'
<1>1. /\ UNCHANGED <<pc, base, head, verdict>>
      /\ pc = "compare" /\ todo # <<>> /\ todo' = Tail(todo) /\ ~HasVerdict /\ ~HasVerdict'
      /\ base # Absent /\ head # Absent
  BY DEF Inv, Phases, ComparePath, Same, Differs, HasVerdict
<1>2. PICK n \in Nat : todo \in [1 .. n -> BothPaths]
  BY DEF Inv, Comparing
<1>3. PICK path : path = Head(todo)
  OBVIOUS
<1>4. path \in BothPaths /\ path \in ToSet(todo) /\ ToSet(todo') = ToSet(todo) \ {path}
  BY <1>1, <1>2, <1>3, TakesFirst DEF Inv, Comparing
<1>5. PICK done \in SUBSET BothPaths : done = BothPaths \ ToSet(todo)
  OBVIOUS
<1>6. path \notin done /\ BothPaths \ ToSet(todo') = done \cup {path} /\ BothPaths' = BothPaths
  BY <1>1, <1>4, <1>5 DEF BothPaths, PathsOf
<1>7. IsSnapshot(base) /\ IsSnapshot(head) /\ IsFiniteSet(BothPaths)
  BY <1>1, SnapshotsHeld, PathsAreFinite, FS_Union DEF BothPaths
<1>8. /\ IsChange(tokens) /\ Splits(byLanguage, tokens) /\ AddUpTo(changes, tokens) /\ Tallied(done)
      /\ \A language : NetIn(byLanguage, language) \in Int
  BY <1>1, <1>5 DEF Told, NetIn, Splits, IsChange
<1>9. PICK old : old = FileAt(base, path)
  OBVIOUS
<1>10. PICK new : new = FileAt(head, path)
  OBVIOUS
<1>11. IsEntry(old) /\ IsEntry(new) /\ TokensOf(old) \in Nat /\ TokensOf(new) \in Nat
  BY <1>7, <1>9, <1>10, EntriesAre DEF IsEntry, TokensOf
<1>12. CASE Same
  <2>1. UNCHANGED <<tokens, byLanguage, changes>> /\ TokensOf(old) = TokensOf(new)
    BY <1>3, <1>9, <1>10, <1>12 DEF Same
  <2>2. /\ tokens'.added =< tokens.added + TokensOf(new) /\ tokens'.added \in Nat
        /\ tokens'.removed =< tokens.removed + TokensOf(old) /\ tokens'.removed \in Nat
        /\ tokens'.net = tokens.net + (TokensOf(new) - TokensOf(old))
    BY <1>8, <1>11, <2>1 DEF IsChange
  <2>3. ASSUME ~Relabelled, NEW language
        PROVE  NetIn(byLanguage', language)
                 = NetIn(byLanguage, language) + (TokensIfOf(new, language) - TokensIfOf(old, language))
    <3>1. TokensIfOf(new, language) = TokensIfOf(old, language)
      BY <1>9, <1>10, <2>1, <2>3, SameTokens
    <3>2. TokensIfOf(old, language) \in Int
      BY <1>11 DEF IsEntry, TokensIfOf
    <3> QED
      BY <1>8, <2>1, <3>1, <3>2
  <2>4. Tallied(done \cup {path})'
    BY <1>1, <1>4, <1>6, <1>7, <1>8, <1>9, <1>10, <2>2, <2>3, TalliedMore
  <2> QED
    BY <1>1, <1>6, <1>8, <2>1, <2>4 DEF Told
<1>13. CASE Differs
  <2>1. PICK delta : delta = Delta(old, new)
    OBVIOUS
  <2>2. /\ TokensOf(old) # TokensOf(new)
        /\ tokens' = Add(tokens, delta)
        /\ byLanguage' = AddLanguageDelta(byLanguage, old, new, delta)
        /\ changes' = Append(changes, Change(path, old, new))
    BY <1>3, <1>9, <1>10, <1>13, <2>1 DEF Differs
  <2>3. /\ IsChange(delta) /\ delta.added =< TokensOf(new) /\ delta.removed =< TokensOf(old)
        /\ delta.net = TokensOf(new) - TokensOf(old)
    BY <1>11, <2>1, DeltaIs
  <2>4. FitsWith(tokens, delta)
    <3>1. PICK P : P = BothPaths
      OBVIOUS
    <3>2. IsFiniteSet(P) /\ PathsOf(base) \subseteq P /\ PathsOf(head) \subseteq P
      BY <1>7, <3>1 DEF BothPaths
    <3>0. done \in SUBSET P /\ path \in P
      BY <1>4, <3>1
    <3>3. /\ SumOver(At(head, P), done) \in Nat
          /\ SumOver(At(head, P), done \cup {path}) = TokensOf(new) + SumOver(At(head, P), done)
          /\ SumOver(At(head, P), done \cup {path}) =< MaxCount
      <4>1. OneMore(head, P, done, done \cup {path}, new)
        BY <1>6, <1>7, <1>10, <3>0, <3>2, OneMoreIs
      <4> QED
        BY <4>1 DEF OneMore
    <3>4. /\ SumOver(At(base, P), done) \in Nat
          /\ SumOver(At(base, P), done \cup {path}) = TokensOf(old) + SumOver(At(base, P), done)
          /\ SumOver(At(base, P), done \cup {path}) =< MaxCount
      <4>1. OneMore(base, P, done, done \cup {path}, old)
        BY <1>6, <1>7, <1>9, <3>0, <3>2, OneMoreIs
      <4> QED
        BY <4>1 DEF OneMore
    <3>5. tokens.added =< SumOver(At(head, P), done) /\ tokens.removed =< SumOver(At(base, P), done)
      BY <1>8, <3>1 DEF Tallied
    <3>6. MaxCount \in Nat
      BY AggregationAssumption
    <3> QED
      BY <1>8, <1>11, <2>3, <3>3, <3>4, <3>5, <3>6 DEF FitsWith, IsChange
  <2>5. /\ IsChange(tokens')
        /\ \A field \in Fields : tokens'[field] = tokens[field] + delta[field]
    BY <1>8, <2>2, <2>3, <2>4, AddIs
  <2>6. old # Absent \/ new # Absent
    BY <2>2 DEF TokensOf
  <2>7. /\ Splits(byLanguage', tokens')
        /\ \A language :
             NetIn(byLanguage', language)
               = NetIn(byLanguage, language) + (TokensIfOf(new, language) - TokensIfOf(old, language))
    BY <1>8, <1>11, <2>1, <2>2, <2>4, <2>6, LanguageDeltaSplits
  <2>8. AddUpTo(changes', tokens')
    <3>1. PICK S : changes \in Seq(S)
      BY DEF Inv, Comparing
    <3>2. PICK change : change = Change(path, old, new)
      OBVIOUS
    <3>3. change.tokens = delta
      BY <2>1, <3>2 DEF Change
    <3> QED
      BY <1>8, <2>2, <2>3, <2>4, <3>1, <3>2, <3>3, AppendAddsUp
  <2>9. /\ tokens'.added = tokens.added + delta.added /\ tokens'.removed = tokens.removed + delta.removed
        /\ tokens'.net = tokens.net + delta.net
    BY <2>5 DEF Fields
  <2>10. /\ tokens'.added =< tokens.added + TokensOf(new) /\ tokens'.added \in Nat
         /\ tokens'.removed =< tokens.removed + TokensOf(old) /\ tokens'.removed \in Nat
         /\ tokens'.net = tokens.net + (TokensOf(new) - TokensOf(old))
    BY <1>8, <1>11, <2>3, <2>5, <2>9 DEF IsChange
  <2>11. Tallied(done \cup {path})'
    BY <1>1, <1>4, <1>6, <1>7, <1>8, <1>9, <1>10, <2>7, <2>10, TalliedMore
  <2>12. IsChange(tokens)' /\ Splits(byLanguage, tokens)' /\ AddUpTo(changes, tokens)'
    BY <2>5, <2>7, <2>8 DEF IsChange, Splits, IsPartOf, FieldIn, AddUpTo, FieldOf
  <2> QED
    BY <1>1, <1>6, <2>11, <2>12 DEF Told
<1> QED
  BY <1>12, <1>13 DEF ComparePath

LEMMA ToldFinish ==
  ASSUME Inv, Told, Finish
  PROVE  Told'
<1>1. /\ UNCHANGED <<base, head, todo, tokens, byLanguage, changes>>
      /\ pc = "compare" /\ pc' = "done" /\ todo = <<>>
      /\ verdict'.tokens = tokens /\ verdict'.languages = LanguageDeltas /\ verdict'.files = changes
      /\ base # Absent /\ head # Absent
  BY DEF Inv, Phases, Finish, Compared
<1>2. BothPaths \ ToSet(todo) = BothPaths
  BY <1>1 DEF ToSet
<1>3. Tallied(BothPaths)
  BY <1>1, <1>2 DEF Told
<1>4. BothPaths' = BothPaths /\ (Relabelled' <=> Relabelled)
  BY <1>1 DEF BothPaths, PathsOf, Relabelled, FileAt, Reclassified
<1>5. \A done : Tallied(done)' <=> Tallied(done)
  BY <1>1, <1>4 DEF Tallied
<1>6. HasVerdict'
  BY DEF Finish, Compared, HasVerdict
<1>7. verdict'.languages = DeltaList(byLanguage)
  BY <1>1, LanguageDeltasAre
<1> QED
  BY <1>1, <1>3, <1>4, <1>5, <1>6, <1>7 DEF Told

LEMMA ToldHolds == Spec => []Told
<1>1. Inv /\ Told /\ [Next]_vars => Told'
  <2> SUFFICES ASSUME Inv, Told, [Next]_vars  PROVE Told'
    OBVIOUS
  <2>1. CASE Edit
    BY <2>1, ToldKept DEF Edit
  <2>2. CASE Finished
    BY <2>2, ToldKept DEF Finished, vars
  <2>3. CASE UNCHANGED vars
    BY <2>3, ToldKept DEF vars
  <2>4. CASE Next /\ ~Edit /\ ~Finished
    BY <2>4, ToldBefore, ToldCompatible, ToldComparePath, ToldFinish DEF Next
  <2> QED
    BY <2>1, <2>2, <2>3, <2>4
<1> QED
  BY ToldInit, InvHolds, <1>1, PTL DEF Spec

-----------------------------------------------------------------------------
(* What it means for the diff *)

LEMMA InvType == Inv => TypeOK
<1> SUFFICES ASSUME Inv  PROVE TypeOK
  OBVIOUS
<1>1. ToSet(todo) \cap {change.path : change \in ToSet(changes)} = {}
  BY DEF Inv, Comparing
<1> QED
  BY <1>1 DEF Inv, Phases, Committed, Deltas, TypeOK

\* A file of a verdict is one of a snapshot.
LEMMA VerdictIs ==
  ASSUME Inv, HasVerdict
  PROVE  /\ base # Absent /\ head # Absent
         /\ \A change \in ToSet(verdict.files) :
              /\ change.path \in PathsOf(base) \cup PathsOf(head)
              /\ TokensOf(FileAt(base, change.path)) # TokensOf(FileAt(head, change.path))
BY DEF Inv, Comparing, BothPaths

LEMMA TreeFiles ==
  ASSUME NEW snapshot, NEW tree, IsTreeSnapshot(snapshot, tree)
  PROVE  /\ PathsOf(snapshot) = {path \in VisitedIn(tree) : tree[path] \in DOMAIN Tokens}
         /\ \A path \in PathsOf(snapshot) : FileAt(snapshot, path) = Measured(path, tree[path])
         /\ \A path : path \notin PathsOf(snapshot) => FileAt(snapshot, path) = Absent
         /\ \A path \in VisitedIn(tree) : tree[path] \notin {"lost", "corrupt", "failing"}
<1>1. /\ AreOutcomes(VisitedIn(tree), TreeOutcomes(tree))
      /\ MeasuredOf(VisitedIn(tree), TreeOutcomes(tree)) =
           {path \in VisitedIn(tree) : tree[path] \in DOMAIN Tokens}
      /\ \A path \in VisitedIn(tree) : tree[path] \notin {"lost", "corrupt", "failing"}
      /\ Gives(snapshot, VisitedIn(tree), TreeOutcomes(tree)) /\ IsTree(tree)
  BY TreeOutcomesAre DEF IsTreeSnapshot
<1>2. /\ PathsOf(snapshot) = {path \in VisitedIn(tree) : tree[path] \in DOMAIN Tokens}
      /\ \A path \in PathsOf(snapshot) : FileAt(snapshot, path) = TreeOutcomes(tree)[path]
      /\ \A path : path \notin PathsOf(snapshot) => FileAt(snapshot, path) = Absent
  BY <1>1, GivenFiles
<1>3. ASSUME NEW path \in PathsOf(snapshot)  PROVE TreeOutcomes(tree)[path] = Measured(path, tree[path])
  <2>1. /\ path \in DOMAIN tree /\ tree[path] \in TreeKinds \ {"lost", "corrupt", "failing"}
        /\ tree[path] \in DOMAIN Tokens /\ Classify[Last(path)] \in Int
    BY <1>1, <1>2 DEF VisitedIn, IsTree
  <2> QED
    BY <2>1, OutcomeTypes DEF TreeOutcomes
<1> QED
  BY <1>1, <1>2, <1>3

LEMMA WorktreeFiles ==
  ASSUME NEW snapshot, IsWorktreeSnapshot(snapshot)
  PROVE  \E files :
           /\ \A path \in DOMAIN worktree \ edited : files[path] = worktree[path]
           /\ PathsOf(snapshot) \subseteq AdmittedInWorktree
           /\ \A path \in AdmittedInWorktree :
                /\ files[path] # "failing"
                /\ files[path] # "link" => (path \in PathsOf(snapshot) <=> files[path] \in DOMAIN Tokens)
                /\ files[path] \in DOMAIN Tokens /\ path \in PathsOf(snapshot) =>
                     FileAt(snapshot, path) = Measured(path, files[path])
           /\ \A path : path \notin PathsOf(snapshot) => FileAt(snapshot, path) = Absent
<1>1. PICK files :
        /\ IsWorktree(files) /\ DOMAIN files = DOMAIN worktree
        /\ \A path \in DOMAIN worktree \ edited : files[path] = worktree[path]
        /\ \A path \in AdmittedInWorktree : files[path] # "failing"
        /\ Gives(snapshot, AdmittedInWorktree, WorktreeOutcomes(files))
  BY DEF IsWorktreeSnapshot
<1>2. AreOutcomes(AdmittedInWorktree, WorktreeOutcomes(files))
  BY <1>1, WorktreeOutcomesAre
<1>3. PICK measured : measured = MeasuredOf(AdmittedInWorktree, WorktreeOutcomes(files))
  OBVIOUS
<1>4. /\ PathsOf(snapshot) = measured /\ measured \subseteq AdmittedInWorktree
      /\ \A path \in measured : FileAt(snapshot, path) = WorktreeOutcomes(files)[path]
      /\ \A path : path \notin measured => FileAt(snapshot, path) = Absent
  BY <1>1, <1>2, <1>3, GivenFiles DEF MeasuredOf
<1>5. \A path \in AdmittedInWorktree :
        /\ files[path] # "link" => (path \in measured <=> files[path] \in DOMAIN Tokens)
        /\ files[path] \in DOMAIN Tokens => WorktreeOutcomes(files)[path] = Measured(path, files[path])
  BY <1>1, <1>3, WorktreeOutcomesAre
<1> QED
  BY <1>1, <1>4, <1>5

LEMMA InvNoMetadata == Inv => NoMetadata
<1> SUFFICES ASSUME Inv, HasVerdict, request.mode = "worktree", MetadataSeen,
                    NEW change \in ToSet(verdict.files)
             PROVE  change.path[1] # GitName
  BY DEF NoMetadata
<1>1. PICK path : path = change.path
  OBVIOUS
<1>2. base # Absent /\ head # Absent /\ (path \in PathsOf(base) \/ path \in PathsOf(head))
  BY <1>1, VerdictIs
<1>3. CASE path \in PathsOf(base)
  <2>1. IsTreeSnapshot(base, history.base)
    BY <1>2 DEF Inv, BaseScanned
  <2>2. path \in DOMAIN history.base
    BY <1>3, <2>1, TreeFiles DEF VisitedIn
  <2>3. path \in Seq(Nat) \ {<<>>} /\ GitName \notin ToSet(path)
    BY <2>1, <2>2 DEF IsTreeSnapshot, IsTree
  <2>4. path[1] \in ToSet(path)
    BY <2>3 DEF ToSet
  <2> QED
    BY <1>1, <2>3, <2>4
<1>4. CASE path \in PathsOf(head)
  <2>1. IsWorktreeSnapshot(head)
    BY <1>2 DEF Inv, HeadScanned
  <2>2. path \in AdmittedInWorktree
    BY <1>4, <2>1, WorktreeFiles
  <2>3. path \in Seq(Nat) /\ path # <<>> /\ Admits(WorktreeOptions, Shown(path), Cwd)
    BY <2>2 DEF AdmittedInWorktree, Inv, Committed, IsWorktree
  <2> QED
    BY <1>1, <2>3, MetadataExcluded DEF Inv
<1> QED
  BY <1>2, <1>3, <1>4

LEMMA TreeIsWhole ==
  ASSUME NEW snapshot, NEW tree, IsTreeSnapshot(snapshot, tree)
  PROVE  Readable(tree) /\ IsWhole(snapshot, tree)
<1>1. Faults(tree) = {} /\ AreOutcomes(VisitedIn(tree), TreeOutcomes(tree))
  BY TreeOutcomesAre DEF IsTreeSnapshot
<1>2. Readable(tree)
  BY <1>1 DEF Readable, Faults, Visits
<1>3. {o.path : o \in ToSet(snapshot.files) \cup ToSet(snapshot.skipped.details)} = VisitedIn(tree)
  BY <1>1, GivenPaths DEF IsTreeSnapshot
<1> QED
  BY <1>2, <1>3 DEF IsWhole, VisitedIn, Visits

LEMMA InvWhole == Inv => WholeSnapshots
<1> SUFFICES ASSUME Inv, HasVerdict, request.mode # "snapshots"
             PROVE  /\ history.kind # "none"
                    /\ history.base # NoTree /\ Readable(history.base) /\ IsWhole(base, history.base)
                    /\ IF request.mode = "trees"
                       THEN history.head # NoTree /\ Readable(history.head) /\ IsWhole(head, history.head)
                       ELSE /\ history.kind = "worktree"
                            /\ \A file \in ToSet(head.files) :
                                 worktree[file.path] = "failing" => file.path \in edited
  BY DEF WholeSnapshots
<1>1. base # Absent /\ head # Absent /\ request.mode \in {"trees", "worktree"}
  BY VerdictIs DEF Inv, Asked
<1>2. /\ history.kind # "none" /\ history.base # NoTree /\ IsTreeSnapshot(base, history.base)
      /\ request.mode = "worktree" => history.kind = "worktree"
  BY <1>1 DEF Inv, BaseScanned, Committed
<1>3. Readable(history.base) /\ IsWhole(base, history.base)
  BY <1>2, TreeIsWhole
<1>4. CASE request.mode = "trees"
  <2>1. history.head # NoTree /\ IsTreeSnapshot(head, history.head)
    BY <1>1, <1>4 DEF Inv, HeadScanned
  <2> QED
    BY <1>2, <1>3, <1>4, <2>1, TreeIsWhole
<1>5. CASE request.mode = "worktree"
  <2>1. IsWorktreeSnapshot(head)
    BY <1>1, <1>5 DEF Inv, HeadScanned
  <2>2. ASSUME NEW file \in ToSet(head.files), worktree[file.path] = "failing", file.path \notin edited
        PROVE  FALSE
    <3>1. file.path \in PathsOf(head)
      BY <2>2 DEF PathsOf
    <3>2. file.path \in AdmittedInWorktree /\ file.path \in DOMAIN worktree
      BY <2>1, <3>1, WorktreeFiles DEF AdmittedInWorktree
    <3> QED
      BY <2>1, <2>2, <3>2, WorktreeFiles
  <2> QED
    BY <1>2, <1>3, <1>5, <2>2
<1> QED
  BY <1>1, <1>4, <1>5

LEMMA InvQuiet == Inv => QuietWhenUnchanged
<1> SUFFICES ASSUME Inv, SameView, request.mode = "worktree", HasVerdict,
                    NEW change \in ToSet(verdict.files), IsUnchanged(change.path)
             PROVE  FALSE
  BY DEF QuietWhenUnchanged, UnchangedIsSilent
<1>1. PICK path : path = change.path
  OBVIOUS
<1>2. PICK kind : kind = worktree[path]
  OBVIOUS
<1>3. /\ path \in DOMAIN history.base /\ path \in DOMAIN worktree \ edited
      /\ history.base[path] = kind /\ kind # "link" /\ ~IsIgnored(path)
  BY <1>1, <1>2 DEF IsUnchanged
<1>4. /\ base # Absent /\ head # Absent
      /\ path \in PathsOf(base) \cup PathsOf(head)
      /\ TokensOf(FileAt(base, path)) # TokensOf(FileAt(head, path))
  BY <1>1, VerdictIs
<1>5. IsTreeSnapshot(base, history.base) /\ IsWorktreeSnapshot(head)
  BY <1>4 DEF Inv, BaseScanned, HeadScanned
<1>6. path \in Seq(Nat) /\ path # <<>> /\ GitName \notin ToSet(path)
  BY <1>3, <1>5 DEF IsTreeSnapshot, IsTree
<1>7. Admits(WorktreeOptions, Shown(path), Cwd) <=> AdmitsRelative(options, path)
  BY <1>6, SameFilters DEF Inv
<1>8. path \in VisitedIn(history.base) <=> path \in AdmittedInWorktree
  BY <1>3, <1>7 DEF VisitedIn, Visits, AdmittedInWorktree, PassesOver
<1>9. PICK files :
        /\ files[path] = kind /\ PathsOf(head) \subseteq AdmittedInWorktree
        /\ path \in AdmittedInWorktree =>
             /\ path \in PathsOf(head) <=> kind \in DOMAIN Tokens
             /\ kind \in DOMAIN Tokens /\ path \in PathsOf(head) => FileAt(head, path) = Measured(path, kind)
        /\ path \notin PathsOf(head) => FileAt(head, path) = Absent
  BY <1>2, <1>3, <1>5, WorktreeFiles
<1>10. /\ path \in PathsOf(base) <=> path \in VisitedIn(history.base) /\ kind \in DOMAIN Tokens
       /\ path \in PathsOf(base) => FileAt(base, path) = Measured(path, kind)
       /\ path \notin PathsOf(base) => FileAt(base, path) = Absent
  BY <1>3, <1>5, TreeFiles
<1>11. FileAt(base, path) = FileAt(head, path)
  BY <1>8, <1>9, <1>10
<1> QED
  BY <1>4, <1>11

-----------------------------------------------------------------------------
(* The theorems *)

\* A part of the paths holds no more than all.
LEMMA PartHolds ==
  ASSUME NEW snapshot, IsSnapshot(snapshot), NEW P, IsFiniteSet(P), PathsOf(snapshot) \subseteq P,
         NEW done \in SUBSET P
  PROVE  /\ SumOver(At(snapshot, P), done) \in Nat /\ snapshot.totals.tokens \in Nat
         /\ SumOver(At(snapshot, P), done) =< snapshot.totals.tokens
<1>1. PICK w : w = At(snapshot, P)
  OBVIOUS
<1>2. Weighs(w, P) /\ (\A path \in P : w[path] \in Nat) /\ SumOver(w, P) = snapshot.totals.tokens
  BY <1>1, SnapshotTotal
<1>3. \A path \in P : w[path] >= 0
  BY <1>2
<1>4. 0 =< SumOver(w, done) /\ SumOver(w, done) =< SumOver(w, P)
  BY <1>2, <1>3, SumPart
<1>5. Weighs(w, done)
  BY <1>2, FS_Subset DEF Weighs
<1>6. SumOver(w, done) \in Int /\ SumOver(w, P) \in Int
  BY <1>2, <1>5, SumType
<1> QED
  BY <1>1, <1>2, <1>4, <1>6

LEMMA InvNeverWraps == Inv /\ Told => NeverWraps
<1> SUFFICES ASSUME Inv, Told, base # Absent, head # Absent,
                    NEW delta \in {tokens} \cup {byLanguage[language] : language \in DOMAIN byLanguage}
             PROVE  /\ delta.added =< head.totals.tokens
                    /\ delta.removed =< base.totals.tokens
                    /\ delta.net = delta.added - delta.removed
  BY DEF NeverWraps
<1>1. IsSnapshot(base) /\ IsSnapshot(head) /\ IsFiniteSet(BothPaths)
  BY SnapshotsHeld, PathsAreFinite, FS_Union DEF BothPaths
<1>2. PICK P : P = BothPaths
  OBVIOUS
<1>3. IsFiniteSet(P) /\ PathsOf(base) \subseteq P /\ PathsOf(head) \subseteq P
  BY <1>1, <1>2 DEF BothPaths
<1>4. ASSUME NEW done \in SUBSET P
      PROVE  /\ SumOver(At(head, P), done) \in Nat /\ SumOver(At(head, P), done) =< head.totals.tokens
             /\ SumOver(At(base, P), done) \in Nat /\ SumOver(At(base, P), done) =< base.totals.tokens
             /\ head.totals.tokens \in Nat /\ base.totals.tokens \in Nat
  BY <1>1, <1>3, PartHolds
<1>5. IsChange(tokens) /\ Splits(byLanguage, tokens)
  BY DEF Told
<1>6. head.totals.tokens \in Nat /\ base.totals.tokens \in Nat
  <2>1. {} \in SUBSET P
    OBVIOUS
  <2> QED
    BY <1>4, <2>1
<1>7. tokens.added =< head.totals.tokens /\ tokens.removed =< base.totals.tokens
  <2>1. ASSUME NEW done \in SUBSET P, Tallied(done)
        PROVE  tokens.added =< head.totals.tokens /\ tokens.removed =< base.totals.tokens
    <3>1. tokens.added =< SumOver(At(head, P), done) /\ tokens.removed =< SumOver(At(base, P), done)
      BY <1>2, <2>1 DEF Tallied
    <3>2. tokens.added \in Nat /\ tokens.removed \in Nat
      BY <1>5 DEF IsChange
    <3> QED
      BY <1>4, <3>1, <3>2
  <2>2. CASE pc = "compare"
    <3>1. PICK done \in SUBSET P : done = BothPaths \ ToSet(todo)
      BY <1>2
    <3> QED
      BY <2>1, <2>2, <3>1 DEF Told
  <2>3. CASE HasVerdict
    <3>1. PICK done \in SUBSET P : done = BothPaths
      BY <1>2
    <3> QED
      BY <2>1, <2>3, <3>1 DEF Told
  <2>4. CASE pc # "compare" /\ ~HasVerdict
    <3>1. tokens.added = 0 /\ tokens.removed = 0
      BY <2>4 DEF Told, NoDelta
    <3> QED
      BY <1>6, <3>1
  <2> QED
    BY <2>2, <2>3, <2>4
<1>8. CASE delta = tokens
  BY <1>5, <1>7, <1>8 DEF IsChange
<1>9. CASE delta \in {byLanguage[language] : language \in DOMAIN byLanguage}
  <2>1. IsChange(delta) /\ IsPartOf(delta, tokens)
    BY <1>5, <1>9 DEF Splits
  <2> QED
    BY <1>5, <1>6, <1>7, <2>1 DEF IsChange, IsPartOf
<1> QED
  BY <1>8, <1>9

\* The languages that are told of are those that changed, and add up to the whole.
NamesOf(list, map) ==
  \A i \in DOMAIN list : list[i].tokens = map[list[i].name] /\ list[i].name \in DOMAIN map

LEMMA DeltaListTells ==
  ASSUME NEW map, NEW whole, Splits(map, whole), NEW list, list = DeltaList(map)
  PROVE  /\ NamesOf(list, map)
         /\ \A field \in Fields : whole[field] = Sum(list, LAMBDA language : language.tokens[field])
<1>1. PICK L : L = DOMAIN map
  OBVIOUS
<1>2. PICK E : E = DeltaEntries(map)
  OBVIOUS
<1>3. PICK name : name = [entry \in E |-> entry.name]
  OBVIOUS
<1>4. PICK entryOf : entryOf = [language \in L |-> [name |-> language, tokens |-> map[language]]]
  OBVIOUS
<1>5. /\ \A language \in L : /\ entryOf[language] \in E /\ entryOf[language].name = language
                             /\ entryOf[language].tokens = map[language]
      /\ \A entry \in E : \E language \in L : entry = entryOf[language]
  BY <1>1, <1>2, <1>4 DEF DeltaEntries
<1>6. /\ \A entry \in E : /\ entry.name \in L /\ entry.tokens = map[entry.name]
                          /\ entry = entryOf[entry.name] /\ name[entry] = entry.name
      /\ \A language \in L : name[entryOf[language]] = language
  BY <1>3, <1>5
<1>7. IsFiniteSet(L) /\ L \subseteq Int /\ \A language \in L : IsChange(map[language])
  BY <1>1 DEF Splits
<1>8. IsFiniteSet(E)
  <2>1. entryOf \in Surjection(L, E)
    BY <1>4, <1>5 DEF Surjection
  <2> QED
    BY <1>7, <2>1, FS_Surjection
<1>9. ASSUME NEW entry \in E
      PROVE  entry.name \in Int /\ entry.tokens.added \in Int /\ entry.tokens.removed \in Int
  <2>1. entry.name \in L /\ entry.tokens = map[entry.name]
    BY <1>6
  <2>2. entry.name \in Int /\ IsChange(map[entry.name])
    BY <1>7, <2>1
  <2> QED
    BY <2>1, <2>2 DEF IsChange
<1>10. \A entry \in E, other \in E : entry.name = other.name => entry = other
  <2> SUFFICES ASSUME NEW entry \in E, NEW other \in E, entry.name = other.name  PROVE entry = other
    OBVIOUS
  <2>1. entry = entryOf[entry.name] /\ other = entryOf[other.name]
    BY <1>6
  <2> QED
    BY <2>1
<1>11. PICK Before : Before = ByImpact(E)
  OBVIOUS
<1>12. Orders(E, Before)
  <2>0. \A entry \in E : Before[entry] = {other \in E : HasMoreImpact(other, entry)}
    BY <1>11 DEF ByImpact
  <2>1. \A entry \in E : entry \notin Before[entry]
    BY <1>9, <2>0 DEF HasMoreImpact
  <2>2. ASSUME NEW x \in E, NEW y \in E, NEW z \in E, x \in Before[y], y \in Before[z]
        PROVE  x \in Before[z]
    <3>1. HasMoreImpact(x, y) /\ HasMoreImpact(y, z)
      BY <2>0, <2>2
    <3>2. /\ x.name \in Int /\ x.tokens.added \in Int /\ x.tokens.removed \in Int
          /\ y.name \in Int /\ y.tokens.added \in Int /\ y.tokens.removed \in Int
          /\ z.name \in Int /\ z.tokens.added \in Int /\ z.tokens.removed \in Int
      BY <1>9
    <3>3. HasMoreImpact(x, z)
      BY <3>1, <3>2 DEF HasMoreImpact
    <3> QED
      BY <2>0, <3>3
  <2>3. ASSUME NEW x \in E, NEW y \in E, x # y  PROVE x \in Before[y] \/ y \in Before[x]
    <3>1. x.name # y.name
      BY <1>10, <2>3
    <3>2. /\ x.name \in Int /\ x.tokens.added \in Int /\ x.tokens.removed \in Int
          /\ y.name \in Int /\ y.tokens.added \in Int /\ y.tokens.removed \in Int
      BY <1>9
    <3>3. PICK i \in Int : i = x.tokens.added + x.tokens.removed
      BY <3>2
    <3>4. PICK j \in Int : j = y.tokens.added + y.tokens.removed
      BY <3>2
    <3>5. i > j \/ j > i \/ (i = j /\ (x.name < y.name \/ y.name < x.name))
      BY <3>1, <3>2
    <3>6. HasMoreImpact(x, y) \/ HasMoreImpact(y, x)
      BY <3>3, <3>4, <3>5 DEF HasMoreImpact
    <3> QED
      BY <2>0, <3>6
  <2>4. Before \in [E -> SUBSET E]
    BY <1>11 DEF ByImpact
  <2> QED
    BY <1>8, <2>1, <2>2, <2>3, <2>4 DEF Orders, IsOrder
<1>13. Lists(list, E, Before)
  <2>1. list = AntiFunction([entry \in E |-> 1 + Cardinality(Before[entry])])
    BY <1>2, <1>11 DEF DeltaList
  <2> QED
    BY <1>12, <2>1, RanksList DEF Orders
<1>14. PICK m \in Nat : m = Cardinality(E)
  BY <1>8, FS_CardinalityType
<1>15. DOMAIN list = 1 .. m /\ \A i \in 1 .. m : list[i] \in E
  BY <1>13, <1>14 DEF Lists
<1>16. NamesOf(list, map)
  BY <1>1, <1>6, <1>15 DEF NamesOf
<1>17. ASSUME NEW field \in Fields
       PROVE  whole[field] = Sum(list, LAMBDA language : language.tokens[field])
  <2>1. PICK w : w = FieldIn(map, field)
    OBVIOUS
  <2>2. SumOver(w, L) = whole[field]
    BY <1>1, <2>1 DEF Splits
  <2>3. Weighs(w, L)
    BY <1>1, <1>7, <2>1 DEF Weighs, FieldIn, IsChange, Fields
  <2>4. PICK v : v = [entry \in E |-> entry.tokens[field]]
    OBVIOUS
  <2>5. \A language \in L : entryOf[language] \in E /\ v[entryOf[language]] = w[language]
    BY <1>1, <1>5, <2>1, <2>4 DEF FieldIn
  <2>6. Renames(entryOf, L, E, w, v)
    BY <1>5, <1>6, <2>5 DEF Renames
  <2>7. SumOver(v, E) = SumOver(w, L)
    BY <1>8, <2>3, <2>6, SumRenamed
  <2>8. Weighs(v, E)
    <3>1. \A entry \in E : v[entry] = w[entry.name]
      BY <1>6, <2>5
    <3> QED
      BY <1>6, <1>8, <2>3, <3>1 DEF Weighs
  <2>9. PICK numbers : numbers = [i \in DOMAIN list |-> list[i].tokens[field]]
    OBVIOUS
  <2>10. DOMAIN numbers = 1 .. m /\ \A k \in 1 .. m : numbers[k] = v[list[k]]
    BY <1>15, <2>4, <2>9
  <2>11. Weighs(numbers, 1 .. m) /\ SumOver(numbers, 1 .. m) = SumOver(v, E)
    <3>1. \A k \in 1 .. Cardinality(E) : numbers[k] = v[list[k]]
      BY <1>14, <2>10
    <3>2. Weighs(numbers, 1 .. Cardinality(E)) /\ SumOver(numbers, 1 .. Cardinality(E)) = SumOver(v, E)
      BY <1>12, <1>13, <2>8, <3>1, ListedSum
    <3> QED
      BY <1>14, <3>2
  <2>12. Total(numbers) = SumOver(numbers, 1 .. m)
    BY <2>10, <2>11, TotalIs
  <2>13. Sum(list, LAMBDA language : language.tokens[field]) = Total(numbers)
    BY <2>9 DEF Sum
  <2> QED
    BY <2>2, <2>7, <2>11, <2>12, <2>13
<1> QED
  BY <1>16, <1>17

LEMMA ChangesTell ==
  ASSUME NEW files, NEW whole, AddUpTo(files, whole), NEW field \in Fields
  PROVE  whole[field] = Sum(files, LAMBDA file : file.tokens[field])
<1>1. PICK n \in Nat :
        /\ DOMAIN files = 1 .. n /\ Weighs(FieldOf(files, field), 1 .. n)
        /\ SumOver(FieldOf(files, field), 1 .. n) = whole[field]
  BY DEF AddUpTo
<1>2. PICK numbers : numbers = FieldOf(files, field)
  OBVIOUS
<1>3. DOMAIN numbers = 1 .. n
  BY <1>1, <1>2 DEF FieldOf
<1>4. Total(numbers) = SumOver(numbers, 1 .. n)
  BY <1>1, <1>2, <1>3, TotalIs
<1>5. Sum(files, LAMBDA file : file.tokens[field]) = Total(numbers)
  BY <1>2 DEF Sum, FieldOf
<1> QED
  BY <1>1, <1>2, <1>4, <1>5

LEMMA InvAddsUp == Inv /\ Told => AddsUp
<1> SUFFICES ASSUME Inv, Told, HasVerdict
             PROVE  /\ verdict.tokens.net = head.totals.tokens - base.totals.tokens
                    /\ \A field \in {"added", "removed", "net"} :
                         /\ verdict.tokens[field] = Sum(verdict.files, LAMBDA file : file.tokens[field])
                         /\ verdict.tokens[field]
                              = Sum(verdict.languages, LAMBDA language : language.tokens[field])
                    /\ Relabelled \/ \A i \in DOMAIN verdict.languages :
                         LET language == verdict.languages[i]
                         IN  language.tokens.net = LanguageTokens(head, language.name)
                                                     - LanguageTokens(base, language.name)
  BY DEF AddsUp
<1>1. base # Absent /\ head # Absent
  BY VerdictIs
<1>2. IsSnapshot(base) /\ IsSnapshot(head) /\ IsFiniteSet(BothPaths)
  BY <1>1, SnapshotsHeld, PathsAreFinite, FS_Union DEF BothPaths
<1>3. PICK P : P = BothPaths
  OBVIOUS
<1>4. IsFiniteSet(P) /\ PathsOf(base) \subseteq P /\ PathsOf(head) \subseteq P
  BY <1>2, <1>3 DEF BothPaths
<1>5. /\ Splits(byLanguage, tokens) /\ AddUpTo(changes, tokens) /\ Tallied(P)
      /\ verdict.tokens = tokens /\ verdict.languages = DeltaList(byLanguage) /\ verdict.files = changes
  BY <1>3 DEF Told
<1>6. verdict.tokens.net = head.totals.tokens - base.totals.tokens
  <2>1. /\ SumOver(At(head, P), P) = head.totals.tokens
        /\ SumOver(At(base, P), P) = base.totals.tokens
    BY <1>2, <1>4, SnapshotTotal
  <2> QED
    BY <1>3, <1>5, <2>1 DEF Tallied
<1>7. ASSUME NEW field \in Fields
      PROVE  /\ verdict.tokens[field] = Sum(verdict.files, LAMBDA file : file.tokens[field])
             /\ verdict.tokens[field] = Sum(verdict.languages, LAMBDA language : language.tokens[field])
  <2>1. tokens[field] = Sum(changes, LAMBDA file : file.tokens[field])
    BY <1>5, ChangesTell
  <2>2. PICK list : list = DeltaList(byLanguage)
    OBVIOUS
  <2>3. tokens[field] = Sum(list, LAMBDA language : language.tokens[field])
    BY <1>5, <2>2, DeltaListTells
  <2>4. verdict.tokens[field] = Sum(verdict.files, LAMBDA file : file.tokens[field])
    BY <1>5, <2>1
  <2>5. verdict.tokens[field] = Sum(verdict.languages, LAMBDA language : language.tokens[field])
    BY <1>5, <2>2, <2>3
  <2> QED
    BY <2>4, <2>5
<1>8. ASSUME ~Relabelled, NEW i \in DOMAIN verdict.languages, NEW name, name = verdict.languages[i].name
      PROVE  verdict.languages[i].tokens.net = LanguageTokens(head, name) - LanguageTokens(base, name)
  <2>0. PICK map : map = byLanguage
    OBVIOUS
  <2>1. PICK list : list = DeltaList(map)
    OBVIOUS
  <2>2. \A k \in DOMAIN list : list[k].tokens = map[list[k].name] /\ list[k].name \in DOMAIN map
    <3>1. PICK whole : whole = tokens
      OBVIOUS
    <3>2. Splits(map, whole)
      BY <1>5, <2>0, <3>1
    <3>3. NamesOf(list, map)
      BY <2>1, <3>2, DeltaListTells
    <3> QED
      BY <3>3 DEF NamesOf
  <2>3. verdict.languages[i].tokens = byLanguage[name] /\ name \in DOMAIN byLanguage
    BY <1>5, <1>8, <2>0, <2>1, <2>2
  <2>4. verdict.languages[i].tokens.net = NetIn(byLanguage, name)
    BY <2>3 DEF NetIn
  <2>5. NetIn(byLanguage, name) = SumOver(LanguageAt(head, name, P), P) - SumOver(LanguageAt(base, name, P), P)
    BY <1>3, <1>5, <1>8 DEF Tallied
  <2>6. /\ SumOver(LanguageAt(head, name, P), P) = LanguageTokens(head, name)
        /\ SumOver(LanguageAt(base, name, P), P) = LanguageTokens(base, name)
    BY <1>2, <1>4, SnapshotLanguage
  <2> QED
    BY <2>4, <2>5, <2>6
<1> QED
  BY <1>6, <1>7, <1>8 DEF Fields

\* A comparison runs between two complete snapshots, and a path is either still to be
\* compared or done with.
THEOREM DiffTypeCorrect == Spec => []TypeOK
BY InvHolds, InvType, PTL

\* No part of a worktree diff is from the metadata of Git, where the repository is seen
\* under a path that diff_worktree excludes.
THEOREM MetadataIsLeftOut == Spec => []NoMetadata
BY InvHolds, InvNoMetadata, PTL

\* A diff never compares a snapshot with a part missing (visit_tree, diff_worktree).
THEOREM NothingIsMissing == Spec => []WholeSnapshots
BY InvHolds, InvWhole, PTL

\* A worktree diff is silent about what nobody changed, if globs see the same paths in
\* both scans, whatever is edited meanwhile (scan_tree, diff_worktree).
THEOREM SilentWhenUnchanged == Spec => []QuietWhenUnchanged
BY InvHolds, InvQuiet, PTL

\* The unchecked sums of a comparison never wrap, whatever two snapshots are compared:
\* what was added is within the head, what was removed within the base (TokenDelta::add).
THEOREM SumsNeverWrap == Spec => []NeverWraps
BY InvHolds, ToldHolds, InvNeverWraps, PTL

\* A diff accounts for the whole difference of its snapshots, by file and by language, and
\* for nothing else (compare_snapshots).
THEOREM DifferenceAddsUp == Spec => []AddsUp
BY InvHolds, ToldHolds, InvAddsUp, PTL

-----------------------------------------------------------------------------
(* The report *)

\* Each change is that of its path.
IsChangeOfPath(change) == change = Change(change.path, FileAt(base, change.path), FileAt(head, change.path))

\* A path whose tokens differ is told of.
IsTold(path) ==
  TokensOf(FileAt(base, path)) # TokensOf(FileAt(head, path)) =>
    \E i \in DOMAIN changes : changes[i].path = path

\* The invariant of the changes: one of each path that differs, of those that are done.
Listed ==
  /\ \A i \in DOMAIN changes : IsChangeOfPath(changes[i])
  /\ \A i, j \in DOMAIN changes : changes[i].path = changes[j].path => i = j
  /\ pc = "compare" => \A path \in BothPaths \ ToSet(todo) : IsTold(path)
  /\ HasVerdict => /\ \A path \in BothPaths : IsTold(path)
                   /\ verdict.files = changes
                   /\ verdict.base = base.totals /\ verdict.base_skipped = base.skipped
                   /\ verdict.head = head.totals /\ verdict.head_skipped = head.skipped

LEMMA ListedInit == Init => Listed
<1> SUFFICES ASSUME Init  PROVE Listed
  OBVIOUS
<1>1. changes = <<>> /\ pc = "base" /\ ~HasVerdict
  BY DEF Init, InitComparison, HasVerdict, Absent
<1>2. DOMAIN changes = {}
  BY <1>1
<1> QED
  BY <1>1, <1>2 DEF Listed

LEMMA ListedNothing ==
  ASSUME pc' # "compare", ~HasVerdict', changes' = <<>>
  PROVE  Listed'
<1>1. DOMAIN changes' = {}
  OBVIOUS
<1> QED
  BY <1>1 DEF Listed

LEMMA ListedKept ==
  ASSUME Listed, UNCHANGED <<pc, base, head, comparison>>
  PROVE  Listed'
<1>1. UNCHANGED <<pc, base, head, todo, changes, verdict>>
  BY DEF comparison
<1>2. BothPaths' = BothPaths
  BY <1>1 DEF BothPaths, PathsOf
<1>3. HasVerdict' <=> HasVerdict
  BY <1>1 DEF HasVerdict
<1>4. /\ \A path : IsTold(path)' <=> IsTold(path)
      /\ \A change : IsChangeOfPath(change)' <=> IsChangeOfPath(change)
  BY <1>1 DEF IsTold, IsChangeOfPath, FileAt, PathsOf
<1>5. \A i \in DOMAIN changes' : IsChangeOfPath(changes[i])'
  BY <1>1, <1>4 DEF Listed
<1> QED
  BY <1>1, <1>2, <1>3, <1>4, <1>5 DEF Listed

\* The steps that compare nothing.
LEMMA ListedBefore ==
  ASSUME Inv, ScanBase \/ ScanHead \/ ScanFails \/ TakeSnapshots \/ Incompatible
  PROVE  Listed'
<1>1. pc \in {"base", "head", "check"} /\ ~HasVerdict /\ changes = <<>>
  BY DEF Inv, Phases, ScanBase, ScanHead, ScanFails, TakeSnapshots, Incompatible
<1>2. UNCHANGED comparison => UNCHANGED changes /\ ~HasVerdict'
  BY <1>1 DEF comparison, HasVerdict
<1>3. \A error : Stop(error) => UNCHANGED changes /\ ~HasVerdict' /\ pc' = "done"
  BY StopsWithout DEF Stop
<1>4. Refuse => UNCHANGED changes /\ ~HasVerdict'
  BY DEF Refuse, HasVerdict
<1>5. UNCHANGED changes /\ ~HasVerdict' /\ pc' # "compare"
  <2>1. CASE ScanBase
    BY <2>1, <1>2, <1>3 DEF ScanBase
  <2>2. CASE ScanHead
    BY <2>2, <1>2, <1>3 DEF ScanHead
  <2>3. CASE ScanFails
    BY <2>3, <1>3 DEF ScanFails
  <2>4. CASE TakeSnapshots
    BY <2>4, <1>2 DEF TakeSnapshots
  <2>5. CASE Incompatible
    BY <2>5, <1>4 DEF Incompatible
  <2> QED
    BY <2>1, <2>2, <2>3, <2>4, <2>5
<1> QED
  BY <1>1, <1>5, ListedNothing

LEMMA ListedCompatible ==
  ASSUME Inv, Compatible
  PROVE  Listed'
<1>1. /\ UNCHANGED <<changes, verdict, base, head>> /\ pc' = "compare" /\ ~HasVerdict
      /\ base # Absent /\ head # Absent /\ todo' = InOrder(BothPaths) /\ changes = <<>>
  BY DEF Inv, Phases, Compatible, StartComparing, BothPaths
<1>2. IsFiniteSet(BothPaths) /\ BothPaths \in SUBSET Seq(Int)
  BY <1>1, PathsAreFinite, FS_Union DEF BothPaths
<1>3. BothPaths \ ToSet(todo') = {}
  <2>1. \A path \in BothPaths : \E i \in 1 .. Cardinality(BothPaths) : InOrder(BothPaths)[i] = path
    BY <1>2, InOrderLists
  <2>2. InOrder(BothPaths) \in [1 .. Cardinality(BothPaths) -> BothPaths]
    BY <1>2, InOrderLists
  <2>3. ToSet(todo') = {todo'[i] : i \in 1 .. Cardinality(BothPaths)}
    BY <1>1, <2>2 DEF ToSet
  <2> QED
    BY <1>1, <2>1, <2>3
<1>4. BothPaths' = BothPaths /\ ~HasVerdict' /\ DOMAIN changes' = {}
  BY <1>1 DEF BothPaths, PathsOf, HasVerdict
<1> QED
  BY <1>1, <1>3, <1>4 DEF Listed

LEMMA ListedComparePath ==
  ASSUME Inv, Listed, ComparePath
  PROVE  Listed'
<1>1. /\ UNCHANGED <<pc, base, head, verdict>>
      /\ pc = "compare" /\ todo # <<>> /\ todo' = Tail(todo) /\ ~HasVerdict /\ ~HasVerdict'
      /\ base # Absent /\ head # Absent
  BY DEF Inv, Phases, ComparePath, Same, Differs, HasVerdict
<1>2. PICK n \in Nat : todo \in [1 .. n -> BothPaths]
  BY DEF Inv, Comparing
<1>3. PICK path : path = Head(todo)
  OBVIOUS
<1>4. path \in BothPaths /\ path \in ToSet(todo) /\ ToSet(todo') = ToSet(todo) \ {path}
  BY <1>1, <1>2, <1>3, TakesFirst DEF Inv, Comparing
<1>5. BothPaths' = BothPaths /\ \A at \in BothPaths \ ToSet(todo') : at = path \/ at \in BothPaths \ ToSet(todo)
  BY <1>1, <1>4 DEF BothPaths, PathsOf
<1>6. PICK old : old = FileAt(base, path)
  OBVIOUS
<1>7. PICK new : new = FileAt(head, path)
  OBVIOUS
<1>8. \A at : FileAt(base, at)' = FileAt(base, at) /\ FileAt(head, at)' = FileAt(head, at)
  BY <1>1 DEF FileAt, PathsOf
<1>9. CASE Same
  <2>1. changes' = changes /\ TokensOf(old) = TokensOf(new)
    BY <1>3, <1>6, <1>7, <1>9 DEF Same
  <2>2. ASSUME NEW at \in BothPaths \ ToSet(todo')  PROVE IsTold(at)'
    <3>1. CASE at = path
      BY <1>6, <1>7, <1>8, <2>1, <3>1 DEF IsTold
    <3>2. CASE at \in BothPaths \ ToSet(todo)
      <4>1. IsTold(at)
        BY <1>1, <3>2 DEF Listed
      <4> QED
        BY <1>8, <2>1, <4>1 DEF IsTold
    <3> QED
      BY <1>5, <3>1, <3>2
  <2>3. \A i \in DOMAIN changes' : IsChangeOfPath(changes[i])'
    BY <1>8, <2>1 DEF Listed, IsChangeOfPath
  <2> QED
    BY <1>1, <1>5, <2>1, <2>2, <2>3 DEF Listed
<1>10. CASE Differs
  <2>1. PICK change : change = Change(path, old, new)
    OBVIOUS
  <2>2. changes' = Append(changes, change)
    BY <1>3, <1>6, <1>7, <1>10, <2>1 DEF Differs
  <2>3. change.path = path /\ change = Change(change.path, FileAt(base, change.path), FileAt(head, change.path))
    BY <1>6, <1>7, <2>1 DEF Change
  <2>4. PICK S : changes \in Seq(S)
    BY DEF Inv, Comparing
  <2>5. changes \in Seq(S \cup {change})
    BY <2>4
  <2>6. PICK k \in Nat : k = Len(changes)
    BY <2>5
  <2>7. /\ DOMAIN changes = 1 .. k /\ DOMAIN changes' = 1 .. k + 1
        /\ changes'[k + 1] = change /\ \A i \in 1 .. k : changes'[i] = changes[i]
    BY <2>2, <2>5, <2>6
  <2>8. \A i \in 1 .. k : changes[i].path # path
    <3>1. \A i \in 1 .. k : changes[i] \in ToSet(changes)
      BY <2>7 DEF ToSet
    <3> QED
      BY <1>4, <3>1 DEF Inv, Comparing
  <2>9. /\ \A i \in 1 .. k + 1 : i = k + 1 \/ i \in 1 .. k
        /\ \A i \in 1 .. k : i \in 1 .. k + 1
        /\ k + 1 \in 1 .. k + 1
    OBVIOUS
  <2>10. \A i \in DOMAIN changes' : IsChangeOfPath(changes[i])'
    <3>1. \A i \in 1 .. k : IsChangeOfPath(changes[i])
      BY <2>7 DEF Listed
    <3> QED
      BY <1>8, <2>3, <2>7, <2>9, <3>1 DEF IsChangeOfPath
  <2>11. ASSUME NEW i \in DOMAIN changes', NEW j \in DOMAIN changes', changes'[i].path = changes'[j].path
         PROVE  i = j
    <3>1. \A a, b \in 1 .. k : changes[a].path = changes[b].path => a = b
      BY <2>7 DEF Listed
    <3> QED
      BY <2>3, <2>7, <2>8, <2>9, <2>11, <3>1
  <2>12. ASSUME NEW at \in BothPaths \ ToSet(todo')  PROVE IsTold(at)'
    <3>1. CASE at = path
      BY <2>3, <2>7, <2>9, <3>1 DEF IsTold
    <3>2. CASE at \in BothPaths \ ToSet(todo)
      <4>1. IsTold(at)
        BY <1>1, <3>2 DEF Listed
      <4>2. \A i \in DOMAIN changes : i \in DOMAIN changes' /\ changes'[i] = changes[i]
        BY <2>7, <2>9
      <4> QED
        BY <1>8, <4>1, <4>2 DEF IsTold
    <3> QED
      BY <1>5, <3>1, <3>2
  <2> QED
    BY <1>1, <1>5, <2>10, <2>11, <2>12 DEF Listed
<1> QED
  BY <1>9, <1>10 DEF ComparePath

LEMMA ListedFinish ==
  ASSUME Inv, Listed, Finish
  PROVE  Listed'
<1>1. /\ UNCHANGED <<base, head, todo, changes>>
      /\ pc = "compare" /\ pc' = "done" /\ todo = <<>>
      /\ verdict'.files = changes
      /\ verdict'.base = base.totals /\ verdict'.base_skipped = base.skipped
      /\ verdict'.head = head.totals /\ verdict'.head_skipped = head.skipped
  BY DEF Inv, Phases, Finish, Compared
<1>2. BothPaths \ ToSet(todo) = BothPaths
  BY <1>1 DEF ToSet
<1>3. BothPaths' = BothPaths
  BY <1>1 DEF BothPaths, PathsOf
<1>4. /\ \A path : IsTold(path)' <=> IsTold(path)
      /\ \A change : IsChangeOfPath(change)' <=> IsChangeOfPath(change)
  BY <1>1 DEF IsTold, IsChangeOfPath, FileAt, PathsOf
<1>5. \A path \in BothPaths : IsTold(path)'
  BY <1>1, <1>2, <1>4 DEF Listed
<1>6. \A i \in DOMAIN changes' : IsChangeOfPath(changes[i])'
  BY <1>1, <1>4 DEF Listed
<1> QED
  BY <1>1, <1>3, <1>5, <1>6 DEF Listed

LEMMA ListedHolds == Spec => []Listed
<1>1. Inv /\ Listed /\ [Next]_vars => Listed'
  <2> SUFFICES ASSUME Inv, Listed, [Next]_vars  PROVE Listed'
    OBVIOUS
  <2>1. CASE Edit
    BY <2>1, ListedKept DEF Edit
  <2>2. CASE Finished
    BY <2>2, ListedKept DEF Finished, vars
  <2>3. CASE UNCHANGED vars
    BY <2>3, ListedKept DEF vars
  <2>4. CASE Next /\ ~Edit /\ ~Finished
    BY <2>4, ListedBefore, ListedCompatible, ListedComparePath, ListedFinish DEF Next
  <2> QED
    BY <2>1, <2>2, <2>3, <2>4
<1> QED
  BY ListedInit, InvHolds, <1>1, PTL DEF Spec

\* What the table of a diff is sorted by.
DiffSortKey(sort, file) ==
  CASE sort = "path"     -> 0
    [] sort = "tokens"   -> -Impact(file)
    [] sort = "language" -> file.language

LEMMA DiffOrderIs ==
  ASSUME NEW sort \in {"path", "tokens", "language"}, NEW left, NEW right,
         Impact(left) \in Int, Impact(right) \in Int, left.language \in Int, right.language \in Int
  PROVE  /\ DiffSortKey(sort, left) \in Int
         /\ DiffOrder(sort, left, right)
              <=> \/ DiffSortKey(sort, left) < DiffSortKey(sort, right)
                  \/ DiffSortKey(sort, left) = DiffSortKey(sort, right) /\ Less(left.path, right.path)
<1>1. CASE sort = "path"
  <2>1. sort # "tokens" /\ sort # "language"
    BY <1>1
  <2>2. DiffSortKey(sort, left) = 0 /\ DiffSortKey(sort, right) = 0
    BY <1>1, <2>1 DEF DiffSortKey
  <2>3. DiffOrder(sort, left, right) <=> Less(left.path, right.path)
    BY <1>1, <2>1 DEF DiffOrder, Order, ByPath
  <2> QED
    BY <2>2, <2>3
<1>2. CASE sort = "tokens"
  <2>1. sort # "path" /\ sort # "language"
    BY <1>2
  <2>2. DiffSortKey(sort, left) = -Impact(left) /\ DiffSortKey(sort, right) = -Impact(right)
    BY <1>2, <2>1 DEF DiffSortKey
  <2>3. DiffOrder(sort, left, right)
          <=> \/ Impact(left) > Impact(right)
              \/ Impact(left) = Impact(right) /\ Less(left.path, right.path)
    BY <1>2 DEF DiffOrder, ByPath
  <2>4. PICK x \in Int : x = Impact(left)
    OBVIOUS
  <2>5. PICK y \in Int : y = Impact(right)
    OBVIOUS
  <2> QED
    BY <2>2, <2>3, <2>4, <2>5
<1>3. CASE sort = "language"
  <2>1. sort # "path" /\ sort # "tokens"
    BY <1>3
  <2>2. DiffSortKey(sort, left) = left.language /\ DiffSortKey(sort, right) = right.language
    BY <1>3, <2>1 DEF DiffSortKey
  <2>3. DiffOrder(sort, left, right)
          <=> \/ left.language < right.language
              \/ left.language = right.language /\ Less(left.path, right.path)
    BY <1>3, <2>1 DEF DiffOrder, Order, ByPath
  <2> QED
    BY <2>2, <2>3
<1> QED
  BY <1>1, <1>2, <1>3

\* Changes that can be sorted.
AreSortable(files, n) ==
  \A i \in 1 .. n : files[i].path \in Seq(Int) /\ files[i].language \in Int /\ Impact(files[i]) \in Int

LEMMA DiffSortOrderIs ==
  ASSUME NEW n \in Nat, NEW files, DOMAIN files = 1 .. n, AreSortable(files, n),
         NEW sort \in {"path", "tokens", "language"}
  PROVE  \E Before, places :
           /\ ArrangedAs(InDiffOrder(sort, files), files, n, places, Before)
           /\ \A i, j \in 1 .. n : j \in Before[i] => ~DiffOrder(sort, files[i], files[j])
<1>1. PICK key : key = [i \in 1 .. n |-> DiffSortKey(sort, files[i])]
  OBVIOUS
<1>2. PICK path : path = [i \in 1 .. n |-> files[i].path]
  OBVIOUS
<1>3. ASSUME NEW i \in 1 .. n, NEW j \in 1 .. n
      PROVE  /\ key[i] \in Int /\ path[i] \in Seq(Int)
             /\ DiffOrder(sort, files[j], files[i])
                  <=> key[j] < key[i] \/ (key[j] = key[i] /\ Less(path[j], path[i]))
  <2>1. /\ files[i].path \in Seq(Int)
        /\ files[i].language \in Int /\ files[j].language \in Int
        /\ Impact(files[i]) \in Int /\ Impact(files[j]) \in Int
    BY DEF AreSortable
  <2>2. DiffSortKey(sort, files[i]) \in Int
    BY <2>1, DiffOrderIs
  <2>3. DiffOrder(sort, files[j], files[i])
          <=> \/ DiffSortKey(sort, files[j]) < DiffSortKey(sort, files[i])
              \/ /\ DiffSortKey(sort, files[j]) = DiffSortKey(sort, files[i])
                 /\ Less(files[j].path, files[i].path)
    BY <2>1, DiffOrderIs
  <2> QED
    BY <1>1, <1>2, <2>1, <2>2, <2>3
<1>4. PICK Below : Below = ByKey(key, path, n)
  OBVIOUS
<1>5. IsWeakOrder(n, Below)
  BY <1>3, <1>4, KeysWeak
<1>6. PICK Before : Before = Ahead(n, Below)
  OBVIOUS
<1>7. Before \in [1 .. n -> SUBSET (1 .. n)] /\ IsOrder(1 .. n, Before)
  BY <1>5, <1>6, AheadIsOrder
<1>8. \A i, j \in 1 .. n : j \in Below[i] <=> DiffOrder(sort, files[j], files[i])
  BY <1>3, <1>4 DEF ByKey
<1>9. \A i \in 1 .. n :
        Before[i] = {j \in 1 .. n : \/ DiffOrder(sort, files[j], files[i])
                                    \/ ~DiffOrder(sort, files[i], files[j]) /\ j < i}
  BY <1>6, <1>8 DEF Ahead
<1>10. InDiffOrder(sort, files) = Arranged(files, Before)
  <2>1. DOMAIN Before = 1 .. n
    BY <1>7
  <2>2. PICK ranks : ranks = [i \in 1 .. n |-> 1 + Cardinality(Before[i])]
    OBVIOUS
  <2>3. [i \in 1 .. n |-> 1 + Cardinality({j \in 1 .. n :
           DiffOrder(sort, files[j], files[i]) \/ (~DiffOrder(sort, files[i], files[j]) /\ j < i)})] = ranks
    BY <1>9, <2>2
  <2>4. PICK places : places = AntiFunction(ranks)
    OBVIOUS
  <2>5. Arranged(files, Before) = [k \in DOMAIN places |-> files[places[k]]]
    BY <2>1, <2>2, <2>4 DEF Arranged
  <2>6. InDiffOrder(sort, files) = [k \in DOMAIN places |-> files[places[k]]]
    BY <2>3, <2>4 DEF InDiffOrder, Sorted, Ranked
  <2> QED
    BY <2>5, <2>6
<1>11. Orders(1 .. n, Before)
  BY <1>7, UptoIsFinite DEF Orders
<1>12. PICK places : ArrangedAs(InDiffOrder(sort, files), files, n, places, Before)
  BY <1>10, <1>11, AllArranged
<1>13. ASSUME NEW i \in 1 .. n, NEW j \in 1 .. n, j \in Before[i]
       PROVE  ~DiffOrder(sort, files[i], files[j])
  <2>1. SUFFICES ASSUME DiffOrder(sort, files[i], files[j])  PROVE FALSE
    OBVIOUS
  <2>2. DiffOrder(sort, files[j], files[i])
    BY <1>9, <1>13, <2>1
  <2>3. i \in Below[j] /\ j \in Below[i]
    BY <1>8, <2>1, <2>2
  <2> QED
    BY <1>5, <2>3 DEF IsWeakOrder
<1> QED
  BY <1>12, <1>13

\* The table has the same changes, and by tokens those of the greatest impact are first.
LEMMA DiffRows ==
  ASSUME NEW n \in Nat, NEW files, DOMAIN files = 1 .. n, AreSortable(files, n),
         NEW sort \in {"path", "tokens", "language"}, NEW rows, rows = InDiffOrder(sort, files)
  PROVE  /\ DOMAIN rows = 1 .. n /\ Len(rows) = n /\ ToSet(rows) = ToSet(files)
         /\ sort = "tokens" => \A i, j \in 1 .. n : i < j => Impact(rows[i]) >= Impact(rows[j])
<1>1. PICK Before, places :
        /\ ArrangedAs(rows, files, n, places, Before)
        /\ \A i, j \in 1 .. n : j \in Before[i] => ~DiffOrder(sort, files[i], files[j])
  BY DiffSortOrderIs
<1>2. DOMAIN rows = 1 .. n /\ Len(rows) = n /\ ToSet(rows) = ToSet(files)
  BY <1>1, SameElements
<1>3. ASSUME sort = "tokens", NEW i \in 1 .. n, NEW j \in 1 .. n, i < j
      PROVE  Impact(rows[i]) >= Impact(rows[j])
  <2>1. PICK a \in 1 .. n : a = places[i]
    BY <1>1 DEF ArrangedAs, Permutes
  <2>2. PICK b \in 1 .. n : b = places[j]
    BY <1>1 DEF ArrangedAs, Permutes
  <2>3. a \in Before[b] /\ rows[i] = files[a] /\ rows[j] = files[b]
    BY <1>1, <1>3, <2>1, <2>2 DEF ArrangedAs
  <2>4. ~DiffOrder(sort, files[b], files[a])
    BY <1>1, <2>3
  <2>5. PICK x \in Int : x = Impact(files[a])
    BY DEF AreSortable
  <2>6. PICK y \in Int : y = Impact(files[b])
    BY DEF AreSortable
  <2>7. ~(Impact(files[b]) > Impact(files[a]))
    BY <1>3, <2>4 DEF DiffOrder
  <2> QED
    BY <2>3, <2>5, <2>6, <2>7
<1> QED
  BY <1>2, <1>3

\* The changes of a path, if paths are those of one change: that one, or none.
LEMMA NamedOnce ==
  ASSUME NEW n \in Nat, NEW files, DOMAIN files = 1 .. n,
         \A i, j \in 1 .. n : files[i].path = files[j].path => i = j,
         NEW path, NEW named, named = NamedIn(files, path)
  PROVE  /\ (\A i \in 1 .. n : files[i].path # path) => named = <<>>
         /\ \A i \in 1 .. n : files[i].path = path => named # <<>> /\ Len(named) = 1 /\ named[1] = files[i]
<1>1. PICK S \in SUBSET (1 .. n) : S = {i \in DOMAIN files : files[i].path = path}
  OBVIOUS
<1>2. PICK before : before = [i \in S |-> {j \in S : j < i}]
  OBVIOUS
<1>3. named = Arranged(files, before)
  BY <1>1, <1>2 DEF NamedIn, Filtered, Ranked, Arranged
<1>4. Orders(S, before)
  BY <1>2, IndicesOrder
<1>5. PICK list : /\ Lists(list, S, before)
                  /\ named = [k \in 1 .. Cardinality(S) |-> files[list[k]]]
  <2>1. ListedBy(named, files, S, before)
    BY <1>3, <1>4, ArrangedBy
  <2> QED
    BY <2>1 DEF ListedBy
<1>6. list \in [1 .. Cardinality(S) -> S]
  BY <1>5 DEF Lists
<1>7. ASSUME \A i \in 1 .. n : files[i].path # path  PROVE named = <<>>
  <2>1. S = {}
    <3>1. ASSUME NEW i \in S  PROVE FALSE
      BY <1>1, <1>7
    <3> QED
      BY <3>1
  <2>2. Cardinality(S) = 0
    BY <2>1, FS_EmptySet
  <2>3. named = [k \in 1 .. 0 |-> files[list[k]]]
    BY <1>5, <2>2
  <2> QED
    BY <2>3
<1>8. ASSUME NEW i \in 1 .. n, files[i].path = path
      PROVE  named # <<>> /\ Len(named) = 1 /\ named[1] = files[i]
  <2>1. S = {i}
    <3>1. i \in S
      BY <1>1, <1>8
    <3>2. \A j \in S : j = i
      BY <1>1, <1>8
    <3> QED
      BY <3>1, <3>2
  <2>2. Cardinality(S) = 1
    BY <2>1, FS_Singleton
  <2>3. 1 \in 1 .. 1 /\ list[1] = i
    <3>1. list \in [1 .. 1 -> S] /\ 1 \in 1 .. 1
      BY <1>6, <2>2
    <3>2. list[1] \in S
      BY <3>1
    <3> QED
      BY <2>1, <3>1, <3>2
  <2>4. named = [k \in 1 .. 1 |-> files[list[k]]]
    BY <1>5, <2>2
  <2>5. DOMAIN named = 1 .. 1 /\ named[1] = files[i] /\ Len(named) = 1
    BY <2>3, <2>4
  <2>6. DOMAIN <<>> = {}
    OBVIOUS
  <2> QED
    BY <2>3, <2>5, <2>6
<1> QED
  BY <1>7, <1>8

\* What a snapshot adds up to is what its files do.
LEMMA SnapshotReported ==
  ASSUME NEW snapshot, IsSnapshot(snapshot),
         NEW shown, shown.totals = snapshot.totals, shown.skipped = snapshot.skipped
  PROVE  Reports(shown, snapshot)
<1>1. PICK n : n = Len(snapshot.files)
  OBVIOUS
<1>2. AreFiles(snapshot.files, n)
  BY <1>1 DEF IsSnapshot
<1>3. n \in Nat /\ DOMAIN snapshot.files = 1 .. n
  BY <1>2 DEF AreFiles
<1>4. PICK all \in SUBSET (1 .. n) : all = 1 .. n
  OBVIOUS
<1>5. PICK count : count = TokensIn(snapshot.files)
  OBVIOUS
<1>6. Weighs(count, 1 .. n) /\ DOMAIN count = 1 .. n
  BY <1>2, <1>3, <1>4, <1>5, SumsAreNatural DEF TokensIn
<1>7. Total(count) = SumOver(count, 1 .. n)
  BY <1>3, <1>6, TotalIs
<1>8. Sum(snapshot.files, LAMBDA file : file.tokens) = Total(count)
  BY <1>5 DEF Sum, TokensIn
<1>9. /\ snapshot.totals.tokens = SumOver(count, 1 .. n)
      /\ snapshot.totals.files = n
  BY <1>1, <1>5 DEF IsSnapshot
<1> QED
  BY <1>1, <1>7, <1>8, <1>9 DEF Reports

LEMMA ChangesSortable ==
  ASSUME Inv, Listed, HasVerdict
  PROVE  \E n \in Nat : DOMAIN changes = 1 .. n /\ Len(changes) = n /\ AreSortable(changes, n)
<1>1. PICK S : changes \in Seq(S)
  BY DEF Inv, Comparing
<1>2. PICK n \in Nat : n = Len(changes) /\ DOMAIN changes = 1 .. n
  BY <1>1
<1>3. base # Absent /\ head # Absent
  BY VerdictIs
<1>4. BothPaths \in SUBSET Seq(Int)
  BY <1>3, PathsAreFinite DEF BothPaths
<1>5. IsSnapshot(base) /\ IsSnapshot(head)
  BY <1>3, SnapshotsHeld
<1>6. ASSUME NEW i \in 1 .. n
      PROVE  changes[i].path \in Seq(Int) /\ changes[i].language \in Int /\ Impact(changes[i]) \in Int
  <2>1. changes[i] \in ToSet(changes)
    BY <1>2 DEF ToSet
  <2>2. PICK path : path = changes[i].path
    OBVIOUS
  <2>3. path \in BothPaths /\ TokensOf(FileAt(base, path)) # TokensOf(FileAt(head, path))
    BY <2>1, <2>2 DEF Inv, Comparing
  <2>4. PICK old : old = FileAt(base, path)
    OBVIOUS
  <2>5. PICK new : new = FileAt(head, path)
    OBVIOUS
  <2>6. changes[i] = Change(path, old, new)
    BY <1>2, <2>2, <2>4, <2>5 DEF Listed, IsChangeOfPath
  <2>7. IsEntry(old) /\ IsEntry(new)
    BY <1>5, <2>4, <2>5, EntriesAre
  <2>8. old # Absent \/ new # Absent
    BY <2>3, <2>4, <2>5 DEF TokensOf
  <2>9. changes[i].language \in Int
    BY <2>6, <2>7, <2>8 DEF Change, IsEntry
  <2>10. PICK delta : delta = Delta(old, new)
    OBVIOUS
  <2>11. IsChange(delta)
    BY <2>7, <2>10, DeltaIs
  <2>12. delta.added \in Nat /\ delta.removed \in Nat
    BY <2>11 DEF IsChange
  <2>13. Impact(changes[i]) = delta.added + delta.removed
    BY <2>6, <2>10 DEF Change, Impact
  <2> QED
    BY <1>4, <2>2, <2>3, <2>9, <2>12, <2>13
<1> QED
  BY <1>2, <1>6 DEF AreSortable

LEMMA InvReport == Inv /\ Listed => DiffReportComplete
<1> SUFFICES ASSUME Inv, Listed, HasVerdict  PROVE DiffReportComplete
  BY DEF DiffReportComplete
<1>1. PICK n \in Nat : DOMAIN changes = 1 .. n /\ Len(changes) = n /\ AreSortable(changes, n)
  BY ChangesSortable
<1>2. /\ \A i \in 1 .. n : IsChangeOfPath(changes[i])
      /\ \A i, j \in 1 .. n : changes[i].path = changes[j].path => i = j
      /\ \A path \in BothPaths : IsTold(path)
      /\ verdict.files = changes
      /\ verdict.base = base.totals /\ verdict.base_skipped = base.skipped
      /\ verdict.head = head.totals /\ verdict.head_skipped = head.skipped
  BY <1>1 DEF Listed
<1>3. PICK json : json = Shows("json", "files", "path")
  OBVIOUS
<1>4. /\ json.files = changes
      /\ json.snapshots.base.totals = base.totals /\ json.snapshots.base.skipped = base.skipped
      /\ json.snapshots.head.totals = head.totals /\ json.snapshots.head.skipped = head.skipped
      /\ json.context = {ContextComparison(head.totals.tokens, 2)}
  <2>1. PICK args : args = [format |-> "json", quiet |-> FALSE, view |-> "files", sort |-> "path",
                            context |-> {2}, price |-> {}]
    OBVIOUS
  <2>2. args.format = "json" /\ args.format # "table" /\ ~args.quiet /\ args.context = {2}
    BY <2>1
  <2>3. json = DiffJson(verdict, args)
    BY <1>3, <2>1, <2>2 DEF Shows, DiffReport
  <2>4. Context(verdict.head.tokens, args) = {ContextComparison(verdict.head.tokens, 2)}
    BY <2>2 DEF Context
  <2> QED
    BY <1>2, <2>3, <2>4 DEF DiffJson
<1>5. ASSUME NEW sort \in {"path", "tokens", "language"}
      PROVE  RowsBy(sort) = InDiffOrder(sort, changes)
  <2>1. PICK args : args = [format |-> "table", quiet |-> FALSE, view |-> "files", sort |-> sort,
                            context |-> {2}, price |-> {}]
    OBVIOUS
  <2>2. args.format # "json" /\ ~args.quiet /\ args.view = "files" /\ args.sort = sort
    BY <2>1
  <2>3. Shows("table", "files", sort) = DiffTable(verdict, args)
    BY <2>1, <2>2 DEF Shows, DiffReport
  <2>4. DiffTable(verdict, args).rows = InDiffOrder(sort, verdict.files)
    BY <2>2 DEF DiffTable
  <2> QED
    BY <1>2, <2>3, <2>4 DEF RowsBy
<1>6. Shows("table", "languages", "path").head.context = {ContextComparison(head.totals.tokens, 2)}
  <2>1. PICK args : args = [format |-> "table", quiet |-> FALSE, view |-> "languages", sort |-> "path",
                            context |-> {2}, price |-> {}]
    OBVIOUS
  <2>2. args.format # "json" /\ ~args.quiet /\ args.context = {2}
    BY <2>1
  <2>3. Shows("table", "languages", "path") = DiffTable(verdict, args)
    BY <2>1, <2>2 DEF Shows, DiffReport
  <2>4. DiffTable(verdict, args).head.context = Context(verdict.head.tokens, args)
    BY DEF DiffTable, Summaries
  <2>5. Context(verdict.head.tokens, args) = {ContextComparison(verdict.head.tokens, 2)}
    BY <2>2 DEF Context
  <2> QED
    BY <1>2, <2>3, <2>4, <2>5
<1>7. IsSnapshot(base) /\ IsSnapshot(head)
  BY VerdictIs, SnapshotsHeld
<1>8. Reports(json.snapshots.base, base) /\ Reports(json.snapshots.head, head)
  <2>1. PICK of_base : of_base = json.snapshots.base
    OBVIOUS
  <2>2. PICK of_head : of_head = json.snapshots.head
    OBVIOUS
  <2> QED
    BY <1>4, <1>7, <2>1, <2>2, SnapshotReported
<1>9. ASSUME NEW path \in PathsOf(base) \cup PathsOf(head), NEW named, named = NamedIn(changes, path)
      PROVE  IF named = <<>> THEN TokensOf(FileAt(head, path)) = TokensOf(FileAt(base, path))
             ELSE /\ Len(named) = 1
                  /\ named[1].base_tokens = Counted(FileAt(base, path))
                  /\ named[1].head_tokens = Counted(FileAt(head, path))
  <2>1. /\ (\A i \in 1 .. n : changes[i].path # path) => named = <<>>
        /\ \A i \in 1 .. n :
             changes[i].path = path => named # <<>> /\ Len(named) = 1 /\ named[1] = changes[i]
    BY <1>1, <1>2, <1>9, NamedOnce
  <2>2. CASE \A i \in 1 .. n : changes[i].path # path
    <3>1. IsTold(path)
      BY <1>2 DEF BothPaths
    <3> QED
      BY <1>1, <2>1, <2>2, <3>1 DEF IsTold
  <2>3. CASE \E i \in 1 .. n : changes[i].path = path
    <3>1. PICK i \in 1 .. n : changes[i].path = path
      BY <2>3
    <3>2. changes[i] = Change(path, FileAt(base, path), FileAt(head, path))
      BY <1>2, <3>1 DEF IsChangeOfPath
    <3>3. /\ changes[i].base_tokens = Counted(FileAt(base, path))
          /\ changes[i].head_tokens = Counted(FileAt(head, path))
      BY <3>2 DEF Change
    <3> QED
      BY <2>1, <3>1, <3>3
  <2> QED
    BY <2>2, <2>3
<1>10. ASSUME NEW sort \in {"path", "tokens", "language"}
       PROVE  ToSet(RowsBy(sort)) = ToSet(changes) /\ Len(RowsBy(sort)) = Len(changes)
  <2>1. PICK rows : rows = InDiffOrder(sort, changes)
    OBVIOUS
  <2>2. Len(rows) = n /\ ToSet(rows) = ToSet(changes)
    BY <1>1, <2>1, DiffRows
  <2> QED
    BY <1>1, <1>5, <2>1, <2>2
<1>11. ASSUME NEW i \in DOMAIN RowsBy("tokens"), NEW j \in DOMAIN RowsBy("tokens"), i < j
       PROVE  Impact(RowsBy("tokens")[i]) >= Impact(RowsBy("tokens")[j])
  <2>1. PICK rows : rows = InDiffOrder("tokens", changes)
    OBVIOUS
  <2>2. /\ DOMAIN rows = 1 .. n
        /\ \A a, b \in 1 .. n : a < b => Impact(rows[a]) >= Impact(rows[b])
    BY <1>1, <2>1, DiffRows
  <2>3. RowsBy("tokens") = rows
    BY <1>5, <2>1
  <2> QED
    BY <1>11, <2>2, <2>3
<1>12. json.context = {ContextComparison(json.snapshots.head.totals.tokens, 2)}
  BY <1>4
<1>13. Shows("table", "languages", "path").head.context = json.context
  BY <1>4, <1>6
<1> QED
  BY <1>3, <1>4, <1>8, <1>9, <1>10, <1>11, <1>12, <1>13 DEF DiffReportComplete

\* A report of a diff is complete, whatever two snapshots are compared: each path is
\* told of as it changed or has not changed, once, in the table as in JSON, and each
\* snapshot with its own totals and skips (write_diff_json, write_diff_table).
THEOREM ReportTellsAll == Spec => []DiffReportComplete
BY InvHolds, ListedHolds, InvReport, PTL
=============================================================================
