------------------------------- MODULE TokenDiff -------------------------------
(***************************************************************************)
(* The comparison of two snapshots, one path at a time: compare_snapshots  *)
(* of tokm-core/src/diff.rs.  A snapshot is what Aggregate returns, with   *)
(* the semantics (tokenizer, text policy, UTF-8 policy) it was counted by. *)
(***************************************************************************)
EXTENDS Aggregation

VARIABLES
  base,       \* the base snapshot
  head,       \* the head snapshot
  todo,       \* the paths that are still to be compared
  tokens,     \* the change over all paths so far
  byLanguage, \* the change of each language so far
  changes,    \* the changed files so far
  verdict     \* what compare_snapshots returned

\* No such file, no snapshot yet, no result yet.
Absent == [absent |-> TRUE]

comparison == <<todo, tokens, byLanguage, changes, verdict>>

\* TokenDelta::default
NoDelta == [added |-> 0, removed |-> 0, net |-> 0]

\* TokenDelta::between
Between(from, to) ==
  IF to >= from THEN [added |-> to - from, removed |-> 0, net |-> to - from]
  ELSE [added |-> 0, removed |-> from - to, net |-> -(from - to)]

\* Mutant of Add: one field copied from the line above.
Add_copied(delta, other) ==
  [added   |-> (delta.added + other.added) % (MaxCount + 1),
   removed |-> (delta.removed + other.added) % (MaxCount + 1),
   net     |-> delta.net + other.net]

\* TokenDelta::add: u64 sums that nothing checks, and an i128 that cannot overflow.
Add(delta, other) ==
  [added   |-> (delta.added + other.added) % (MaxCount + 1),
   removed |-> (delta.removed + other.removed) % (MaxCount + 1),
   net     |-> delta.net + other.net]

\* by_language.entry(language).or_default().add(delta)
AddTo(map, language, delta) ==
  LET old == IF language \in DOMAIN map THEN map[language] ELSE NoDelta
  IN  [name \in DOMAIN map \cup {language} |->
         IF name = language THEN Add(old, delta) ELSE map[name]]

PathsOf(snapshot) == {file.path : file \in ToSet(snapshot.files)}

\* files_by_path, get
FileAt(snapshot, path) ==
  IF path \in PathsOf(snapshot)
  THEN CHOOSE file \in ToSet(snapshot.files) : file.path = path
  ELSE Absent

TokensOf(file) == IF file = Absent THEN 0 ELSE file.tokens

\* Option<u64>: the tokens of a file, if there is one.
Counted(file) == IF file = Absent THEN {} ELSE {file.tokens}

InitComparison ==
  /\ base = Absent /\ head = Absent
  /\ todo = <<>>
  /\ tokens = NoDelta
  /\ byLanguage = <<>>
  /\ changes = <<>>
  /\ verdict = Absent

\* Mutant of StartComparing: a path of both snapshots is compared twice.
StartComparing_with_duplicates ==
  /\ base # Absent /\ head # Absent
  /\ base.semantics = head.semantics
  /\ todo' = InOrder(PathsOf(base)) \o InOrder(PathsOf(head))
  /\ UNCHANGED <<tokens, byLanguage, changes, verdict>>

\* The paths of both snapshots, sorted and without duplicates.
StartComparing ==
  /\ base # Absent /\ head # Absent
  /\ base.semantics = head.semantics
  /\ todo' = InOrder(PathsOf(base) \cup PathsOf(head))
  /\ UNCHANGED <<tokens, byLanguage, changes, verdict>>

\* ensure_compatible
Refuse ==
  /\ base # Absent /\ head # Absent
  /\ base.semantics # head.semantics
  /\ verdict' = [error |-> "incompatible"]
  /\ UNCHANGED <<todo, tokens, byLanguage, changes>>

Reclassified(old, new) ==
  old # Absent /\ new # Absent /\ old.language # new.language

\* Mutant of Delta: a file that changes language counts like any other.
Delta_always_between(old, new) == Between(TokensOf(old), TokensOf(new))

\* The change of one file; one that changes language is removed and added.
Delta(old, new) ==
  IF Reclassified(old, new)
  THEN [added |-> new.tokens, removed |-> old.tokens, net |-> new.tokens - old.tokens]
  ELSE Between(TokensOf(old), TokensOf(new))

\* add_language_delta
AddLanguageDelta(map, old, new, delta) ==
  IF Reclassified(old, new)
  THEN AddTo(AddTo(map, old.language, Between(old.tokens, 0)),
             new.language, Between(0, new.tokens))
  ELSE AddTo(map, IF new = Absent THEN old.language ELSE new.language, delta)

Change(path, old, new) ==
  [path |-> path, language |-> IF new = Absent THEN old.language ELSE new.language,
   base_tokens |-> Counted(old), head_tokens |-> Counted(new), tokens |-> Delta(old, new)]

\* A path whose token counts are the same is passed over.
Same ==
  /\ todo # <<>>
  /\ TokensOf(FileAt(base, Head(todo))) = TokensOf(FileAt(head, Head(todo)))
  /\ todo' = Tail(todo)
  /\ UNCHANGED <<tokens, byLanguage, changes, verdict>>

\* A path whose token counts differ.
Differs ==
  /\ todo # <<>>
  /\ LET old == FileAt(base, Head(todo))
         new == FileAt(head, Head(todo))
     IN  /\ TokensOf(old) # TokensOf(new)
         /\ tokens' = Add(tokens, Delta(old, new))
         /\ byLanguage' = AddLanguageDelta(byLanguage, old, new, Delta(old, new))
         /\ changes' = Append(changes, Change(Head(todo), old, new))
  /\ todo' = Tail(todo)
  /\ UNCHANGED verdict

\* languages: by impact descending, then name.
LanguageDeltas ==
  LET impact(entry) == entry.tokens.added + entry.tokens.removed
      above(left, right) ==
        \/ impact(left) > impact(right)
        \/ impact(left) = impact(right) /\ left.name < right.name
  IN  Ranked({[name |-> language, tokens |-> byLanguage[language]] :
                language \in DOMAIN byLanguage}, above)

\* DiffResult
Compared ==
  /\ verdict' = [tokens |-> tokens, languages |-> LanguageDeltas, files |-> changes,
                 base |-> base.totals, base_skipped |-> base.skipped,
                 head |-> head.totals, head_skipped |-> head.skipped]
  /\ UNCHANGED <<todo, tokens, byLanguage, changes>>

-----------------------------------------------------------------------------
(* Properties *)

HasVerdict == "tokens" \in DOMAIN verdict

\* The tokens of a language in a snapshot.
LanguageTokens(snapshot, language) ==
  Sum(Filtered(snapshot.files, LAMBDA file : file.language = language),
      LAMBDA file : file.tokens)

\* Files that change language and keep their token count are passed over.
Relabelled ==
  \E path \in PathsOf(base) \cap PathsOf(head) :
    LET old == FileAt(base, path)
        new == FileAt(head, path)
    IN  Reclassified(old, new) /\ old.tokens = new.tokens

\* A comparison accounts for the whole difference and for nothing else: its net
\* change is the difference of the totals, the changes of the files and of the
\* languages add up to it, and a language's own net change is the difference of
\* its totals, unless a file was relabelled at the same count (compare_snapshots).
AddsUp ==
  HasVerdict =>
    /\ verdict.tokens.net = head.totals.tokens - base.totals.tokens
    /\ \A field \in {"added", "removed", "net"} :
         /\ verdict.tokens[field] = Sum(verdict.files, LAMBDA file : file.tokens[field])
         /\ verdict.tokens[field] = Sum(verdict.languages, LAMBDA language : language.tokens[field])
    /\ Relabelled \/ \A i \in DOMAIN verdict.languages :
         LET language == verdict.languages[i]
         IN  language.tokens.net = LanguageTokens(head, language.name)
                                     - LanguageTokens(base, language.name)

\* The unchecked sums never wrap: at every moment no more was added than the head
\* holds, no more was removed than the base holds, and the net change is what was
\* added less what was removed, in all and for each language (TokenDelta::add).
NeverWraps ==
  base # Absent /\ head # Absent =>
    \A delta \in {tokens} \cup {byLanguage[language] : language \in DOMAIN byLanguage} :
      /\ delta.added =< head.totals.tokens
      /\ delta.removed =< base.totals.tokens
      /\ delta.net = delta.added - delta.removed
=============================================================================
