---------------------------- MODULE SequenceProofs ----------------------------
(***************************************************************************)
(* Lemmas about the operators on sequences that the modules use: joining,  *)
(* sorting, filtering and adding up.  A sum is taken over a set of places, *)
(* so that it can be split, grouped and renamed.  At the end the figures   *)
(* that are made of sums: shares and densities.                            *)
(*                                                                         *)
(* The library's theorems of induction take an operator, and no prover     *)
(* used here instantiates them.  What they would prove follows from        *)
(* LeastNatural instead: the set of the counterexamples has no least one.  *)
(***************************************************************************)
EXTENDS Figures, SequenceTheorems, FiniteSetTheorems, FunctionTheorems, TLAPS

\* Every set of natural numbers that has a member has a least one.
LEMMA LeastNatural ==
  ASSUME NEW S \in SUBSET Nat, S # {}
  PROVE  \E n \in S : \A m \in S : n =< m
<1> DEFINE Upto == {0 .. n : n \in S}
<1>1. Upto \subseteq FiniteSubsetsOf(Nat)
  <2> SUFFICES ASSUME NEW n \in S  PROVE 0 .. n \in FiniteSubsetsOf(Nat)
    OBVIOUS
  <2>1. n \in Int /\ 0 \in Int /\ 0 .. n \subseteq Nat
    OBVIOUS
  <2>2. IsFiniteSet(0 .. n)
    BY <2>1, FS_Interval
  <2> QED
    BY <2>1, <2>2 DEF FiniteSubsetsOf
<1>2. Upto # {}
  OBVIOUS
<1> HIDE DEF Upto
<1>3. PICK least \in Upto : \A other \in Upto : <<other, least>> \notin StrictSubsetOrdering(Nat)
  BY <1>1, <1>2, FS_StrictSubsetOrderingWellFounded, WFMin, Zenon
<1>4. PICK n \in S : least = 0 .. n
  BY DEF Upto
<1>5. ASSUME NEW m \in S, m < n  PROVE FALSE
  <2>1. 0 .. m \in Upto
    BY DEF Upto
  <2>2. 0 .. m \subseteq 0 .. n /\ 0 .. m # 0 .. n /\ 0 .. m \subseteq Nat /\ 0 .. n \subseteq Nat
    <3>1. m \in Nat /\ n \in Nat
      OBVIOUS
    <3>2. n \in 0 .. n /\ n \notin 0 .. m
      BY <1>5, <3>1
    <3> QED
      BY <3>1, <3>2, <1>5
  <2>3. <<0 .. m, 0 .. n>> \in StrictSubsetOrdering(Nat)
    BY <2>2 DEF StrictSubsetOrdering
  <2> QED
    BY <1>3, <1>4, <2>1, <2>3
<1> QED
  BY <1>5

-----------------------------------------------------------------------------
(* FlattenSeq *)

\* g[i] is the concatenation of the first i of n sequences.
Flattens(g, seqs, n) ==
  g = [i \in 1 .. n |-> IF i = 1 THEN seqs[i] ELSE g[i - 1] \o seqs[i]]

\* There is such a function.
LEMMA FlattensExists ==
  ASSUME NEW seqs, NEW n \in Nat
  PROVE  \E g : Flattens(g, seqs, n)
<1> DEFINE Without == {m \in Nat : ~ \E g : Flattens(g, seqs, m)}
<1> SUFFICES ASSUME n \in Without  PROVE FALSE
  OBVIOUS
<1>1. PICK m \in Without : \A k \in Without : m =< k
  <2>1. Without \in SUBSET Nat /\ Without # {}
    OBVIOUS
  <2> HIDE DEF Without
  <2> QED
    BY <2>1, LeastNatural
<1>2. m # 0
  <2>1. Flattens([i \in 1 .. 0 |-> 0], seqs, 0)
    BY DEF Flattens
  <2> QED
    BY <2>1
<1>3. PICK g : Flattens(g, seqs, m - 1)
  <2>1. m - 1 \in Nat /\ m - 1 < m
    BY <1>2
  <2>2. m - 1 \notin Without
    BY <2>1, <1>1
  <2> QED
    BY <2>1, <2>2
<1> DEFINE h == [i \in 1 .. m |->
                   IF i = 1 THEN seqs[i] ELSE g[i - 1] \o seqs[i]]
<1>4. \A i \in 1 .. m - 1 : g[i] = h[i]
  <2> SUFFICES ASSUME NEW i \in 1 .. m - 1  PROVE g[i] = h[i]
    OBVIOUS
  <2>1. i \in 1 .. m
    BY <1>2
  <2>2. g[i] = IF i = 1 THEN seqs[i] ELSE g[i - 1] \o seqs[i]
    BY <1>3 DEF Flattens
  <2> QED
    BY <2>1, <2>2
<1>5. \A i \in 1 .. m : i # 1 => h[i - 1] = g[i - 1]
  <2> SUFFICES ASSUME NEW i \in 1 .. m, i # 1  PROVE h[i - 1] = g[i - 1]
    OBVIOUS
  <2>1. i - 1 \in 1 .. m - 1
    BY <1>2
  <2> HIDE DEF h
  <2> QED
    BY <2>1, <1>4
<1>6. h = [i \in 1 .. m |-> IF i = 1 THEN seqs[i] ELSE h[i - 1] \o seqs[i]]
  <2>1. \A i \in 1 .. m : (IF i = 1 THEN seqs[i] ELSE g[i - 1] \o seqs[i])
                        = (IF i = 1 THEN seqs[i] ELSE h[i - 1] \o seqs[i])
    <3> HIDE DEF h
    <3> QED
      BY <1>5
  <2> QED
    BY <2>1, Zenon
<1> QED
  BY <1>6 DEF Flattens

LEMMA FlattensAt ==
  ASSUME NEW g, NEW seqs, NEW n \in Nat, Flattens(g, seqs, n), NEW i \in 1 .. n
  PROVE  g[i] = IF i = 1 THEN seqs[i] ELSE g[i - 1] \o seqs[i]
BY DEF Flattens

Agree(g, h, n) == \A i \in 1 .. n : g[i] = h[i]

\* It is what the first sequences make it.
LEMMA FlattensUnique ==
  ASSUME NEW seqs, NEW others, NEW n \in Nat, NEW m \in Nat, n =< m,
         Agree(seqs, others, n),
         NEW g, Flattens(g, seqs, n), NEW h, Flattens(h, others, m)
  PROVE  Agree(g, h, n)
<1> DEFINE Apart == {i \in 1 .. n : g[i] # h[i]}
<1> SUFFICES ASSUME Apart # {}  PROVE FALSE
  BY DEF Agree
<1>1. PICK i \in Apart : \A k \in Apart : i =< k
  <2>1. Apart \in SUBSET Nat
    OBVIOUS
  <2> HIDE DEF Apart
  <2> QED
    BY <2>1, LeastNatural
<1>2. g[i] = IF i = 1 THEN seqs[i] ELSE g[i - 1] \o seqs[i]
  BY DEF Flattens
<1>3. h[i] = IF i = 1 THEN others[i] ELSE h[i - 1] \o others[i]
  <2>1. i \in 1 .. m
    OBVIOUS
  <2> QED
    BY <2>1 DEF Flattens
<1>4. CASE i = 1
  BY <1>2, <1>3, <1>4 DEF Agree
<1>5. CASE i # 1
  <2>1. i - 1 \in 1 .. n /\ i - 1 \notin Apart
    BY <1>1, <1>5
  <2>2. g[i - 1] = h[i - 1]
    BY <2>1
  <2> QED
    BY <1>2, <1>3, <1>5, <2>2 DEF Agree
<1> QED
  BY <1>4, <1>5

\* What FlattenSeq is.
LEMMA FlattenSeqIs ==
  ASSUME NEW S, NEW seqs \in Seq(S), seqs # <<>>
  PROVE  \E g : Flattens(g, seqs, Len(seqs)) /\ FlattenSeq(seqs) = g[Len(seqs)]
<1> DEFINE flatten == CHOOSE g : Flattens(g, seqs, Len(seqs))
<1>1. Flattens(flatten, seqs, Len(seqs))
  BY FlattensExists
<1>2. FlattenSeq(seqs) = flatten[Len(seqs)]
  BY DEF FlattenSeq, Flattens
<1> QED
  BY <1>1, <1>2

LEMMA FlattenSeqOfNone == FlattenSeq(<<>>) = <<>>
BY DEF FlattenSeq

\* What Append does.
LEMMA AppendIs ==
  ASSUME NEW T, NEW seq \in Seq(T), NEW last \in T
  PROVE  /\ Append(seq, last) \in Seq(T) /\ Append(seq, last) # <<>>
         /\ Len(seq) \in Nat /\ Len(Append(seq, last)) = Len(seq) + 1
         /\ Append(seq, last)[Len(seq) + 1] = last
         /\ \A i \in 1 .. Len(seq) : Append(seq, last)[i] = seq[i]
OBVIOUS

\* One more sequence is appended.
LEMMA FlattenSeqAppends ==
  ASSUME NEW T, NEW seqs \in Seq(T), NEW S, NEW seq \in Seq(S), seq \in T
  PROVE  FlattenSeq(Append(seqs, seq)) = FlattenSeq(seqs) \o seq
<1>1. PICK n \in Nat : n = Len(seqs)
  OBVIOUS
<1>2. PICK m \in Nat : m = n + 1
  OBVIOUS
<1>3. PICK all : all = Append(seqs, seq)
  OBVIOUS
<1>4. /\ all \in Seq(T) /\ all # <<>> /\ Len(all) = m /\ all[m] = seq
      /\ \A i \in 1 .. n : all[i] = seqs[i]
  BY <1>1, <1>2, <1>3, AppendIs
<1>5. PICK h : Flattens(h, all, m) /\ FlattenSeq(all) = h[m]
  BY <1>4, FlattenSeqIs
<1>6. h[m] = IF m = 1 THEN seq ELSE h[n] \o seq
  <2>1. m \in 1 .. m /\ m - 1 = n
    BY <1>2
  <2> QED
    BY <1>4, <1>5, <2>1, FlattensAt
<1>7. CASE seqs = <<>>
  <2>1. m = 1 /\ FlattenSeq(seqs) = <<>>
    BY <1>1, <1>2, <1>7, FlattenSeqOfNone
  <2> QED
    BY <1>3, <1>5, <1>6, <2>1
<1>8. CASE seqs # <<>>
  <2>1. PICK g : Flattens(g, seqs, n) /\ FlattenSeq(seqs) = g[n]
    BY <1>1, <1>8, FlattenSeqIs
  <2>2. n \in Nat /\ m \in Nat /\ n \in 1 .. n /\ n =< m /\ m # 1
    BY <1>1, <1>2, <1>8
  <2>3. Agree(seqs, all, n)
    BY <1>4 DEF Agree
  <2>4. Agree(g, h, n)
    BY <1>5, <2>1, <2>2, <2>3, FlattensUnique
  <2> QED
    BY <1>3, <1>5, <1>6, <2>1, <2>2, <2>4 DEF Agree
<1> QED
  BY <1>7, <1>8

\* They are sequences of what the sequences are sequences of.
LEMMA FlattensType ==
  ASSUME NEW S, NEW seqs, NEW n \in Nat, \A i \in 1 .. n : seqs[i] \in Seq(S),
         NEW g, Flattens(g, seqs, n), NEW last \in 1 .. n
  PROVE  g[last] \in Seq(S)
<1> DEFINE Ill == {i \in 1 .. n : g[i] \notin Seq(S)}
<1> SUFFICES ASSUME Ill # {}  PROVE FALSE
  OBVIOUS
<1>1. PICK i \in Ill : \A k \in Ill : i =< k
  <2>1. Ill \in SUBSET Nat
    OBVIOUS
  <2> HIDE DEF Ill
  <2> QED
    BY <2>1, LeastNatural
<1>2. g[i] = IF i = 1 THEN seqs[i] ELSE g[i - 1] \o seqs[i]
  BY FlattensAt
<1>3. CASE i = 1
  BY <1>2, <1>3
<1>4. CASE i # 1
  <2>1. i - 1 \in 1 .. n /\ i - 1 \notin Ill
    BY <1>1, <1>4
  <2>2. g[i - 1] \in Seq(S) /\ seqs[i] \in Seq(S)
    BY <2>1
  <2>3. \A a, b \in Seq(S) : a \o b \in Seq(S)
    OBVIOUS
  <2>4. g[i] \in Seq(S)
    BY <1>2, <1>4, <2>2, <2>3
  <2> QED
    BY <2>4
<1> QED
  BY <1>3, <1>4

LEMMA FlattenSeqType ==
  ASSUME NEW S, NEW T, T \subseteq Seq(S), NEW seqs \in Seq(T)
  PROVE  FlattenSeq(seqs) \in Seq(S)
<1>1. PICK n \in Nat : n = Len(seqs)
  OBVIOUS
<1>2. CASE seqs = <<>>
  <2>1. <<>> \in Seq(S)
    OBVIOUS
  <2> QED
    BY <1>2, <2>1, FlattenSeqOfNone
<1>3. CASE seqs # <<>>
  <2>1. PICK g : Flattens(g, seqs, n) /\ FlattenSeq(seqs) = g[n]
    BY <1>1, <1>3, FlattenSeqIs
  <2>2. n \in 1 .. n /\ \A i \in 1 .. n : seqs[i] \in Seq(S)
    BY <1>1, <1>3
  <2>3. g[n] \in Seq(S)
    BY <2>1, <2>2, FlattensType
  <2> QED
    BY <2>1, <2>3
<1> QED
  BY <1>2, <1>3

-----------------------------------------------------------------------------
(* SetToSeq *)

\* SetToSeq lists a finite set, all of it and each member once.
LEMMA SetToSeqLists ==
  ASSUME NEW S, IsFiniteSet(S)
  PROVE  /\ Cardinality(S) \in Nat
         /\ SetToSeq(S) \in Seq(S) /\ Len(SetToSeq(S)) = Cardinality(S)
         /\ \A x \in S : \E i \in 1 .. Cardinality(S) : SetToSeq(S)[i] = x
         /\ IsInjective(SetToSeq(S))
<1>1. PICK n \in Nat : n = Cardinality(S)
  BY FS_CardinalityType
<1>2. \E f \in [1 .. n -> S] : IsInjective(f)
  BY <1>1, FS_CardinalityType DEF ExistsBijection, Bijection, Injection
<1>3. PICK f : f = SetToSeq(S)
  OBVIOUS
<1>4. f \in [1 .. n -> S] /\ IsInjective(f)
  <2>1. f = CHOOSE g \in [1 .. n -> S] : IsInjective(g)
    BY <1>1, <1>3 DEF SetToSeq
  <2> QED
    BY <1>2, <2>1
<1>5. f \in Seq(S) /\ Len(f) = n
  BY <1>4
<1>6. \A x \in S : \E i \in 1 .. n : f[i] = x
  <2>1. f \in Injection(1 .. n, S)
    BY <1>4 DEF Injection
  <2>2. Cardinality(1 .. n) = Cardinality(S)
    <3>1. Cardinality(1 .. n) = IF 1 > n THEN 0 ELSE n - 1 + 1
      BY FS_Interval
    <3> QED
      BY <3>1, <1>1
  <2>3. f \in Surjection(1 .. n, S)
    BY <2>1, <2>2, FS_Injection
  <2> QED
    BY <2>3 DEF Surjection
<1> QED
  BY <1>1, <1>3, <1>4, <1>5, <1>6

\* Of nothing it lists nothing.
LEMMA SetToSeqOfNone == SetToSeq({}) = <<>>
<1>1. IsFiniteSet({}) /\ Cardinality({}) = 0
  BY FS_EmptySet
<1>2. SetToSeq({}) \in Seq({}) /\ Len(SetToSeq({})) = 0
  BY <1>1, SetToSeqLists
<1> QED
  BY <1>2

-----------------------------------------------------------------------------
(* The greatest of some numbers *)

LEMMA MaxIs ==
  ASSUME NEW S \in SUBSET Nat, NEW n \in S, \A m \in S : m =< n
  PROVE  Max(S) = n
<1>1. \A m \in S : (\A k \in S : m >= k) => m = n
  BY SMT
<1> QED
  BY <1>1 DEF Max

\* Numbers up to n have a greatest.
LEMMA GreatestNatural ==
  ASSUME NEW n \in Nat, NEW S \in SUBSET (1 .. n), S # {}
  PROVE  Max(S) \in S /\ \A m \in S : m =< Max(S)
<1> DEFINE Bounds == {k \in Nat : \A m \in S : m =< k}
<1>1. n \in Bounds
  OBVIOUS
<1>2. PICK k \in Bounds : \A b \in Bounds : k =< b
  <2>1. Bounds \in SUBSET Nat /\ Bounds # {}
    BY <1>1
  <2> HIDE DEF Bounds
  <2> QED
    BY <2>1, LeastNatural
<1>3. k \in S
  <2> SUFFICES ASSUME k \notin S  PROVE FALSE
    OBVIOUS
  <2>1. PICK m : m \in S
    OBVIOUS
  <2>2. k - 1 \in Nat /\ \A l \in S : l =< k - 1
    BY <2>1
  <2>3. k - 1 \in Bounds
    BY <2>2
  <2> QED
    BY <2>3, <1>2
<1>4. S \in SUBSET Nat /\ \A m \in S : m =< k
  OBVIOUS
<1>5. Max(S) = k
  BY <1>3, <1>4, MaxIs
<1> QED
  BY <1>3, <1>4, <1>5

\* A sequence is its first elements and the rest.
LEMMA SplitAt ==
  ASSUME NEW T, NEW seq \in Seq(T), NEW k \in Nat, k =< Len(seq)
  PROVE  seq = SubSeq(seq, 1, k) \o SubSeq(seq, k + 1, Len(seq))
<1>1. PICK n \in Nat : n = Len(seq)
  OBVIOUS
<1>2. PICK first : first = SubSeq(seq, 1, k)
  OBVIOUS
<1>3. PICK rest : rest = SubSeq(seq, k + 1, n)
  OBVIOUS
<1>4. first \in Seq(T) /\ Len(first) = k /\ \A i \in 1 .. k : first[i] = seq[i]
  BY <1>1, <1>2
<1>5. rest \in Seq(T) /\ Len(rest) = n - k /\ \A i \in 1 .. n - k : rest[i] = seq[k + i]
  BY <1>1, <1>3
<1>6. PICK whole : whole = first \o rest
  OBVIOUS
<1>7. /\ whole \in Seq(T) /\ Len(whole) = n
      /\ \A i \in 1 .. n : whole[i] = IF i =< k THEN first[i] ELSE rest[i - k]
  <2>1. /\ whole \in Seq(T) /\ Len(whole) = Len(first) + Len(rest)
        /\ \A i \in 1 .. Len(first) + Len(rest) :
             whole[i] = IF i =< Len(first) THEN first[i] ELSE rest[i - Len(first)]
    BY <1>4, <1>5, <1>6, ConcatProperties
  <2>2. Len(first) + Len(rest) = n
    BY <1>1, <1>4, <1>5
  <2> QED
    BY <2>1, <2>2, <1>4
<1>8. \A i \in 1 .. n : whole[i] = seq[i]
  <2> TAKE i \in 1 .. n
  <2>1. CASE i =< k
    BY <2>1, <1>4, <1>7
  <2>2. CASE ~(i =< k)
    <3>1. i - k \in 1 .. n - k /\ k + (i - k) = i
      BY <2>2
    <3> QED
      BY <2>2, <3>1, <1>5, <1>7
  <2> QED
    BY <2>1, <2>2
<1>9. whole = seq
  BY <1>1, <1>7, <1>8, SeqEqual
<1> QED
  BY <1>1, <1>2, <1>3, <1>6, <1>9

LEMMA ConcatTwice ==
  ASSUME NEW a \in Seq(Int), NEW b \in Seq(Int), NEW c \in Seq(Int)
  PROVE  (a \o b) \o c = a \o (b \o c)
<1>1. PICK left : left = (a \o b) \o c
  OBVIOUS
<1>2. PICK right : right = a \o (b \o c)
  OBVIOUS
<1>3. /\ left \in Seq(Int) /\ right \in Seq(Int) /\ Len(left) = Len(right)
      /\ Len(a) \in Nat /\ Len(b) \in Nat /\ Len(left) = Len(a) + Len(b) + Len(c)
  BY <1>1, <1>2
<1>4. ASSUME NEW k \in 1 .. Len(left)  PROVE left[k] = right[k]
  <2>1. CASE k =< Len(a)
    BY <1>1, <1>2, <1>3, <2>1
  <2>2. CASE k > Len(a) /\ k =< Len(a) + Len(b)
    BY <1>1, <1>2, <1>3, <2>2
  <2>3. CASE k > Len(a) + Len(b)
    BY <1>1, <1>2, <1>3, <2>3
  <2> QED
    BY <1>3, <2>1, <2>2, <2>3
<1>5. left = right
  BY <1>3, <1>4, SeqEqual
<1> QED
  BY <1>1, <1>2, <1>5

-----------------------------------------------------------------------------
(* Ranked, Sorted and Filtered *)

\* Before[x] are the elements before x in a strict total order.
IsOrder(S, Before) ==
  /\ \A x \in S : x \notin Before[x]
  /\ \A x, y, z \in S : x \in Before[y] /\ y \in Before[z] => x \in Before[z]
  /\ \A x, y \in S : x = y \/ x \in Before[y] \/ y \in Before[x]

\* A list of all elements in their order.
Lists(list, S, Before) ==
  /\ list \in [1 .. Cardinality(S) -> S]
  /\ \A x \in S : \E i \in 1 .. Cardinality(S) : list[i] = x
  /\ \A i, j \in 1 .. Cardinality(S) : i < j <=> list[i] \in Before[list[j]]

\* The elements of a finite set at the places after those before them.
LEMMA RanksList ==
  ASSUME NEW S, IsFiniteSet(S), NEW Before \in [S -> SUBSET S], IsOrder(S, Before)
  PROVE  Lists(AntiFunction([x \in S |-> 1 + Cardinality(Before[x])]), S, Before)
<1> DEFINE n == Cardinality(S)
           place == [x \in S |-> 1 + Cardinality(Before[x])]
<1>1. n \in Nat /\ IsFiniteSet(1 .. n) /\ Cardinality(1 .. n) = n
  <2>1. n \in Nat
    BY FS_CardinalityType
  <2>2. IsFiniteSet(1 .. n) /\ Cardinality(1 .. n) = IF 1 > n THEN 0 ELSE n - 1 + 1
    BY <2>1, FS_Interval
  <2> HIDE DEF n
  <2> QED
    BY <2>1, <2>2
<1>2. \A x \in S : IsFiniteSet(Before[x]) /\ Cardinality(Before[x]) \in Nat
  <2> SUFFICES ASSUME NEW x \in S
               PROVE  IsFiniteSet(Before[x]) /\ Cardinality(Before[x]) \in Nat
    OBVIOUS
  <2>1. Before[x] \in SUBSET S
    OBVIOUS
  <2> QED
    BY <2>1, FS_Subset, FS_CardinalityType
<1>3. \A x \in S : Cardinality(Before[x]) < n
  <2> SUFFICES ASSUME NEW x \in S  PROVE Cardinality(Before[x]) < n
    OBVIOUS
  <2>1. Before[x] \in SUBSET S
    OBVIOUS
  <2>2. x \notin Before[x]
    BY DEF IsOrder
  <2>3. Cardinality(Before[x]) =< n /\ (n = Cardinality(Before[x]) => S = Before[x])
    BY <2>1, FS_Subset
  <2> HIDE DEF n
  <2> QED
    BY <2>2, <2>3, <1>1, <1>2
<1>4. \A left, right \in S : left \in Before[right] => place[left] < place[right]
  <2> SUFFICES ASSUME NEW left \in S, NEW right \in S, left \in Before[right]
               PROVE  place[left] < place[right]
    OBVIOUS
  <2>1. Before[left] \in SUBSET Before[right]
    <3> SUFFICES ASSUME NEW other \in S, other \in Before[left]  PROVE other \in Before[right]
      OBVIOUS
    <3> QED
      BY DEF IsOrder
  <2>2. left \in Before[right] /\ left \notin Before[left]
    BY DEF IsOrder
  <2>3. place[left] = 1 + Cardinality(Before[left]) /\ place[right] = 1 + Cardinality(Before[right])
    OBVIOUS
  <2> HIDE DEF place
  <2>4. /\ Cardinality(Before[left]) =< Cardinality(Before[right])
        /\ Cardinality(Before[right]) = Cardinality(Before[left]) => Before[right] = Before[left]
    BY <2>1, <1>2, FS_Subset
  <2> QED
    BY <2>2, <2>3, <2>4, <1>2
<1>5. place \in [S -> 1 .. n]
  <2> SUFFICES ASSUME NEW x \in S  PROVE 1 + Cardinality(Before[x]) \in 1 .. n
    OBVIOUS
  <2>1. Cardinality(Before[x]) \in Nat /\ Cardinality(Before[x]) < n
    BY <1>2, <1>3
  <2> HIDE DEF n
  <2> QED
    BY <2>1, <1>1
<1>6. \A left, right \in S : place[left] < place[right] => left \in Before[right]
  <2> SUFFICES ASSUME NEW left \in S, NEW right \in S, place[left] < place[right]
               PROVE  left \in Before[right]
    OBVIOUS
  <2> HIDE DEF place, n
  <2>1. place[left] \in Nat /\ place[right] \in Nat
    BY <1>5, <1>1
  <2> QED
    BY <2>1, <1>4 DEF IsOrder
<1>7. place \in Bijection(S, 1 .. n)
  <2> HIDE DEF place, n
  <2>1. \A left, right \in S : left # right => place[left] # place[right]
    <3> SUFFICES ASSUME NEW left \in S, NEW right \in S, left # right
                 PROVE  place[left] # place[right]
      OBVIOUS
    <3>1. place[left] \in Nat /\ place[right] \in Nat
      BY <1>5, <1>1
    <3>2. left \in Before[right] \/ right \in Before[left]
      BY DEF IsOrder
    <3> QED
      BY <3>1, <3>2, <1>4
  <2>2. place \in Injection(S, 1 .. n)
    BY <2>1, <1>5 DEF Injection, IsInjective
  <2>3. Cardinality(S) = Cardinality(1 .. n)
    BY <1>1 DEF n
  <2>4. place \in Surjection(S, 1 .. n)
    BY <2>2, <2>3, <1>1, FS_Injection
  <2> QED
    BY <2>2, <2>4 DEF Bijection
<1>8. Range(place) = 1 .. n
  <2> HIDE DEF place, n
  <2> QED
    BY <1>7, <1>5 DEF Range, Bijection, Surjection
<1>9. AntiFunction(place) = Inverse(place, S, 1 .. n)
  <2>1. DOMAIN place = S
    OBVIOUS
  <2> HIDE DEF place, n
  <2> QED
    BY <2>1, <1>8 DEF AntiFunction
<1> DEFINE listed == Inverse(place, S, 1 .. n)
<1>10. listed \in Bijection(1 .. n, S) /\ \A x \in S : listed[place[x]] = x
  <2> HIDE DEF place, n
  <2> QED
    BY <1>7, Fun_BijInverse
<1> HIDE DEF place, n, listed
<1>11. listed \in [1 .. n -> S] /\ \A x \in S : \E i \in 1 .. n : listed[i] = x
  BY <1>10 DEF Bijection, Injection, Surjection
<1>12. \A i \in 1 .. n : place[listed[i]] = i
  <2> SUFFICES ASSUME NEW i \in 1 .. n  PROVE place[listed[i]] = i
    OBVIOUS
  <2>1. PICK x \in S : place[x] = i
    BY <1>7 DEF Bijection, Surjection
  <2> QED
    BY <2>1, <1>10
<1>13. \A i, j \in 1 .. n : i < j <=> listed[i] \in Before[listed[j]]
  <2> SUFFICES ASSUME NEW i \in 1 .. n, NEW j \in 1 .. n
               PROVE  i < j <=> listed[i] \in Before[listed[j]]
    OBVIOUS
  <2>1. listed[i] \in S /\ listed[j] \in S /\ place[listed[i]] = i /\ place[listed[j]] = j
    BY <1>11, <1>12
  <2> QED
    BY <2>1, <1>4, <1>6
<1> QED
  BY <1>9, <1>11, <1>13 DEF n, listed, place, Lists

\* The elements of a sequence at the places of an order.
Arranged(seq, Before) ==
  LET places == AntiFunction([i \in DOMAIN Before |-> 1 + Cardinality(Before[i])])
  IN  [k \in DOMAIN places |-> seq[places[k]]]

\* A strict total order of a finite set, and what is at its places.
Orders(S, Before) == IsFiniteSet(S) /\ Before \in [S -> SUBSET S] /\ IsOrder(S, Before)

LEMMA ArrangedIs ==
  ASSUME NEW seq, NEW S, NEW Before, Orders(S, Before)
  PROVE  /\ DOMAIN Arranged(seq, Before) = 1 .. Cardinality(S)
         /\ Arranged(seq, Before) = [k \in 1 .. Cardinality(S) |-> Arranged(seq, Before)[k]]
         /\ ToSet(Arranged(seq, Before)) = {seq[i] : i \in S}
<1>0. IsFiniteSet(S) /\ Before \in [S -> SUBSET S] /\ IsOrder(S, Before)
  BY DEF Orders
<1>1. PICK places : places = AntiFunction([i \in S |-> 1 + Cardinality(Before[i])])
  OBVIOUS
<1>2. Lists(places, S, Before)
  BY <1>0, <1>1, RanksList
<1>3. DOMAIN Before = S /\ DOMAIN places = 1 .. Cardinality(S)
  BY <1>0, <1>2 DEF Lists
<1>4. Arranged(seq, Before) = [k \in 1 .. Cardinality(S) |-> seq[places[k]]]
  BY <1>1, <1>3 DEF Arranged
<1>5. ToSet(Arranged(seq, Before)) = {seq[i] : i \in S}
  <2>1. ToSet(Arranged(seq, Before)) = {seq[places[k]] : k \in 1 .. Cardinality(S)}
    BY <1>4 DEF ToSet
  <2>2. {places[k] : k \in 1 .. Cardinality(S)} = S
    BY <1>2 DEF Lists
  <2> QED
    BY <2>1, <2>2
<1> QED
  BY <1>4, <1>5

\* What passes a test, by the indices of what does.
LEMMA IndicesOrder ==
  ASSUME NEW n \in Nat, NEW S \in SUBSET (1 .. n), NEW Before, Before = [i \in S |-> {j \in S : j < i}]
  PROVE  Orders(S, Before)
<1>1. IsFiniteSet(1 .. n)
  BY FS_Interval
<1>2. IsFiniteSet(S)
  BY <1>1, FS_Subset
<1> QED
  BY <1>2 DEF Orders, IsOrder

LEMMA UptoIsFinite ==
  ASSUME NEW n \in Nat
  PROVE  IsFiniteSet(1 .. n) /\ Cardinality(1 .. n) = n
<1>1. IsFiniteSet(1 .. n) /\ Cardinality(1 .. n) = IF 1 > n THEN 0 ELSE n - 1 + 1
  BY FS_Interval
<1> QED
  BY <1>1

\* One sequence after another.
LEMMA ConcatSet ==
  ASSUME NEW S, NEW a \in Seq(S), NEW b, NEW m \in Nat, DOMAIN b = 1 .. m, b = [k \in 1 .. m |-> b[k]]
  PROVE  /\ ToSet(a \o b) = ToSet(a) \cup ToSet(b)
         /\ \E n \in Nat : n = Len(a) + m /\ DOMAIN (a \o b) = 1 .. n /\ Len(a \o b) = n
<1>1. PICK T : T = S \cup {b[k] : k \in 1 .. m}
  OBVIOUS
<1>2. a \in Seq(T)
  <2>1. S \subseteq T
    BY <1>1
  <2> QED
    BY <2>1
<1>3. b \in Seq(T)
  <2>1. \A k \in 1 .. m : b[k] \in T
    BY <1>1
  <2>2. [k \in 1 .. m |-> b[k]] \in Seq(T)
    BY <2>1
  <2> QED
    BY <2>2
<1>4. PICK all : all = a \o b
  OBVIOUS
<1>5. /\ all \in Seq(T) /\ Len(a) \in Nat /\ DOMAIN a = 1 .. Len(a) /\ Len(b) = m
      /\ DOMAIN all = 1 .. Len(a) + m
      /\ \A k \in 1 .. Len(a) : all[k] = a[k]
      /\ \A k \in 1 .. m : all[Len(a) + k] = b[k]
  BY <1>2, <1>3, <1>4
<1>6. \A k \in 1 .. Len(a) + m : k \in 1 .. Len(a) \/ \E j \in 1 .. m : k = Len(a) + j
  <2> SUFFICES ASSUME NEW k \in 1 .. Len(a) + m, k \notin 1 .. Len(a)
               PROVE  \E j \in 1 .. m : k = Len(a) + j
    OBVIOUS
  <2>1. k - Len(a) \in 1 .. m /\ k = Len(a) + (k - Len(a))
    BY <1>5
  <2> QED
    BY <2>1
<1>7. \A j \in 1 .. m : Len(a) + j \in 1 .. Len(a) + m
  BY <1>5
<1>8. \A k \in 1 .. Len(a) : k \in 1 .. Len(a) + m
  BY <1>5
<1>9. {all[k] : k \in 1 .. Len(a) + m} = {a[k] : k \in 1 .. Len(a)} \cup {b[k] : k \in 1 .. m}
  BY <1>5, <1>6, <1>7, <1>8
<1>10. ToSet(all) = {all[k] : k \in 1 .. Len(a) + m} /\ ToSet(b) = {b[k] : k \in 1 .. m}
  BY <1>5 DEF ToSet
<1>11. ToSet(a) = {a[k] : k \in 1 .. Len(a)}
  BY <1>5 DEF ToSet
<1>12. Len(a) + m \in Nat /\ Len(all) = Len(a) + m
  BY <1>5
<1> QED
  BY <1>4, <1>5, <1>9, <1>10, <1>11, <1>12

-----------------------------------------------------------------------------
(* Sums over finite sets *)

\* What holds of the empty set and of one element more holds of the whole set.
LEMMA OneByOne ==
  ASSUME NEW S, IsFiniteSet(S), NEW Good, {} \in Good,
         \A T \in SUBSET S : \A x \in S : T \in Good /\ x \notin T => T \cup {x} \in Good
  PROVE  S \in Good
<1> DEFINE Bad == {k \in Nat : \E T \in SUBSET S : T \notin Good /\ Cardinality(T) = k}
<1> SUFFICES ASSUME S \notin Good  PROVE FALSE
  OBVIOUS
<1>1. \A T \in SUBSET S : IsFiniteSet(T) /\ Cardinality(T) \in Nat
  BY FS_Subset, FS_CardinalityType
<1>2. Cardinality(S) \in Bad
  BY <1>1
<1>3. PICK k \in Bad : \A other \in Bad : k =< other
  <2>1. Bad \in SUBSET Nat /\ Bad # {}
    BY <1>2
  <2> HIDE DEF Bad
  <2> QED
    BY <2>1, LeastNatural
<1>4. PICK T \in SUBSET S : T \notin Good /\ Cardinality(T) = k
  OBVIOUS
<1>5. PICK x \in T : TRUE
  BY <1>4
<1>6. Cardinality(T \ {x}) = k - 1 /\ T \ {x} \in SUBSET S
  BY <1>1, <1>4, FS_RemoveElement
<1>7. T \ {x} \in Good
  <2>1. k - 1 \notin Bad /\ k - 1 \in Nat
    BY <1>1, <1>3, <1>6
  <2> QED
    BY <2>1, <1>6
<1>8. T = (T \ {x}) \cup {x}
  OBVIOUS
<1> QED
  BY <1>4, <1>6, <1>7, <1>8

\* g[T] is the sum of the weights of the elements of T.
IsSum(g, w, S) ==
  /\ g \in [SUBSET S -> Int]
  /\ g[{}] = 0
  /\ \A T \in SUBSET S : \A x \in T : g[T] = w[x] + g[T \ {x}]

SumOver(w, S) == (CHOOSE g : IsSum(g, w, S))[S]

\* Weights that can be summed up.
Weighs(w, S) == IsFiniteSet(S) /\ \A x \in S : w[x] \in Int

LEMMA SumExists ==
  ASSUME NEW w, NEW S, Weighs(w, S)
  PROVE  \E g : IsSum(g, w, S)
<1>1. PICK Good : Good = {T \in SUBSET S : \E g : IsSum(g, w, T)}
  OBVIOUS
<1>2. {} \in Good
  <2>1. IsSum([T \in SUBSET {} |-> 0], w, {})
    BY DEF IsSum
  <2> QED
    BY <1>1, <2>1
<1>3. ASSUME NEW T \in SUBSET S, NEW x \in S, T \in Good, x \notin T  PROVE T \cup {x} \in Good
  <2>1. PICK g : IsSum(g, w, T)
    BY <1>1, <1>3
  <2>2. PICK h : h = [U \in SUBSET (T \cup {x}) |-> IF x \in U THEN w[x] + g[U \ {x}] ELSE g[U]]
    OBVIOUS
  <2>3. w[x] \in Int /\ \A U \in SUBSET T : g[U] \in Int
    BY <2>1 DEF IsSum, Weighs
  <2>4. \A U \in SUBSET (T \cup {x}) : U \ {x} \in SUBSET T
    OBVIOUS
  <2>5. \A U \in SUBSET (T \cup {x}) : x \notin U => U \in SUBSET T
    OBVIOUS
  <2>6. h \in [SUBSET (T \cup {x}) -> Int]
    BY <2>2, <2>3, <2>4, <2>5
  <2>7. h[{}] = 0
    BY <2>1, <2>2 DEF IsSum
  <2>8. ASSUME NEW U \in SUBSET (T \cup {x}), NEW y \in U  PROVE h[U] = w[y] + h[U \ {y}]
    <3>1. CASE y = x
      <4>1. U \ {x} \in SUBSET (T \cup {x}) /\ x \notin U \ {x}
        OBVIOUS
      <4>2. h[U \ {x}] = g[U \ {x}]
        BY <2>2, <4>1
      <4> QED
        BY <2>2, <2>8, <3>1, <4>2
    <3>2. CASE y # x /\ x \in U
      <4>1. y \in U \ {x} /\ U \ {x} \in SUBSET T
        BY <2>8, <3>2
      <4>2. g[U \ {x}] = w[y] + g[(U \ {x}) \ {y}]
        BY <2>1, <4>1 DEF IsSum
      <4>3. (U \ {x}) \ {y} = (U \ {y}) \ {x} /\ x \in U \ {y} /\ U \ {y} \in SUBSET (T \cup {x})
        BY <3>2
      <4>4. h[U] = w[x] + g[U \ {x}] /\ h[U \ {y}] = w[x] + g[(U \ {y}) \ {x}]
        BY <2>2, <3>2, <4>3
      <4>5. w[y] \in Int /\ g[(U \ {y}) \ {x}] \in Int
        <5>1. (U \ {y}) \ {x} \in SUBSET T /\ y \in S
          BY <4>1, <4>3
        <5> QED
          BY <5>1, <2>3 DEF Weighs
      <4>6. h[U] = w[x] + (w[y] + g[(U \ {y}) \ {x}])
        BY <4>2, <4>3, <4>4
      <4> QED
        BY <2>3, <4>4, <4>5, <4>6
    <3>3. CASE x \notin U
      <4>1. U \in SUBSET T /\ x \notin U \ {y} /\ U \ {y} \in SUBSET (T \cup {x})
        BY <3>3
      <4>2. g[U] = w[y] + g[U \ {y}]
        BY <2>1, <2>8, <4>1 DEF IsSum
      <4> QED
        BY <2>2, <3>3, <4>1, <4>2
    <3> QED
      BY <3>1, <3>2, <3>3
  <2>9. IsSum(h, w, T \cup {x})
    BY <2>6, <2>7, <2>8 DEF IsSum
  <2> QED
    BY <1>1, <2>9
<1>4. S \in Good
  BY <1>2, <1>3, OneByOne DEF Weighs
<1> QED
  BY <1>1, <1>4

\* The sum over a set depends on the weights of its elements alone.
SumsUp(g, w, S, T) == IsSum(g, w, S) /\ T \in SUBSET S
Alike(w, v, T) == \A x \in T : w[x] = v[x]

LEMMA SumUnique ==
  ASSUME NEW w, NEW v, NEW S, NEW R, NEW T, NEW g, NEW h,
         IsFiniteSet(T), SumsUp(g, w, S, T), SumsUp(h, v, R, T), Alike(w, v, T)
  PROVE  g[T] = h[T]
<1>0. T \in SUBSET S /\ T \in SUBSET R /\ IsSum(g, w, S) /\ IsSum(h, v, R) /\ \A x \in T : w[x] = v[x]
  BY DEF SumsUp, Alike
<1>1. PICK Good : Good = {U \in SUBSET T : g[U] = h[U]}
  OBVIOUS
<1>2. {} \in Good
  BY <1>0, <1>1 DEF IsSum
<1>3. ASSUME NEW U \in SUBSET T, NEW x \in T, U \in Good, x \notin U  PROVE U \cup {x} \in Good
  <2>1. PICK V : V = U \cup {x}
    OBVIOUS
  <2>2. V \in SUBSET S /\ V \in SUBSET R /\ V \in SUBSET T /\ x \in V /\ V \ {x} = U
    BY <1>0, <1>3, <2>1
  <2>3. g[V] = w[x] + g[V \ {x}] /\ h[V] = v[x] + h[V \ {x}]
    BY <1>0, <2>2 DEF IsSum
  <2> QED
    BY <1>0, <1>1, <1>3, <2>1, <2>2, <2>3
<1>4. T \in Good
  BY <1>2, <1>3, OneByOne
<1> QED
  BY <1>1, <1>4

\* A function that sums up the subsets of a set gives the sum over each.
LEMMA SumOverIs ==
  ASSUME NEW w, NEW S, Weighs(w, S), NEW g, IsSum(g, w, S), NEW T \in SUBSET S
  PROVE  SumOver(w, T) = g[T]
<1>1. IsFiniteSet(T) /\ Weighs(w, T)
  BY FS_Subset DEF Weighs
<1>2. PICK h : h = CHOOSE other : IsSum(other, w, T)
  OBVIOUS
<1>3. IsSum(h, w, T)
  BY <1>1, <1>2, SumExists
<1>4. SumsUp(g, w, S, T) /\ SumsUp(h, w, T, T) /\ Alike(w, w, T)
  BY <1>3 DEF SumsUp, Alike
<1>5. g[T] = h[T]
  BY <1>1, <1>4, SumUnique
<1> QED
  BY <1>2, <1>5 DEF SumOver

LEMMA SumNone == ASSUME NEW w  PROVE SumOver(w, {}) = 0
<1>1. Weighs(w, {})
  BY FS_EmptySet DEF Weighs
<1>2. PICK g : IsSum(g, w, {})
  BY <1>1, SumExists
<1>3. SumOver(w, {}) = g[{}]
  BY <1>1, <1>2, SumOverIs
<1> QED
  BY <1>2, <1>3 DEF IsSum

LEMMA SumType ==
  ASSUME NEW w, NEW S, Weighs(w, S)
  PROVE  SumOver(w, S) \in Int
<1>1. PICK g : IsSum(g, w, S)
  BY SumExists
<1>2. SumOver(w, S) = g[S] /\ S \in SUBSET S
  BY <1>1, SumOverIs
<1> QED
  BY <1>1, <1>2 DEF IsSum

\* An element and the rest.
LEMMA SumTake ==
  ASSUME NEW w, NEW S, Weighs(w, S), NEW x \in S
  PROVE  SumOver(w, S) = w[x] + SumOver(w, S \ {x})
<1>1. PICK g : IsSum(g, w, S)
  BY SumExists
<1>2. S \in SUBSET S /\ S \ {x} \in SUBSET S
  OBVIOUS
<1>3. SumOver(w, S) = g[S] /\ SumOver(w, S \ {x}) = g[S \ {x}]
  BY <1>1, <1>2, SumOverIs
<1> QED
  BY <1>1, <1>2, <1>3 DEF IsSum

\* One element more.
LEMMA SumPut ==
  ASSUME NEW w, NEW S, Weighs(w, S), NEW x, x \notin S, w[x] \in Int
  PROVE  SumOver(w, S \cup {x}) = w[x] + SumOver(w, S)
<1>1. PICK T : T = S \cup {x}
  OBVIOUS
<1>2. Weighs(w, T) /\ x \in T /\ T \ {x} = S
  BY <1>1, FS_AddElement DEF Weighs
<1>3. SumOver(w, T) = w[x] + SumOver(w, T \ {x})
  BY <1>2, SumTake
<1> QED
  BY <1>1, <1>2, <1>3

LEMMA SumSame ==
  ASSUME NEW w, NEW v, NEW S, Weighs(w, S), \A x \in S : w[x] = v[x]
  PROVE  SumOver(w, S) = SumOver(v, S)
<1>1. Weighs(v, S)
  BY DEF Weighs
<1>2. PICK g : IsSum(g, w, S)
  BY SumExists
<1>3. PICK h : IsSum(h, v, S)
  BY <1>1, SumExists
<1>4. SumOver(w, S) = g[S] /\ SumOver(v, S) = h[S]
  BY <1>1, <1>2, <1>3, SumOverIs
<1>5. SumsUp(g, w, S, S) /\ SumsUp(h, v, S, S) /\ Alike(w, v, S)
  BY <1>2, <1>3 DEF SumsUp, Alike
<1>6. g[S] = h[S]
  BY <1>5, SumUnique DEF Weighs
<1> QED
  BY <1>4, <1>6

\* Two parts.
LEMMA SumParts ==
  ASSUME NEW w, NEW S, NEW R, Weighs(w, S \cup R), S \cap R = {}
  PROVE  SumOver(w, S \cup R) = SumOver(w, S) + SumOver(w, R)
<1>1. /\ IsFiniteSet(S) /\ IsFiniteSet(R)
      /\ \A T \in SUBSET R : Weighs(w, T) /\ Weighs(w, S \cup T) /\ SumOver(w, T) \in Int
      /\ Weighs(w, S) /\ SumOver(w, S) \in Int
  <2>1. S \in SUBSET (S \cup R) /\ R \in SUBSET (S \cup R)
    OBVIOUS
  <2>2. \A T \in SUBSET (S \cup R) : Weighs(w, T) /\ SumOver(w, T) \in Int
    BY FS_Subset, SumType DEF Weighs
  <2>3. \A T \in SUBSET R : T \in SUBSET (S \cup R) /\ S \cup T \in SUBSET (S \cup R)
    OBVIOUS
  <2> QED
    BY <2>1, <2>2, <2>3 DEF Weighs
<1>2. PICK Good : Good = {T \in SUBSET R : SumOver(w, S \cup T) = SumOver(w, S) + SumOver(w, T)}
  OBVIOUS
<1>3. {} \in Good
  <2>1. S \cup {} = S /\ {} \in SUBSET R
    OBVIOUS
  <2> QED
    BY <1>1, <1>2, <2>1, SumNone
<1>4. ASSUME NEW T \in SUBSET R, NEW x \in R, T \in Good, x \notin T  PROVE T \cup {x} \in Good
  <2>1. (S \cup T) \cup {x} = S \cup (T \cup {x}) /\ x \notin S \cup T /\ T \cup {x} \in SUBSET R
    BY <1>4
  <2>2. w[x] \in Int
    BY <1>1 DEF Weighs
  <2>3. SumOver(w, T \cup {x}) = w[x] + SumOver(w, T)
    BY <1>1, <1>4, <2>2, SumPut
  <2>4. SumOver(w, (S \cup T) \cup {x}) = w[x] + SumOver(w, S \cup T)
    BY <1>1, <2>1, <2>2, SumPut
  <2>5. SumOver(w, S \cup T) = SumOver(w, S) + SumOver(w, T)
    BY <1>2, <1>4
  <2>6. SumOver(w, S) \in Int /\ SumOver(w, T) \in Int
    BY <1>1
  <2>7. w[x] + (SumOver(w, S) + SumOver(w, T)) = SumOver(w, S) + (w[x] + SumOver(w, T))
    BY <2>2, <2>6
  <2> QED
    BY <1>2, <2>1, <2>3, <2>4, <2>5, <2>7
<1>5. R \in Good
  BY <1>1, <1>3, <1>4, OneByOne
<1> QED
  BY <1>2, <1>5

\* v gives every group the sum of the weights of its elements; f says to which they belong.
Groups(f, S, L, w, v) ==
  /\ \A x \in S : f[x] \in L
  /\ \A l \in L : v[l] = SumOver(w, {x \in S : f[x] = l})

\* The sum over the groups is the sum over all.
LEMMA SumFibres ==
  ASSUME NEW w, NEW S, Weighs(w, S), NEW f, NEW L, IsFiniteSet(L), NEW v, Groups(f, S, L, w, v)
  PROVE  SumOver(v, L) = SumOver(w, S)
<1>0. /\ \A x \in S : f[x] \in L
      /\ \A l \in L : v[l] = SumOver(w, {x \in S : f[x] = l})
  BY DEF Groups
<1>1. \A T \in SUBSET S : Weighs(w, T) /\ SumOver(w, T) \in Int
  BY FS_Subset, SumType DEF Weighs
<1>2. \A l \in L : {x \in S : f[x] = l} \in SUBSET S
  OBVIOUS
<1>3. Weighs(v, L)
  BY <1>0, <1>1, <1>2 DEF Weighs
<1>4. PICK Good : Good = {M \in SUBSET L : SumOver(v, M) = SumOver(w, {x \in S : f[x] \in M})}
  OBVIOUS
<1>5. {} \in Good
  <2>1. {x \in S : f[x] \in {}} = {}
    OBVIOUS
  <2> QED
    BY <1>4, <2>1, SumNone
<1>6. ASSUME NEW M \in SUBSET L, NEW l \in L, M \in Good, l \notin M  PROVE M \cup {l} \in Good
  <2>1. PICK A \in SUBSET S : A = {x \in S : f[x] \in M}
    OBVIOUS
  <2>2. PICK B \in SUBSET S : B = {x \in S : f[x] = l}
    OBVIOUS
  <2>3. A \cap B = {} /\ A \cup B = {x \in S : f[x] \in M \cup {l}} /\ A \cup B \in SUBSET S
    BY <1>6, <2>1, <2>2
  <2>4. SumOver(w, A \cup B) = SumOver(w, A) + SumOver(w, B)
    BY <1>1, <2>3, SumParts
  <2>5. Weighs(v, M) /\ v[l] \in Int
    BY <1>3, FS_Subset DEF Weighs
  <2>6. SumOver(v, M \cup {l}) = v[l] + SumOver(v, M)
    BY <1>6, <2>5, SumPut
  <2>7. v[l] = SumOver(w, B) /\ SumOver(v, M) = SumOver(w, A)
    BY <1>0, <1>4, <1>6, <2>1, <2>2
  <2>8. SumOver(w, A) \in Int /\ SumOver(w, B) \in Int
    BY <1>1
  <2>9. SumOver(w, A) + SumOver(w, B) = SumOver(w, B) + SumOver(w, A)
    BY <2>8
  <2> QED
    BY <1>4, <2>3, <2>4, <2>6, <2>7, <2>9
<1>7. L \in Good
  BY <1>5, <1>6, OneByOne
<1>8. {x \in S : f[x] \in L} = S
  BY <1>0
<1> QED
  BY <1>4, <1>7, <1>8

\* f gives every element of T the weight of one of S, and no two of them the same.
Renames(f, S, T, w, v) ==
  /\ \A x \in S : f[x] \in T /\ v[f[x]] = w[x]
  /\ \A y \in T : \E x \in S : f[x] = y
  /\ \A x, y \in S : f[x] = f[y] => x = y

\* The same elements under other names.
LEMMA SumRenamed ==
  ASSUME NEW w, NEW S, Weighs(w, S), NEW T, IsFiniteSet(T), NEW f, NEW v, Renames(f, S, T, w, v)
  PROVE  SumOver(v, T) = SumOver(w, S)
<1>0. /\ \A x \in S : f[x] \in T /\ v[f[x]] = w[x]
      /\ \A y \in T : \E x \in S : f[x] = y
      /\ \A x, y \in S : f[x] = f[y] => x = y
  BY DEF Renames
<1>1. ASSUME NEW y \in T  PROVE v[y] = SumOver(w, {x \in S : f[x] = y})
  <2>1. PICK x \in S : f[x] = y
    BY <1>0
  <2>2. {z \in S : f[z] = y} = {x}
    BY <1>0, <2>1
  <2>3. Weighs(w, {x}) /\ w[x] \in Int /\ x \in {x} /\ {x} \ {x} = {}
    BY FS_Singleton DEF Weighs
  <2>4. SumOver(w, {x}) = w[x] + SumOver(w, {x} \ {x})
    BY <2>3, SumTake
  <2>5. SumOver(w, {x}) = w[x]
    BY <2>3, <2>4, SumNone
  <2> QED
    BY <1>0, <2>1, <2>2, <2>5
<1>2. Groups(f, S, T, w, v)
  BY <1>0, <1>1 DEF Groups
<1> QED
  BY <1>2, SumFibres

\* The greater the weights, the greater the sum.
LEMMA SumOrder ==
  ASSUME NEW w, NEW v, NEW S, Weighs(w, S), Weighs(v, S), \A x \in S : w[x] =< v[x]
  PROVE  SumOver(w, S) =< SumOver(v, S)
<1>1. \A T \in SUBSET S : /\ Weighs(w, T) /\ SumOver(w, T) \in Int
                          /\ Weighs(v, T) /\ SumOver(v, T) \in Int
  BY FS_Subset, SumType DEF Weighs
<1>2. PICK Good : Good = {T \in SUBSET S : SumOver(w, T) =< SumOver(v, T)}
  OBVIOUS
<1>3. {} \in Good
  BY <1>2, SumNone
<1>4. ASSUME NEW T \in SUBSET S, NEW x \in S, T \in Good, x \notin T  PROVE T \cup {x} \in Good
  <2>1. w[x] \in Int /\ v[x] \in Int /\ w[x] =< v[x]
    BY DEF Weighs
  <2>2. SumOver(w, T \cup {x}) = w[x] + SumOver(w, T) /\ SumOver(v, T \cup {x}) = v[x] + SumOver(v, T)
    BY <1>1, <1>4, <2>1, SumPut
  <2>3. SumOver(w, T) \in Int /\ SumOver(v, T) \in Int /\ SumOver(w, T) =< SumOver(v, T)
    BY <1>1, <1>2, <1>4
  <2>4. w[x] + SumOver(w, T) =< v[x] + SumOver(v, T)
    BY <2>1, <2>3
  <2> QED
    BY <1>2, <2>2, <2>4
<1>5. S \in Good
  BY <1>3, <1>4, OneByOne DEF Weighs
<1> QED
  BY <1>2, <1>5

\* A part of what weighs nothing less than zero.
LEMMA SumPart ==
  ASSUME NEW w, NEW S, Weighs(w, S), \A x \in S : w[x] >= 0, NEW T \in SUBSET S
  PROVE  0 =< SumOver(w, T) /\ SumOver(w, T) =< SumOver(w, S)
<1>1. ASSUME NEW U \in SUBSET S  PROVE SumOver(w, U) \in Int /\ 0 =< SumOver(w, U)
  <2>1. Weighs(w, U)
    BY FS_Subset DEF Weighs
  <2>2. PICK Good : Good = {V \in SUBSET U : 0 =< SumOver(w, V)}
    OBVIOUS
  <2>3. {} \in Good
    BY <2>2, SumNone
  <2>4. ASSUME NEW V \in SUBSET U, NEW x \in U, V \in Good, x \notin V  PROVE V \cup {x} \in Good
    <3>1. Weighs(w, V) /\ w[x] \in Int /\ w[x] >= 0
      BY <2>1, FS_Subset DEF Weighs
    <3>2. SumOver(w, V \cup {x}) = w[x] + SumOver(w, V) /\ SumOver(w, V) \in Int
      BY <2>4, <3>1, SumPut, SumType
    <3>3. 0 =< SumOver(w, V)
      BY <2>2, <2>4
    <3>4. 0 =< w[x] + SumOver(w, V)
      BY <3>1, <3>2, <3>3
    <3> QED
      BY <2>2, <3>2, <3>4
  <2>5. U \in Good
    BY <2>1, <2>3, <2>4, OneByOne DEF Weighs
  <2> QED
    BY <2>1, <2>2, <2>5, SumType
<1>2. T \cup (S \ T) = S /\ T \cap (S \ T) = {} /\ S \ T \in SUBSET S
  OBVIOUS
<1>3. SumOver(w, T \cup (S \ T)) = SumOver(w, T) + SumOver(w, S \ T)
  BY <1>2, SumParts
<1>4. SumOver(w, S) = SumOver(w, T) + SumOver(w, S \ T)
  BY <1>2, <1>3
<1> QED
  BY <1>1, <1>2, <1>4

\* Every element counts once.
LEMMA SumOfOnes ==
  ASSUME NEW w, NEW S, IsFiniteSet(S), \A x \in S : w[x] = 1
  PROVE  SumOver(w, S) = Cardinality(S)
<1>1. \A T \in SUBSET S : Weighs(w, T) /\ IsFiniteSet(T)
  BY FS_Subset DEF Weighs
<1>2. PICK Good : Good = {T \in SUBSET S : SumOver(w, T) = Cardinality(T)}
  OBVIOUS
<1>3. {} \in Good
  BY <1>2, SumNone, FS_EmptySet
<1>4. ASSUME NEW T \in SUBSET S, NEW x \in S, T \in Good, x \notin T  PROVE T \cup {x} \in Good
  <2>1. SumOver(w, T \cup {x}) = 1 + SumOver(w, T)
    BY <1>1, <1>4, SumPut
  <2>2. Cardinality(T \cup {x}) = Cardinality(T) + 1 /\ Cardinality(T) \in Nat
    BY <1>1, <1>4, FS_AddElement, FS_CardinalityType
  <2> QED
    BY <1>2, <1>4, <2>1, <2>2
<1>5. S \in Good
  BY <1>3, <1>4, OneByOne
<1> QED
  BY <1>2, <1>5

\* Differences add up to the difference.
LEMMA SumDifference ==
  ASSUME NEW w, NEW v, NEW d, NEW S, Weighs(w, S), Weighs(v, S), \A x \in S : d[x] = w[x] - v[x]
  PROVE  SumOver(d, S) = SumOver(w, S) - SumOver(v, S)
<1>1. \A T \in SUBSET S : /\ Weighs(w, T) /\ SumOver(w, T) \in Int
                          /\ Weighs(v, T) /\ SumOver(v, T) \in Int
                          /\ Weighs(d, T) /\ SumOver(d, T) \in Int
  BY FS_Subset, SumType DEF Weighs
<1>2. PICK Good : Good = {T \in SUBSET S : SumOver(d, T) = SumOver(w, T) - SumOver(v, T)}
  OBVIOUS
<1>3. {} \in Good
  BY <1>2, SumNone
<1>4. ASSUME NEW T \in SUBSET S, NEW x \in S, T \in Good, x \notin T  PROVE T \cup {x} \in Good
  <2>1. w[x] \in Int /\ v[x] \in Int /\ d[x] = w[x] - v[x] /\ d[x] \in Int
    BY DEF Weighs
  <2>2. /\ SumOver(w, T \cup {x}) = w[x] + SumOver(w, T)
        /\ SumOver(v, T \cup {x}) = v[x] + SumOver(v, T)
        /\ SumOver(d, T \cup {x}) = d[x] + SumOver(d, T)
    BY <1>1, <1>4, <2>1, SumPut
  <2>3. /\ SumOver(w, T) \in Int /\ SumOver(v, T) \in Int
        /\ SumOver(d, T) = SumOver(w, T) - SumOver(v, T)
    BY <1>1, <1>2, <1>4
  <2>4. d[x] + SumOver(d, T) = (w[x] + SumOver(w, T)) - (v[x] + SumOver(v, T))
    BY <2>1, <2>3
  <2> QED
    BY <1>2, <2>2, <2>4
<1>5. S \in Good
  BY <1>3, <1>4, OneByOne DEF Weighs
<1> QED
  BY <1>2, <1>5

\* Nothing adds up to nothing.
LEMMA SumOfZeros ==
  ASSUME NEW w, NEW S, IsFiniteSet(S), \A x \in S : w[x] = 0
  PROVE  SumOver(w, S) = 0
<1>1. Weighs(w, S)
  BY DEF Weighs
<1>2. SumOver(w, S) = SumOver(w, S) - SumOver(w, S)
  BY <1>1, SumDifference
<1>3. SumOver(w, S) \in Int
  BY <1>1, SumType
<1> QED
  BY <1>2, <1>3

\* One weight that is less makes the sum less.
LEMMA SumLess ==
  ASSUME NEW w, NEW v, NEW S, Weighs(w, S), Weighs(v, S), \A x \in S : w[x] =< v[x],
         NEW y \in S, w[y] < v[y]
  PROVE  SumOver(w, S) < SumOver(v, S)
<1>1. Weighs(w, S \ {y}) /\ Weighs(v, S \ {y}) /\ w[y] \in Int /\ v[y] \in Int
  BY FS_Subset DEF Weighs
<1>2. SumOver(w, S \ {y}) =< SumOver(v, S \ {y})
  BY <1>1, SumOrder
<1>3. SumOver(w, S \ {y}) \in Int /\ SumOver(v, S \ {y}) \in Int
  BY <1>1, SumType
<1>4. SumOver(w, S) = w[y] + SumOver(w, S \ {y}) /\ SumOver(v, S) = v[y] + SumOver(v, S \ {y})
  BY SumTake
<1> QED
  BY <1>1, <1>2, <1>3, <1>4

\* Weights that are not negative and sum up to nothing are nothing.
LEMMA ZeroSum ==
  ASSUME NEW w, NEW S, Weighs(w, S), \A x \in S : w[x] >= 0, SumOver(w, S) = 0, NEW y \in S
  PROVE  w[y] = 0
<1>1. PICK T \in SUBSET S : T = {y}
  OBVIOUS
<1>2. SumOver(w, T) =< SumOver(w, S)
  BY <1>1, SumPart
<1>3. w[y] \in Int /\ Weighs(w, T) /\ y \in T
  BY <1>1, FS_Subset DEF Weighs
<1>4. SumOver(w, T) = w[y] + SumOver(w, T \ {y})
  BY <1>3, SumTake
<1>5. T \ {y} = {}
  BY <1>1
<1>6. SumOver(w, T \ {y}) = 0
  BY <1>5, SumNone
<1>7. w[y] >= 0
  OBVIOUS
<1> QED
  BY <1>2, <1>3, <1>4, <1>6, <1>7

\* A finite set of natural numbers has a greatest and a least one.
LEMMA Extremes ==
  ASSUME NEW S \in SUBSET Nat, IsFiniteSet(S), S # {}
  PROVE  /\ Max(S) \in S /\ \A m \in S : m =< Max(S)
         /\ Min(S) \in S /\ \A m \in S : Min(S) =< m
<1>1. PICK Good : Good = {T \in SUBSET S : T = {} \/ \E n \in T : \A m \in T : m =< n}
  OBVIOUS
<1>2. {} \in Good
  BY <1>1
<1>3. ASSUME NEW T \in SUBSET S, NEW x \in S, T \in Good, x \notin T  PROVE T \cup {x} \in Good
  <2>1. CASE T = {}
    BY <1>1, <2>1
  <2>2. CASE T # {}
    <3>1. PICK n \in T : \A m \in T : m =< n
      BY <1>1, <1>3, <2>2
    <3>2. CASE n =< x
      <4>1. \A m \in T \cup {x} : m =< x
        BY <3>1, <3>2
      <4> QED
        BY <4>1, <1>1
    <3>3. CASE x =< n
      <4>1. \A m \in T \cup {x} : m =< n
        BY <3>1, <3>3
      <4> QED
        BY <4>1, <1>1
    <3> QED
      BY <3>2, <3>3
  <2> QED
    BY <2>1, <2>2
<1>4. S \in Good
  BY <1>2, <1>3, OneByOne
<1>5. PICK n \in S : \A m \in S : m =< n
  BY <1>1, <1>4
<1>6. PICK k \in S : \A m \in S : k =< m
  BY LeastNatural
<1>7. Max(S) = n
  BY <1>5, MaxIs
<1>8. Min(S) = k
  <2>1. \A m \in S : (\A l \in S : m =< l) => m = k
    BY <1>6, SMT
  <2> QED
    BY <2>1, <1>6 DEF Min
<1> QED
  BY <1>5, <1>6, <1>7, <1>8

\* v is w on the part T of S and nothing on the rest.
CountsPart(v, w, S, T) == T \subseteq S /\ \A x \in S : v[x] = IF x \in T THEN w[x] ELSE 0

\* The sum over a part is the sum over the whole of what counts the part alone.
LEMMA SumOfPart ==
  ASSUME NEW w, NEW S, Weighs(w, S), NEW T, NEW v, CountsPart(v, w, S, T)
  PROVE  SumOver(v, S) = SumOver(w, T)
<1>0. T \subseteq S /\ \A x \in S : v[x] = IF x \in T THEN w[x] ELSE 0
  BY DEF CountsPart
<1>1. PICK R \in SUBSET S : R = S \ T
  OBVIOUS
<1>2. T \cup R = S /\ T \cap R = {}
  BY <1>0, <1>1
<1>3. Weighs(v, T \cup R) /\ Weighs(w, T) /\ IsFiniteSet(R)
  BY <1>0, <1>2, FS_Subset DEF Weighs
<1>4. SumOver(v, S) = SumOver(v, T) + SumOver(v, R)
  BY <1>2, <1>3, SumParts
<1>5. SumOver(v, R) = 0
  BY <1>0, <1>1, <1>3, SumOfZeros
<1>6. SumOver(w, T) = SumOver(v, T)
  BY <1>0, <1>3, SumSame
<1>7. SumOver(w, T) \in Int
  BY <1>3, SumType
<1> QED
  BY <1>4, <1>5, <1>6, <1>7

-----------------------------------------------------------------------------
(* Total and Sum *)

\* What holds of no numbers, and of some whenever it holds of all but the greatest.
LEMMA GreatestLast ==
  ASSUME NEW n \in Nat, NEW Good, {} \in Good,
         \A T \in SUBSET (1 .. n) : T # {} /\ T \ {Max(T)} \in Good => T \in Good
  PROVE  \A T \in SUBSET (1 .. n) : T \in Good
<1> DEFINE Bad == {k \in Nat : \E T \in SUBSET (1 .. n) : T \notin Good /\ Cardinality(T) = k}
<1> SUFFICES ASSUME NEW S \in SUBSET (1 .. n), S \notin Good  PROVE FALSE
  OBVIOUS
<1>1. \A T \in SUBSET (1 .. n) : IsFiniteSet(T) /\ Cardinality(T) \in Nat
  BY UptoIsFinite, FS_Subset, FS_CardinalityType
<1>2. Cardinality(S) \in Bad
  BY <1>1
<1>3. PICK k \in Bad : \A other \in Bad : k =< other
  <2>1. Bad \in SUBSET Nat /\ Bad # {}
    BY <1>2
  <2> HIDE DEF Bad
  <2> QED
    BY <2>1, LeastNatural
<1>4. PICK T \in SUBSET (1 .. n) : T \notin Good /\ Cardinality(T) = k
  OBVIOUS
<1>5. PICK m : m = Max(T)
  OBVIOUS
<1>6. T # {} /\ m \in T
  BY <1>4, <1>5, GreatestNatural
<1>7. Cardinality(T \ {m}) = k - 1 /\ T \ {m} \in SUBSET (1 .. n)
  BY <1>1, <1>4, <1>6, FS_RemoveElement
<1>8. T \ {m} \in Good
  <2>1. k - 1 \notin Bad /\ k - 1 \in Nat
    BY <1>1, <1>3, <1>7
  <2> QED
    BY <2>1, <1>7
<1> QED
  BY <1>4, <1>5, <1>6, <1>8

\* g[T] is the sum that FoldLeft makes of the numbers at the places T.
Adds(g, numbers, n) ==
  g = [T \in SUBSET (1 .. n) |-> IF T = {} THEN 0 ELSE g[T \ {Max(T)}] + numbers[Max(T)]]

LEMMA AddsAt ==
  ASSUME NEW g, NEW numbers, NEW n, Adds(g, numbers, n), NEW T \in SUBSET (1 .. n)
  PROVE  g[T] = IF T = {} THEN 0 ELSE g[T \ {Max(T)}] + numbers[Max(T)]
BY DEF Adds

LEMMA TotalIs ==
  ASSUME NEW n \in Nat, NEW numbers, DOMAIN numbers = 1 .. n, Weighs(numbers, 1 .. n)
  PROVE  Total(numbers) = SumOver(numbers, 1 .. n)
<1>1. \A T \in SUBSET (1 .. n) : Weighs(numbers, T) /\ SumOver(numbers, T) \in Int
  BY FS_Subset, SumType DEF Weighs
<1>2. ASSUME NEW T \in SUBSET (1 .. n), T # {}
      PROVE  /\ Max(T) \in T /\ T \ {Max(T)} \in SUBSET (1 .. n)
             /\ SumOver(numbers, T) = SumOver(numbers, T \ {Max(T)}) + numbers[Max(T)]
  <2>1. PICK m : m = Max(T)
    OBVIOUS
  <2>2. m \in T /\ T \ {m} \in SUBSET (1 .. n)
    BY <1>2, <2>1, GreatestNatural
  <2>3. SumOver(numbers, T) = numbers[m] + SumOver(numbers, T \ {m})
    BY <1>1, <2>2, SumTake
  <2>4. numbers[m] \in Int /\ SumOver(numbers, T \ {m}) \in Int
    BY <1>1, <2>2 DEF Weighs
  <2> QED
    BY <2>1, <2>2, <2>3, <2>4
<1>3. \E g : Adds(g, numbers, n)
  <2>1. PICK h : h = [T \in SUBSET (1 .. n) |-> SumOver(numbers, T)]
    OBVIOUS
  <2>2. \A T \in SUBSET (1 .. n) : h[T] = IF T = {} THEN 0 ELSE h[T \ {Max(T)}] + numbers[Max(T)]
    BY <1>2, <2>1, SumNone
  <2>3. h = [T \in SUBSET (1 .. n) |-> h[T]]
    BY <2>1
  <2>4. Adds(h, numbers, n)
    BY <2>2, <2>3 DEF Adds
  <2> QED
    BY <2>4
<1>4. PICK g : g = CHOOSE other : Adds(other, numbers, n)
  OBVIOUS
<1>5. Adds(g, numbers, n)
  BY <1>3, <1>4
<1>6. Total(numbers) = g[1 .. n]
  BY <1>4 DEF Total, FoldLeft, MapThenFoldSet, Adds
<1>7. PICK Good : Good = {T \in SUBSET (1 .. n) : g[T] = SumOver(numbers, T)}
  OBVIOUS
<1>8. {} \in Good
  <2>1. {} \in SUBSET (1 .. n)
    OBVIOUS
  <2> QED
    BY <1>5, <1>7, <2>1, AddsAt, SumNone
<1>9. ASSUME NEW T \in SUBSET (1 .. n), T # {}, T \ {Max(T)} \in Good  PROVE T \in Good
  <2>1. g[T] = g[T \ {Max(T)}] + numbers[Max(T)]
    <3>1. g[T] = IF T = {} THEN 0 ELSE g[T \ {Max(T)}] + numbers[Max(T)]
      BY <1>5 DEF Adds
    <3> QED
      BY <1>9, <3>1
  <2> QED
    BY <1>2, <1>7, <1>9, <2>1
<1>10. 1 .. n \in Good
  BY <1>8, <1>9, GreatestLast
<1> QED
  BY <1>6, <1>7, <1>10

-----------------------------------------------------------------------------
(* Sums over what is arranged *)

LEMMA ListsOnce ==
  ASSUME NEW S, NEW Before, Orders(S, Before), NEW list, Lists(list, S, Before),
         NEW i \in 1 .. Cardinality(S), NEW j \in 1 .. Cardinality(S), list[i] = list[j]
  PROVE  i = j
<1>1. Cardinality(S) \in Nat
  BY FS_CardinalityType DEF Orders
<1>2. list[i] \in S /\ list[i] \notin Before[list[i]]
  BY DEF Lists, Orders, IsOrder
<1>3. ~(i < j) /\ ~(j < i)
  BY <1>2 DEF Lists
<1> QED
  BY <1>1, <1>3

LEMMA ListedSum ==
  ASSUME NEW S, NEW Before, Orders(S, Before), NEW list, Lists(list, S, Before),
         NEW w, Weighs(w, S), NEW v, \A k \in 1 .. Cardinality(S) : v[k] = w[list[k]]
  PROVE  Weighs(v, 1 .. Cardinality(S)) /\ SumOver(v, 1 .. Cardinality(S)) = SumOver(w, S)
<1>1. PICK n \in Nat : n = Cardinality(S)
  BY FS_CardinalityType DEF Orders
<1>2. IsFiniteSet(1 .. n) /\ IsFiniteSet(S)
  BY UptoIsFinite DEF Orders
<1>3. /\ \A k \in 1 .. n : list[k] \in S
      /\ \A x \in S : \E k \in 1 .. n : list[k] = x
  BY <1>1 DEF Lists
<1>4. \A i, j \in 1 .. n : list[i] = list[j] => i = j
  BY <1>1, ListsOnce
<1>5. Weighs(v, 1 .. n)
  BY <1>1, <1>2, <1>3 DEF Weighs
<1>6. \A k \in 1 .. n : w[list[k]] = v[k]
  BY <1>1
<1>7. SumOver(w, S) = SumOver(v, 1 .. n)
  <2>1. Renames(list, 1 .. n, S, v, w)
    BY <1>3, <1>4, <1>6 DEF Renames
  <2> QED
    BY <1>2, <1>5, <2>1, SumRenamed
<1> QED
  BY <1>1, <1>5, <1>7

\* What is arranged is listed by the places.
ListedBy(part, seq, S, Before) ==
  \E places : Lists(places, S, Before) /\ part = [k \in 1 .. Cardinality(S) |-> seq[places[k]]]

LEMMA ArrangedBy ==
  ASSUME NEW seq, NEW S, NEW Before, Orders(S, Before)
  PROVE  ListedBy(Arranged(seq, Before), seq, S, Before)
<1>0. IsFiniteSet(S) /\ Before \in [S -> SUBSET S] /\ IsOrder(S, Before)
  BY DEF Orders
<1>1. PICK places : places = AntiFunction([i \in S |-> 1 + Cardinality(Before[i])])
  OBVIOUS
<1>2. Lists(places, S, Before)
  BY <1>0, <1>1, RanksList
<1>3. DOMAIN Before = S /\ DOMAIN places = 1 .. Cardinality(S)
  BY <1>0, <1>2 DEF Lists
<1>4. Arranged(seq, Before) = [k \in 1 .. Cardinality(S) |-> seq[places[k]]]
  BY <1>1, <1>3 DEF Arranged
<1> QED
  BY <1>2, <1>4 DEF ListedBy

\* A permutation of places.
Permutes(places, n) ==
  /\ \A k \in 1 .. n : places[k] \in 1 .. n
  /\ \A i \in 1 .. n : \E k \in 1 .. n : places[k] = i
  /\ \A i, j \in 1 .. n : places[i] = places[j] => i = j

\* What is arranged has the same elements, as often, in the order.
ArrangedAs(list, seq, n, places, Before) ==
  /\ Permutes(places, n) /\ list = [k \in 1 .. n |-> seq[places[k]]]
  /\ \A i, j \in 1 .. n : i < j <=> places[i] \in Before[places[j]]

LEMMA AllArranged ==
  ASSUME NEW n \in Nat, NEW seq, NEW Before, Orders(1 .. n, Before),
         NEW list, list = Arranged(seq, Before)
  PROVE  \E places : ArrangedAs(list, seq, n, places, Before)
<1>1. PICK S : S = 1 .. n
  OBVIOUS
<1>2. Orders(S, Before) /\ Cardinality(S) = n
  BY <1>1, UptoIsFinite
<1>3. PICK places : /\ Lists(places, S, Before)
                    /\ list = [k \in 1 .. Cardinality(S) |-> seq[places[k]]]
  <2>1. ListedBy(list, seq, S, Before)
    BY <1>2, ArrangedBy
  <2> QED
    BY <2>1 DEF ListedBy
<1>4. \A i, j \in 1 .. n : places[i] = places[j] => i = j
  BY <1>2, <1>3, ListsOnce
<1>5. /\ \A k \in 1 .. n : places[k] \in 1 .. n
      /\ \A i \in 1 .. n : \E k \in 1 .. n : places[k] = i
      /\ \A i, j \in 1 .. n : i < j <=> places[i] \in Before[places[j]]
  BY <1>1, <1>2, <1>3 DEF Lists
<1>6. list = [k \in 1 .. n |-> seq[places[k]]]
  BY <1>2, <1>3
<1> QED
  BY <1>4, <1>5, <1>6 DEF ArrangedAs, Permutes

LEMMA SameElements ==
  ASSUME NEW n \in Nat, NEW seq, DOMAIN seq = 1 .. n, NEW list, NEW places, NEW Before,
         ArrangedAs(list, seq, n, places, Before)
  PROVE  /\ DOMAIN list = 1 .. n /\ Len(list) = n
         /\ ToSet(list) = ToSet(seq)
<1>1. /\ \A k \in 1 .. n : places[k] \in 1 .. n
      /\ \A i \in 1 .. n : \E k \in 1 .. n : places[k] = i
      /\ list = [k \in 1 .. n |-> seq[places[k]]]
  BY DEF ArrangedAs, Permutes
<1>2. ToSet(list) = {seq[places[k]] : k \in 1 .. n}
  BY <1>1 DEF ToSet
<1>3. ToSet(seq) = {seq[i] : i \in 1 .. n}
  BY DEF ToSet
<1> QED
  BY <1>1, <1>2, <1>3

\* A sequence has its own elements and those of what is appended to it.
LEMMA ConcatElements ==
  ASSUME NEW T, NEW a \in Seq(T), NEW b \in Seq(T)
  PROVE  ToSet(a \o b) = ToSet(a) \cup ToSet(b)
<1>1. PICK m \in Nat : DOMAIN b = 1 .. m /\ b = [k \in 1 .. m |-> b[k]]
  OBVIOUS
<1> QED
  BY <1>1, ConcatSet

\* What is flattened has the elements of each of the sequences.
LEMMA FlattenSeqHas ==
  ASSUME NEW S, NEW seqs \in Seq(Seq(S)), NEW k \in 1 .. Len(seqs)
  PROVE  ToSet(seqs[k]) \subseteq ToSet(FlattenSeq(seqs))
<1>1. PICK n \in Nat : n = Len(seqs) /\ k \in 1 .. n
  OBVIOUS
<1>2. PICK T : T = Seq(S)
  OBVIOUS
<1>3. seqs \in Seq(T) /\ seqs # <<>>
  BY <1>1, <1>2
<1>4. PICK g : Flattens(g, seqs, n) /\ FlattenSeq(seqs) = g[n]
  BY <1>1, <1>3, FlattenSeqIs
<1>5. \A i \in 1 .. n : seqs[i] \in Seq(S)
  BY <1>1
<1>6. \A i \in 1 .. n : g[i] \in Seq(S)
  BY <1>4, <1>5, FlattensType
<1>7. \A i \in 1 .. n : g[i] = IF i = 1 THEN seqs[i] ELSE g[i - 1] \o seqs[i]
  BY <1>4, FlattensAt
<1> DEFINE Without == {i \in k .. n : ~ (ToSet(seqs[k]) \subseteq ToSet(g[i]))}
<1>8. ASSUME Without # {}  PROVE FALSE
  <2>1. PICK i \in Without : \A j \in Without : i =< j
    <3>1. Without \in SUBSET Nat
      OBVIOUS
    <3> HIDE DEF Without
    <3> QED
      BY <1>8, <3>1, LeastNatural
  <2>2. i \in 1 .. n /\ k =< i /\ ~ (ToSet(seqs[k]) \subseteq ToSet(g[i]))
    BY <1>1
  <2>3. i # 1
    <3>1. i = 1 => k = 1
      BY <2>2
    <3> QED
      BY <1>7, <2>2, <3>1
  <2>4. i - 1 \in 1 .. n /\ g[i] = g[i - 1] \o seqs[i]
    <3>1. g[i] = g[i - 1] \o seqs[i]
      BY <1>7, <2>2, <2>3
    <3>2. i - 1 \in 1 .. n
      BY <2>2, <2>3
    <3> QED
      BY <3>1, <3>2
  <2>5. ToSet(g[i]) = ToSet(g[i - 1]) \cup ToSet(seqs[i])
    BY <1>5, <1>6, <2>2, <2>4, ConcatElements
  <2>6. i # k
    BY <2>2, <2>5
  <2>7. i - 1 \in k .. n /\ i - 1 \notin Without
    BY <2>1, <2>2, <2>6
  <2>8. ToSet(seqs[k]) \subseteq ToSet(g[i - 1])
    BY <2>7
  <2> QED
    BY <2>2, <2>5, <2>8
<1>9. n \in k .. n
  BY <1>1
<1>10. n \notin Without
  BY <1>8
<1> QED
  BY <1>4, <1>9, <1>10

-----------------------------------------------------------------------------
(* Shares *)

\* As many elements, one for each.
Corresponds(f, S, T) ==
  /\ \A x \in S : f[x] \in T
  /\ \A y \in T : \E x \in S : f[x] = y
  /\ \A x, y \in S : f[x] = f[y] => x = y

LEMMA SameCount ==
  ASSUME NEW S, IsFiniteSet(S), NEW T, NEW f, Corresponds(f, S, T)
  PROVE  IsFiniteSet(T) /\ Cardinality(T) = Cardinality(S)
<1>1. PICK g : g = [x \in S |-> f[x]]
  OBVIOUS
<1>2. g \in [S -> T] /\ (\A y \in T : \E x \in S : g[x] = y) /\ \A x, y \in S : g[x] = g[y] => x = y
  BY <1>1 DEF Corresponds
<1>3. g \in Bijection(S, T)
  BY <1>2 DEF Bijection, Injection, Surjection, IsInjective
<1> QED
  BY <1>3, FS_Bijection DEF ExistsBijection

\* Of an order as many elements come with fewer than k before them.
LEMMA FirstRanked ==
  ASSUME NEW S, NEW Before, Orders(S, Before), NEW k \in Nat, k =< Cardinality(S)
  PROVE  Cardinality({x \in S : Cardinality(Before[x]) < k}) = k
<1>1. IsFiniteSet(S) /\ Before \in [S -> SUBSET S] /\ IsOrder(S, Before)
  BY DEF Orders
<1>2. PICK n \in Nat : n = Cardinality(S)
  BY <1>1, FS_CardinalityType
<1>3. PICK list : Lists(list, S, Before)
  BY <1>1, RanksList
<1>4. /\ \A i \in 1 .. n : list[i] \in S
      /\ \A x \in S : \E i \in 1 .. n : list[i] = x
      /\ \A i, j \in 1 .. n : i < j <=> list[i] \in Before[list[j]]
  BY <1>2, <1>3 DEF Lists
<1>5. \A i, j \in 1 .. n : list[i] = list[j] => i = j
  <2> SUFFICES ASSUME NEW i \in 1 .. n, NEW j \in 1 .. n, list[i] = list[j]  PROVE i = j
    OBVIOUS
  <2>1. list[i] \notin Before[list[j]] /\ list[j] \notin Before[list[i]]
    BY <1>1, <1>4 DEF IsOrder
  <2>2. ~(i < j) /\ ~(j < i)
    BY <1>4, <2>1
  <2> QED
    BY <2>2
<1>6. ASSUME NEW j \in 1 .. n  PROVE Cardinality(Before[list[j]]) = j - 1
  <2>1. PICK before : before = Before[list[j]]
    OBVIOUS
  <2>2. before \in SUBSET S
    BY <1>1, <1>4, <2>1
  <2>3. ASSUME NEW i \in 1 .. j - 1  PROVE list[i] \in before
    <3>1. i \in 1 .. n /\ i < j
      OBVIOUS
    <3> QED
      BY <1>4, <2>1, <3>1
  <2>4. ASSUME NEW x \in before  PROVE \E i \in 1 .. j - 1 : list[i] = x
    <3>1. PICK i \in 1 .. n : list[i] = x
      BY <1>4, <2>2
    <3>2. i < j
      BY <1>4, <2>1, <3>1
    <3>3. i \in 1 .. j - 1
      BY <3>2
    <3> QED
      BY <3>1, <3>3
  <2>5. \A i \in 1 .. j - 1 : i \in 1 .. n
    OBVIOUS
  <2>6. Corresponds(list, 1 .. j - 1, before)
    BY <1>5, <2>3, <2>4, <2>5 DEF Corresponds
  <2>7. j - 1 \in Nat
    OBVIOUS
  <2>8. IsFiniteSet(1 .. j - 1) /\ Cardinality(1 .. j - 1) = j - 1
    BY <2>7, UptoIsFinite
  <2>9. Cardinality(before) = j - 1
    BY <2>6, <2>8, SameCount
  <2> QED
    BY <2>1, <2>9
<1>7. PICK first : first = {x \in S : Cardinality(Before[x]) < k}
  OBVIOUS
<1>8. \A i \in 1 .. k : i \in 1 .. n
  BY <1>2
<1>9. ASSUME NEW i \in 1 .. k  PROVE list[i] \in first
  <2>1. i \in 1 .. n /\ list[i] \in S
    BY <1>4, <1>8
  <2>2. Cardinality(Before[list[i]]) = i - 1
    BY <1>6, <2>1
  <2>3. i - 1 < k
    OBVIOUS
  <2> QED
    BY <1>7, <2>1, <2>2, <2>3
<1>10. ASSUME NEW x \in first  PROVE \E i \in 1 .. k : list[i] = x
  <2>1. x \in S /\ Cardinality(Before[x]) < k
    BY <1>7
  <2>2. PICK i \in 1 .. n : list[i] = x
    BY <1>4, <2>1
  <2>3. Cardinality(Before[x]) = i - 1
    BY <1>6, <2>2
  <2>4. i \in 1 .. k
    BY <2>1, <2>3
  <2> QED
    BY <2>2, <2>4
<1>11. Corresponds(list, 1 .. k, first)
  BY <1>5, <1>8, <1>9, <1>10 DEF Corresponds
<1>12. IsFiniteSet(1 .. k) /\ Cardinality(1 .. k) = k
  BY UptoIsFinite
<1> QED
  BY <1>7, <1>11, <1>12, SameCount

\* v is c times w.
Multiple(v, c, w, S) == \A x \in S : v[x] = c * w[x]

\* A multiple of weights adds up to the multiple of their sum.
LEMMA SumScaled ==
  ASSUME NEW w, NEW v, NEW S, Weighs(w, S), NEW c \in Int, Multiple(v, c, w, S)
  PROVE  Weighs(v, S) /\ SumOver(v, S) = c * SumOver(w, S)
<1>0. \A a, b \in Int : a * b \in Int /\ c * (a + b) = c * a + c * b
  OBVIOUS
<1>1. Weighs(v, S)
  BY <1>0 DEF Weighs, Multiple
<1>2. \A T \in SUBSET S : /\ Weighs(w, T) /\ SumOver(w, T) \in Int
                          /\ Weighs(v, T) /\ SumOver(v, T) \in Int
  BY <1>1, FS_Subset, SumType DEF Weighs
<1>3. PICK Good : Good = {T \in SUBSET S : SumOver(v, T) = c * SumOver(w, T)}
  OBVIOUS
<1>4. {} \in Good
  <2>1. c * 0 = 0
    OBVIOUS
  <2> QED
    BY <1>3, <2>1, SumNone
<1>5. ASSUME NEW T \in SUBSET S, NEW x \in S, T \in Good, x \notin T  PROVE T \cup {x} \in Good
  <2>1. w[x] \in Int /\ v[x] = c * w[x] /\ v[x] \in Int
    BY <1>1 DEF Weighs, Multiple
  <2>2. /\ SumOver(w, T \cup {x}) = w[x] + SumOver(w, T)
        /\ SumOver(v, T \cup {x}) = v[x] + SumOver(v, T)
    BY <1>2, <1>5, <2>1, SumPut
  <2>3. SumOver(w, T) \in Int /\ SumOver(v, T) = c * SumOver(w, T)
    BY <1>2, <1>3, <1>5
  <2>4. c * (w[x] + SumOver(w, T)) = c * w[x] + c * SumOver(w, T)
    BY <1>0, <2>1, <2>3
  <2>5. SumOver(v, T \cup {x}) = c * SumOver(w, T \cup {x})
    BY <2>1, <2>2, <2>3, <2>4
  <2> QED
    BY <1>3, <2>5
<1>6. S \in Good
  BY <1>4, <1>5, OneByOne DEF Weighs
<1> QED
  BY <1>1, <1>3, <1>6

\* What a division leaves.
LEMMA Divides ==
  ASSUME NEW a \in Nat, NEW total \in Nat \ {0}
  PROVE  /\ a \div total \in Nat /\ a % total \in 0 .. total - 1
         /\ a = (total * (a \div total)) + (a % total)
OBVIOUS

\* The shares of a total: their floors, what those leave, and who comes before whom.
Divided(numbers, n, total, floor, rest, left) ==
  /\ \A i \in 1 .. n : /\ floor[i] \in Nat /\ rest[i] \in 0 .. total - 1
                       /\ numbers[i] * 1000 = total * floor[i] + rest[i]
  /\ left = 1000 - SumOver(floor, 1 .. n)
Greater(rest, n) ==
  [i \in 1 .. n |-> {j \in 1 .. n : rest[j] > rest[i] \/ (rest[j] = rest[i] /\ j < i)}]
Bonus(ahead, left, i) == IF Cardinality(ahead[i]) < left THEN 1 ELSE 0

LEMMA PercentagesAre ==
  ASSUME NEW numbers \in Seq(Nat), NEW n \in Nat, n = Len(numbers),
         NEW total \in Nat \ {0}, total = Total(numbers)
  PROVE  \E floor, rest, left :
           /\ Divided(numbers, n, total, floor, rest, left)
           /\ Percentages(numbers) = [i \in 1 .. n |-> floor[i] + Bonus(Greater(rest, n), left, i)]
<1>1. DOMAIN numbers = 1 .. n /\ \A i \in 1 .. n : numbers[i] \in Nat /\ numbers[i] * 1000 \in Nat
  OBVIOUS
<1>2. PICK floor : floor = [i \in 1 .. n |-> (numbers[i] * 1000) \div total]
  OBVIOUS
<1>3. PICK rest : rest = [i \in 1 .. n |-> (numbers[i] * 1000) % total]
  OBVIOUS
<1>4. PICK left : left = 1000 - Total(floor)
  OBVIOUS
<1>5. ASSUME NEW i \in 1 .. n
      PROVE  /\ floor[i] \in Nat /\ rest[i] \in 0 .. total - 1
             /\ numbers[i] * 1000 = total * floor[i] + rest[i]
  <2>1. PICK a \in Nat : a = numbers[i] * 1000
    BY <1>1
  <2>2. PICK q : q = a \div total
    OBVIOUS
  <2>3. PICK r : r = a % total
    OBVIOUS
  <2>4. q \in Nat /\ r \in 0 .. total - 1 /\ a = total * q + r
    BY <2>2, <2>3, Divides
  <2>5. floor[i] = q /\ rest[i] = r
    BY <1>2, <1>3, <2>1, <2>2, <2>3
  <2> QED
    BY <2>1, <2>4, <2>5
<1>6. Total(floor) = SumOver(floor, 1 .. n)
  <2>1. DOMAIN floor = 1 .. n
    BY <1>2
  <2>2. Weighs(floor, 1 .. n)
    BY <1>5, UptoIsFinite DEF Weighs
  <2> QED
    BY <2>1, <2>2, TotalIs
<1>7. Divided(numbers, n, total, floor, rest, left)
  BY <1>4, <1>5, <1>6 DEF Divided
<1>8. Percentages(numbers) = [i \in 1 .. n |-> floor[i] + Bonus(Greater(rest, n), left, i)]
  <2> DEFINE before(i) == {j \in 1 .. n :
                             \/ (numbers[j] * 1000) % total > (numbers[i] * 1000) % total
                             \/ ((numbers[j] * 1000) % total = (numbers[i] * 1000) % total /\ j < i)}
             over == 1000 - Total([k \in 1 .. n |-> (numbers[k] * 1000) \div total])
             share(i) == (numbers[i] * 1000) \div total
                           + (IF Cardinality(before(i)) < over THEN 1 ELSE 0)
  <2>1. Percentages(numbers) = [i \in 1 .. n |-> share(i)]
    BY <1>1 DEF Percentages
  <2>2. ASSUME NEW i \in 1 .. n  PROVE before(i) = Greater(rest, n)[i]
    BY <1>3 DEF Greater
  <2>3. over = left
    BY <1>2, <1>4
  <2> HIDE DEF before, over
  <2>4. ASSUME NEW i \in 1 .. n  PROVE share(i) = floor[i] + Bonus(Greater(rest, n), left, i)
    BY <1>2, <2>2, <2>3 DEF Bonus
  <2> HIDE DEF share
  <2> QED
    BY <2>1, <2>4
<1> QED
  BY <1>7, <1>8

LEMMA AheadOrders ==
  ASSUME NEW n \in Nat, NEW rest, Weighs(rest, 1 .. n)
  PROVE  Orders(1 .. n, Greater(rest, n))
<1>0. \A i \in 1 .. n : rest[i] \in Int
  BY DEF Weighs
<1>1. PICK ahead : ahead = Greater(rest, n)
  OBVIOUS
<1>2. /\ ahead \in [1 .. n -> SUBSET (1 .. n)]
      /\ \A i, j \in 1 .. n : j \in ahead[i] <=> (rest[j] > rest[i] \/ (rest[j] = rest[i] /\ j < i))
  BY <1>1 DEF Greater
<1>3. \A i \in 1 .. n : i \notin ahead[i]
  BY <1>0, <1>2
<1>4. ASSUME NEW i \in 1 .. n, NEW j \in 1 .. n, NEW k \in 1 .. n, i \in ahead[j], j \in ahead[k]
      PROVE  i \in ahead[k]
  BY <1>0, <1>2, <1>4
<1>5. ASSUME NEW i \in 1 .. n, NEW j \in 1 .. n  PROVE i = j \/ i \in ahead[j] \/ j \in ahead[i]
  BY <1>0, <1>2
<1> QED
  BY <1>1, <1>2, <1>3, <1>4, <1>5, UptoIsFinite DEF Orders, IsOrder

LEMMA NotNegative ==
  ASSUME NEW a \in Nat \ {0}, NEW b \in Int, a * b >= 0
  PROVE  b \in Nat
<1>1. ASSUME b =< -1  PROVE FALSE
  <2>1. a * b =< a * (-1)
    BY <1>1
  <2> QED
    BY <2>1
<1> QED
  BY <1>1

LEMMA FewerTimes ==
  ASSUME NEW a \in Nat \ {0}, NEW b \in Nat, NEW p \in Nat, a * b =< (a - 1) * p
  PROVE  b = 0 \/ b < p
<1>1. ASSUME b >= p, b # 0  PROVE FALSE
  <2>1. a * b >= a * p
    BY <1>1
  <2>2. (a - 1) * p = a * p - p
    OBVIOUS
  <2>3. a * p \in Int /\ a * b \in Int
    OBVIOUS
  <2>4. p = 0
    BY <2>1, <2>2, <2>3
  <2>5. a * b > 0
    BY <1>1
  <2>6. a * p = 0
    BY <2>4
  <2> QED
    BY <2>2, <2>3, <2>4, <2>5, <2>6
<1> QED
  BY <1>1

\* What the floors leave is less than one for each share that was rounded.
LEMMA LeftIs ==
  ASSUME NEW n \in Nat, NEW numbers, NEW total \in Nat \ {0}, Weighs(numbers, 1 .. n),
         total = SumOver(numbers, 1 .. n),
         NEW floor, NEW rest, NEW left, Divided(numbers, n, total, floor, rest, left)
  PROVE  /\ left \in Nat /\ left =< n /\ SumOver(floor, 1 .. n) \in Int
         /\ left = 0 \/ left < Cardinality({i \in 1 .. n : rest[i] > 0})
<1>1. PICK S : S = 1 .. n
  OBVIOUS
<1>2. IsFiniteSet(S) /\ Cardinality(S) = n
  BY <1>1, UptoIsFinite
<1>3. /\ \A i \in S : /\ floor[i] \in Nat /\ rest[i] \in 0 .. total - 1 /\ numbers[i] \in Int
                      /\ numbers[i] * 1000 = total * floor[i] + rest[i]
      /\ left = 1000 - SumOver(floor, S)
  BY <1>1 DEF Divided, Weighs
<1>4. Weighs(numbers, S) /\ Weighs(floor, S) /\ Weighs(rest, S)
  BY <1>1, <1>2, <1>3 DEF Weighs
<1>5. PICK thousands : thousands = [i \in S |-> 1000 * numbers[i]]
  OBVIOUS
<1>6. PICK wholes : wholes = [i \in S |-> total * floor[i]]
  OBVIOUS
<1>7. PICK F \in Int : F = SumOver(floor, S)
  BY <1>4, SumType
<1>8. PICK R \in Int : R = SumOver(rest, S)
  BY <1>4, SumType
<1>9. Weighs(thousands, S) /\ SumOver(thousands, S) = 1000 * total
  <2>1. Multiple(thousands, 1000, numbers, S)
    BY <1>5 DEF Multiple
  <2>2. 1000 \in Int
    OBVIOUS
  <2> QED
    BY <1>1, <1>4, <2>1, <2>2, SumScaled
<1>10. Weighs(wholes, S) /\ SumOver(wholes, S) = total * F
  <2>1. Multiple(wholes, total, floor, S)
    BY <1>6 DEF Multiple
  <2>2. total \in Int
    OBVIOUS
  <2> QED
    BY <1>4, <1>7, <2>1, <2>2, SumScaled
<1>11. R = 1000 * total - total * F
  <2>1. ASSUME NEW i \in S  PROVE rest[i] = thousands[i] - wholes[i]
    <3>1. thousands[i] = numbers[i] * 1000 /\ wholes[i] = total * floor[i]
      BY <1>3, <1>5, <1>6
    <3>2. PICK q \in Int : q = total * floor[i]
      BY <1>3
    <3> QED
      BY <1>3, <3>1, <3>2
  <2> QED
    BY <1>8, <1>9, <1>10, <2>1, SumDifference
<1>12. left \in Int /\ total * left = R
  <2>1. left = 1000 - F
    BY <1>3, <1>7
  <2>2. total * (1000 - F) = 1000 * total - total * F
    OBVIOUS
  <2> QED
    BY <1>11, <2>1, <2>2
<1>13. left \in Nat
  <2>1. 0 =< R
    <3>1. S \in SUBSET S /\ \A i \in S : rest[i] >= 0
      BY <1>3
    <3> QED
      BY <1>4, <1>8, <3>1, SumPart
  <2> QED
    BY <1>12, <2>1, NotNegative
<1>14. PICK rounded \in SUBSET S : rounded = {i \in S : rest[i] > 0}
  OBVIOUS
<1>15. PICK p \in Nat : p = Cardinality(rounded) /\ p =< n
  BY <1>2, FS_Subset, FS_CardinalityType
<1>16. R = SumOver(rest, rounded)
  <2>1. \A i \in S : rest[i] = IF i \in rounded THEN rest[i] ELSE 0
    BY <1>3, <1>14
  <2>2. CountsPart(rest, rest, S, rounded)
    BY <2>1 DEF CountsPart
  <2> QED
    BY <1>4, <1>8, <2>2, SumOfPart
<1>17. R =< (total - 1) * p
  <2>1. PICK ones : ones = [i \in rounded |-> 1]
    OBVIOUS
  <2>2. PICK most : most = [i \in rounded |-> (total - 1) * ones[i]]
    OBVIOUS
  <2>3. IsFiniteSet(rounded) /\ \A i \in rounded : ones[i] = 1
    BY <1>2, <2>1, FS_Subset
  <2>4. Weighs(ones, rounded) /\ Weighs(rest, rounded)
    BY <1>3, <2>3 DEF Weighs
  <2>5. SumOver(ones, rounded) = p
    BY <1>15, <2>3, SumOfOnes
  <2>6. Multiple(most, total - 1, ones, rounded) /\ \A i \in rounded : most[i] = (total - 1) * ones[i]
    BY <2>2 DEF Multiple
  <2>7. Weighs(most, rounded) /\ SumOver(most, rounded) = (total - 1) * p
    <3>1. total - 1 \in Int
      OBVIOUS
    <3> QED
      BY <2>4, <2>5, <2>6, <3>1, SumScaled
  <2>8. ASSUME NEW i \in rounded  PROVE rest[i] =< most[i]
    <3>1. most[i] = total - 1
      BY <2>3, <2>6
    <3> QED
      BY <1>3, <3>1
  <2> QED
    BY <1>16, <2>4, <2>7, <2>8, SumOrder
<1>18. left = 0 \/ left < p
  BY <1>12, <1>13, <1>15, <1>17, FewerTimes
<1>19. left =< n
  BY <1>13, <1>15, <1>18
<1> QED
  BY <1>1, <1>7, <1>13, <1>14, <1>15, <1>18, <1>19

\* One for each of those with fewer than left before them, and none for the others.
LEMMA BonusAddsUp ==
  ASSUME NEW n \in Nat, NEW ahead, Orders(1 .. n, ahead), NEW left \in Nat, left =< n,
         NEW bonus, bonus = [i \in 1 .. n |-> Bonus(ahead, left, i)]
  PROVE  Weighs(bonus, 1 .. n) /\ SumOver(bonus, 1 .. n) = left
<1>1. PICK S : S = 1 .. n
  OBVIOUS
<1>2. IsFiniteSet(S) /\ Cardinality(S) = n /\ Orders(S, ahead)
  BY <1>1, UptoIsFinite
<1>3. PICK first \in SUBSET S : first = {i \in S : Cardinality(ahead[i]) < left}
  OBVIOUS
<1>4. Cardinality(first) = left
  BY <1>2, <1>3, FirstRanked
<1>5. \A i \in S : bonus[i] = IF i \in first THEN 1 ELSE 0
  BY <1>1, <1>3 DEF Bonus
<1>6. Weighs(bonus, S)
  BY <1>2, <1>5 DEF Weighs
<1>7. CountsPart(bonus, bonus, S, first)
  BY <1>5 DEF CountsPart
<1>8. SumOver(bonus, S) = SumOver(bonus, first)
  BY <1>6, <1>7, SumOfPart
<1>9. SumOver(bonus, first) = Cardinality(first)
  <2>1. IsFiniteSet(first) /\ \A i \in first : bonus[i] = 1
    BY <1>2, <1>5, FS_Subset
  <2> QED
    BY <2>1, SumOfOnes
<1> QED
  BY <1>1, <1>4, <1>6, <1>8, <1>9

LEMMA WithinOne ==
  ASSUME NEW total \in Nat \ {0}, NEW q \in Nat, NEW r \in 0 .. total - 1, NEW extra \in {0, 1},
         r = 0 => extra = 0
  PROVE  (q + extra) * total - (total * q + r) \in (1 - total) .. (total - 1)
<1>1. PICK whole \in Int : whole = total * q
  OBVIOUS
<1>2. CASE extra = 0
  <2>1. (q + 0) * total = whole
    BY <1>1
  <2> QED
    BY <1>1, <1>2, <2>1
<1>3. CASE extra = 1
  <2>1. (q + 1) * total = whole + total
    BY <1>1
  <2> QED
    BY <1>1, <1>3, <2>1
<1> QED
  BY <1>2, <1>3

LEMMA GreaterQuotient ==
  ASSUME NEW total \in Nat \ {0}, NEW q \in Nat, NEW r \in 0 .. total - 1,
         NEW p \in Nat, NEW s \in 0 .. total - 1, total * q + r > total * p + s
  PROVE  q > p \/ (q = p /\ r > s)
<1>1. ASSUME q < p  PROVE FALSE
  <2>1. total * p >= total * (q + 1)
    BY <1>1
  <2>2. total * (q + 1) = total * q + total
    OBVIOUS
  <2>3. total * q \in Int /\ total * p \in Int
    OBVIOUS
  <2> QED
    BY <2>1, <2>2, <2>3
<1>2. ASSUME q = p  PROVE r > s
  <2>1. total * q = total * p /\ total * q \in Int
    BY <1>2
  <2> QED
    BY <2>1
<1> QED
  BY <1>1, <1>2

\* The shares add up, none is off by a tenth, and they are in the order of the numbers.
Fair(shares, numbers, n, total) ==
  /\ DOMAIN shares = 1 .. n
  /\ Total(shares) = 1000
  /\ \A i \in 1 .. n : shares[i] * total - numbers[i] * 1000 \in (1 - total) .. (total - 1)
  /\ \A i, j \in 1 .. n : numbers[i] > numbers[j] => shares[i] >= shares[j]

\* What Percentages returns: the shares add up, none is off by a tenth, and they are in the order of the numbers.
LEMMA SharesAre ==
  ASSUME NEW numbers \in Seq(Nat), NEW n \in Nat, n = Len(numbers),
         NEW total \in Nat \ {0}, total = Total(numbers),
         NEW shares, shares = Percentages(numbers)
  PROVE  Fair(shares, numbers, n, total)
<1>1. DOMAIN numbers = 1 .. n /\ \A i \in 1 .. n : numbers[i] \in Nat
  OBVIOUS
<1>2. Weighs(numbers, 1 .. n) /\ IsFiniteSet(1 .. n) /\ Cardinality(1 .. n) = n
  BY <1>1, UptoIsFinite DEF Weighs
<1>3. total = SumOver(numbers, 1 .. n)
  BY <1>1, <1>2, TotalIs
<1>4. PICK floor, rest, left :
        /\ Divided(numbers, n, total, floor, rest, left)
        /\ shares = [i \in 1 .. n |-> floor[i] + Bonus(Greater(rest, n), left, i)]
  BY PercentagesAre
<1>5. \A i \in 1 .. n : floor[i] \in Nat /\ rest[i] \in Nat /\ rest[i] \in 0 .. total - 1
  BY <1>4 DEF Divided
<1>22. \A i \in 1 .. n : numbers[i] * 1000 = total * floor[i] + rest[i]
  BY <1>4 DEF Divided
<1>23. left = 1000 - SumOver(floor, 1 .. n)
  BY <1>4 DEF Divided
<1>6. PICK rounded \in SUBSET (1 .. n) : rounded = {i \in 1 .. n : rest[i] > 0}
  OBVIOUS
<1>7. /\ left \in Nat /\ left =< n /\ SumOver(floor, 1 .. n) \in Int
      /\ left = 0 \/ left < Cardinality(rounded)
  BY <1>2, <1>3, <1>4, <1>6, LeftIs
<1>8. PICK ahead : ahead = Greater(rest, n)
  OBVIOUS
<1>9. Orders(1 .. n, ahead)
  <2>1. Weighs(rest, 1 .. n)
    BY <1>2, <1>5 DEF Weighs
  <2> QED
    BY <1>8, <2>1, AheadOrders
<1>10. /\ \A i \in 1 .. n : ahead[i] \in SUBSET (1 .. n)
       /\ \A i, j \in 1 .. n : j \in ahead[i] <=> (rest[j] > rest[i] \/ (rest[j] = rest[i] /\ j < i))
  BY <1>8 DEF Greater
<1>11. PICK bonus : bonus = [i \in 1 .. n |-> Bonus(ahead, left, i)]
  OBVIOUS
<1>12. \A i \in 1 .. n : /\ bonus[i] \in {0, 1}
                         /\ bonus[i] = 1 <=> Cardinality(ahead[i]) < left
  BY <1>11 DEF Bonus
<1>13. Weighs(bonus, 1 .. n) /\ SumOver(bonus, 1 .. n) = left
  BY <1>7, <1>9, <1>11, BonusAddsUp
<1>14. shares = [i \in 1 .. n |-> floor[i] + bonus[i]]
  BY <1>4, <1>8, <1>11
<1>15. DOMAIN shares = 1 .. n /\ \A i \in 1 .. n : shares[i] = floor[i] + bonus[i] /\ shares[i] \in Nat
  <2>1. ASSUME NEW i \in 1 .. n  PROVE shares[i] = floor[i] + bonus[i] /\ shares[i] \in Nat
    <3>1. bonus[i] \in Nat /\ floor[i] \in Nat
      BY <1>5, <1>12
    <3> QED
      BY <1>14, <3>1
  <2> QED
    BY <1>14, <2>1
<1>16. \A i \in 1 .. n : IsFiniteSet(ahead[i]) /\ Cardinality(ahead[i]) \in Nat
  BY <1>2, <1>10, FS_Subset, FS_CardinalityType
<1>17. Total(shares) = 1000
  <2>1. Weighs(shares, 1 .. n) /\ Weighs(floor, 1 .. n)
    BY <1>2, <1>5, <1>15 DEF Weighs
  <2>2. \A i \in 1 .. n : floor[i] = shares[i] - bonus[i]
    <3>1. \A i \in 1 .. n : bonus[i] \in Nat /\ floor[i] \in Nat
      BY <1>5, <1>12
    <3> QED
      BY <1>15, <3>1
  <2>3. SumOver(floor, 1 .. n) = SumOver(shares, 1 .. n) - SumOver(bonus, 1 .. n)
    BY <1>13, <2>1, <2>2, SumDifference
  <2>4. Total(shares) = SumOver(shares, 1 .. n) /\ SumOver(shares, 1 .. n) \in Int
    BY <1>15, <2>1, TotalIs, SumType
  <2> QED
    BY <1>7, <1>13, <1>23, <2>3, <2>4
<1>18. ASSUME NEW i \in 1 .. n, rest[i] = 0  PROVE bonus[i] = 0
  <2>1. ASSUME NEW j \in rounded  PROVE j \in ahead[i]
    BY <1>5, <1>6, <1>10, <1>18
  <2>2. rounded \in SUBSET ahead[i]
    BY <2>1
  <2>3. Cardinality(rounded) =< Cardinality(ahead[i]) /\ Cardinality(rounded) \in Nat
    BY <1>16, <2>2, FS_Subset, FS_CardinalityType
  <2>4. ~ (Cardinality(ahead[i]) < left)
    BY <1>7, <1>16, <2>3
  <2> QED
    BY <1>12, <2>4
<1>19. ASSUME NEW i \in 1 .. n
       PROVE  shares[i] * total - numbers[i] * 1000 \in (1 - total) .. (total - 1)
  <2>1. PICK q \in Nat : q = floor[i]
    BY <1>5
  <2>2. PICK r \in 0 .. total - 1 : r = rest[i]
    BY <1>5
  <2>3. PICK extra \in {0, 1} : extra = bonus[i]
    BY <1>12
  <2>4. (q + extra) * total - (total * q + r) \in (1 - total) .. (total - 1)
    BY <1>18, <2>2, <2>3, WithinOne
  <2>5. shares[i] = q + extra /\ numbers[i] * 1000 = total * q + r
    BY <1>15, <1>22, <2>1, <2>2, <2>3
  <2> QED
    BY <2>4, <2>5
<1>20. ASSUME NEW i \in 1 .. n, NEW j \in 1 .. n, rest[i] > rest[j]  PROVE bonus[i] >= bonus[j]
  <2>1. ASSUME NEW k \in ahead[i]  PROVE k \in ahead[j]
    <3>1. k \in 1 .. n
      BY <1>10, <2>1
    <3>2. rest[k] \in Nat /\ rest[i] \in Nat /\ rest[j] \in Nat
      BY <1>5, <3>1
    <3>3. rest[k] > rest[i] \/ rest[k] = rest[i]
      BY <1>10, <2>1, <3>1
    <3>4. rest[k] > rest[j]
      BY <1>20, <3>2, <3>3
    <3> QED
      BY <1>10, <3>1, <3>4
  <2>2. ahead[i] \in SUBSET ahead[j]
    BY <2>1
  <2>3. Cardinality(ahead[i]) =< Cardinality(ahead[j])
    BY <1>16, <2>2, FS_Subset
  <2>4. Cardinality(ahead[j]) < left => Cardinality(ahead[i]) < left
    BY <1>7, <1>16, <2>3
  <2> QED
    BY <1>12, <2>4
<1>21. ASSUME NEW i \in 1 .. n, NEW j \in 1 .. n, numbers[i] > numbers[j]
       PROVE  shares[i] >= shares[j]
  <2>1. PICK q \in Nat : q = floor[i]
    BY <1>5
  <2>2. PICK p \in Nat : p = floor[j]
    BY <1>5
  <2>3. PICK r \in 0 .. total - 1 : r = rest[i]
    BY <1>5
  <2>4. PICK s \in 0 .. total - 1 : s = rest[j]
    BY <1>5
  <2>5. numbers[i] * 1000 > numbers[j] * 1000
    BY <1>1, <1>21
  <2>6. numbers[i] * 1000 = total * q + r /\ numbers[j] * 1000 = total * p + s
    BY <1>22, <2>1, <2>2, <2>3, <2>4
  <2>7. q > p \/ (q = p /\ r > s)
    <3>1. total * q + r > total * p + s
      BY <2>5, <2>6
    <3> QED
      BY <3>1, GreaterQuotient
  <2>8. shares[i] = q + bonus[i] /\ shares[j] = p + bonus[j]
    BY <1>15, <2>1, <2>2
  <2>11. PICK more \in {0, 1} : more = bonus[i]
    BY <1>12
  <2>12. PICK less \in {0, 1} : less = bonus[j]
    BY <1>12
  <2>9. CASE q > p
    <3>1. q + more >= p + less
      BY <2>9
    <3> QED
      BY <2>8, <2>11, <2>12, <3>1
  <2>10. CASE q = p /\ r > s
    <3>1. bonus[i] >= bonus[j]
      BY <1>20, <2>3, <2>4, <2>10
    <3> QED
      BY <2>8, <2>10, <2>11, <2>12, <3>1, SMTT(30)
  <2> QED
    BY <2>7, <2>9, <2>10
<1> QED
  BY <1>15, <1>17, <1>19, <1>21 DEF Fair
=============================================================================
