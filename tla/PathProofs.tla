------------------------------ MODULE PathProofs ------------------------------
(***************************************************************************)
(* Paths and what is aggregated by them (modules Paths and Aggregation):   *)
(* their order is strict and total and InOrder lists a set of them in it,  *)
(* Clean is idempotent and keeps what is below a clean root and the name   *)
(* at the end, what Aggregate returns is in order and adds up, and the     *)
(* directories of a report are those above its files, with their totals.   *)
(***************************************************************************)
EXTENDS Aggregation, SequenceProofs

(* The order *)

\* What Less says, component by component.
LEMMA LessMeans ==
  ASSUME NEW a \in Seq(Int), NEW b \in Seq(Int)
  PROVE  Less(a, b) <=>
           \E k \in 1 .. Len(b) :
             /\ Len(a) >= k - 1
             /\ \A i \in 1 .. k - 1 : a[i] = b[i]
             /\ Len(a) = k - 1 \/ a[k] < b[k]
<1>1. ASSUME NEW k \in 1 .. Len(b), Len(a) >= k - 1
      PROVE  SubSeq(a, 1, k - 1) = SubSeq(b, 1, k - 1) <=> \A i \in 1 .. k - 1 : a[i] = b[i]
  <2>1. SubSeq(a, 1, k - 1) = [i \in 1 .. k - 1 |-> a[i]]
    BY <1>1
  <2>2. SubSeq(b, 1, k - 1) = [i \in 1 .. k - 1 |-> b[i]]
    BY <1>1
  <2> QED
    BY <2>1, <2>2
<1> QED
  BY <1>1 DEF Less

\* No path is before itself.
LEMMA LessIrreflexive ==
  ASSUME NEW a \in Seq(Int)
  PROVE  ~Less(a, a)
BY LessMeans

\* A path before another is before all that the other is before.
LEMMA LessTransitive ==
  ASSUME NEW a \in Seq(Int), NEW b \in Seq(Int), NEW c \in Seq(Int), Less(a, b), Less(b, c)
  PROVE  Less(a, c)
<1>1. PICK k \in 1 .. Len(b) :
        /\ Len(a) >= k - 1
        /\ \A i \in 1 .. k - 1 : a[i] = b[i]
        /\ Len(a) = k - 1 \/ a[k] < b[k]
  BY LessMeans
<1>2. PICK l \in 1 .. Len(c) :
        /\ Len(b) >= l - 1
        /\ \A i \in 1 .. l - 1 : b[i] = c[i]
        /\ Len(b) = l - 1 \/ b[l] < c[l]
  BY LessMeans
<1>3. CASE k < l
  <2>1. k \in 1 .. Len(c) /\ Len(a) >= k - 1 /\ b[k] = c[k]
    BY <1>1, <1>2, <1>3
  <2>2. \A i \in 1 .. k - 1 : a[i] = c[i]
    BY <1>1, <1>2, <1>3
  <2> QED
    BY <1>1, <2>1, <2>2, LessMeans
<1>4. CASE l =< k
  <2>1. Len(a) >= l - 1 /\ \A i \in 1 .. l - 1 : a[i] = c[i]
    BY <1>1, <1>2, <1>4
  <2>2. Len(a) = l - 1 \/ a[l] < c[l]
    <3>1. b[l] < c[l]
      BY <1>1, <1>2, <1>4
    <3>2. CASE l < k
      BY <1>1, <3>1, <3>2
    <3>3. CASE l = k
      <4>1. CASE Len(a) = k - 1
        BY <4>1, <3>3
      <4>2. CASE a[k] < b[k] /\ Len(a) # k - 1
        <5>1. k \in 1 .. Len(a) /\ k \in 1 .. Len(b) /\ k \in 1 .. Len(c)
          BY <1>1, <1>2, <4>2, <3>3
        <5>2. a[k] \in Int /\ b[k] \in Int /\ c[k] \in Int
          BY <5>1
        <5> QED
          BY <5>2, <4>2, <3>3, <3>1
      <4> QED
        BY <4>1, <4>2, <1>1
    <3> QED
      BY <3>2, <3>3, <1>4
  <2> QED
    BY <2>1, <2>2, LessMeans
<1> QED
  BY <1>3, <1>4

\* Of two paths one is before the other.
LEMMA LessTotal ==
  ASSUME NEW a \in Seq(Int), NEW b \in Seq(Int), a # b
  PROVE  Less(a, b) \/ Less(b, a)
<1> DEFINE Differ == {k \in Nat \ {0} : k > Len(a) \/ k > Len(b) \/ a[k] # b[k]}
<1>1. Len(a) + 1 \in Differ
  OBVIOUS
<1>2. PICK k \in Differ : \A m \in Differ : k =< m
  <2>1. Differ \in SUBSET Nat /\ Differ # {}
    BY <1>1
  <2> HIDE DEF Differ
  <2> QED
    BY <2>1, LeastNatural
<1>3. k =< Len(a) + 1 /\ k =< Len(b) + 1 /\ k \in Nat \ {0}
  <2>1. Len(b) + 1 \in Differ
    OBVIOUS
  <2> QED
    BY <1>1, <1>2, <2>1
<1>4. \A i \in 1 .. k - 1 : a[i] = b[i]
  <2> SUFFICES ASSUME NEW i \in 1 .. k - 1, a[i] # b[i]  PROVE FALSE
    OBVIOUS
  <2>1. i \in Differ
    BY <1>3
  <2> QED
    BY <2>1, <1>2, <1>3
<1>5. CASE k > Len(a) /\ k > Len(b)
  <2>1. Len(a) = k - 1 /\ Len(b) = k - 1
    BY <1>5, <1>3
  <2>2. a = b
    BY <2>1, <1>4
  <2> QED
    BY <2>2
<1>6. CASE k > Len(a) /\ k =< Len(b)
  <2>1. k \in 1 .. Len(b) /\ Len(a) = k - 1
    BY <1>6, <1>3
  <2>2. Len(a) >= k - 1
    BY <2>1
  <2>3. Less(a, b)
    BY <2>1, <2>2, <1>4, LessMeans
  <2> QED
    BY <2>3
<1>7. CASE k > Len(b) /\ k =< Len(a)
  <2>1. k \in 1 .. Len(a) /\ Len(b) = k - 1
    BY <1>7, <1>3
  <2>2. Len(b) >= k - 1 /\ \A i \in 1 .. k - 1 : b[i] = a[i]
    BY <2>1, <1>4
  <2>3. Less(b, a)
    BY <2>1, <2>2, LessMeans
  <2> QED
    BY <2>3
<1>8. CASE k =< Len(a) /\ k =< Len(b)
  <2>1. a[k] \in Int /\ b[k] \in Int /\ a[k] # b[k]
    BY <1>8, <1>3, <1>2
  <2>2. k \in 1 .. Len(a) /\ k \in 1 .. Len(b)
    BY <1>8, <1>3
  <2>3. Len(a) >= k - 1 /\ Len(b) >= k - 1 /\ \A i \in 1 .. k - 1 : b[i] = a[i]
    BY <2>2, <1>4
  <2>4. CASE a[k] < b[k]
    BY <2>2, <2>3, <2>4, <1>4, LessMeans
  <2>5. CASE b[k] < a[k]
    <3>1. Less(b, a)
      BY <2>2, <2>3, <2>5, LessMeans
    <3> QED
      BY <3>1
  <2> QED
    BY <2>1, <2>4, <2>5
<1> QED
  BY <1>3, <1>5, <1>6, <1>7, <1>8

-----------------------------------------------------------------------------
(* The paths in order *)

\* InOrder lists a finite set of paths, all of them, each once and in their order.
THEOREM InOrderLists ==
  ASSUME NEW S \in SUBSET Seq(Int), IsFiniteSet(S)
  PROVE  /\ InOrder(S) \in [1 .. Cardinality(S) -> S]
         /\ \A path \in S : \E i \in 1 .. Cardinality(S) : InOrder(S)[i] = path
         /\ \A i, j \in 1 .. Cardinality(S) : i < j <=> Less(InOrder(S)[i], InOrder(S)[j])
<1>1. PICK Before : Before = [path \in S |-> {other \in S : Less(other, path)}]
  OBVIOUS
<1>2. Before \in [S -> SUBSET S]
  BY <1>1
<1>3. \A a, b \in S : a \in Before[b] <=> Less(a, b)
  BY <1>1
<1>4. IsOrder(S, Before)
  <2>1. \A a \in S : ~Less(a, a)
    BY LessIrreflexive
  <2>2. \A a, b, c \in S : Less(a, b) /\ Less(b, c) => Less(a, c)
    BY LessTransitive
  <2>3. \A a, b \in S : a = b \/ Less(a, b) \/ Less(b, a)
    BY LessTotal
  <2> QED
    BY <1>3, <2>1, <2>2, <2>3 DEF IsOrder
<1>5. InOrder(S) = AntiFunction([path \in S |-> 1 + Cardinality(Before[path])])
  BY <1>1 DEF InOrder, Ranked
<1>6. Lists(InOrder(S), S, Before)
  BY <1>2, <1>4, <1>5, RanksList
<1> QED
  BY <1>3, <1>6 DEF Lists

-----------------------------------------------------------------------------
(* Clean *)

\* g[s] is what the components of a path at the positions s come to.
Pushes(g, path, positions) ==
  g = [s \in SUBSET positions |->
         IF s = {} THEN <<>> ELSE Push(g[s \ {Max(s)}], path[Max(s)])]

\* There is such a function.
LEMMA PushesExists ==
  ASSUME NEW path, NEW n \in Nat
  PROVE  \E g : Pushes(g, path, 1 .. n)
<1> DEFINE Without == {m \in Nat : ~ \E g : Pushes(g, path, 1 .. m)}
<1> SUFFICES ASSUME n \in Without  PROVE FALSE
  OBVIOUS
<1>1. PICK m \in Without : \A k \in Without : m =< k
  <2>1. Without \in SUBSET Nat /\ Without # {}
    OBVIOUS
  <2> HIDE DEF Without
  <2> QED
    BY <2>1, LeastNatural
<1>2. m # 0
  <2>1. SUBSET (1 .. 0) = {{}}
    OBVIOUS
  <2>2. Pushes([s \in SUBSET (1 .. 0) |-> <<>>], path, 1 .. 0)
    BY <2>1 DEF Pushes
  <2> QED
    BY <2>2
<1>3. PICK g : Pushes(g, path, 1 .. m - 1)
  <2>1. m - 1 \in Nat /\ m - 1 < m
    BY <1>2
  <2>2. m - 1 \notin Without
    BY <2>1, <1>1
  <2> QED
    BY <2>1, <2>2
<1>4. \A s \in SUBSET (1 .. m - 1) :
        g[s] = IF s = {} THEN <<>> ELSE Push(g[s \ {Max(s)}], path[Max(s)])
  BY <1>3 DEF Pushes
<1>5. PICK h : h = [s \in SUBSET (1 .. m) |-> IF m \in s THEN Push(g[s \ {m}], path[m]) ELSE g[s]]
  OBVIOUS
<1>6. ASSUME NEW s \in SUBSET (1 .. m)
      PROVE  h[s] = IF s = {} THEN <<>> ELSE Push(h[s \ {Max(s)}], path[Max(s)])
  <2>1. CASE m \in s
    <3>1. Max(s) = m
      <4>1. s \in SUBSET Nat /\ \A k \in s : k =< m
        OBVIOUS
      <4> QED
        BY <4>1, <2>1, MaxIs
    <3>2. s \ {m} \in SUBSET (1 .. m) /\ m \notin s \ {m}
      OBVIOUS
    <3>3. h[s \ {m}] = g[s \ {m}]
      BY <1>5, <3>2
    <3>4. h[s] = Push(g[s \ {m}], path[m])
      BY <1>5, <2>1
    <3> QED
      BY <2>1, <3>1, <3>3, <3>4
  <2>2. CASE m \notin s
    <3>1. s \in SUBSET (1 .. m - 1)
      BY <2>2, <1>2
    <3>2. h[s] = g[s]
      BY <1>5, <2>2
    <3>3. h[s \ {Max(s)}] = g[s \ {Max(s)}]
      <4>1. s \ {Max(s)} \in SUBSET (1 .. m) /\ m \notin s \ {Max(s)}
        BY <2>2
      <4> QED
        BY <1>5, <4>1
    <3> QED
      BY <1>4, <3>1, <3>2, <3>3
  <2> QED
    BY <2>1, <2>2
<1>7. Pushes(h, path, 1 .. m)
  <2>1. h = [s \in SUBSET (1 .. m) |-> h[s]]
    BY <1>5
  <2> QED
    BY <1>6, <2>1 DEF Pushes
<1> QED
  BY <1>7

\* The positions up to k come to those before and k.
LEMMA PushesAt ==
  ASSUME NEW g, NEW path, NEW n \in Nat, Pushes(g, path, 1 .. n), NEW k \in 1 .. n
  PROVE  g[1 .. k] = Push(g[1 .. k - 1], path[k])
<1>1. 1 .. k \in SUBSET (1 .. n) /\ k \in 1 .. k /\ (1 .. k) \ {k} = 1 .. k - 1
  OBVIOUS
<1>2. Max(1 .. k) = k
  <2>1. 1 .. k \in SUBSET Nat /\ \A m \in 1 .. k : m =< k
    OBVIOUS
  <2> QED
    BY <1>1, <2>1, MaxIs
<1> QED
  BY <1>1, <1>2 DEF Pushes

LEMMA PushesNone ==
  ASSUME NEW g, NEW path, NEW n \in Nat, Pushes(g, path, 1 .. n)
  PROVE  g[1 .. 0] = <<>>
<1>1. 1 .. 0 = {} /\ {} \in SUBSET (1 .. n)
  OBVIOUS
<1> QED
  BY <1>1 DEF Pushes

\* The first components are all that counts for the positions up to theirs.
LEMMA PushesUnique ==
  ASSUME NEW path, NEW other, NEW n \in Nat, NEW m \in Nat, n =< m, Agree(path, other, n),
         NEW g, Pushes(g, path, 1 .. n), NEW h, Pushes(h, other, 1 .. m)
  PROVE  g[1 .. n] = h[1 .. n]
<1> DEFINE Apart == {k \in 0 .. n : g[1 .. k] # h[1 .. k]}
<1> SUFFICES ASSUME Apart # {}  PROVE FALSE
  OBVIOUS
<1>1. PICK k \in Apart : \A l \in Apart : k =< l
  <2>1. Apart \in SUBSET Nat
    OBVIOUS
  <2> HIDE DEF Apart
  <2> QED
    BY <2>1, LeastNatural
<1>2. k # 0
  BY PushesNone
<1>3. k \in 1 .. n /\ k \in 1 .. m /\ k - 1 \in 0 .. n
  BY <1>2
<1>4. g[1 .. k] = Push(g[1 .. k - 1], path[k]) /\ h[1 .. k] = Push(h[1 .. k - 1], other[k])
  BY <1>3, PushesAt
<1>5. g[1 .. k - 1] = h[1 .. k - 1]
  <2>1. k - 1 \notin Apart
    BY <1>1, <1>3
  <2> QED
    BY <2>1, <1>3
<1> QED
  BY <1>3, <1>4, <1>5 DEF Agree

\* The components of a path, without those that others undo.
Folded(path) == FoldLeft(Push, <<>>, path)

LEMMA FoldedIs ==
  ASSUME NEW path \in Seq(Int), NEW n \in Nat, n = Len(path)
  PROVE  \E g : Pushes(g, path, 1 .. n) /\ Folded(path) = g[1 .. n]
<1>1. PICK g : g = CHOOSE h : Pushes(h, path, DOMAIN path)
  OBVIOUS
<1>2. DOMAIN path = 1 .. n
  OBVIOUS
<1>3. Pushes(g, path, 1 .. n)
  BY <1>1, <1>2, PushesExists
<1>4. Folded(path) = (CHOOSE h : Pushes(h, path, DOMAIN path))[DOMAIN path]
  BY DEF Folded, FoldLeft, MapThenFoldSet, Pushes
<1> QED
  BY <1>1, <1>2, <1>3, <1>4

LEMMA FoldedNone == Folded(<<>>) = <<>>
<1>1. <<>> \in Seq(Int) /\ Len(<<>>) = 0 /\ 0 \in Nat
  OBVIOUS
<1>2. PICK g : Pushes(g, <<>>, 1 .. 0) /\ Folded(<<>>) = g[1 .. 0]
  BY <1>1, FoldedIs
<1> QED
  BY <1>1, <1>2, PushesNone

\* One component more is pushed.
LEMMA FoldedAppend ==
  ASSUME NEW path \in Seq(Int), NEW component \in Int
  PROVE  Folded(Append(path, component)) = Push(Folded(path), component)
<1>1. PICK n \in Nat : n = Len(path)
  OBVIOUS
<1>2. PICK m \in Nat : m = n + 1
  OBVIOUS
<1>3. PICK longer \in Seq(Int) : longer = Append(path, component)
  BY AppendIs
<1>4. m = Len(longer) /\ longer[m] = component /\ Agree(path, longer, n) /\ n =< m
  BY <1>1, <1>2, <1>3 DEF Agree
<1>5. PICK g : Pushes(g, path, 1 .. n) /\ Folded(path) = g[1 .. n]
  BY <1>1, FoldedIs
<1>6. PICK h : Pushes(h, longer, 1 .. m) /\ Folded(longer) = h[1 .. m]
  BY <1>4, FoldedIs
<1>7. h[1 .. m] = Push(h[1 .. m - 1], longer[m])
  <2>1. m \in 1 .. m
    BY <1>2
  <2> QED
    BY <1>6, <2>1, PushesAt
<1>8. g[1 .. n] = h[1 .. n]
  BY <1>4, <1>5, <1>6, PushesUnique
<1>9. m - 1 = n
  BY <1>2
<1> QED
  BY <1>3, <1>4, <1>5, <1>6, <1>7, <1>8, <1>9

\* The components up to k come to those before and k.
LEMMA FirstOf ==
  ASSUME NEW T, NEW path \in Seq(T), NEW k \in 1 .. Len(path)
  PROVE  /\ SubSeq(path, 1, k - 1) \in Seq(T) /\ Len(SubSeq(path, 1, k - 1)) = k - 1
         /\ path[k] \in T
         /\ SubSeq(path, 1, k) = Append(SubSeq(path, 1, k - 1), path[k])
OBVIOUS

LEMMA FirstOfAll ==
  ASSUME NEW T, NEW path \in Seq(T)
  PROVE  SubSeq(path, 1, 0) = <<>> /\ SubSeq(path, 1, Len(path)) = path
OBVIOUS

LEMMA FoldedFirst ==
  ASSUME NEW path \in Seq(Int), NEW k \in 1 .. Len(path)
  PROVE  Folded(SubSeq(path, 1, k)) = Push(Folded(SubSeq(path, 1, k - 1)), path[k])
<1>1. PICK first \in Seq(Int) : first = SubSeq(path, 1, k - 1)
  BY FirstOf
<1>2. PICK component \in Int : component = path[k]
  OBVIOUS
<1>3. SubSeq(path, 1, k) = Append(first, component)
  BY <1>1, <1>2, FirstOf
<1>4. Folded(Append(first, component)) = Push(Folded(first), component)
  BY FoldedAppend
<1> QED
  BY <1>1, <1>2, <1>3, <1>4

\* A path that nothing is to be taken from.
IsClean(path) ==
  /\ path \in Seq(Int)
  /\ \A k \in 1 .. Len(path) : Push(SubSeq(path, 1, k - 1), path[k]) = SubSeq(path, 1, k)

LEMMA PushName ==
  ASSUME NEW out \in Seq(Int), NEW name \in Nat
  PROVE  Push(out, name) = Append(out, name)
BY DEF Push, Here, Up

LEMMA AppendKeepsClean ==
  ASSUME NEW out, IsClean(out), NEW component \in Int, Push(out, component) = Append(out, component)
  PROVE  IsClean(Append(out, component))
<1>1. out \in Seq(Int)
  BY DEF IsClean
<1>2. PICK longer \in Seq(Int) : longer = Append(out, component)
  BY <1>1
<1>3. PICK n \in Nat : n = Len(out)
  BY <1>1
<1>4. ASSUME NEW k \in 1 .. Len(longer)
      PROVE  Push(SubSeq(longer, 1, k - 1), longer[k]) = SubSeq(longer, 1, k)
  <2>1. CASE k = n + 1
    <3>1. SubSeq(longer, 1, k - 1) = out /\ longer[k] = component /\ SubSeq(longer, 1, k) = longer
      BY <1>1, <1>2, <1>3, <2>1
    <3> QED
      BY <3>1, <1>2
  <2>2. CASE k # n + 1
    <3>1. k \in 1 .. n
      BY <1>1, <1>2, <1>3, <2>2
    <3>2. SubSeq(longer, 1, k - 1) = SubSeq(out, 1, k - 1)
      BY <1>1, <1>2, <1>3, <3>1
    <3>3. longer[k] = out[k] /\ SubSeq(longer, 1, k) = SubSeq(out, 1, k)
      BY <1>1, <1>2, <1>3, <3>1
    <3> QED
      BY <3>1, <3>2, <3>3, <1>3 DEF IsClean
  <2> QED
    BY <2>1, <2>2
<1> QED
  BY <1>2, <1>4 DEF IsClean

LEMMA FrontKeepsClean ==
  ASSUME NEW out, IsClean(out), out # <<>>
  PROVE  IsClean(Front(out))
<1>0. out \in Seq(Int) /\ Len(out) \in Nat /\ Len(out) # 0
  BY DEF IsClean
<1>1. PICK n \in Nat : n = Len(out) - 1
  BY <1>0
<1>2. out \in Seq(Int) /\ Len(out) = n + 1
  BY <1>0, <1>1
<1>3. PICK front \in Seq(Int) : front = SubSeq(out, 1, n)
  <2>1. SubSeq(out, 1, n) \in Seq(Int)
    BY <1>2
  <2> QED
    BY <2>1
<1>4. Len(front) = n
  BY <1>2, <1>3
<1>5. ASSUME NEW k \in 1 .. n
      PROVE  Push(SubSeq(front, 1, k - 1), front[k]) = SubSeq(front, 1, k)
  <2>1. SubSeq(front, 1, k - 1) = SubSeq(out, 1, k - 1)
    BY <1>2, <1>3
  <2>2. front[k] = out[k] /\ SubSeq(front, 1, k) = SubSeq(out, 1, k)
    BY <1>2, <1>3
  <2>3. k \in 1 .. Len(out)
    BY <1>2
  <2> QED
    BY <2>1, <2>2, <2>3 DEF IsClean
<1>6. Front(out) = front
  BY <1>1, <1>3 DEF Front
<1> QED
  BY <1>4, <1>5, <1>6 DEF IsClean

LEMMA PushKeepsClean ==
  ASSUME NEW out, IsClean(out), NEW component \in Int
  PROVE  IsClean(Push(out, component))
<1>1. CASE component = Here \/ (component = Up /\ out # <<>> /\ Last(out) # Up /\ Last(out) = Root)
  <2>1. Push(out, component) = out
    BY <1>1 DEF Push, Here, Up
  <2> QED
    BY <2>1
<1>2. CASE component = Up /\ out # <<>> /\ Last(out) # Up /\ Last(out) # Root
  <2>1. Push(out, component) = Front(out)
    BY <1>2 DEF Push, Here, Up
  <2> QED
    BY <2>1, <1>2, FrontKeepsClean
<1>3. CASE component \notin {Here, Up} \/ (component = Up /\ (out = <<>> \/ Last(out) = Up))
  <2>1. Push(out, component) = Append(out, component)
    BY <1>3 DEF Push, Here, Up
  <2> QED
    BY <2>1, AppendKeepsClean
<1> QED
  BY <1>1, <1>2, <1>3

\* What cleaning leaves is clean.
LEMMA FoldedIsClean ==
  ASSUME NEW path \in Seq(Int)
  PROVE  IsClean(Folded(path))
<1> DEFINE Bad == {k \in 0 .. Len(path) : ~IsClean(Folded(SubSeq(path, 1, k)))}
<1>1. Bad = {}
  <2> SUFFICES ASSUME Bad # {}  PROVE FALSE
    OBVIOUS
  <2>1. PICK k \in Bad : \A l \in Bad : k =< l
    <3>1. Bad \in SUBSET Nat
      OBVIOUS
    <3> HIDE DEF Bad
    <3> QED
      BY <3>1, LeastNatural
  <2>2. k # 0
    <3>1. IsClean(<<>>)
      BY DEF IsClean
    <3> QED
      BY <3>1, FirstOfAll, FoldedNone
  <2>3. k \in 1 .. Len(path) /\ k - 1 \in 0 .. Len(path)
    BY <2>2
  <2>4. IsClean(Folded(SubSeq(path, 1, k - 1)))
    <3>1. k - 1 \notin Bad
      BY <2>1, <2>3
    <3> QED
      BY <3>1, <2>3
  <2>5. path[k] \in Int
    BY <2>3
  <2>6. Folded(SubSeq(path, 1, k)) = Push(Folded(SubSeq(path, 1, k - 1)), path[k])
    BY <2>3, FoldedFirst
  <2>7. IsClean(Folded(SubSeq(path, 1, k)))
    BY <2>4, <2>5, <2>6, PushKeepsClean
  <2> QED
    BY <2>7
<1>2. Len(path) \in 0 .. Len(path)
  OBVIOUS
<1> QED
  BY <1>1, <1>2, FirstOfAll

\* And nothing is taken from a clean path.
LEMMA CleanFolds ==
  ASSUME NEW path, IsClean(path)
  PROVE  Folded(path) = path
<1>1. path \in Seq(Int)
  BY DEF IsClean
<1> DEFINE Bad == {k \in 0 .. Len(path) : Folded(SubSeq(path, 1, k)) # SubSeq(path, 1, k)}
<1>2. Bad = {}
  <2> SUFFICES ASSUME Bad # {}  PROVE FALSE
    OBVIOUS
  <2>1. PICK k \in Bad : \A l \in Bad : k =< l
    <3>1. Bad \in SUBSET Nat
      OBVIOUS
    <3> HIDE DEF Bad
    <3> QED
      BY <3>1, LeastNatural
  <2>2. k # 0
    BY <1>1, FirstOfAll, FoldedNone
  <2>3. k \in 1 .. Len(path) /\ k - 1 \in 0 .. Len(path)
    BY <1>1, <2>2
  <2>4. Folded(SubSeq(path, 1, k - 1)) = SubSeq(path, 1, k - 1)
    <3>1. k - 1 \notin Bad
      BY <2>1, <2>3
    <3> QED
      BY <3>1, <2>3
  <2>5. Folded(SubSeq(path, 1, k)) = Push(Folded(SubSeq(path, 1, k - 1)), path[k])
    BY <1>1, <2>3, FoldedFirst
  <2>6. Push(SubSeq(path, 1, k - 1), path[k]) = SubSeq(path, 1, k)
    BY <2>3 DEF IsClean
  <2> QED
    BY <2>4, <2>5, <2>6
<1>3. Len(path) \in 0 .. Len(path)
  BY <1>1
<1> QED
  BY <1>1, <1>2, <1>3, FirstOfAll

\* Names stay.
LEMMA ConcatAppend ==
  ASSUME NEW path \in Seq(Int), NEW names \in Seq(Nat), NEW name \in Nat
  PROVE  path \o Append(names, name) = Append(path \o names, name)
OBVIOUS

LEMMA FoldedNames ==
  ASSUME NEW path \in Seq(Int), NEW names \in Seq(Nat)
  PROVE  Folded(path \o names) = Folded(path) \o names
<1> DEFINE Holds(k) == Folded(path \o SubSeq(names, 1, k)) = Folded(path) \o SubSeq(names, 1, k)
           Bad == {k \in 0 .. Len(names) : ~Holds(k)}
<1>0. Folded(path) \in Seq(Int)
  BY FoldedIsClean DEF IsClean
<1>1. Bad = {}
  <2> SUFFICES ASSUME Bad # {}  PROVE FALSE
    OBVIOUS
  <2>1. PICK k \in Bad : \A l \in Bad : k =< l
    <3>1. Bad \in SUBSET Nat
      OBVIOUS
    <3> HIDE DEF Bad
    <3> QED
      BY <3>1, LeastNatural
  <2>2. k # 0
    <3>1. Holds(0)
      <4>1. path \o <<>> = path /\ Folded(path) \o <<>> = Folded(path)
        BY <1>0
      <4> QED
        BY <4>1, FirstOfAll
    <3> QED
      BY <3>1
  <2>3. k \in 1 .. Len(names) /\ k - 1 \in 0 .. Len(names)
    BY <2>2
  <2>4. PICK before : before = SubSeq(names, 1, k - 1)
    OBVIOUS
  <2>5. PICK name \in Nat : name = names[k]
    BY <2>3
  <2>6. before \in Seq(Nat) /\ SubSeq(names, 1, k) = Append(before, name)
    BY <2>3, <2>4, <2>5, FirstOf
  <2>7. Folded(path \o before) = Folded(path) \o before
    <3>1. k - 1 \notin Bad
      <4>1. k \in Int
        OBVIOUS
      <4> HIDE DEF Bad
      <4> QED
        BY <4>1, <2>1
    <3>2. Holds(k - 1)
      BY <3>1, <2>3
    <3> QED
      BY <3>2, <2>4
  <2>8. path \o before \in Seq(Int) /\ Folded(path) \o before \in Seq(Int)
    BY <2>6, <1>0
  <2>9. Folded(Append(path \o before, name)) = Append(Folded(path) \o before, name)
    <3>1. PICK whole \in Seq(Int) : whole = path \o before
      BY <2>8
    <3>2. Folded(Append(whole, name)) = Push(Folded(whole), name)
      BY FoldedAppend
    <3>3. PICK out \in Seq(Int) : out = Folded(path) \o before
      BY <2>8
    <3>4. Push(out, name) = Append(out, name)
      BY PushName
    <3> QED
      BY <3>1, <3>2, <3>3, <3>4, <2>7
  <2>10. /\ path \o Append(before, name) = Append(path \o before, name)
         /\ Folded(path) \o Append(before, name) = Append(Folded(path) \o before, name)
    BY <2>6, <1>0, ConcatAppend
  <2> QED
    BY <2>6, <2>9, <2>10
<1>2. Len(names) \in 0 .. Len(names)
  OBVIOUS
<1> QED
  BY <1>1, <1>2, FirstOfAll

-----------------------------------------------------------------------------
(* Cleaned paths *)

LEMMA FoldedHere == Folded(<<Here>>) = <<>>
<1>1. <<>> \in Seq(Int) /\ Here \in Int /\ <<Here>> = Append(<<>>, Here)
  BY DEF Here
<1>2. Folded(Append(<<>>, Here)) = Push(Folded(<<>>), Here)
  BY <1>1, FoldedAppend
<1>3. Push(<<>>, Here) = <<>>
  BY DEF Push, Here, Up
<1> QED
  BY <1>1, <1>2, <1>3, FoldedNone

\* Either nothing is left of a path, or what is left is clean.
LEMMA CleanIs ==
  ASSUME NEW path \in Seq(Int)
  PROVE  /\ Clean(path) \in Seq(Int) /\ Clean(path) # <<>>
         /\ Clean(path) = IF Folded(path) = <<>> THEN <<Here>> ELSE Folded(path)
         /\ Clean(path) = <<Here>> \/ Folded(Clean(path)) = Clean(path)
<1>1. IsClean(Folded(path)) /\ Folded(path) \in Seq(Int)
  BY FoldedIsClean DEF IsClean
<1>2. Folded(Folded(path)) = Folded(path)
  BY <1>1, CleanFolds
<1>3. Clean(path) = IF Folded(path) = <<>> THEN <<Here>> ELSE Folded(path)
  BY DEF Clean, Folded
<1>4. <<Here>> \in Seq(Int) /\ <<Here>> # <<>>
  BY DEF Here
<1> QED
  BY <1>1, <1>2, <1>3, <1>4

\* The names that follow a path stay.
LEMMA CleanNames ==
  ASSUME NEW path \in Seq(Int), NEW names \in Seq(Nat), Folded(path) \o names # <<>>
  PROVE  Clean(path \o names) = Folded(path) \o names
<1>1. Folded(path \o names) = Folded(path) \o names
  BY FoldedNames
<1> QED
  BY <1>1 DEF Clean, Folded

\* Nothing is taken from what is clean.
LEMMA CleanTwice ==
  ASSUME NEW path \in Seq(Int)
  PROVE  Clean(Clean(path)) = Clean(path)
<1>1. CASE Clean(path) = <<Here>>
  BY <1>1, FoldedHere DEF Clean, Folded
<1>2. CASE Clean(path) # <<Here>>
  <2>1. Folded(Clean(path)) = Clean(path) /\ Clean(path) # <<>>
    BY <1>2, CleanIs
  <2> QED
    BY <2>1 DEF Clean, Folded
<1> QED
  BY <1>1, <1>2

\* Cleaning leaves components of the path.
LEMMA PushComponents ==
  ASSUME NEW out \in Seq(Int), NEW component \in Int
  PROVE  ToSet(Push(out, component)) \subseteq ToSet(out) \cup {component}
<1>1. ToSet(Append(out, component)) \subseteq ToSet(out) \cup {component}
  BY DEF ToSet
<1>2. out # <<>> => ToSet(Front(out)) \subseteq ToSet(out)
  BY DEF ToSet, Front
<1> QED
  BY <1>1, <1>2 DEF Push

LEMMA FoldedComponents ==
  ASSUME NEW path \in Seq(Int)
  PROVE  ToSet(Folded(path)) \subseteq ToSet(path)
<1> DEFINE Bad == {k \in 0 .. Len(path) : ~ (ToSet(Folded(SubSeq(path, 1, k))) \subseteq ToSet(path))}
<1>1. Bad = {}
  <2> SUFFICES ASSUME Bad # {}  PROVE FALSE
    OBVIOUS
  <2>1. PICK k \in Bad : \A l \in Bad : k =< l
    <3>1. Bad \in SUBSET Nat
      OBVIOUS
    <3> HIDE DEF Bad
    <3> QED
      BY <3>1, LeastNatural
  <2>2. k # 0
    <3>1. Folded(SubSeq(path, 1, 0)) = <<>>
      BY FirstOfAll, FoldedNone
    <3>2. ToSet(<<>>) = {}
      BY DEF ToSet
    <3> QED
      BY <3>1, <3>2
  <2>3. k \in 1 .. Len(path) /\ k - 1 \in 0 .. Len(path)
    BY <2>2
  <2>4. ToSet(Folded(SubSeq(path, 1, k - 1))) \subseteq ToSet(path)
    <3>1. k - 1 \notin Bad
      BY <2>1, <2>3
    <3> QED
      BY <3>1, <2>3
  <2>5. path[k] \in Int /\ path[k] \in ToSet(path)
    BY <2>3 DEF ToSet
  <2>6. Folded(SubSeq(path, 1, k)) = Push(Folded(SubSeq(path, 1, k - 1)), path[k])
    BY <2>3, FoldedFirst
  <2>7. Folded(SubSeq(path, 1, k - 1)) \in Seq(Int)
    <3>1. SubSeq(path, 1, k - 1) \in Seq(Int)
      BY <2>3, FirstOf
    <3> QED
      BY <3>1, FoldedIsClean DEF IsClean
  <2>8. ToSet(Folded(SubSeq(path, 1, k))) \subseteq ToSet(path)
    BY <2>4, <2>5, <2>6, <2>7, PushComponents
  <2> QED
    BY <2>8
<1>2. Len(path) \in 0 .. Len(path)
  OBVIOUS
<1> QED
  BY <1>1, <1>2, FirstOfAll

LEMMA CleanComponents ==
  ASSUME NEW path \in Seq(Int)
  PROVE  /\ ToSet(Clean(path)) \subseteq ToSet(path) \cup {Here}
         /\ Last(Clean(path)) \in ToSet(Clean(path))
<1>1. PICK cleaned \in Seq(Int) : cleaned = Clean(path)
  BY CleanIs
<1>2. cleaned # <<>> /\ (cleaned = <<Here>> \/ cleaned = Folded(path))
  BY <1>1, CleanIs
<1>3. Last(cleaned) \in ToSet(cleaned)
  BY <1>2 DEF Last, ToSet
<1>4. ToSet(<<Here>>) = {Here}
  BY DEF ToSet
<1> QED
  BY <1>1, <1>2, <1>3, <1>4, FoldedComponents

-----------------------------------------------------------------------------
(* What aggregate sorts *)

LEMMA LessWeak ==
  ASSUME NEW a \in Seq(Int), NEW b \in Seq(Int), NEW c \in Seq(Int), Less(a, b)
  PROVE  Less(a, c) \/ Less(c, b)
BY LessTotal, LessTransitive

\* Below[i] are the positions of elements that are before that at i.
IsWeakOrder(n, Below) ==
  /\ Below \in [1 .. n -> SUBSET (1 .. n)]
  /\ \A i \in 1 .. n : i \notin Below[i]
  /\ \A i, j, k \in 1 .. n : i \in Below[j] /\ j \in Below[k] => i \in Below[k]
  /\ \A i, j, k \in 1 .. n : i \in Below[j] => i \in Below[k] \/ k \in Below[j]

\* Those, and the positions of equal elements further ahead.
Ahead(n, Below) ==
  [i \in 1 .. n |-> {j \in 1 .. n : j \in Below[i] \/ (i \notin Below[j] /\ j < i)}]

LEMMA AheadIsOrder ==
  ASSUME NEW n \in Nat, NEW Below, IsWeakOrder(n, Below)
  PROVE  Ahead(n, Below) \in [1 .. n -> SUBSET (1 .. n)] /\ IsOrder(1 .. n, Ahead(n, Below))
<1>0. PICK Before : Before = Ahead(n, Below)
  OBVIOUS
<1>1. \A i, j \in 1 .. n : j \in Before[i] <=> j \in Below[i] \/ (i \notin Below[j] /\ j < i)
  BY <1>0 DEF Ahead
<1>2. \A i \in 1 .. n : i \notin Before[i]
  BY <1>1 DEF IsWeakOrder
<1>3. \A i, j, k \in 1 .. n : i \in Before[j] /\ j \in Before[k] => i \in Before[k]
  <2> SUFFICES ASSUME NEW i \in 1 .. n, NEW j \in 1 .. n, NEW k \in 1 .. n,
                      i \in Before[j], j \in Before[k]
               PROVE  i \in Before[k]
    OBVIOUS
  <2>1. CASE i \in Below[j]
    BY <2>1, <1>1 DEF IsWeakOrder
  <2>2. CASE j \notin Below[i] /\ i < j
    BY <2>2, <1>1 DEF IsWeakOrder
  <2> QED
    BY <2>1, <2>2, <1>1
<1>4. \A i, j \in 1 .. n : i = j \/ i \in Before[j] \/ j \in Before[i]
  BY <1>1
<1>5. Before \in [1 .. n -> SUBSET (1 .. n)]
  BY <1>0 DEF Ahead
<1> QED
  BY <1>0, <1>2, <1>3, <1>4, <1>5 DEF IsOrder

LEMMA PathsWeak ==
  ASSUME NEW n \in Nat, NEW seq, \A i \in 1 .. n : seq[i].path \in Seq(Int)
  PROVE  IsWeakOrder(n, [i \in 1 .. n |-> {j \in 1 .. n : Less(seq[j].path, seq[i].path)}])
<1>1. PICK path : path = [i \in 1 .. n |-> seq[i].path]
  OBVIOUS
<1>2. \A i \in 1 .. n : path[i] = seq[i].path /\ path[i] \in Seq(Int)
  BY <1>1
<1>3. PICK Below : Below = [i \in 1 .. n |-> {j \in 1 .. n : Less(path[j], path[i])}]
  OBVIOUS
<1>4. \A i, j \in 1 .. n : j \in Below[i] <=> Less(path[j], path[i])
  BY <1>3
<1>5. \A i \in 1 .. n : i \notin Below[i]
  BY <1>2, <1>4, LessIrreflexive
<1>6. \A i, j, k \in 1 .. n : i \in Below[j] /\ j \in Below[k] => i \in Below[k]
  BY <1>2, <1>4, LessTransitive
<1>7. \A i, j, k \in 1 .. n : i \in Below[j] => i \in Below[k] \/ k \in Below[j]
  BY <1>2, <1>4, LessWeak
<1>8. Below \in [1 .. n -> SUBSET (1 .. n)]
  BY <1>3
<1>9. Below = [i \in 1 .. n |-> {j \in 1 .. n : Less(seq[j].path, seq[i].path)}]
  BY <1>2, <1>3
<1> QED
  BY <1>5, <1>6, <1>7, <1>8, <1>9 DEF IsWeakOrder

\* By a number and then by path.
ByKey(key, path, n) ==
  [i \in 1 .. n |-> {j \in 1 .. n : key[j] < key[i] \/ (key[j] = key[i] /\ Less(path[j], path[i]))}]

LEMMA KeysWeak ==
  ASSUME NEW n \in Nat, NEW key, \A i \in 1 .. n : key[i] \in Int,
         NEW path, \A i \in 1 .. n : path[i] \in Seq(Int)
  PROVE  IsWeakOrder(n, ByKey(key, path, n))
<1>1. PICK Below : Below = ByKey(key, path, n)
  OBVIOUS
<1>2. \A i, j \in 1 .. n :
        j \in Below[i] <=> key[j] < key[i] \/ (key[j] = key[i] /\ Less(path[j], path[i]))
  BY <1>1 DEF ByKey
<1>3. ASSUME NEW i \in 1 .. n  PROVE i \notin Below[i]
  <2>1. path[i] \in Seq(Int) /\ key[i] \in Int
    OBVIOUS
  <2>2. ~Less(path[i], path[i])
    BY <2>1, LessIrreflexive
  <2>3. ~(key[i] < key[i])
    BY <2>1
  <2> QED
    BY <1>2, <2>2, <2>3
<1>4. ASSUME NEW i \in 1 .. n, NEW j \in 1 .. n, NEW k \in 1 .. n, i \in Below[j], j \in Below[k]
      PROVE  i \in Below[k]
  <2>1. key[i] \in Int /\ key[j] \in Int /\ key[k] \in Int
    OBVIOUS
  <2>2. key[i] =< key[j] /\ key[j] =< key[k]
    <3>1. key[i] < key[j] \/ key[i] = key[j]
      BY <1>2, <1>4
    <3>2. key[j] < key[k] \/ key[j] = key[k]
      BY <1>2, <1>4
    <3> QED
      BY <2>1, <3>1, <3>2
  <2>3. CASE key[i] < key[j] \/ key[j] < key[k]
    <3>1. key[i] < key[k]
      BY <2>1, <2>2, <2>3
    <3> QED
      BY <1>2, <3>1
  <2>4. CASE key[i] = key[j] /\ key[j] = key[k]
    <3>1. Less(path[i], path[j]) /\ Less(path[j], path[k])
      BY <1>2, <1>4, <2>1, <2>4
    <3>2. Less(path[i], path[k])
      BY <3>1, LessTransitive
    <3> QED
      BY <1>2, <2>4, <3>2
  <2> QED
    BY <2>1, <2>2, <2>3, <2>4
<1>5. ASSUME NEW i \in 1 .. n, NEW j \in 1 .. n, NEW k \in 1 .. n, i \in Below[j]
      PROVE  i \in Below[k] \/ k \in Below[j]
  <2>1. key[i] \in Int /\ key[j] \in Int /\ key[k] \in Int
    OBVIOUS
  <2>2. CASE key[i] < key[j]
    <3>1. key[i] < key[k] \/ key[k] < key[j]
      BY <2>1, <2>2
    <3> QED
      BY <1>2, <3>1
  <2>3. CASE key[i] = key[j] /\ Less(path[i], path[j])
    <3>1. key[i] < key[k] \/ key[k] < key[j] \/ (key[i] = key[k] /\ key[k] = key[j])
      BY <2>1, <2>3
    <3>2. Less(path[i], path[k]) \/ Less(path[k], path[j])
      BY <2>3, LessWeak
    <3> QED
      BY <1>2, <3>1, <3>2
  <2> QED
    BY <1>2, <1>5, <2>2, <2>3
<1>6. Below \in [1 .. n -> SUBSET (1 .. n)]
  BY <1>1 DEF ByKey
<1> QED
  BY <1>1, <1>3, <1>4, <1>5, <1>6 DEF IsWeakOrder

\* Sorted arranges all places, and no later path is less than an earlier one.
LEMMA SortedArranges ==
  ASSUME NEW n \in Nat, NEW seq, DOMAIN seq = 1 .. n, \A i \in 1 .. n : seq[i].path \in Seq(Int)
  PROVE  \E Before : /\ Orders(1 .. n, Before)
                     /\ Sorted(seq, ByPath) = Arranged(seq, Before)
                     /\ \A i, j \in 1 .. n : j \in Before[i] => ~Less(seq[i].path, seq[j].path)
<1>1. PICK Below : Below = [i \in 1 .. n |-> {j \in 1 .. n : Less(seq[j].path, seq[i].path)}]
  OBVIOUS
<1>2. IsWeakOrder(n, Below)
  BY <1>1, PathsWeak
<1>3. PICK Before : Before = Ahead(n, Below)
  OBVIOUS
<1>4. Before \in [1 .. n -> SUBSET (1 .. n)] /\ IsOrder(1 .. n, Before)
  BY <1>2, <1>3, AheadIsOrder
<1>5. \A i, j \in 1 .. n : j \in Below[i] <=> ByPath(seq[j], seq[i])
  BY <1>1 DEF ByPath
<1>6. \A i \in 1 .. n :
        Before[i] = {j \in 1 .. n : ByPath(seq[j], seq[i]) \/ (~ByPath(seq[i], seq[j]) /\ j < i)}
  BY <1>3, <1>5 DEF Ahead
<1>7. Sorted(seq, ByPath) = Arranged(seq, Before)
  <2>1. DOMAIN Before = 1 .. n
    BY <1>4
  <2>2. ASSUME NEW i \in 1 .. n
        PROVE  {j \in 1 .. n : ByPath(seq[j], seq[i]) \/ (~ByPath(seq[i], seq[j]) /\ j < i)} = Before[i]
    BY <1>6
  <2>3. PICK ranks : ranks = [i \in 1 .. n |-> 1 + Cardinality(Before[i])]
    OBVIOUS
  <2>4. [i \in 1 .. n |-> 1 + Cardinality({j \in 1 .. n : ByPath(seq[j], seq[i]) \/ (~ByPath(seq[i], seq[j]) /\ j < i)})]
          = ranks
    BY <2>2, <2>3
  <2>5. PICK places : places = AntiFunction(ranks)
    OBVIOUS
  <2>6. Arranged(seq, Before) = [k \in DOMAIN places |-> seq[places[k]]]
    BY <2>1, <2>3, <2>5 DEF Arranged
  <2>7. Sorted(seq, ByPath) = [k \in DOMAIN places |-> seq[places[k]]]
    BY <2>4, <2>5 DEF Sorted, Ranked
  <2> QED
    BY <2>6, <2>7
<1>8. Orders(1 .. n, Before)
  BY <1>4, UptoIsFinite DEF Orders
<1>9. ASSUME NEW i \in 1 .. n, NEW j \in 1 .. n, j \in Before[i], Less(seq[i].path, seq[j].path)
      PROVE  FALSE
  <2>1. Less(seq[j].path, seq[i].path)
    BY <1>6, <1>9 DEF ByPath
  <2>2. i \in Below[j] /\ j \in Below[i]
    BY <1>1, <1>9, <2>1
  <2> QED
    BY <1>2, <2>2 DEF IsWeakOrder
<1> QED
  BY <1>7, <1>8, <1>9

\* aggregate's files: the same ones, by path.
LEMMA SortedByPath ==
  ASSUME NEW n \in Nat, NEW seq, DOMAIN seq = 1 .. n, \A i \in 1 .. n : seq[i].path \in Seq(Int)
  PROVE  DOMAIN Sorted(seq, ByPath) = 1 .. n /\ ToSet(Sorted(seq, ByPath)) = ToSet(seq)
<1>1. PICK Before : Orders(1 .. n, Before) /\ Sorted(seq, ByPath) = Arranged(seq, Before)
  BY SortedArranges
<1>2. Cardinality(1 .. n) = n
  BY UptoIsFinite
<1>3. PICK S : S = 1 .. n
  OBVIOUS
<1>4. /\ ToSet(Arranged(seq, Before)) = {seq[i] : i \in S}
      /\ DOMAIN Arranged(seq, Before) = 1 .. Cardinality(S)
  BY <1>1, <1>3, ArrangedIs
<1> QED
  BY <1>1, <1>2, <1>3, <1>4 DEF ToSet

\* The details of skipped paths: the same ones, by path and reason.
LEMMA DetailsSorted ==
  ASSUME NEW n \in Nat, NEW details, DOMAIN details = 1 .. n,
         \A i \in 1 .. n : details[i].path \in Seq(Int) /\ details[i].reason \in Int
  PROVE  /\ DOMAIN SkippedSummary(details).details = 1 .. n
         /\ ToSet(SkippedSummary(details).details) = ToSet(details)
         /\ \E places, Before :
              ArrangedAs(SkippedSummary(details).details, details, n, places, Before)
<1> DEFINE before(left, right) ==
             \/ ByPath(left, right)
             \/ left.path = right.path /\ left.reason < right.reason
<1>1. PICK Below : Below = [i \in 1 .. n |-> {j \in 1 .. n : before(details[j], details[i])}]
  OBVIOUS
<1>2. IsWeakOrder(n, Below)
  <2>1. PICK path : path = [i \in 1 .. n |-> details[i].path]
    OBVIOUS
  <2>2. PICK reason : reason = [i \in 1 .. n |-> details[i].reason]
    OBVIOUS
  <2>3. \A i \in 1 .. n : path[i] \in Seq(Int) /\ reason[i] \in Int
    BY <2>1, <2>2
  <2>4. \A i, j \in 1 .. n :
          j \in Below[i] <=> Less(path[j], path[i]) \/ (path[j] = path[i] /\ reason[j] < reason[i])
    BY <1>1, <2>1, <2>2 DEF ByPath
  <2>5. \A i \in 1 .. n : i \notin Below[i]
    BY <2>3, <2>4, LessIrreflexive
  <2>6. ASSUME NEW i \in 1 .. n, NEW j \in 1 .. n, NEW k \in 1 .. n, i \in Below[j], j \in Below[k]
        PROVE  i \in Below[k]
    <3>1. CASE Less(path[i], path[j])
      <4>1. CASE Less(path[j], path[k])
        BY <3>1, <4>1, <2>3, <2>4, LessTransitive
      <4>2. CASE path[j] = path[k]
        BY <3>1, <4>2, <2>4
      <4> QED
        BY <4>1, <4>2, <2>4, <2>6
    <3>2. CASE path[i] = path[j] /\ reason[i] < reason[j]
      <4>1. CASE Less(path[j], path[k])
        BY <3>2, <4>1, <2>4
      <4>2. CASE path[j] = path[k] /\ reason[j] < reason[k]
        BY <3>2, <4>2, <2>3, <2>4
      <4> QED
        BY <4>1, <4>2, <2>4, <2>6
    <3> QED
      BY <3>1, <3>2, <2>4, <2>6
  <2>7. ASSUME NEW i \in 1 .. n, NEW j \in 1 .. n, NEW k \in 1 .. n, i \in Below[j]
        PROVE  i \in Below[k] \/ k \in Below[j]
    <3>1. CASE Less(path[i], path[j])
      BY <3>1, <2>3, <2>4, LessWeak
    <3>2. CASE path[i] = path[j] /\ reason[i] < reason[j]
      <4>1. CASE path[k] = path[i]
        BY <4>1, <3>2, <2>3, <2>4
      <4>2. CASE path[k] # path[i]
        BY <4>2, <3>2, <2>3, <2>4, LessTotal
      <4> QED
        BY <4>1, <4>2
    <3> QED
      BY <3>1, <3>2, <2>4, <2>7
  <2>8. Below \in [1 .. n -> SUBSET (1 .. n)]
    BY <1>1
  <2> QED
    BY <2>5, <2>6, <2>7, <2>8 DEF IsWeakOrder
<1>3. PICK Before : Before = Ahead(n, Below)
  OBVIOUS
<1>4. Before \in [1 .. n -> SUBSET (1 .. n)] /\ IsOrder(1 .. n, Before)
  BY <1>2, <1>3, AheadIsOrder
<1>5. \A i, j \in 1 .. n : j \in Below[i] <=> before(details[j], details[i])
  BY <1>1
<1> HIDE DEF before
<1>6. \A i \in 1 .. n :
        Before[i] = {j \in 1 .. n : before(details[j], details[i]) \/ (~before(details[i], details[j]) /\ j < i)}
  BY <1>3, <1>5 DEF Ahead
<1>7. Sorted(details, before) = Arranged(details, Before)
  <2>1. DOMAIN Before = 1 .. n
    BY <1>4
  <2>2. ASSUME NEW i \in 1 .. n
        PROVE  {j \in 1 .. n : before(details[j], details[i]) \/ (~before(details[i], details[j]) /\ j < i)} = Before[i]
    BY <1>6
  <2>3. PICK ranks : ranks = [i \in 1 .. n |-> 1 + Cardinality(Before[i])]
    OBVIOUS
  <2>4. [i \in 1 .. n |-> 1 + Cardinality({j \in 1 .. n : before(details[j], details[i]) \/ (~before(details[i], details[j]) /\ j < i)})]
          = ranks
    BY <2>2, <2>3
  <2>5. PICK places : places = AntiFunction(ranks)
    OBVIOUS
  <2>6. Arranged(details, Before) = [k \in DOMAIN places |-> details[places[k]]]
    BY <2>1, <2>3, <2>5 DEF Arranged
  <2>7. Sorted(details, before) = [k \in DOMAIN places |-> details[places[k]]]
    BY <2>4, <2>5 DEF Sorted, Ranked
  <2> QED
    BY <2>6, <2>7
<1>8. SkippedSummary(details).details = Arranged(details, Before)
  BY <1>7 DEF SkippedSummary, before
<1>9. Orders(1 .. n, Before)
  BY <1>4, UptoIsFinite DEF Orders
<1>10. PICK places : ArrangedAs(SkippedSummary(details).details, details, n, places, Before)
  BY <1>8, <1>9, AllArranged
<1> QED
  BY <1>10, SameElements

-----------------------------------------------------------------------------
(* Paths below a clean root, and without a prefix *)

\* What is before the paths below a clean root.
Prefix(root) == IF root = <<Here>> THEN <<>> ELSE root

LEMMA CleanRoot ==
  ASSUME NEW root \in Seq(Int), Clean(root) = root
  PROVE  root # <<>> /\ Prefix(root) \in Seq(Int) /\ Folded(root) = Prefix(root)
<1>1. root # <<>> /\ root = IF Folded(root) = <<>> THEN <<Here>> ELSE Folded(root)
  BY CleanIs
<1>2. CASE root = <<Here>>
  BY <1>1, <1>2, FoldedHere DEF Prefix
<1>3. CASE root # <<Here>>
  BY <1>1, <1>3 DEF Prefix
<1> QED
  BY <1>2, <1>3

\* What follows the first n elements.
LEMMA AfterFirst ==
  ASSUME NEW s \in Seq(Int), NEW n \in Nat, n =< Len(s), NEW rest, rest = SubSeq(s, n + 1, Len(s))
  PROVE  /\ rest \in Seq(Int) /\ Len(rest) = Len(s) - n
         /\ \A i \in 1 .. Len(s) - n : rest[i] = s[n + i]
<1>1. PICK l \in Nat : l = Len(s)
  OBVIOUS
<1>2. \A i \in n + 1 .. l : s[i] \in Int
  BY <1>1
<1>3. rest = SubSeq(s, n + 1, l) /\ n + 1 \in Int /\ l \in Int /\ n =< l
  BY <1>1
<1>4. /\ rest \in Seq(Int) /\ Len(rest) = IF n + 1 <= l THEN l - (n + 1) + 1 ELSE 0
      /\ \A i \in 1 .. l - (n + 1) + 1 : rest[i] = s[(n + 1) + i - 1]
  BY <1>2, <1>3, SubSeqProperties, SMTT(30)
<1>5. (IF n + 1 <= l THEN l - (n + 1) + 1 ELSE 0) = l - n
  BY <1>3
<1>6. ASSUME NEW i \in 1 .. l - n  PROVE rest[i] = s[n + i]
  <2>1. (n + 1) + i - 1 = n + i /\ i \in 1 .. l - (n + 1) + 1
    OBVIOUS
  <2> QED
    BY <1>4, <2>1
<1> QED
  BY <1>1, <1>4, <1>5, <1>6

\* A file is shown under the root, and relative to it again under its own path.
LEMMA CleanBelow ==
  ASSUME NEW root \in Seq(Int), Clean(root) = root, NEW path \in Seq(Nat), path # <<>>
  PROVE  /\ Clean(root \o path) = Prefix(root) \o path
         /\ StripPrefix(Clean(root \o path), root) = path
<1>1. root # <<>> /\ Prefix(root) \in Seq(Int) /\ Folded(root) = Prefix(root)
  BY CleanRoot
<1>2. Prefix(root) \o path # <<>>
  BY <1>1
<1>3. Clean(root \o path) = Prefix(root) \o path
  BY <1>1, <1>2, CleanNames
<1>4. StripPrefix(Prefix(root) \o path, root) = path
  <2>1. CASE root = <<Here>>
    <3>1. Prefix(root) \o path = path
      BY <2>1 DEF Prefix
    <3>2. path[1] \in Nat /\ Len(path) \in Nat
      OBVIOUS
    <3>3. ~IsPrefix(<<Here>>, path)
      BY <3>2 DEF IsPrefix, Here
    <3> QED
      BY <2>1, <3>1, <3>3 DEF StripPrefix, StartsWith
  <2>2. CASE root # <<Here>>
    <3>1. PICK shown : shown = root \o path
      OBVIOUS
    <3>2. /\ Len(shown) = Len(root) + Len(path)
          /\ shown \in Seq(Int) /\ \A i \in 1 .. Len(root) : shown[i] = root[i]
      BY <3>1
    <3>3. IsPrefix(root, shown)
      BY <3>1, <3>2 DEF IsPrefix
    <3>4. SubSeq(shown, Len(root) + 1, Len(shown)) = path
      <4>1. PICK rest : rest = SubSeq(shown, Len(root) + 1, Len(shown))
        OBVIOUS
      <4>2. /\ rest \in Seq(Int) /\ Len(rest) = Len(path)
            /\ \A i \in 1 .. Len(path) : rest[i] = shown[Len(root) + i]
        <5>1. /\ Len(root) \in Nat /\ Len(root) =< Len(shown)
              /\ Len(shown) - Len(root) = Len(path)
          BY <3>2
        <5> QED
          BY <5>1, <3>2, <4>1, AfterFirst
      <4>3. \A i \in 1 .. Len(path) : shown[Len(root) + i] = path[i]
        BY <3>1
      <4>4. rest = path
        <5>1. path \in Seq(Int) /\ Len(path) = Len(rest)
          BY <4>2
        <5>2. \A i \in 1 .. Len(path) : path[i] = rest[i]
          BY <4>2, <4>3
        <5> HIDE DEF Prefix
        <5> QED
          BY <4>2, <5>1, <5>2, SeqEqual
      <4> QED
        BY <4>1, <4>4
    <3> QED
      BY <2>2, <3>1, <3>3, <3>4 DEF StripPrefix, StartsWith, Beneath, Prefix
  <2> QED
    BY <2>1, <2>2
<1> QED
  BY <1>3, <1>4

\* What is below a path that a prefix is not beyond is stripped like the path itself.
LEMMA StripBelow ==
  ASSUME NEW path \in Seq(Int), NEW below \in Seq(Int), NEW prefix \in Seq(Int),
         ~IsStrictPrefix(path, prefix)
  PROVE  StripPrefix(path \o below, prefix) = StripPrefix(path, prefix) \o below
<1>1. PICK whole : whole = path \o below
  OBVIOUS
<1>2. /\ whole \in Seq(Int) /\ Len(whole) = Len(path) + Len(below)
      /\ Len(path) \in Nat /\ Len(below) \in Nat /\ Len(prefix) \in Nat
      /\ \A i \in 1 .. Len(path) : whole[i] = path[i]
      /\ \A i \in 1 .. Len(below) : whole[Len(path) + i] = below[i]
  BY <1>1
<1>3. CASE IsPrefix(prefix, path)
  <2>1. Len(prefix) =< Len(path) /\ \A i \in 1 .. Len(prefix) : path[i] = prefix[i]
    BY <1>3 DEF IsPrefix
  <2>2. IsPrefix(prefix, whole)
    BY <1>2, <2>1 DEF IsPrefix
  <2>3. SubSeq(whole, Len(prefix) + 1, Len(whole)) = SubSeq(path, Len(prefix) + 1, Len(path)) \o below
    <3>1. PICK n \in Nat : n = Len(prefix) /\ n =< Len(path)
      BY <2>1
    <3>2. PICK left : left = SubSeq(whole, n + 1, Len(whole))
      OBVIOUS
    <3>3. /\ left \in Seq(Int) /\ Len(left) = Len(path) + Len(below) - n
          /\ \A i \in 1 .. Len(path) + Len(below) - n : left[i] = whole[n + i]
      <4>1. whole \in Seq(Int) /\ n =< Len(whole) /\ Len(whole) = Len(path) + Len(below)
        BY <3>1, <1>2
      <4> QED
        BY <4>1, <3>2, AfterFirst
    <3>4. PICK rest : rest = SubSeq(path, n + 1, Len(path))
      OBVIOUS
    <3>5. /\ rest \in Seq(Int) /\ Len(rest) = Len(path) - n
          /\ \A i \in 1 .. Len(path) - n : rest[i] = path[n + i]
      BY <3>1, <3>4, AfterFirst
    <3>6. PICK right : right = rest \o below
      OBVIOUS
    <3>7. /\ right \in Seq(Int) /\ Len(right) = Len(rest) + Len(below)
          /\ \A i \in 1 .. Len(right) :
               right[i] = IF i =< Len(rest) THEN rest[i] ELSE below[i - Len(rest)]
      <4>1. rest \in Seq(Int) /\ below \in Seq(Int)
        BY <3>5
      <4> QED
        BY <3>6, <4>1, ConcatProperties
    <3>8. /\ \A i \in 1 .. Len(whole) :
               whole[i] = IF i =< Len(path) THEN path[i] ELSE below[i - Len(path)]
      BY <1>1, ConcatProperties
    <3>9. Len(left) = Len(right) /\ Len(right) = Len(path) - n + Len(below)
      BY <3>1, <3>3, <3>5, <3>7, <1>2
    <3>10. ASSUME NEW i \in 1 .. Len(left)  PROVE left[i] = right[i]
      <4>1. /\ i \in Int /\ i >= 1 /\ n \in Int /\ n >= 0 /\ Len(path) \in Int
            /\ i =< Len(path) + Len(below) - n
        BY <3>3, <3>9, <1>2
      <4>2. n + i \in 1 .. Len(whole) /\ left[i] = whole[n + i]
        <5>1. n + i >= 1 /\ n + i =< Len(whole) /\ i =< Len(path) + Len(below) - n
          BY <4>1, <1>2
        <5> QED
          BY <4>1, <5>1, <3>3, <1>2
      <4>3. CASE i =< Len(path) - n
        <5>1. n + i =< Len(path)
          BY <4>1, <4>3
        <5>2. whole[n + i] = path[n + i]
          BY <4>2, <5>1, <3>8
        <5>3. left[i] = path[n + i]
          BY <4>2, <5>2
        <5>4. i \in 1 .. Len(right) /\ i \in 1 .. Len(path) - n /\ i =< Len(rest)
          BY <4>1, <4>3, <3>5, <3>9
        <5>5. right[i] = rest[i] /\ rest[i] = path[n + i]
          BY <5>4, <3>5, <3>7
        <5> QED
          BY <5>3, <5>5
      <4>4. CASE i > Len(path) - n
        <5>1. left[i] = below[n + i - Len(path)]
          BY <4>1, <4>2, <4>4, <3>8, SMTT(30)
        <5>2. right[i] = below[i - Len(rest)]
          BY <4>1, <4>4, <3>5, <3>7, <3>9
        <5>3. n + i - Len(path) = i - Len(rest)
          BY <4>1, <3>5
        <5> QED
          BY <5>1, <5>2, <5>3
      <4> QED
        BY <4>1, <4>3, <4>4
    <3>11. left = right
      BY <3>3, <3>7, <3>9, <3>10, SeqEqual
    <3> QED
      BY <3>1, <3>2, <3>4, <3>6, <3>11
  <2> QED
    BY <1>1, <1>3, <2>2, <2>3 DEF StripPrefix, StartsWith, Beneath
<1>4. CASE ~IsPrefix(prefix, path)
  <2>1. ASSUME IsPrefix(prefix, whole)  PROVE FALSE
    <3>1. Len(prefix) =< Len(whole) /\ \A i \in 1 .. Len(prefix) : whole[i] = prefix[i]
      BY <2>1, <1>2 DEF IsPrefix
    <3>2. CASE Len(prefix) =< Len(path)
      BY <3>1, <3>2, <1>2, <1>4 DEF IsPrefix
    <3>3. CASE Len(prefix) > Len(path)
      <4>1. \A i \in 1 .. Len(path) : prefix[i] = path[i]
        BY <3>1, <3>3, <1>2
      <4> QED
        BY <3>3, <4>1, <1>2 DEF IsStrictPrefix, IsPrefix
    <3> QED
      BY <3>2, <3>3, <1>2
  <2> QED
    BY <1>1, <1>4, <2>1 DEF StripPrefix, StartsWith
<1> QED
  BY <1>3, <1>4

\* A part of a path has none but its components.
LEMMA StripComponents ==
  ASSUME NEW path \in Seq(Int), NEW prefix \in Seq(Int), NEW name, name \notin ToSet(path)
  PROVE  name \notin ToSet(StripPrefix(path, prefix)) /\ StripPrefix(path, prefix) \in Seq(Int)
<1>1. CASE IsPrefix(prefix, path)
  <2>1. PICK n \in Nat : n = Len(prefix) /\ n =< Len(path)
    BY <1>1 DEF IsPrefix
  <2>2. PICK rest : rest = SubSeq(path, n + 1, Len(path))
    OBVIOUS
  <2>3. rest \in Seq(Int) /\ Len(rest) = Len(path) - n /\ \A i \in 1 .. Len(rest) : rest[i] = path[n + i]
    BY <2>1, <2>2
  <2>4. \A i \in 1 .. Len(rest) : n + i \in 1 .. Len(path)
    BY <2>1, <2>3
  <2>5. name \notin ToSet(rest)
    <3>1. \A i \in 1 .. Len(path) : path[i] # name
      BY DEF ToSet
    <3>2. \A i \in 1 .. Len(rest) : rest[i] # name
      BY <3>1, <2>3, <2>4
    <3>3. DOMAIN rest = 1 .. Len(rest)
      BY <2>3
    <3> QED
      BY <3>2, <3>3 DEF ToSet
  <2> QED
    BY <1>1, <2>1, <2>2, <2>3, <2>5 DEF StripPrefix, StartsWith, Beneath
<1>2. CASE ~IsPrefix(prefix, path)
  BY <1>2 DEF StripPrefix, StartsWith
<1> QED
  BY <1>1, <1>2

-----------------------------------------------------------------------------
(* What aggregate adds up *)

\* Files that are to be aggregated.
AreFiles(files, n) ==
  /\ n \in Nat /\ DOMAIN files = 1 .. n
  /\ \A i \in 1 .. n : /\ files[i].path \in Seq(Int) /\ files[i].language \in Int
                       /\ files[i].tokens \in Nat /\ files[i].bytes \in Nat

TokensIn(files) == [i \in DOMAIN files |-> files[i].tokens]
BytesIn(files)  == [i \in DOMAIN files |-> files[i].bytes]

\* The totals of the files at the places S.
Fits(files, S) ==
  /\ Cardinality(S) =< MaxCount
  /\ SumOver(TokensIn(files), S) =< MaxCount /\ SumOver(BytesIn(files), S) =< MaxCount

TotalsOver(files, S) ==
  IF Fits(files, S)
  THEN [files  |-> Cardinality(S),
        tokens |-> SumOver(TokensIn(files), S),
        bytes  |-> SumOver(BytesIn(files), S)]
  ELSE Overflow

LEMMA SumsAreNatural ==
  ASSUME NEW n, NEW files, AreFiles(files, n), NEW S \in SUBSET (1 .. n)
  PROVE  /\ IsFiniteSet(S) /\ Cardinality(S) \in Nat
         /\ Weighs(TokensIn(files), S) /\ SumOver(TokensIn(files), S) \in Nat
         /\ Weighs(BytesIn(files), S) /\ SumOver(BytesIn(files), S) \in Nat
<1>1. IsFiniteSet(S) /\ Cardinality(S) \in Nat
  BY UptoIsFinite, FS_Subset, FS_CardinalityType DEF AreFiles
<1>2. \A i \in S : /\ TokensIn(files)[i] \in Int /\ TokensIn(files)[i] >= 0
                   /\ BytesIn(files)[i] \in Int /\ BytesIn(files)[i] >= 0
  BY DEF AreFiles, TokensIn, BytesIn
<1>3. Weighs(TokensIn(files), S) /\ Weighs(BytesIn(files), S)
  BY <1>1, <1>2 DEF Weighs
<1>4. S \in SUBSET S
  OBVIOUS
<1>5. 0 =< SumOver(TokensIn(files), S) /\ SumOver(TokensIn(files), S) \in Int
  BY <1>2, <1>3, <1>4, SumPart, SumType
<1>6. 0 =< SumOver(BytesIn(files), S) /\ SumOver(BytesIn(files), S) \in Int
  BY <1>2, <1>3, <1>4, SumPart, SumType
<1> QED
  BY <1>1, <1>3, <1>5, <1>6

\* Fewer files have no more of anything.
LEMMA SumsGrow ==
  ASSUME NEW n, NEW files, AreFiles(files, n), NEW S \in SUBSET (1 .. n), NEW T \in SUBSET S
  PROVE  /\ Cardinality(T) =< Cardinality(S)
         /\ SumOver(TokensIn(files), T) =< SumOver(TokensIn(files), S)
         /\ SumOver(BytesIn(files), T) =< SumOver(BytesIn(files), S)
         /\ Fits(files, S) => Fits(files, T)
<1>1. /\ IsFiniteSet(S) /\ Weighs(TokensIn(files), S) /\ Weighs(BytesIn(files), S)
      /\ Cardinality(S) \in Nat /\ SumOver(TokensIn(files), S) \in Nat /\ SumOver(BytesIn(files), S) \in Nat
  BY SumsAreNatural
<1>2. T \in SUBSET (1 .. n)
  OBVIOUS
<1>3. Cardinality(T) \in Nat /\ SumOver(TokensIn(files), T) \in Nat /\ SumOver(BytesIn(files), T) \in Nat
  BY <1>2, SumsAreNatural
<1>4. Cardinality(T) =< Cardinality(S)
  BY <1>1, FS_Subset
<1>5. \A i \in S : TokensIn(files)[i] >= 0 /\ BytesIn(files)[i] >= 0
  <2>1. \A i \in 1 .. n : /\ TokensIn(files)[i] = files[i].tokens /\ files[i].tokens \in Nat
                         /\ BytesIn(files)[i] = files[i].bytes /\ files[i].bytes \in Nat
    BY DEF AreFiles, TokensIn, BytesIn
  <2>2. \A k \in Nat : k >= 0
    OBVIOUS
  <2> QED
    BY <2>1, <2>2
<1>6. SumOver(TokensIn(files), T) =< SumOver(TokensIn(files), S)
  BY <1>1, <1>5, SumPart
<1>7. SumOver(BytesIn(files), T) =< SumOver(BytesIn(files), S)
  BY <1>1, <1>5, SumPart
<1> QED
  BY <1>1, <1>3, <1>4, <1>6, <1>7, AggregationAssumption DEF Fits

\* One file more, as add_file adds it.
LEMMA TotalsOfOneMore ==
  ASSUME NEW n, NEW files, AreFiles(files, n), NEW T \in SUBSET (1 .. n), NEW m \in T
  PROVE  TotalsOver(files, T) = AddFile(TotalsOver(files, T \ {m}), files[m])
<1>1. PICK R : R = T \ {m}
  OBVIOUS
<1>2. R \in SUBSET T /\ R \in SUBSET (1 .. n)
  BY <1>1
<1>3. PICK c : c = Cardinality(R)
  OBVIOUS
<1>4. PICK t : t = SumOver(TokensIn(files), R)
  OBVIOUS
<1>5. PICK b : b = SumOver(BytesIn(files), R)
  OBVIOUS
<1>6. c \in Nat /\ t \in Nat /\ b \in Nat
  BY <1>2, <1>3, <1>4, <1>5, SumsAreNatural
<1>7. files[m].tokens \in Nat /\ files[m].bytes \in Nat
      /\ TokensIn(files)[m] = files[m].tokens /\ BytesIn(files)[m] = files[m].bytes
  BY DEF AreFiles, TokensIn, BytesIn
<1>8. /\ Cardinality(T) = c + 1
      /\ SumOver(TokensIn(files), T) = files[m].tokens + t
      /\ SumOver(BytesIn(files), T) = files[m].bytes + b
  <2>1. IsFiniteSet(T) /\ Weighs(TokensIn(files), T) /\ Weighs(BytesIn(files), T) /\ Cardinality(T) \in Nat
    BY SumsAreNatural
  <2>2. Cardinality(R) = Cardinality(T) - 1
    BY <2>1, <1>1, FS_RemoveElement
  <2>3. SumOver(TokensIn(files), T) = TokensIn(files)[m] + t
    BY <2>1, <1>1, <1>4, SumTake
  <2>4. SumOver(BytesIn(files), T) = BytesIn(files)[m] + b
    BY <2>1, <1>1, <1>5, SumTake
  <2> QED
    BY <2>1, <2>2, <2>3, <2>4, <1>3, <1>7
<1>9. CASE ~Fits(files, R)
  <2>1. ~Fits(files, T)
    BY <1>2, <1>9, SumsGrow
  <2> QED
    BY <2>1, <1>1, <1>9 DEF TotalsOver, AddFile
<1>10. CASE Fits(files, R)
  <2>1. TotalsOver(files, R) = [files |-> c, tokens |-> t, bytes |-> b]
    BY <1>3, <1>4, <1>5, <1>10 DEF TotalsOver
  <2>2. [files |-> c, tokens |-> t, bytes |-> b] # Overflow
    BY DEF Overflow
  <2>3. PICK sum : sum = [files |-> c + 1, tokens |-> t + files[m].tokens, bytes |-> b + files[m].bytes]
    OBVIOUS
  <2>4. AddFile(TotalsOver(files, R), files[m])
          = IF \E field \in DOMAIN sum : sum[field] > MaxCount THEN Overflow ELSE sum
    BY <2>1, <2>2, <2>3 DEF AddFile
  <2>5. (\E field \in DOMAIN sum : sum[field] > MaxCount) <=> ~Fits(files, T)
    <3>1. (\E field \in DOMAIN sum : sum[field] > MaxCount)
            <=> \/ c + 1 > MaxCount \/ t + files[m].tokens > MaxCount \/ b + files[m].bytes > MaxCount
      BY <2>3
    <3>2. ~Fits(files, T)
            <=> \/ c + 1 > MaxCount \/ t + files[m].tokens > MaxCount \/ b + files[m].bytes > MaxCount
      BY <1>6, <1>7, <1>8, AggregationAssumption DEF Fits
    <3> QED
      BY <3>1, <3>2
  <2>6. sum = [files  |-> Cardinality(T),
               tokens |-> SumOver(TokensIn(files), T),
               bytes  |-> SumOver(BytesIn(files), T)]
    BY <2>3, <1>6, <1>7, <1>8
  <2> QED
    BY <2>4, <2>5, <2>6, <1>1 DEF TotalsOver
<1> QED
  BY <1>9, <1>10

\* g[T] are the totals that FoldLeft makes of the files at the places T.
Totals(g, files, n) ==
  g = [T \in SUBSET (1 .. n) |-> IF T = {} THEN NoTotals ELSE AddFile(g[T \ {Max(T)}], files[Max(T)])]

LEMMA TotalsOfIs ==
  ASSUME NEW n, NEW files, AreFiles(files, n)
  PROVE  TotalsOf(files) = TotalsOver(files, 1 .. n)
<1>0. n \in Nat /\ DOMAIN files = 1 .. n
  BY DEF AreFiles
<1>1. ASSUME NEW T \in SUBSET (1 .. n), T # {}
      PROVE  /\ T \ {Max(T)} \in SUBSET (1 .. n)
             /\ TotalsOver(files, T) = AddFile(TotalsOver(files, T \ {Max(T)}), files[Max(T)])
  <2>1. Max(T) \in T
    BY <1>0, <1>1, GreatestNatural
  <2> QED
    BY <2>1, TotalsOfOneMore
<1>2. TotalsOver(files, {}) = NoTotals
  <2>1. Cardinality({}) = 0 /\ SumOver(TokensIn(files), {}) = 0 /\ SumOver(BytesIn(files), {}) = 0
    BY FS_EmptySet, SumNone
  <2> QED
    BY <2>1, AggregationAssumption DEF TotalsOver, Fits, NoTotals
<1>3. \E g : Totals(g, files, n)
  <2>1. PICK h : h = [T \in SUBSET (1 .. n) |-> TotalsOver(files, T)]
    OBVIOUS
  <2>2. \A T \in SUBSET (1 .. n) :
          h[T] = IF T = {} THEN NoTotals ELSE AddFile(h[T \ {Max(T)}], files[Max(T)])
    BY <1>1, <1>2, <2>1
  <2>3. h = [T \in SUBSET (1 .. n) |-> h[T]]
    BY <2>1
  <2>4. Totals(h, files, n)
    BY <2>2, <2>3, Zenon DEF Totals
  <2> QED
    BY <2>4
<1>4. PICK g : g = CHOOSE other : Totals(other, files, n)
  OBVIOUS
<1>5. Totals(g, files, n)
  BY <1>3, <1>4
<1>6. TotalsOf(files) = g[1 .. n]
  BY <1>0, <1>4 DEF TotalsOf, FoldLeft, MapThenFoldSet, Totals
<1>7. PICK Good : Good = {T \in SUBSET (1 .. n) : g[T] = TotalsOver(files, T)}
  OBVIOUS
<1>8. {} \in Good
  <2>1. g[{}] = NoTotals
    BY <1>5 DEF Totals
  <2> QED
    BY <1>2, <1>7, <2>1
<1>9. ASSUME NEW T \in SUBSET (1 .. n), T # {}, T \ {Max(T)} \in Good  PROVE T \in Good
  <2>1. g[T] = AddFile(g[T \ {Max(T)}], files[Max(T)])
    <3>1. g[T] = IF T = {} THEN NoTotals ELSE AddFile(g[T \ {Max(T)}], files[Max(T)])
      BY <1>5 DEF Totals
    <3> QED
      BY <1>9, <3>1
  <2>2. g[T \ {Max(T)}] = TotalsOver(files, T \ {Max(T)})
    BY <1>7, <1>9
  <2> QED
    BY <1>1, <1>7, <1>9, <2>1, <2>2
<1>10. 1 .. n \in Good
  BY <1>0, <1>8, <1>9, GreatestLast
<1> QED
  BY <1>6, <1>7, <1>10

\* The files at some places, in whatever order, have the totals of those places.
LEMMA ArrangedFiles ==
  ASSUME NEW n, NEW files, AreFiles(files, n), NEW S \in SUBSET (1 .. n),
         NEW Before, Orders(S, Before), NEW list, list = Arranged(files, Before)
  PROVE  /\ AreFiles(list, Cardinality(S))
         /\ TotalsOver(list, 1 .. Cardinality(S)) = TotalsOver(files, S)
         /\ SumOver(TokensIn(list), 1 .. Cardinality(S)) = SumOver(TokensIn(files), S)
<1>1. PICK places : /\ Lists(places, S, Before)
                    /\ list = [k \in 1 .. Cardinality(S) |-> files[places[k]]]
  BY ArrangedBy DEF ListedBy
<1>2. PICK m \in Nat : m = Cardinality(S)
  BY SumsAreNatural
<1>3. /\ \A k \in 1 .. m : places[k] \in S /\ list[k] = files[places[k]]
      /\ DOMAIN list = 1 .. m
  BY <1>1, <1>2 DEF Lists
<1>4. AreFiles(list, m)
  BY <1>3 DEF AreFiles
<1>5. /\ \A k \in 1 .. m : TokensIn(list)[k] = TokensIn(files)[places[k]]
      /\ \A k \in 1 .. m : BytesIn(list)[k] = BytesIn(files)[places[k]]
  BY <1>3 DEF AreFiles, TokensIn, BytesIn
<1>6. Weighs(TokensIn(files), S) /\ Weighs(BytesIn(files), S)
  BY SumsAreNatural
<1>7. SumOver(TokensIn(list), 1 .. m) = SumOver(TokensIn(files), S)
  BY <1>1, <1>2, <1>5, <1>6, ListedSum
<1>8. SumOver(BytesIn(list), 1 .. m) = SumOver(BytesIn(files), S)
  BY <1>1, <1>2, <1>5, <1>6, ListedSum
<1>9. Cardinality(1 .. m) = m
  BY UptoIsFinite
<1> QED
  BY <1>2, <1>4, <1>7, <1>8, <1>9 DEF TotalsOver, Fits

\* aggregate's files: the same ones, with the same sums, by path.
LEMMA SortedFiles ==
  ASSUME NEW n, NEW files, AreFiles(files, n), NEW list, list = Sorted(files, ByPath)
  PROVE  /\ AreFiles(list, n)
         /\ SumOver(TokensIn(list), 1 .. n) = SumOver(TokensIn(files), 1 .. n)
         /\ (\A i, j \in 1 .. n : files[i].path = files[j].path => i = j)
              => \A i, j \in 1 .. n : i < j => Less(list[i].path, list[j].path)
<1>0. n \in Nat /\ DOMAIN files = 1 .. n /\ \A i \in 1 .. n : files[i].path \in Seq(Int)
  BY DEF AreFiles
<1>1. PICK Before : /\ Orders(1 .. n, Before)
                    /\ Sorted(files, ByPath) = Arranged(files, Before)
                    /\ \A i, j \in 1 .. n : j \in Before[i] => ~Less(files[i].path, files[j].path)
  BY <1>0, SortedArranges
<1>2. Cardinality(1 .. n) = n
  BY <1>0, UptoIsFinite
<1>3. PICK S \in SUBSET (1 .. n) : S = 1 .. n
  OBVIOUS
<1>4. Orders(S, Before) /\ list = Arranged(files, Before)
  BY <1>1, <1>3
<1>5. /\ AreFiles(list, Cardinality(S))
      /\ SumOver(TokensIn(list), 1 .. Cardinality(S)) = SumOver(TokensIn(files), S)
  BY <1>4, ArrangedFiles
<1>6. PICK places : /\ Lists(places, S, Before)
                    /\ list = [k \in 1 .. Cardinality(S) |-> files[places[k]]]
  BY <1>4, ArrangedBy DEF ListedBy
<1>7. ASSUME \A i, j \in 1 .. n : files[i].path = files[j].path => i = j,
             NEW i \in 1 .. n, NEW j \in 1 .. n, i < j
      PROVE  Less(list[i].path, list[j].path)
  <2>1. /\ places[i] \in 1 .. n /\ places[j] \in 1 .. n /\ places[i] \in Before[places[j]]
        /\ list[i] = files[places[i]] /\ list[j] = files[places[j]]
    <3>1. Cardinality(S) = n
      BY <1>2, <1>3
    <3>2. places \in [1 .. n -> 1 .. n] /\ list = [k \in 1 .. n |-> files[places[k]]]
      BY <1>3, <1>6, <3>1 DEF Lists
    <3>3. places[i] \in Before[places[j]]
      BY <1>6, <1>7, <3>1 DEF Lists
    <3> QED
      BY <3>2, <3>3
  <2>2. places[i] # places[j]
    BY <1>1, <1>3, <2>1 DEF Orders, IsOrder
  <2>3. files[places[i]].path # files[places[j]].path
    BY <1>7, <2>1, <2>2
  <2>4. ~Less(files[places[j]].path, files[places[i]].path)
    BY <1>1, <2>1
  <2>5. files[places[i]].path \in Seq(Int) /\ files[places[j]].path \in Seq(Int)
    BY <1>0, <2>1
  <2>6. Less(files[places[i]].path, files[places[j]].path)
    BY <2>3, <2>4, <2>5, LessTotal
  <2> QED
    BY <2>1, <2>6
<1> QED
  BY <1>2, <1>3, <1>5, <1>7

\* The files of one language.
OfLanguage(files, n, language) == {i \in 1 .. n : files[i].language = language}

LEMMA ByLanguageIs ==
  ASSUME NEW n, NEW files, AreFiles(files, n)
  PROVE  /\ DOMAIN ByLanguage(files) = {files[i].language : i \in 1 .. n}
         /\ \A language \in {files[i].language : i \in 1 .. n} :
              ByLanguage(files)[language] = TotalsOver(files, OfLanguage(files, n, language))
<1>0. n \in Nat /\ DOMAIN files = 1 .. n
  BY DEF AreFiles
<1>1. {file.language : file \in ToSet(files)} = {files[i].language : i \in 1 .. n}
  BY <1>0 DEF ToSet
<1>2. ASSUME NEW language
      PROVE  TotalsOf(Filtered(files, LAMBDA file : file.language = language))
               = TotalsOver(files, OfLanguage(files, n, language))
  <2>1. PICK S \in SUBSET (1 .. n) : S = OfLanguage(files, n, language)
    BY DEF OfLanguage
  <2>2. PICK Before : Before = [i \in S |-> {j \in S : j < i}]
    OBVIOUS
  <2>3. PICK list : list = Arranged(files, Before)
    OBVIOUS
  <2>4. Filtered(files, LAMBDA file : file.language = language) = list
    BY <1>0, <2>1, <2>2, <2>3 DEF Filtered, Ranked, Arranged, OfLanguage
  <2>5. Orders(S, Before)
    BY <1>0, <2>2, IndicesOrder
  <2>6. /\ AreFiles(list, Cardinality(S))
        /\ TotalsOver(list, 1 .. Cardinality(S)) = TotalsOver(files, S)
    BY <2>3, <2>5, ArrangedFiles
  <2>7. TotalsOf(list) = TotalsOver(list, 1 .. Cardinality(S))
    BY <2>6, TotalsOfIs
  <2> QED
    BY <2>1, <2>4, <2>6, <2>7
<1> QED
  BY <1>1, <1>2 DEF ByLanguage

\* The entry of a language.
Entry(files, n, language) ==
  [name   |-> language,
   files  |-> Cardinality(OfLanguage(files, n, language)),
   tokens |-> SumOver(TokensIn(files), OfLanguage(files, n, language)),
   bytes  |-> SumOver(BytesIn(files), OfLanguage(files, n, language))]

Entries(files, n) == {Entry(files, n, language) : language \in {files[i].language : i \in 1 .. n}}

\* Tokens descending, then the name.
Above(left, right) ==
  \/ left.tokens > right.tokens
  \/ left.tokens = right.tokens /\ left.name < right.name

AboveOf(E) == [entry \in E |-> {other \in E : Above(other, entry)}]

LEMMA LanguageListIs ==
  ASSUME NEW n, NEW files, AreFiles(files, n), Fits(files, 1 .. n)
  PROVE  /\ Orders(Entries(files, n), AboveOf(Entries(files, n)))
         /\ Lists(LanguageList(files), Entries(files, n), AboveOf(Entries(files, n)))
<1>0. n \in Nat
  BY DEF AreFiles
<1>1. PICK L : L = {files[i].language : i \in 1 .. n}
  OBVIOUS
<1>2. L \in SUBSET Int /\ IsFiniteSet(L)
  <2>1. PICK f : f = [i \in 1 .. n |-> files[i].language]
    OBVIOUS
  <2>2. f \in Surjection(1 .. n, L) /\ L \in SUBSET Int
    BY <1>1, <2>1 DEF Surjection, AreFiles
  <2> QED
    BY <1>0, <2>2, UptoIsFinite, FS_Surjection
<1>3. PICK E : E = {Entry(files, n, language) : language \in L}
  OBVIOUS
<1>4. IsFiniteSet(E)
  <2>1. PICK f : f = [language \in L |-> Entry(files, n, language)]
    OBVIOUS
  <2>2. f \in Surjection(L, E)
    BY <1>3, <2>1 DEF Surjection
  <2> QED
    BY <1>2, <2>2, FS_Surjection
<1>5. ASSUME NEW language \in L
      PROVE  /\ ByLanguage(files)[language]
                  = [files  |-> Cardinality(OfLanguage(files, n, language)),
                     tokens |-> SumOver(TokensIn(files), OfLanguage(files, n, language)),
                     bytes  |-> SumOver(BytesIn(files), OfLanguage(files, n, language))]
             /\ Entry(files, n, language).name = language
             /\ Entry(files, n, language).tokens \in Nat
  <2>1. PICK S \in SUBSET (1 .. n) : S = OfLanguage(files, n, language)
    BY DEF OfLanguage
  <2>2. ByLanguage(files)[language] = TotalsOver(files, S)
    <3>1. language \in {files[i].language : i \in 1 .. n}
      BY <1>1
    <3> QED
      BY <2>1, <3>1, ByLanguageIs
  <2>3. PICK all \in SUBSET (1 .. n) : all = 1 .. n
    OBVIOUS
  <2>4. S \in SUBSET all /\ Fits(files, all)
    BY <2>3
  <2>5. Fits(files, S)
    BY <2>4, SumsGrow
  <2>6. SumOver(TokensIn(files), S) \in Nat
    BY SumsAreNatural
  <2> QED
    BY <2>1, <2>2, <2>5, <2>6 DEF TotalsOver, Entry
<1>6. ASSUME NEW entry \in E  PROVE entry.tokens \in Int /\ entry.name \in Int
  <2>1. PICK language \in L : entry = Entry(files, n, language)
    BY <1>3
  <2>2. entry.name = language /\ entry.tokens \in Nat
    BY <1>5, <2>1
  <2> QED
    BY <1>2, <2>2
<1>7. ASSUME NEW entry \in E, NEW other \in E, entry.name = other.name  PROVE entry = other
  <2>1. PICK language \in L : entry = Entry(files, n, language)
    BY <1>3
  <2>2. PICK name \in L : other = Entry(files, n, name)
    BY <1>3
  <2>3. entry.name = language /\ other.name = name
    BY <1>5, <2>1, <2>2
  <2> QED
    BY <1>7, <2>1, <2>2, <2>3
<1>8. PICK Before : Before = [entry \in E |-> {other \in E : Above(other, entry)}]
  OBVIOUS
<1>9. Orders(E, Before)
  <2>1. \A entry \in E : entry \notin Before[entry]
    BY <1>6, <1>8 DEF Above
  <2>2. ASSUME NEW x \in E, NEW y \in E, NEW z \in E, x \in Before[y], y \in Before[z]
        PROVE  x \in Before[z]
    <3>1. /\ x.tokens \in Int /\ y.tokens \in Int /\ z.tokens \in Int
          /\ x.name \in Int /\ y.name \in Int /\ z.name \in Int
      BY <1>6
    <3>2. Above(x, y) /\ Above(y, z)
      BY <1>8, <2>2
    <3>3. Above(x, z)
      BY <3>1, <3>2 DEF Above
    <3> QED
      BY <1>8, <3>3
  <2>3. ASSUME NEW x \in E, NEW y \in E, x # y  PROVE x \in Before[y] \/ y \in Before[x]
    <3>1. x.tokens \in Int /\ y.tokens \in Int /\ x.name \in Int /\ y.name \in Int /\ x.name # y.name
      BY <1>6, <1>7, <2>3
    <3>2. Above(x, y) \/ Above(y, x)
      BY <3>1 DEF Above
    <3> QED
      BY <1>8, <3>2
  <2>4. Before \in [E -> SUBSET E]
    BY <1>8
  <2> QED
    BY <1>4, <2>1, <2>2, <2>3, <2>4 DEF Orders, IsOrder
<1>10. PICK list : list = AntiFunction([entry \in E |-> 1 + Cardinality(Before[entry])])
  OBVIOUS
<1>11. Lists(list, E, Before)
  BY <1>9, <1>10, RanksList DEF Orders
<1>12. LanguageList(files) = list
  <2>1. PICK byLanguage : byLanguage = ByLanguage(files)
    OBVIOUS
  <2>2. DOMAIN byLanguage = L
    BY <1>1, <2>1, ByLanguageIs
  <2>3. ASSUME NEW language \in L
        PROVE  [name   |-> language,
                files  |-> byLanguage[language].files,
                tokens |-> byLanguage[language].tokens,
                bytes  |-> byLanguage[language].bytes] = Entry(files, n, language)
    <3>1. byLanguage[language]
            = [files  |-> Cardinality(OfLanguage(files, n, language)),
               tokens |-> SumOver(TokensIn(files), OfLanguage(files, n, language)),
               bytes  |-> SumOver(BytesIn(files), OfLanguage(files, n, language))]
      BY <1>5, <2>1
    <3> QED
      BY <3>1 DEF Entry
  <2>4. E = {[name   |-> language,
              files  |-> byLanguage[language].files,
              tokens |-> byLanguage[language].tokens,
              bytes  |-> byLanguage[language].bytes] : language \in DOMAIN byLanguage}
    BY <1>3, <2>2, <2>3
  <2>5. LanguageList(files) = AntiFunction([entry \in E |-> 1 + Cardinality({other \in E : Above(other, entry)})])
    BY <2>1, <2>4 DEF LanguageList, Ranked, Above
  <2> QED
    BY <1>8, <1>10, <2>5
<1> QED
  BY <1>1, <1>3, <1>8, <1>9, <1>11, <1>12 DEF Entries, AboveOf

\* The languages add up to the files.
LEMMA LanguagesAddUp ==
  ASSUME NEW n, NEW files, AreFiles(files, n), Fits(files, 1 .. n),
         NEW list, list = LanguageList(files)
  PROVE  /\ Sum(list, LAMBDA language : language.files) = n
         /\ Sum(list, LAMBDA language : language.tokens) = SumOver(TokensIn(files), 1 .. n)
         /\ Sum(list, LAMBDA language : language.bytes) = SumOver(BytesIn(files), 1 .. n)
<1>0. n \in Nat
  BY DEF AreFiles
<1>1. PICK L : L = {files[i].language : i \in 1 .. n}
  OBVIOUS
<1>2. PICK E : E = Entries(files, n)
  OBVIOUS
<1>3. PICK Before : Before = AboveOf(E)
  OBVIOUS
<1>4. Orders(E, Before) /\ Lists(list, E, Before)
  BY <1>2, <1>3, LanguageListIs
<1>5. PICK m \in Nat : m = Cardinality(E)
  BY <1>4, FS_CardinalityType DEF Orders
<1>6. DOMAIN list = 1 .. m /\ \A k \in 1 .. m : list[k] \in E
  BY <1>4, <1>5 DEF Lists
<1>7. PICK entry : entry = [language \in L |-> Entry(files, n, language)]
  OBVIOUS
<1>8. PICK name : name = [e \in E |-> e.name]
  OBVIOUS
<1>9. /\ \A language \in L : entry[language] \in E /\ name[entry[language]] = language
      /\ \A e \in E : name[e] \in L /\ entry[name[e]] = e
  <2>1. \A language \in L : entry[language] = Entry(files, n, language) /\ entry[language] \in E
    BY <1>1, <1>2, <1>7 DEF Entries
  <2>2. ASSUME NEW language \in L  PROVE name[entry[language]] = language
    <3>1. Entry(files, n, language).name = language
      BY DEF Entry
    <3> QED
      BY <1>8, <2>1, <3>1
  <2>3. ASSUME NEW e \in E  PROVE \E language \in L : e = entry[language]
    BY <1>1, <1>2, <2>1 DEF Entries
  <2> QED
    BY <2>1, <2>2, <2>3
<1>10. IsFiniteSet(E) /\ IsFiniteSet(L)
  <2>1. name \in Surjection(E, L)
    BY <1>8, <1>9 DEF Surjection
  <2>2. IsFiniteSet(E)
    BY <1>4 DEF Orders
  <2> QED
    BY <2>1, <2>2, FS_Surjection
<1>11. \* Weights of the files, of the languages, and of the entries where they are listed.
       ASSUME NEW w, Weighs(w, 1 .. n), NEW v, Weighs(v, E), NEW numbers, DOMAIN numbers = 1 .. m,
              \A language \in L : v[entry[language]] = SumOver(w, OfLanguage(files, n, language)),
              \A k \in 1 .. m : numbers[k] = v[list[k]]
       PROVE  Total(numbers) = SumOver(w, 1 .. n)
  <2>1. PICK u : u = [language \in L |-> v[entry[language]]]
    OBVIOUS
  <2>2. SumOver(u, L) = SumOver(w, 1 .. n)
    <3>1. PICK f : f = [i \in 1 .. n |-> files[i].language]
      OBVIOUS
    <3>2. \A i \in 1 .. n : f[i] \in L
      BY <1>1, <3>1
    <3>3. \A language \in L : {i \in 1 .. n : f[i] = language} = OfLanguage(files, n, language)
      BY <3>1 DEF OfLanguage
    <3>4. \A language \in L : u[language] = SumOver(w, {i \in 1 .. n : f[i] = language})
      BY <1>11, <2>1, <3>3
    <3>5. PICK S : S = 1 .. n
      OBVIOUS
    <3>6. Weighs(w, S) /\ Groups(f, S, L, w, u)
      BY <1>11, <3>2, <3>4, <3>5 DEF Groups
    <3>7. SumOver(u, L) = SumOver(w, S)
      BY <1>10, <3>6, SumFibres
    <3> QED
      BY <3>5, <3>7
  <2>3. Renames(name, E, L, v, u)
    BY <1>9, <2>1 DEF Renames
  <2>4. SumOver(u, L) = SumOver(v, E)
    BY <1>10, <1>11, <2>3, SumRenamed
  <2>5. Weighs(numbers, 1 .. m) /\ SumOver(numbers, 1 .. m) = SumOver(v, E)
    <3>1. \A k \in 1 .. Cardinality(E) : numbers[k] = v[list[k]]
      BY <1>5, <1>11
    <3>2. Weighs(numbers, 1 .. Cardinality(E)) /\ SumOver(numbers, 1 .. Cardinality(E)) = SumOver(v, E)
      BY <1>4, <1>11, <3>1, ListedSum
    <3> QED
      BY <1>5, <3>2
  <2>6. Total(numbers) = SumOver(numbers, 1 .. m)
    BY <1>11, <2>5, TotalIs
  <2> QED
    BY <2>2, <2>4, <2>5, <2>6
<1>12. ASSUME NEW language \in L
       PROVE  /\ entry[language].files = Cardinality(OfLanguage(files, n, language))
              /\ entry[language].tokens = SumOver(TokensIn(files), OfLanguage(files, n, language))
              /\ entry[language].bytes = SumOver(BytesIn(files), OfLanguage(files, n, language))
              /\ OfLanguage(files, n, language) \in SUBSET (1 .. n)
  BY <1>7 DEF Entry, OfLanguage
<1>13. PICK all \in SUBSET (1 .. n) : all = 1 .. n
  OBVIOUS
<1>14. Sum(list, LAMBDA language : language.files) = n
  <2>1. PICK ones : ones = [i \in 1 .. n |-> 1]
    OBVIOUS
  <2>2. PICK v : v = [e \in E |-> e.files]
    OBVIOUS
  <2>3. PICK numbers : numbers = [i \in DOMAIN list |-> list[i].files]
    OBVIOUS
  <2>4. IsFiniteSet(1 .. n) /\ Cardinality(1 .. n) = n
    BY <1>0, UptoIsFinite
  <2>5. Weighs(ones, 1 .. n) /\ SumOver(ones, 1 .. n) = n
    <3>1. \A i \in 1 .. n : ones[i] = 1
      BY <2>1
    <3>2. Weighs(ones, 1 .. n)
      BY <2>4, <3>1 DEF Weighs
    <3>3. PICK S : S = 1 .. n
      OBVIOUS
    <3>4. IsFiniteSet(S) /\ \A i \in S : ones[i] = 1
      BY <2>4, <3>1, <3>3
    <3>5. SumOver(ones, S) = Cardinality(S)
      BY <3>4, SumOfOnes
    <3> QED
      BY <2>4, <3>2, <3>3, <3>5
  <2>6. ASSUME NEW language \in L
        PROVE  v[entry[language]] = SumOver(ones, OfLanguage(files, n, language)) /\ v[entry[language]] \in Nat
    <3>1. PICK S \in SUBSET (1 .. n) : S = OfLanguage(files, n, language)
      BY <1>12
    <3>2. IsFiniteSet(S) /\ Cardinality(S) \in Nat
      BY <2>4, FS_Subset, FS_CardinalityType
    <3>3. \A i \in S : ones[i] = 1
      BY <2>1
    <3>4. SumOver(ones, S) = Cardinality(S)
      BY <3>2, <3>3, SumOfOnes
    <3>5. v[entry[language]] = entry[language].files
      BY <1>9, <2>2
    <3> QED
      BY <1>12, <3>1, <3>2, <3>4, <3>5
  <2>7. Weighs(v, E)
    BY <1>9, <1>10, <2>6 DEF Weighs
  <2>8. DOMAIN numbers = 1 .. m /\ \A k \in 1 .. m : numbers[k] = v[list[k]]
    BY <1>6, <2>2, <2>3
  <2>9. Total(numbers) = SumOver(ones, 1 .. n)
    BY <1>11, <2>5, <2>6, <2>7, <2>8
  <2> QED
    BY <2>3, <2>5, <2>9 DEF Sum
<1>15. Sum(list, LAMBDA language : language.tokens) = SumOver(TokensIn(files), 1 .. n)
  <2>1. PICK w : w = TokensIn(files)
    OBVIOUS
  <2>2. PICK v : v = [e \in E |-> e.tokens]
    OBVIOUS
  <2>3. PICK numbers : numbers = [i \in DOMAIN list |-> list[i].tokens]
    OBVIOUS
  <2>4. Weighs(w, 1 .. n)
    BY <1>13, <2>1, SumsAreNatural
  <2>5. ASSUME NEW language \in L
        PROVE  v[entry[language]] = SumOver(w, OfLanguage(files, n, language)) /\ v[entry[language]] \in Nat
    <3>1. PICK S \in SUBSET (1 .. n) : S = OfLanguage(files, n, language)
      BY <1>12
    <3>2. SumOver(w, S) \in Nat
      BY <2>1, SumsAreNatural
    <3>3. v[entry[language]] = entry[language].tokens
      BY <1>9, <2>2
    <3> QED
      BY <1>12, <2>1, <3>1, <3>2, <3>3
  <2>6. Weighs(v, E)
    BY <1>9, <1>10, <2>5 DEF Weighs
  <2>7. DOMAIN numbers = 1 .. m /\ \A k \in 1 .. m : numbers[k] = v[list[k]]
    BY <1>6, <2>2, <2>3
  <2>8. Total(numbers) = SumOver(w, 1 .. n)
    BY <1>11, <2>4, <2>5, <2>6, <2>7
  <2> QED
    BY <2>1, <2>3, <2>8 DEF Sum
<1>16. Sum(list, LAMBDA language : language.bytes) = SumOver(BytesIn(files), 1 .. n)
  <2>1. PICK w : w = BytesIn(files)
    OBVIOUS
  <2>2. PICK v : v = [e \in E |-> e.bytes]
    OBVIOUS
  <2>3. PICK numbers : numbers = [i \in DOMAIN list |-> list[i].bytes]
    OBVIOUS
  <2>4. Weighs(w, 1 .. n)
    BY <1>13, <2>1, SumsAreNatural
  <2>5. ASSUME NEW language \in L
        PROVE  v[entry[language]] = SumOver(w, OfLanguage(files, n, language)) /\ v[entry[language]] \in Nat
    <3>1. PICK S \in SUBSET (1 .. n) : S = OfLanguage(files, n, language)
      BY <1>12
    <3>2. SumOver(w, S) \in Nat
      BY <2>1, SumsAreNatural
    <3>3. v[entry[language]] = entry[language].bytes
      BY <1>9, <2>2
    <3> QED
      BY <1>12, <2>1, <3>1, <3>2, <3>3
  <2>6. Weighs(v, E)
    BY <1>9, <1>10, <2>5 DEF Weighs
  <2>7. DOMAIN numbers = 1 .. m /\ \A k \in 1 .. m : numbers[k] = v[list[k]]
    BY <1>6, <2>2, <2>3
  <2>8. Total(numbers) = SumOver(w, 1 .. n)
    BY <1>11, <2>4, <2>5, <2>6, <2>7
  <2> QED
    BY <2>1, <2>3, <2>8 DEF Sum
<1> QED
  BY <1>14, <1>15, <1>16

\* The entries of the languages are those of their files.
LEMMA LanguageEntries ==
  ASSUME NEW n, NEW files, AreFiles(files, n), Fits(files, 1 .. n),
         \A i \in 1 .. n : files[i].bytes = 0 => files[i].tokens = 0,
         NEW list, list = LanguageList(files)
  PROVE  \E m \in Nat :
           /\ DOMAIN list = 1 .. m
           /\ \A i \in 1 .. m : /\ list[i].files \in Nat
                                /\ list[i].tokens \in Nat /\ list[i].bytes \in Nat
                                /\ list[i].bytes = 0 => list[i].tokens = 0
<1>0. n \in Nat
  BY DEF AreFiles
<1>1. PICK E : E = Entries(files, n)
  OBVIOUS
<1>2. PICK Before : Before = AboveOf(E)
  OBVIOUS
<1>3. Orders(E, Before) /\ Lists(list, E, Before)
  BY <1>1, <1>2, LanguageListIs
<1>4. PICK m \in Nat : m = Cardinality(E)
  BY <1>3, FS_CardinalityType DEF Orders
<1>5. DOMAIN list = 1 .. m /\ \A i \in 1 .. m : list[i] \in E
  BY <1>3, <1>4 DEF Lists
<1>6. ASSUME NEW language
      PROVE  LET entry == Entry(files, n, language)
             IN  /\ entry.files \in Nat /\ entry.tokens \in Nat /\ entry.bytes \in Nat
                 /\ entry.bytes = 0 => entry.tokens = 0
  <2>1. PICK S \in SUBSET (1 .. n) : S = OfLanguage(files, n, language)
    BY DEF OfLanguage
  <2>2. PICK tokens : tokens = TokensIn(files)
    OBVIOUS
  <2>3. PICK bytes : bytes = BytesIn(files)
    OBVIOUS
  <2>4. /\ IsFiniteSet(S) /\ Cardinality(S) \in Nat
        /\ Weighs(tokens, S) /\ SumOver(tokens, S) \in Nat
        /\ Weighs(bytes, S) /\ SumOver(bytes, S) \in Nat
    BY <2>2, <2>3, SumsAreNatural
  <2>5. ASSUME SumOver(bytes, S) = 0  PROVE SumOver(tokens, S) = 0
    <3>1. \A i \in S : /\ bytes[i] = files[i].bytes /\ tokens[i] = files[i].tokens
                       /\ files[i].bytes \in Nat
                       /\ files[i].bytes = 0 => files[i].tokens = 0
      BY <2>2, <2>3 DEF AreFiles, TokensIn, BytesIn
    <3>2. \A i \in S : bytes[i] >= 0
      BY <3>1
    <3>3. \A i \in S : bytes[i] = 0
      BY <2>4, <2>5, <3>2, ZeroSum
    <3>4. \A i \in S : tokens[i] = 0
      BY <3>1, <3>3
    <3> QED
      BY <2>4, <3>4, SumOfZeros
  <2>6. Entry(files, n, language) = [name |-> language, files |-> Cardinality(S),
                                     tokens |-> SumOver(tokens, S), bytes |-> SumOver(bytes, S)]
    BY <2>1, <2>2, <2>3 DEF Entry
  <2> QED
    BY <2>4, <2>5, <2>6
<1>7. ASSUME NEW i \in 1 .. m
      PROVE  /\ list[i].files \in Nat /\ list[i].tokens \in Nat /\ list[i].bytes \in Nat
             /\ list[i].bytes = 0 => list[i].tokens = 0
  <2>1. PICK language : list[i] = Entry(files, n, language)
    BY <1>1, <1>5 DEF Entries
  <2> QED
    BY <2>1, <1>6
<1> QED
  BY <1>5, <1>7

\* The reasons add up to the skipped paths.
LEMMA ReasonsAddUp ==
  ASSUME NEW n \in Nat, NEW details, DOMAIN details = 1 .. n,
         \A i \in 1 .. n : details[i].reason \in Reasons
  PROVE  Total(SkippedSummary(details).count) = n
<1>1. PICK count : count = [reason \in Reasons |-> Cardinality({i \in 1 .. n : details[i].reason = reason})]
  OBVIOUS
<1>2. SkippedSummary(details).count = count
  BY <1>1 DEF SkippedSummary
<1>3. PICK ones : ones = [i \in 1 .. n |-> 1]
  OBVIOUS
<1>4. PICK S : S = 1 .. n
  OBVIOUS
<1>5. IsFiniteSet(S) /\ Cardinality(S) = n /\ \A i \in S : ones[i] = 1
  BY <1>3, <1>4, UptoIsFinite
<1>6. PICK f : f = [i \in S |-> details[i].reason]
  OBVIOUS
<1>7. PICK R : R = Reasons
  OBVIOUS
<1>8. Weighs(ones, S) /\ \A i \in S : f[i] \in R
  BY <1>4, <1>5, <1>6, <1>7 DEF Weighs
<1>9. ASSUME NEW reason \in R
      PROVE  count[reason] = SumOver(ones, {i \in S : f[i] = reason}) /\ count[reason] \in Int
  <2>1. PICK T \in SUBSET S : T = {i \in S : f[i] = reason}
    OBVIOUS
  <2>2. IsFiniteSet(T) /\ \A i \in T : ones[i] = 1
    BY <1>5, FS_Subset
  <2>3. SumOver(ones, T) = Cardinality(T) /\ Cardinality(T) \in Nat
    BY <2>2, SumOfOnes, FS_CardinalityType
  <2>4. T = {i \in 1 .. n : details[i].reason = reason}
    BY <1>4, <1>6, <2>1
  <2>5. count[reason] = Cardinality(T)
    BY <1>1, <1>7, <2>4
  <2> QED
    BY <2>1, <2>3, <2>5
<1>10. IsFiniteSet(R)
  <2>1. 7 \in Nat
    OBVIOUS
  <2> QED
    BY <1>7, <2>1, UptoIsFinite DEF Reasons
<1>11. SumOver(count, R) = SumOver(ones, S)
  <2>1. Groups(f, S, R, ones, count)
    BY <1>8, <1>9 DEF Groups
  <2> QED
    BY <1>8, <1>10, <2>1, SumFibres
<1>12. SumOver(ones, S) = n
  BY <1>5, SumOfOnes
<1>13. Total(count) = SumOver(count, R)
  <2>1. PICK m \in Nat : m = 7
    OBVIOUS
  <2>2. R = 1 .. m
    BY <1>7, <2>1 DEF Reasons
  <2>3. DOMAIN count = 1 .. m /\ Weighs(count, 1 .. m)
    BY <1>1, <1>7, <1>9, <1>10, <2>2 DEF Weighs
  <2> QED
    BY <2>2, <2>3, TotalIs
<1> QED
  BY <1>2, <1>11, <1>12, <1>13

\* What an aggregation of files that fit says of them.
AddsFilesUp(report, files, n) ==
  /\ report.totals.files = n /\ report.totals.tokens = SumOver(TokensIn(files), 1 .. n)
  /\ report.totals.bytes = SumOver(BytesIn(files), 1 .. n)
  /\ report.files = Sorted(files, ByPath) /\ DOMAIN report.files = 1 .. n /\ Len(report.files) = n
  /\ Sum(report.languages, LAMBDA language : language.files) = n
  /\ Sum(report.languages, LAMBDA language : language.tokens) = report.totals.tokens
  /\ Sum(report.languages, LAMBDA language : language.bytes) = report.totals.bytes
  /\ report.languages = LanguageList(files)
  /\ Sum(report.files, LAMBDA file : file.tokens) = report.totals.tokens

LEMMA AggregateIs ==
  ASSUME NEW n, NEW files, AreFiles(files, n), NEW details, NEW report, report = Aggregate(files, details)
  PROVE  /\ ~Fits(files, 1 .. n) => report = Overflow
         /\ Fits(files, 1 .. n) => /\ AddsFilesUp(report, files, n)
                                   /\ report.skipped = SkippedSummary(details)
                                   /\ report # Overflow
<1>0. n \in Nat
  BY DEF AreFiles
<1>1. TotalsOf(files) = TotalsOver(files, 1 .. n)
  BY TotalsOfIs
<1>2. CASE ~Fits(files, 1 .. n)
  BY <1>1, <1>2 DEF TotalsOver, Aggregate
<1>3. CASE Fits(files, 1 .. n)
  <2>1. TotalsOf(files) = [files |-> n, tokens |-> SumOver(TokensIn(files), 1 .. n),
                           bytes |-> SumOver(BytesIn(files), 1 .. n)]
    <3>1. Cardinality(1 .. n) = n
      BY <1>0, UptoIsFinite
    <3> QED
      BY <1>1, <1>3, <3>1 DEF TotalsOver
  <2>2. TotalsOf(files) # Overflow
    BY <2>1 DEF Overflow
  <2>3. report = [totals    |-> TotalsOf(files),
                  languages |-> LanguageList(files),
                  files     |-> Sorted(files, ByPath),
                  skipped   |-> SkippedSummary(details)]
    BY <2>2 DEF Aggregate
  <2>4. report # Overflow
    BY <2>3 DEF Overflow
  <2>5. PICK list : list = Sorted(files, ByPath)
    OBVIOUS
  <2>6. AreFiles(list, n) /\ SumOver(TokensIn(list), 1 .. n) = SumOver(TokensIn(files), 1 .. n)
    BY <2>5, SortedFiles
  <2>7. DOMAIN list = 1 .. n
    BY <2>6 DEF AreFiles
  <2>8. Len(list) = n
    <3>1. PICK Before : Orders(1 .. n, Before) /\ list = Arranged(files, Before)
      <4>1. DOMAIN files = 1 .. n /\ \A i \in 1 .. n : files[i].path \in Seq(Int)
        BY DEF AreFiles
      <4> QED
        BY <4>1, <1>0, <2>5, SortedArranges
    <3>2. PICK S : S = 1 .. n
      OBVIOUS
    <3>3. Orders(S, Before) /\ Cardinality(S) = n
      BY <1>0, <3>1, <3>2, UptoIsFinite
    <3>4. list = [k \in 1 .. Cardinality(S) |-> list[k]]
      BY <3>1, <3>3, ArrangedIs
    <3> QED
      BY <1>0, <3>3, <3>4
  <2>9. Sum(list, LAMBDA file : file.tokens) = SumOver(TokensIn(list), 1 .. n)
    <3>1. PICK numbers : numbers = TokensIn(list)
      OBVIOUS
    <3>2. DOMAIN numbers = 1 .. n
      BY <2>7, <3>1 DEF TokensIn
    <3>3. PICK all \in SUBSET (1 .. n) : all = 1 .. n
      OBVIOUS
    <3>4. Weighs(numbers, 1 .. n)
      BY <2>6, <3>1, <3>3, SumsAreNatural
    <3>5. Total(numbers) = SumOver(numbers, 1 .. n)
      BY <1>0, <3>2, <3>4, TotalIs
    <3> QED
      BY <3>1, <3>5 DEF Sum, TokensIn
  <2>10. PICK languages : languages = LanguageList(files)
    OBVIOUS
  <2>11. /\ Sum(languages, LAMBDA language : language.files) = n
         /\ Sum(languages, LAMBDA language : language.tokens) = SumOver(TokensIn(files), 1 .. n)
         /\ Sum(languages, LAMBDA language : language.bytes) = SumOver(BytesIn(files), 1 .. n)
    BY <1>3, <2>10, LanguagesAddUp
  <2>12. /\ report.totals.files = n /\ report.totals.tokens = SumOver(TokensIn(files), 1 .. n)
         /\ report.totals.bytes = SumOver(BytesIn(files), 1 .. n)
         /\ report.files = list /\ report.languages = languages
         /\ report.skipped = SkippedSummary(details)
    BY <2>1, <2>3, <2>5, <2>10
  <2>13. AddsFilesUp(report, files, n)
    BY <2>5, <2>6, <2>7, <2>8, <2>9, <2>10, <2>11, <2>12 DEF AddsFilesUp
  <2> QED
    BY <1>3, <2>4, <2>12, <2>13
<1> QED
  BY <1>2, <1>3

(* Sums by language *)

\* The sum over a set, by a list of its elements.
LEMMA SetSum ==
  ASSUME NEW S, NEW w, Weighs(w, S)
  PROVE  Total([i \in DOMAIN SetToSeq(S) |-> w[SetToSeq(S)[i]]]) = SumOver(w, S)
<1>1. PICK list : list = SetToSeq(S)
  OBVIOUS
<1>2. PICK m \in Nat : m = Cardinality(S) /\ IsFiniteSet(S)
  BY SetToSeqLists DEF Weighs
<1>3. /\ list \in Seq(S) /\ Len(list) = m /\ IsInjective(list)
      /\ \A x \in S : \E i \in 1 .. m : list[i] = x
  BY <1>1, <1>2, SetToSeqLists
<1>4. DOMAIN list = 1 .. m /\ \A i \in 1 .. m : list[i] \in S
  BY <1>3
<1>5. \A i, j \in 1 .. m : list[i] = list[j] => i = j
  BY <1>3, <1>4 DEF IsInjective
<1>6. PICK numbers : numbers = [i \in 1 .. m |-> w[list[i]]]
  OBVIOUS
<1>7. Weighs(numbers, 1 .. m)
  <2>1. IsFiniteSet(1 .. m)
    BY UptoIsFinite
  <2> QED
    BY <2>1, <1>4, <1>6 DEF Weighs
<1>8. Renames(list, 1 .. m, S, numbers, w)
  BY <1>3, <1>4, <1>5, <1>6 DEF Renames
<1>9. SumOver(w, S) = SumOver(numbers, 1 .. m)
  BY <1>2, <1>7, <1>8, SumRenamed
<1>10. Total(numbers) = SumOver(numbers, 1 .. m)
  BY <1>6, <1>7, TotalIs
<1> QED
  BY <1>1, <1>4, <1>6, <1>9, <1>10

LanguagesOf(files, n) == {files[i].language : i \in 1 .. n}

\* v gives each language what w gives its files.
Gathers(v, w, files, n) ==
  \A language \in LanguagesOf(files, n) : v[language] = SumOver(w, OfLanguage(files, n, language))

\* The languages of a report are those of the files, each with an entry of its own.
LEMMA LanguagesAre ==
  ASSUME NEW n, NEW files, AreFiles(files, n), Fits(files, 1 .. n),
         NEW L, L = LanguagesOf(files, n)
  PROVE  /\ IsFiniteSet(L)
         /\ ToSet(LanguageList(files)) = {Entry(files, n, language) : language \in L}
<1>0. n \in Nat
  BY DEF AreFiles
<1>1. IsFiniteSet(L)
  <2>1. PICK f : f = [i \in 1 .. n |-> files[i].language]
    OBVIOUS
  <2>2. f \in Surjection(1 .. n, L)
    BY <2>1 DEF Surjection, LanguagesOf
  <2> QED
    BY <1>0, <2>2, UptoIsFinite, FS_Surjection
<1>2. PICK E : E = Entries(files, n)
  OBVIOUS
<1>3. PICK list : list = LanguageList(files)
  OBVIOUS
<1>4. PICK Before : Before = AboveOf(E)
  OBVIOUS
<1>5. Lists(list, E, Before)
  BY <1>2, <1>3, <1>4, LanguageListIs
<1>6. ToSet(list) = E
  BY <1>5 DEF Lists, ToSet
<1> QED
  BY <1>1, <1>2, <1>3, <1>6 DEF Entries, LanguagesOf

\* What is summed up over the languages is what is summed up over the files.
LEMMA LanguagesSum ==
  ASSUME NEW n, NEW files, AreFiles(files, n), NEW L, L = LanguagesOf(files, n),
         IsFiniteSet(L), NEW w, Weighs(w, 1 .. n), NEW v, Gathers(v, w, files, n)
  PROVE  Weighs(v, L) /\ SumOver(v, L) = SumOver(w, 1 .. n)
<1>1. PICK S : S = 1 .. n
  OBVIOUS
<1>2. PICK f : f = [i \in S |-> files[i].language]
  OBVIOUS
<1>3. \A i \in S : f[i] \in L
  BY <1>1, <1>2 DEF LanguagesOf
<1>4. \A language \in L : {i \in S : f[i] = language} = OfLanguage(files, n, language)
  BY <1>1, <1>2 DEF OfLanguage
<1>5. \A language \in L : v[language] = SumOver(w, {i \in S : f[i] = language})
  BY <1>4 DEF Gathers
<1>6. Weighs(w, S) /\ Groups(f, S, L, w, v)
  BY <1>1, <1>3, <1>5 DEF Groups
<1>7. SumOver(v, L) = SumOver(w, S)
  BY <1>6, SumFibres
<1>8. ASSUME NEW language \in L  PROVE v[language] \in Int
  <2>1. PICK T \in SUBSET S : T = OfLanguage(files, n, language)
    BY <1>4
  <2>2. Weighs(w, T)
    BY <1>6, FS_Subset DEF Weighs
  <2>3. SumOver(w, T) \in Int
    BY <2>2, SumType
  <2>4. v[language] = SumOver(w, OfLanguage(files, n, language))
    BY <1>8 DEF Gathers
  <2> QED
    BY <2>1, <2>3, <2>4
<1> QED
  BY <1>1, <1>7, <1>8 DEF Weighs

\* The files of a language have the tokens of their places, sorted or not.
LEMMA TokensOfLanguage ==
  ASSUME NEW n, NEW files, AreFiles(files, n), NEW list, list = Sorted(files, ByPath), NEW language
  PROVE  Sum(Filtered(list, LAMBDA file : file.language = language), LAMBDA file : file.tokens)
           = SumOver(TokensIn(files), OfLanguage(files, n, language))
<1>0. n \in Nat /\ DOMAIN files = 1 .. n /\ \A i \in 1 .. n : files[i].path \in Seq(Int)
  BY DEF AreFiles
<1>1. PICK S \in SUBSET (1 .. n) : S = OfLanguage(list, n, language)
  BY DEF OfLanguage
<1>2. AreFiles(list, n)
  BY SortedFiles
<1>3. PICK part : part = Filtered(list, LAMBDA file : file.language = language)
  OBVIOUS
<1>4. Sum(part, LAMBDA file : file.tokens) = SumOver(TokensIn(list), S)
  <2>1. PICK Before : Before = [i \in S |-> {j \in S : j < i}]
    OBVIOUS
  <2>2. DOMAIN list = 1 .. n
    BY <1>2 DEF AreFiles
  <2>3. part = Arranged(list, Before)
    BY <2>2, <1>1, <1>3, <2>1 DEF Filtered, Ranked, Arranged, OfLanguage
  <2>4. Orders(S, Before)
    BY <1>0, <2>1, IndicesOrder
  <2>5. PICK m \in Nat : m = Cardinality(S)
    BY <1>2, SumsAreNatural
  <2>6. AreFiles(part, m) /\ SumOver(TokensIn(part), 1 .. m) = SumOver(TokensIn(list), S)
    BY <1>2, <2>3, <2>4, <2>5, ArrangedFiles
  <2>7. PICK tokens : tokens = TokensIn(part)
    OBVIOUS
  <2>8. PICK all \in SUBSET (1 .. m) : all = 1 .. m
    OBVIOUS
  <2>9. DOMAIN tokens = 1 .. m /\ Weighs(tokens, 1 .. m)
    <3>1. DOMAIN tokens = 1 .. m
      BY <2>6, <2>7 DEF AreFiles, TokensIn
    <3> QED
      BY <3>1, <2>6, <2>7, <2>8, SumsAreNatural
  <2>10. Total(tokens) = SumOver(tokens, 1 .. m)
    BY <2>9, TotalIs
  <2> QED
    BY <2>6, <2>7, <2>10 DEF Sum, TokensIn
<1>5. SumOver(TokensIn(list), S) = SumOver(TokensIn(files), OfLanguage(files, n, language))
  <2>1. PICK Before : Orders(1 .. n, Before) /\ list = Arranged(files, Before)
    BY <1>0, SortedArranges
  <2>2. PICK all : all = 1 .. n
    OBVIOUS
  <2>3. Orders(all, Before) /\ Cardinality(all) = n
    BY <1>0, <2>1, <2>2, UptoIsFinite
  <2>4. PICK places : Lists(places, all, Before) /\ list = [k \in 1 .. n |-> files[places[k]]]
    <3>1. ListedBy(list, files, all, Before)
      BY <2>1, <2>3, ArrangedBy
    <3> QED
      BY <3>1, <2>3 DEF ListedBy
  <2>5. /\ \A k \in 1 .. n : places[k] \in 1 .. n /\ list[k] = files[places[k]]
        /\ \A i \in 1 .. n : \E k \in 1 .. n : places[k] = i
        /\ \A i, j \in 1 .. n : places[i] = places[j] => i = j
    <3>1. /\ places \in [1 .. n -> 1 .. n]
          /\ \A i \in 1 .. n : \E k \in 1 .. n : places[k] = i
      BY <2>2, <2>3, <2>4 DEF Lists
    <3>2. \A i, j \in 1 .. n : places[i] = places[j] => i = j
      BY <2>2, <2>3, <2>4, ListsOnce
    <3> QED
      BY <3>1, <3>2, <2>4
  <2>6. PICK T \in SUBSET (1 .. n) : T = OfLanguage(files, n, language)
    BY DEF OfLanguage
  <2>7. PICK w : w = TokensIn(list)
    OBVIOUS
  <2>8. PICK v : v = TokensIn(files)
    OBVIOUS
  <2>9. Weighs(w, S) /\ IsFiniteSet(T)
    BY <1>2, <2>7, SumsAreNatural
  <2>10. \A k \in 1 .. n : w[k] = v[places[k]]
    <3>1. DOMAIN list = 1 .. n
      BY <1>2 DEF AreFiles
    <3> QED
      BY <3>1, <1>0, <2>5, <2>7, <2>8 DEF TokensIn
  <2>11. Renames(places, S, T, w, v)
    <3>1. \A k \in 1 .. n : k \in S <=> places[k] \in T
      BY <1>1, <2>5, <2>6 DEF OfLanguage
    <3>2. \A k \in S : k \in 1 .. n /\ places[k] \in T /\ v[places[k]] = w[k]
      BY <3>1, <2>10
    <3>3. ASSUME NEW i \in T  PROVE \E k \in S : places[k] = i
      <4>1. PICK k \in 1 .. n : places[k] = i
        BY <2>5
      <4> QED
        BY <4>1, <3>1
    <3>4. \A i, j \in S : places[i] = places[j] => i = j
      BY <2>5, <3>2
    <3> QED
      BY <3>2, <3>3, <3>4 DEF Renames
  <2> QED
    BY <2>6, <2>7, <2>8, <2>9, <2>11, SumRenamed
<1> QED
  BY <1>3, <1>4, <1>5

\* So is it over the list of the languages.
LEMMA LanguagesTotal ==
  ASSUME NEW n, NEW files, AreFiles(files, n), NEW L, L = LanguagesOf(files, n),
         IsFiniteSet(L), NEW w, Weighs(w, 1 .. n), NEW v, Gathers(v, w, files, n)
  PROVE  Total([i \in DOMAIN SetToSeq(L) |-> v[SetToSeq(L)[i]]]) = SumOver(w, 1 .. n)
<1>1. Weighs(v, L) /\ SumOver(v, L) = SumOver(w, 1 .. n)
  BY LanguagesSum
<1>2. Total([i \in DOMAIN SetToSeq(L) |-> v[SetToSeq(L)[i]]]) = SumOver(v, L)
  BY <1>1, SetSum
<1> QED
  BY <1>1, <1>2

(* The end of a path *)

\* The end of a path, and what is in front of it.
LEMMA EndOf ==
  ASSUME NEW path \in Seq(Int), path # <<>>
  PROVE  /\ Len(path) \in Nat \ {0} /\ Last(path) \in Int /\ Last(path) = path[Len(path)]
         /\ Front(path) \in Seq(Int) /\ Len(Front(path)) = Len(path) - 1
         /\ Front(path) = SubSeq(path, 1, Len(path) - 1)
         /\ path = Append(Front(path), Last(path)) /\ SubSeq(path, 1, Len(path)) = path
         /\ Len(path) # 1 => Front(path) # <<>> /\ Front(path)[1] = path[1]
<1>1. PICK n \in Nat : n = Len(path) /\ n # 0
  OBVIOUS
<1>2. PICK front : front = SubSeq(path, 1, n - 1)
  OBVIOUS
<1>3. n \in 1 .. Len(path)
  BY <1>1
<1>4. /\ front \in Seq(Int) /\ Len(front) = n - 1 /\ path[n] \in Int
      /\ SubSeq(path, 1, n) = Append(front, path[n])
  BY <1>2, <1>3, FirstOf
<1>5. Front(path) = front /\ Last(path) = path[n]
  BY <1>1, <1>2 DEF Front, Last
<1>6. SubSeq(path, 1, n) = path
  BY <1>1
<1>7. n # 1 => front # <<>> /\ front[1] = path[1]
  BY <1>1, <1>2, <1>4
<1> QED
  BY <1>1, <1>2, <1>4, <1>5, <1>6, <1>7

\* A path with one component more.
LEMMA EndOfMore ==
  ASSUME NEW path \in Seq(Int), NEW component \in Int
  PROVE  /\ Append(path, component) \in Seq(Int) /\ Append(path, component) # <<>>
         /\ Last(Append(path, component)) = component /\ Front(Append(path, component)) = path
         /\ Append(path, component) # path
         /\ path # <<>> => Append(path, component)[1] = path[1]
<1>1. PICK n \in Nat : n = Len(path)
  OBVIOUS
<1>2. PICK longer \in Seq(Int) : longer = Append(path, component)
  BY AppendIs
<1>3. longer # <<>> /\ Len(longer) = n + 1 /\ longer[n + 1] = component
      /\ \A i \in 1 .. n : longer[i] = path[i]
  BY <1>1, <1>2, AppendIs
<1>4. SubSeq(longer, 1, n) = path
  BY <1>1, <1>2
<1>5. Len(longer) - 1 = n
  BY <1>1, <1>3
<1>6. Last(longer) = component /\ Front(longer) = path
  BY <1>3, <1>4, <1>5 DEF Last, Front
<1>7. longer # path /\ (path # <<>> => longer[1] = path[1])
  BY <1>1, <1>3
<1> QED
  BY <1>2, <1>3, <1>6, <1>7

\* One component more, behind two paths or behind the second.
LEMMA ConcatMore ==
  ASSUME NEW a \in Seq(Int), NEW b \in Seq(Int), NEW component \in Int
  PROVE  a \o b \in Seq(Int) /\ a \o Append(b, component) = Append(a \o b, component)
<1>1. a \o b \in Seq(Int)
  BY ConcatProperties
<1>2. a \o Append(b, component) = Append(a \o b, component)
  OBVIOUS
<1> QED
  BY <1>1, <1>2

\* One component more does the same before and after what is in front.
LEMMA PushThrough ==
  ASSUME NEW a \in Seq(Int), NEW f, IsClean(f), Root \notin ToSet(f), NEW component \in Int
  PROVE  Folded(a \o Push(f, component)) = Push(Folded(a \o f), component)
<1>1. f \in Seq(Int) /\ a \o f \in Seq(Int)
  BY ConcatMore DEF IsClean
<1>2. PICK n \in Nat : n = Len(f)
  BY <1>1
<1>3. CASE Push(f, component) = Append(f, component)
  <2>1. PICK whole \in Seq(Int) : whole = a \o f
    BY <1>1
  <2>2. a \o Append(f, component) = Append(whole, component)
    BY <1>1, <2>1, ConcatMore
  <2> QED
    BY <1>3, <2>1, <2>2, FoldedAppend
<1>4. CASE component = Here
  <2>1. \A out : Push(out, component) = out
    BY <1>4 DEF Push, Here, Up
  <2> QED
    BY <2>1
<1>5. CASE component = Up /\ f # <<>> /\ Last(f) # Up
  <2>1. PICK name \in Int : name = Last(f) /\ name = f[n]
    BY <1>1, <1>2, <1>5, EndOf
  <2>2. PICK g \in Seq(Int) : g = Front(f) /\ g = SubSeq(f, 1, n - 1) /\ f = Append(g, name)
    BY <1>1, <1>2, <1>5, <2>1, EndOf
  <2>3. n \in 1 .. n /\ SubSeq(f, 1, n) = f
    BY <1>1, <1>2, <1>5, EndOf
  <2>4. name # Root
    <3>1. name \in ToSet(f)
      BY <1>1, <1>2, <2>1, <2>3 DEF ToSet
    <3> QED
      BY <3>1
  <2>5. Push(f, component) = g
    <3>1. Last(f) # Root
      BY <2>1, <2>4
    <3>2. Push(f, component) = Front(f)
      BY <1>5, <3>1 DEF Push, Here, Up
    <3> QED
      BY <2>2, <3>2
  <2>6. name # Here
    <3>1. Push(g, name) = f
      BY <1>2, <2>1, <2>2, <2>3 DEF IsClean
    <3>2. f # g
      BY <2>2, EndOfMore
    <3>3. Push(g, Here) = g
      BY DEF Push, Here, Up
    <3> QED
      BY <3>1, <3>2, <3>3
  <2>7. PICK whole \in Seq(Int) : whole = a \o g
    BY <2>1, ConcatMore
  <2>8. a \o f = Append(whole, name)
    BY <2>1, <2>2, <2>7, ConcatMore
  <2>9. PICK h \in Seq(Int) : h = Folded(whole)
    BY FoldedIsClean DEF IsClean
  <2>10. Push(h, name) = Append(h, name)
    BY <1>5, <2>1, <2>6 DEF Push, Here, Up
  <2>11. Folded(a \o f) = Append(h, name)
    BY <2>1, <2>7, <2>8, <2>9, <2>10, FoldedAppend
  <2>12. PICK longer \in Seq(Int) : longer = Append(h, name)
    BY <2>9, EndOfMore
  <2>13. longer # <<>> /\ Last(longer) = name /\ Front(longer) = h
    BY <2>12, EndOfMore
  <2>14. Push(longer, component) = h
    BY <1>5, <2>1, <2>4, <2>13 DEF Push, Here, Up
  <2> QED
    BY <2>5, <2>7, <2>9, <2>11, <2>12, <2>14
<1>6. Push(f, component) = Append(f, component) \/ component = Here \/ (component = Up /\ f # <<>> /\ Last(f) # Up)
  <2>1. CASE component # Here /\ component # Up
    BY <2>1 DEF Push
  <2>2. CASE component = Up /\ (f = <<>> \/ Last(f) = Up)
    BY <2>2 DEF Push, Here, Up
  <2> QED
    BY <2>1, <2>2
<1> QED
  BY <1>3, <1>4, <1>5, <1>6

\* What follows a path may be cleaned first.
LEMMA FoldedTail ==
  ASSUME NEW a \in Seq(Int), NEW b \in Seq(Int), Root \notin ToSet(b)
  PROVE  Folded(a \o b) = Folded(a \o Folded(b))
<1> DEFINE Holds(k) == Folded(a \o SubSeq(b, 1, k)) = Folded(a \o Folded(SubSeq(b, 1, k)))
           Bad == {k \in 0 .. Len(b) : ~Holds(k)}
<1>1. Bad = {}
  <2> SUFFICES ASSUME Bad # {}  PROVE FALSE
    OBVIOUS
  <2>1. PICK k \in Bad : \A l \in Bad : k =< l
    <3>1. Bad \in SUBSET Nat
      OBVIOUS
    <3> HIDE DEF Bad
    <3> QED
      BY <3>1, LeastNatural
  <2>2. k # 0
    <3>1. Holds(0)
      BY FirstOfAll, FoldedNone
    <3> QED
      BY <3>1
  <2>3. k \in 1 .. Len(b) /\ k - 1 \in 0 .. Len(b)
    BY <2>2
  <2>4. PICK before \in Seq(Int) : before = SubSeq(b, 1, k - 1)
    BY <2>3, FirstOf
  <2>5. PICK component \in Int : component = b[k]
    BY <2>3
  <2>6. SubSeq(b, 1, k) = Append(before, component)
    BY <2>3, <2>4, <2>5, FirstOf
  <2>7. Folded(a \o before) = Folded(a \o Folded(before))
    <3>1. k - 1 \notin Bad
      <4>1. k \in Int
        OBVIOUS
      <4> HIDE DEF Bad
      <4> QED
        BY <4>1, <2>1
    <3>2. Holds(k - 1)
      BY <3>1, <2>3
    <3> QED
      BY <3>2, <2>4
  <2>8. PICK f \in Seq(Int) : f = Folded(before) /\ IsClean(f)
    BY FoldedIsClean DEF IsClean
  <2>9. Root \notin ToSet(f)
    <3>1. ToSet(f) \subseteq ToSet(before)
      BY <2>8, FoldedComponents
    <3>2. ToSet(before) \subseteq ToSet(b)
      <4>1. \A i \in 1 .. k - 1 : before[i] = b[i] /\ i \in 1 .. Len(b)
        BY <2>3, <2>4
      <4>2. DOMAIN before = 1 .. k - 1 /\ DOMAIN b = 1 .. Len(b)
        BY <2>3, <2>4
      <4> QED
        BY <4>1, <4>2 DEF ToSet
    <3> QED
      BY <3>1, <3>2
  <2>10. PICK whole \in Seq(Int) : whole = a \o before
    BY <2>5, ConcatMore
  <2>11. a \o Append(before, component) = Append(whole, component)
    BY <2>10, ConcatMore, SMTT(30)
  <2>12. Folded(Append(whole, component)) = Push(Folded(a \o f), component)
    BY <2>7, <2>8, <2>10, FoldedAppend
  <2>13. Folded(Append(before, component)) = Push(f, component)
    BY <2>8, FoldedAppend
  <2>14. Folded(a \o Push(f, component)) = Push(Folded(a \o f), component)
    BY <2>8, <2>9, PushThrough
  <2>15. Holds(k)
    BY <2>6, <2>11, <2>12, <2>13, <2>14
  <2> QED
    BY <2>15
<1>2. Len(b) \in 0 .. Len(b)
  OBVIOUS
<1> QED
  BY <1>1, <1>2, FirstOfAll

\* The root stays in front.
LEMMA FoldedRoot ==
  ASSUME NEW path \in Seq(Int), path # <<>>, path[1] = Root
  PROVE  Folded(path) # <<>> /\ Folded(path)[1] = Root
<1> DEFINE Holds(k) == Folded(SubSeq(path, 1, k)) # <<>> /\ Folded(SubSeq(path, 1, k))[1] = Root
           Bad == {k \in 1 .. Len(path) : ~Holds(k)}
<1>1. Bad = {}
  <2> SUFFICES ASSUME Bad # {}  PROVE FALSE
    OBVIOUS
  <2>1. PICK k \in Bad : \A l \in Bad : k =< l
    <3>1. Bad \in SUBSET Nat
      OBVIOUS
    <3> HIDE DEF Bad
    <3> QED
      BY <3>1, LeastNatural
  <2>2. k \in 1 .. Len(path) /\ path[k] \in Int
    OBVIOUS
  <2>3. PICK before \in Seq(Int) : before = SubSeq(path, 1, k - 1)
    BY FirstOf
  <2>4. PICK out \in Seq(Int) : out = Folded(before)
    BY FoldedIsClean DEF IsClean
  <2>5. Folded(SubSeq(path, 1, k)) = Push(out, path[k])
    BY <2>2, <2>3, <2>4, FoldedFirst
  <2>6. CASE k = 1
    <3>1. out = <<>>
      <4>1. SubSeq(path, 1, 0) = <<>>
        BY FirstOfAll
      <4>2. before = <<>>
        BY <2>3, <2>6, <4>1
      <4> QED
        BY <2>4, <4>2, FoldedNone
    <3>2. Push(<<>>, Root) = <<Root>>
      <4>1. Push(<<>>, Root) = Append(<<>>, Root)
        BY DEF Push, Here, Up, Root
      <4> QED
        BY <4>1
    <3> QED
      BY <2>5, <2>6, <3>1, <3>2
  <2>7. CASE k # 1
    <3>1. k - 1 \in 1 .. Len(path)
      BY <2>2, <2>7
    <3>2. k - 1 \notin Bad
      <4>1. k \in Int
        OBVIOUS
      <4> HIDE DEF Bad
      <4> QED
        BY <4>1, <2>1
    <3>3. out # <<>> /\ out[1] = Root
      BY <2>3, <2>4, <3>1, <3>2
    <3>4. PICK component \in Int : component = path[k]
      BY <2>2
    <3>5. \/ Push(out, component) = out \/ Push(out, component) = Append(out, component)
          \/ Last(out) # Root /\ Push(out, component) = Front(out)
      BY <3>3 DEF Push, Here, Up
    <3>6. Append(out, component) # <<>> /\ Append(out, component)[1] = Root
      BY <3>3, EndOfMore
    <3>7. Last(out) # Root => Front(out) # <<>> /\ Front(out)[1] = Root
      <4>1. Len(out) = 1 => Last(out) = out[1]
        BY <3>3, EndOf
      <4> QED
        BY <3>3, <4>1, EndOf
    <3>8. Push(out, component) # <<>> /\ Push(out, component)[1] = Root
      BY <3>3, <3>5, <3>6, <3>7
    <3> QED
      BY <2>5, <3>4, <3>8
  <2> QED
    BY <2>6, <2>7
<1>2. Len(path) \in 1 .. Len(path)
  OBVIOUS
<1>3. SubSeq(path, 1, Len(path)) = path
  BY EndOf
<1>4. Holds(Len(path))
  BY <1>1, <1>2
<1> QED
  BY <1>3, <1>4

\* The name at the end stays.
LEMMA LastOfClean ==
  ASSUME NEW path \in Seq(Int), path # <<>>, Last(path) \in Nat
  PROVE  Last(Clean(path)) = Last(path)
<1>1. PICK name \in Nat : name = Last(path)
  OBVIOUS
<1>2. PICK first \in Seq(Int) : first = Front(path) /\ path = Append(first, name)
  <2>1. Front(path) \in Seq(Int) /\ path = Append(Front(path), Last(path))
    BY EndOf
  <2> QED
    BY <1>1, <2>1
<1>3. path = first \o <<name>> /\ <<name>> \in Seq(Nat)
  <2>1. name \in Int
    BY <1>1
  <2>2. Append(first, name) = first \o <<name>>
    BY <2>1, AppendIsConcat
  <2>3. <<name>> \in Seq(Nat)
    OBVIOUS
  <2>4. path = first \o <<name>>
    BY <1>2, <2>2, Zenon
  <2> QED
    BY <2>3, <2>4, Zenon
<1>4. PICK out \in Seq(Int) : out = Folded(first)
  BY FoldedIsClean DEF IsClean
<1>5. Clean(path) = out \o <<name>>
  <2>1. out \o <<name>> # <<>>
    BY <1>1, <1>4
  <2> QED
    BY <1>2, <1>3, <1>4, <2>1, CleanNames
<1>6. Last(out \o <<name>>) = name
  <2>1. out \o <<name>> = Append(out, name)
    BY <1>1, <1>4
  <2> QED
    <3>1. name \in Int
      BY <1>1
    <3>2. Last(Append(out, name)) = name
      BY <1>4, <3>1, EndOfMore
    <3> QED
      BY <2>1, <3>2
<1> QED
  BY <1>1, <1>5, <1>6

-----------------------------------------------------------------------------
(* What is above a path *)

\* What it is for a path to be above another one.
LEMMA PrefixMeans ==
  ASSUME NEW a \in Seq(Int), NEW b \in Seq(Int)
  PROVE  /\ IsPrefix(a, b) <=> Len(a) =< Len(b) /\ \A i \in 1 .. Len(a) : a[i] = b[i]
         /\ IsStrictPrefix(a, b) <=> Len(a) < Len(b) /\ \A i \in 1 .. Len(a) : a[i] = b[i]
<1>1. IsPrefix(a, b) <=> Len(a) =< Len(b) /\ \A i \in 1 .. Len(a) : a[i] = b[i]
  BY DEF IsPrefix
<1>2. ASSUME Len(a) = Len(b), \A i \in 1 .. Len(a) : a[i] = b[i]  PROVE a = b
  BY <1>2
<1>3. IsStrictPrefix(a, b) <=> IsPrefix(a, b) /\ a # b
  BY DEF IsStrictPrefix
<1> QED
  BY <1>1, <1>2, <1>3

\* A root that is above another one and as long as it is that one.
LEMMA PrefixOfPrefix ==
  ASSUME NEW a \in Seq(Int), NEW b \in Seq(Int), NEW c \in Seq(Int), IsPrefix(b, c)
  PROVE  /\ IsPrefix(a, b) => IsPrefix(a, c)
         /\ IsPrefix(a, c) /\ Len(a) =< Len(b) => IsPrefix(a, b)
<1>1. Len(b) =< Len(c) /\ \A i \in 1 .. Len(b) : b[i] = c[i]
  BY PrefixMeans
<1>2. IsPrefix(a, b) => Len(a) =< Len(b) /\ \A i \in 1 .. Len(a) : a[i] = b[i]
  BY PrefixMeans
<1>3. IsPrefix(a, c) => Len(a) =< Len(c) /\ \A i \in 1 .. Len(a) : a[i] = c[i]
  BY PrefixMeans
<1>4. Len(a) =< Len(c) /\ (\A i \in 1 .. Len(a) : a[i] = c[i]) => IsPrefix(a, c)
  BY PrefixMeans
<1>5. Len(a) =< Len(b) /\ (\A i \in 1 .. Len(a) : a[i] = b[i]) => IsPrefix(a, b)
  BY PrefixMeans
<1>6. \A i \in 1 .. Len(a) : Len(a) =< Len(b) => i \in 1 .. Len(b)
  OBVIOUS
<1> QED
  BY <1>1, <1>2, <1>3, <1>4, <1>5, <1>6, SMTT(30)

\* Paths below one another stay so below a directory.
LEMMA PrefixBelow ==
  ASSUME NEW base \in Seq(Int), NEW a \in Seq(Int), NEW b \in Seq(Int)
  PROVE  IsStrictPrefix(base \o a, base \o b) <=> IsStrictPrefix(a, b)
<1>1. PICK n \in Nat, m \in Nat, k \in Nat : n = Len(base) /\ m = Len(a) /\ k = Len(b)
  OBVIOUS
<1>0. base \o a \in Seq(Int) /\ base \o b \in Seq(Int)
  OBVIOUS
<1>2. PICK s \in Seq(Int) : s = base \o a
  BY <1>0
<1>3. PICK t \in Seq(Int) : t = base \o b
  BY <1>0
<1>4. /\ Len(s) = n + m /\ \A i \in 1 .. n + m : s[i] = IF i =< n THEN base[i] ELSE a[i - n]
      /\ Len(t) = n + k /\ \A i \in 1 .. n + k : t[i] = IF i =< n THEN base[i] ELSE b[i - n]
  BY <1>1, <1>2, <1>3
<1>5. IsStrictPrefix(s, t) <=> n + m < n + k /\ \A i \in 1 .. n + m : s[i] = t[i]
  BY <1>4, PrefixMeans
<1>6. IsStrictPrefix(a, b) <=> m < k /\ \A i \in 1 .. m : a[i] = b[i]
  BY <1>1, PrefixMeans
<1>7. ASSUME m < k, \A i \in 1 .. m : a[i] = b[i]  PROVE \A i \in 1 .. n + m : s[i] = t[i]
  <2> TAKE i \in 1 .. n + m
  <2>1. i \in 1 .. n + k
    BY <1>7
  <2>2. /\ s[i] = IF i =< n THEN base[i] ELSE a[i - n]
        /\ t[i] = IF i =< n THEN base[i] ELSE b[i - n]
    BY <1>4, <2>1
  <2>3. ~(i =< n) => i - n \in 1 .. m
    OBVIOUS
  <2> QED
    BY <1>7, <2>2, <2>3
<1>8. ASSUME m < k, \A i \in 1 .. n + m : s[i] = t[i]  PROVE \A i \in 1 .. m : a[i] = b[i]
  <2> TAKE i \in 1 .. m
  <2>1. /\ n + i \in 1 .. n + m /\ n + i \in 1 .. n + k
        /\ ~(n + i =< n) /\ (n + i) - n = i
    BY <1>8
  <2>2. s[n + i] = a[i] /\ t[n + i] = b[i]
    BY <1>4, <2>1
  <2> QED
    BY <1>8, <2>1, <2>2
<1>9. n + m < n + k <=> m < k
  OBVIOUS
<1>10. IsStrictPrefix(s, t) <=> IsStrictPrefix(a, b)
  BY <1>5, <1>6, <1>7, <1>8, <1>9
<1> QED
  BY <1>2, <1>3, <1>10

\* A path without "." and ".." is clean.
LEMMA PlainIsClean ==
  ASSUME NEW path \in Seq(Int), \A k \in 1 .. Len(path) : path[k] \notin {Here, Up}
  PROVE  IsClean(path) /\ Folded(path) = path
<1>1. ASSUME NEW k \in 1 .. Len(path)
      PROVE  Push(SubSeq(path, 1, k - 1), path[k]) = SubSeq(path, 1, k)
  <2>1. SubSeq(path, 1, k) = Append(SubSeq(path, 1, k - 1), path[k])
    BY FirstOf
  <2>2. path[k] # Here /\ path[k] # Up
    OBVIOUS
  <2> QED
    BY <2>1, <2>2 DEF Push
<1>2. IsClean(path)
  BY <1>1 DEF IsClean
<1> QED
  BY <1>2, CleanFolds

\* A clean path has no ".".
LEMMA CleanHasNoHere ==
  ASSUME NEW path, IsClean(path), NEW k \in 1 .. Len(path)
  PROVE  path[k] # Here
<1>1. path \in Seq(Int) /\ Push(SubSeq(path, 1, k - 1), path[k]) = SubSeq(path, 1, k)
  BY DEF IsClean
<1>2. Len(SubSeq(path, 1, k - 1)) = k - 1 /\ Len(SubSeq(path, 1, k)) = k
  BY <1>1
<1>3. Push(SubSeq(path, 1, k - 1), Here) = SubSeq(path, 1, k - 1)
  BY DEF Push, Here, Up
<1>4. k - 1 # k
  OBVIOUS
<1> QED
  BY <1>1, <1>2, <1>3, <1>4

\* No path above a cleaned one is written as ".".
LEMMA AboveClean ==
  ASSUME NEW path \in Seq(Int), NEW clean, clean = Clean(path),
         NEW d \in Seq(Int), IsStrictPrefix(d, clean)
  PROVE  d # <<Here>>
<1> SUFFICES ASSUME d = <<Here>>  PROVE FALSE
  OBVIOUS
<1>1. PICK folded \in Seq(Int) : folded = Folded(path) /\ IsClean(folded)
  BY FoldedIsClean DEF IsClean
<1>2. clean \in Seq(Int) /\ (clean = folded \/ clean = <<Here>>)
  BY <1>1, CleanIs
<1>3. Len(d) = 1 /\ d[1] = Here
  OBVIOUS
<1>4. Len(clean) > 1 /\ clean[1] = Here
  <2>1. Len(d) < Len(clean) /\ \A i \in 1 .. Len(d) : d[i] = clean[i]
    BY <1>2, PrefixMeans
  <2>2. 1 \in 1 .. Len(d)
    BY <1>3
  <2> QED
    BY <1>3, <2>1, <2>2
<1>5. clean = folded /\ 1 \in 1 .. Len(folded)
  <2>1. clean # d
    BY DEF IsStrictPrefix
  <2>2. clean # <<Here>>
    BY <2>1
  <2>3. clean = folded
    BY <1>2, <2>2
  <2>4. Len(folded) \in Nat /\ Len(folded) > 1
    BY <1>1, <1>4, <2>3
  <2> QED
    BY <2>3, <2>4
<1> QED
  BY <1>1, <1>4, <1>5, CleanHasNoHere

-----------------------------------------------------------------------------
(* The directories of files *)

\* Roots of which one holds the directory of a path, and none is the path itself.
HasRoot(path, R) ==
  /\ \A root \in R : root # path /\ (IsWithin(Parent(path), root) <=> IsPrefix(root, Parent(path)))
  /\ \E root \in R : IsPrefix(root, Parent(path))

\* A path has the directories above it that are below one of the roots.
LEMMA AncestorsAre ==
  ASSUME NEW R \in SUBSET Seq(Int), NEW path \in Seq(Int), path # <<>>, HasRoot(path, R)
  PROVE  Ancestors(path, R)
           = {d \in Seq(Int) : IsStrictPrefix(d, path) /\ \E root \in R : IsPrefix(root, d)}
<1>1. PICK n \in Nat : n = Len(path) /\ n > 0
  OBVIOUS
<1>2. PICK directory \in Seq(Int) : directory = Parent(path) /\ directory = SubSeq(path, 1, n - 1)
  BY <1>1, EndOf DEF Parent
<1>3. Len(directory) = n - 1 /\ IsPrefix(directory, path)
  <2>1. Len(directory) = n - 1 /\ \A i \in 1 .. n - 1 : directory[i] = path[i]
    BY <1>1, <1>2
  <2> QED
    BY <1>1, <2>1, PrefixMeans
<1>4. PICK matching \in SUBSET R : matching = {root \in R : IsPrefix(root, directory)}
  OBVIOUS
<1>5. PICK w : w = CHOOSE root \in matching : \A other \in matching : Len(root) =< Len(other)
  OBVIOUS
<1>6. RootOf(path, R) = w
  <2>1. PICK candidates : candidates = {IF root = path THEN Parent(path) ELSE root : root \in R}
    OBVIOUS
  <2>2. candidates = R
    BY <2>1 DEF HasRoot
  <2>3. {root \in candidates : IsWithin(Parent(path), root)} = matching
    BY <1>2, <1>4, <2>2 DEF HasRoot
  <2>4. matching # {}
    BY <1>2, <1>4 DEF HasRoot
  <2>5. RootOf(path, R)
          = IF {root \in candidates : IsWithin(Parent(path), root)} = {} THEN Parent(path)
            ELSE CHOOSE root \in {root \in candidates : IsWithin(Parent(path), root)} :
                   \A other \in {near \in candidates : IsWithin(Parent(path), near)} :
                     Len(root) =< Len(other)
    BY <2>1 DEF RootOf
  <2> QED
    BY <1>5, <2>3, <2>4, <2>5
<1>7. w \in matching /\ \A other \in matching : Len(w) =< Len(other)
  <2>1. PICK lengths : lengths = {Len(root) : root \in matching}
    OBVIOUS
  <2>2. lengths \in SUBSET Nat /\ lengths # {}
    <3>1. matching # {}
      BY <1>2, <1>4 DEF HasRoot
    <3>2. \A root \in matching : Len(root) \in Nat
      OBVIOUS
    <3> QED
      BY <2>1, <3>1, <3>2
  <2>3. PICK least \in lengths : \A length \in lengths : least =< length
    BY <2>2, LeastNatural
  <2>4. PICK root \in matching : Len(root) = least
    BY <2>1, <2>3
  <2>5. \A other \in matching : Len(root) =< Len(other)
    BY <2>1, <2>3, <2>4
  <2> QED
    BY <1>5, <2>4, <2>5
<1>8. w \in Seq(Int) /\ w \in R /\ IsPrefix(w, directory)
  BY <1>4, <1>7
<1>9. PICK m \in Nat : m = Len(w)
  BY <1>8
<1>10. Ancestors(path, R) = {SubSeq(path, 1, k) : k \in m .. n - 1}
  BY <1>1, <1>6, <1>9 DEF Ancestors
<1>11. ASSUME NEW k \in m .. n - 1
       PROVE  /\ SubSeq(path, 1, k) \in Seq(Int) /\ IsStrictPrefix(SubSeq(path, 1, k), path)
              /\ \E root \in R : IsPrefix(root, SubSeq(path, 1, k))
  <2>0. k \in 0 .. n - 1
    BY <1>1
  <2>1. PICK d \in Seq(Int) : d = SubSeq(path, 1, k)
    <3>1. SubSeq(path, 1, k) \in Seq(Int)
      BY <1>1, <2>0
    <3> QED
      BY <3>1
  <2>2. Len(d) = k /\ \A i \in 1 .. k : d[i] = path[i]
    BY <1>1, <2>0, <2>1
  <2>3. IsStrictPrefix(d, path) /\ IsPrefix(d, path)
    BY <1>1, <2>0, <2>2, PrefixMeans
  <2>4. IsPrefix(w, path)
    BY <1>3, <1>8, PrefixOfPrefix
  <2>5. IsPrefix(w, d)
    BY <1>8, <1>9, <2>2, <2>3, <2>4, PrefixOfPrefix
  <2> QED
    BY <1>8, <2>1, <2>3, <2>5
<1>12. ASSUME NEW d \in Seq(Int), IsStrictPrefix(d, path), NEW root \in R, IsPrefix(root, d)
       PROVE  \E k \in m .. n - 1 : d = SubSeq(path, 1, k)
  <2>0. Len(d) \in Nat /\ Len(d) < Len(path) /\ \A i \in 1 .. Len(d) : d[i] = path[i]
    BY <1>12, PrefixMeans
  <2>1. PICK k \in Nat : k = Len(d) /\ k < n /\ \A i \in 1 .. k : d[i] = path[i]
    BY <1>1, <2>0
  <2>2. d = SubSeq(path, 1, k)
    BY <1>1, <2>1
  <2>3. IsPrefix(d, path)
    BY <1>12 DEF IsStrictPrefix
  <2>4. IsPrefix(d, directory)
    BY <1>1, <1>3, <2>1, <2>3, PrefixOfPrefix
  <2>5. root \in Seq(Int) /\ IsPrefix(root, directory)
    BY <1>12, <2>4, PrefixOfPrefix
  <2>6. m =< Len(root)
    BY <1>4, <1>7, <1>9, <2>5
  <2>7. Len(root) \in Nat /\ Len(root) =< k
    BY <1>12, <2>1, <2>5, PrefixMeans
  <2>8. k \in m .. n - 1
    BY <1>1, <2>1, <2>6, <2>7
  <2> QED
    BY <2>2, <2>8
<1> QED
  BY <1>10, <1>11, <1>12, ZenonT(30)

\* Whatever the roots are, the directories of a path are above it.
LEMMA AncestorsAbove ==
  ASSUME NEW R \in SUBSET Seq(Int), NEW path \in Seq(Int), path # <<>>, NEW d \in Ancestors(path, R)
  PROVE  d \in Seq(Int) /\ IsStrictPrefix(d, path)
<1>1. PICK n \in Nat : n = Len(path) /\ n > 0
  OBVIOUS
<1>2. PICK directory \in Seq(Int) : directory = Parent(path)
  BY EndOf DEF Parent
<1>3. PICK candidates : candidates = {IF root = path THEN directory ELSE root : root \in R}
  OBVIOUS
<1>4. PICK matching : matching = {root \in candidates : IsWithin(directory, root)}
  OBVIOUS
<1>5. matching \in SUBSET Seq(Int)
  BY <1>3, <1>4
<1>6. PICK widest : widest = RootOf(path, R)
  OBVIOUS
<1>7. widest = IF matching = {} THEN directory
               ELSE CHOOSE root \in matching : \A other \in matching : Len(root) =< Len(other)
  BY <1>2, <1>3, <1>4, <1>6 DEF RootOf
<1>8. widest \in Seq(Int)
  <2>1. CASE matching = {}
    BY <1>7, <2>1
  <2>2. CASE matching # {}
    <3>1. PICK lengths : lengths = {Len(root) : root \in matching}
      OBVIOUS
    <3>2. lengths \in SUBSET Nat /\ lengths # {}
      <4>1. \A root \in matching : Len(root) \in Nat
        BY <1>5
      <4> QED
        BY <2>2, <3>1, <4>1
    <3>3. PICK least \in lengths : \A length \in lengths : least =< length
      BY <3>2, LeastNatural
    <3>4. PICK root \in matching : Len(root) = least
      BY <3>1, <3>3
    <3>5. \A other \in matching : Len(root) =< Len(other)
      BY <3>1, <3>3, <3>4
    <3>6. widest \in matching
      BY <1>7, <2>2, <3>5
    <3> QED
      BY <1>5, <3>6
  <2> QED
    BY <2>1, <2>2
<1>9. PICK m \in Nat : m = Len(widest)
  BY <1>8
<1>10. PICK k \in m .. n - 1 : d = SubSeq(path, 1, k)
  BY <1>1, <1>6, <1>9 DEF Ancestors
<1>11. k \in 0 .. n - 1
  BY <1>1
<1>12. d \in Seq(Int) /\ Len(d) = k /\ \A i \in 1 .. k : d[i] = path[i]
  BY <1>1, <1>10, <1>11
<1>13. IsStrictPrefix(d, path)
  <2>1. Len(d) < Len(path) /\ \A i \in 1 .. Len(d) : d[i] = path[i]
    BY <1>1, <1>11, <1>12
  <2> QED
    BY <1>1, <1>12, <2>1, PrefixMeans
<1> QED
  BY <1>12, <1>13

\* The totals of the files at some places, by a list of them.
LEMMA TotalsOfPart ==
  ASSUME NEW n, NEW files, AreFiles(files, n), NEW S \in SUBSET (1 .. n),
         NEW list, list = Arranged(files, [i \in S |-> {j \in S : j < i}])
  PROVE  /\ TotalsOf(list) = TotalsOver(files, S)
         /\ Len(list) = Cardinality(S)
         /\ Total([i \in DOMAIN list |-> list[i].tokens]) = SumOver(TokensIn(files), S)
<1>1. n \in Nat
  BY DEF AreFiles
<1>2. PICK Before : Before = [i \in S |-> {j \in S : j < i}]
  OBVIOUS
<1>3. Orders(S, Before)
  BY <1>1, <1>2, IndicesOrder
<1>4. PICK m \in Nat : m = Cardinality(S)
  BY SumsAreNatural
<1>5. /\ AreFiles(list, m) /\ TotalsOver(list, 1 .. m) = TotalsOver(files, S)
      /\ SumOver(TokensIn(list), 1 .. m) = SumOver(TokensIn(files), S)
  BY <1>2, <1>3, <1>4, ArrangedFiles
<1>6. TotalsOf(list) = TotalsOver(list, 1 .. m)
  BY <1>5, TotalsOfIs
<1>7. PICK tokens : tokens = TokensIn(list)
  OBVIOUS
<1>8. PICK all \in SUBSET (1 .. m) : all = 1 .. m
  OBVIOUS
<1>9. DOMAIN list = 1 .. m /\ DOMAIN tokens = 1 .. m
  BY <1>5, <1>7 DEF AreFiles, TokensIn
<1>10. Weighs(tokens, 1 .. m)
  BY <1>5, <1>7, <1>8, SumsAreNatural
<1>11. Total(tokens) = SumOver(tokens, 1 .. m)
  BY <1>9, <1>10, TotalIs
<1>12. Len(list) = m
  <2>1. list = [i \in 1 .. m |-> list[i]]
    BY <1>2, <1>3, <1>4, ArrangedIs
  <2> QED
    BY <2>1
<1> QED
  BY <1>4, <1>5, <1>6, <1>7, <1>11, <1>12 DEF TokensIn

\* The files that a directory of a report counts, and its entry.
OfDirectory(files, n, R, d) == {i \in 1 .. n : d \in Ancestors(files[i].path, R)}
PathShown(d) == IF d = <<>> THEN <<Here>> ELSE d
DirectoryEntry(files, n, R, d) ==
  [path   |-> PathShown(d),
   files  |-> Cardinality(OfDirectory(files, n, R, d)),
   tokens |-> SumOver(TokensIn(files), OfDirectory(files, n, R, d)),
   bytes  |-> SumOver(BytesIn(files), OfDirectory(files, n, R, d))]

DirectoriesOf(files, n, R) == UNION {Ancestors(files[i].path, R) : i \in 1 .. n}

\* Paths have ancestors above them, none of which is written as ".".
HaveAncestors(files, n, R) ==
  \A i \in 1 .. n : \A d \in Ancestors(files[i].path, R) :
    d \in Seq(Int) /\ d # <<Here>> /\ IsStrictPrefix(d, files[i].path)

LEMMA AncestorsFinite ==
  ASSUME NEW n \in Nat, NEW files, \A i \in 1 .. n : files[i].path \in Seq(Int),
         NEW R, HaveAncestors(files, n, R)
  PROVE  /\ IsFiniteSet(DirectoriesOf(files, n, R))
         /\ \A d \in DirectoriesOf(files, n, R) : d \in Seq(Int) /\ d # <<Here>>
<1>1. ASSUME NEW i \in 1 .. n  PROVE IsFiniteSet(Ancestors(files[i].path, R))
  <2>1. PICK path \in Seq(Int) : path = files[i].path
    OBVIOUS
  <2>2. PICK m \in Nat : m = Len(path)
    OBVIOUS
  <2>3. PICK f : f = [k \in 0 .. m |-> SubSeq(path, 1, k)]
    OBVIOUS
  <2>4. PICK firsts : firsts = {SubSeq(path, 1, k) : k \in 0 .. m}
    OBVIOUS
  <2>5. f \in Surjection(0 .. m, firsts) /\ IsFiniteSet(0 .. m)
    <3>1. IsFiniteSet(0 .. m)
      BY FS_Interval
    <3>2. f \in Surjection(0 .. m, firsts)
      BY <2>3, <2>4 DEF Surjection
    <3> QED
      BY <3>1, <3>2
  <2>6. IsFiniteSet(firsts)
    BY <2>5, FS_Surjection
  <2>7. ASSUME NEW d \in Ancestors(files[i].path, R)  PROVE d \in firsts
    <3>1. d \in Seq(Int) /\ IsStrictPrefix(d, path)
      BY <2>1 DEF HaveAncestors
    <3>2. Len(d) \in Nat /\ Len(d) < m /\ \A k \in 1 .. Len(d) : d[k] = path[k]
      BY <2>2, <3>1, PrefixMeans
    <3>3. d = SubSeq(path, 1, Len(d))
      BY <2>2, <3>1, <3>2
    <3>4. Len(d) \in 0 .. m
      BY <3>2
    <3> QED
      BY <2>4, <3>3, <3>4
  <2> QED
    BY <2>6, <2>7, FS_Subset
<1>2. PICK sets : sets = {Ancestors(files[i].path, R) : i \in 1 .. n}
  OBVIOUS
<1>3. IsFiniteSet(sets)
  <2>1. PICK f : f = [i \in 1 .. n |-> Ancestors(files[i].path, R)]
    OBVIOUS
  <2>2. f \in Surjection(1 .. n, sets)
    BY <1>2, <2>1 DEF Surjection
  <2> QED
    BY <2>2, UptoIsFinite, FS_Surjection
<1>4. IsFiniteSet(UNION sets)
  BY <1>1, <1>2, <1>3, FS_UNION
<1>5. \A d \in UNION sets : d \in Seq(Int) /\ d # <<Here>>
  BY <1>2 DEF HaveAncestors
<1> QED
  BY <1>2, <1>4, <1>5 DEF DirectoriesOf


RootsOf(ins) == {NormalizeRoot(input) : input \in ins}

\* The directories of a report are those of its files, with the totals of each: the
\* sums of a directory fit where those of all files do.
LEMMA DirectoriesAre ==
  ASSUME NEW n, NEW files, AreFiles(files, n), Fits(files, 1 .. n),
         NEW ins, NEW R, R = RootsOf(ins), HaveAncestors(files, n, R),
         NEW D, D = DirectoriesOf(files, n, R)
  PROVE  /\ AggregateDirectories(files, ins) # Overflow
         /\ \E m \in Nat : /\ DOMAIN AggregateDirectories(files, ins).all = 1 .. m
                           /\ Len(AggregateDirectories(files, ins).all) = m
         /\ ToSet(AggregateDirectories(files, ins).all)
              = {DirectoryEntry(files, n, R, d) : d \in D}
<1>0. n \in Nat /\ DOMAIN files = 1 .. n /\ \A i \in 1 .. n : files[i].path \in Seq(Int)
  BY DEF AreFiles
<1>1. IsFiniteSet(D) /\ \A d \in D : d \in Seq(Int) /\ d # <<Here>>
  BY <1>0, AncestorsFinite
<1>2. PICK E : E = {DirectoryEntry(files, n, R, d) : d \in D}
  OBVIOUS
<1>3. IsFiniteSet(E)
  <2>1. PICK f : f = [d \in D |-> DirectoryEntry(files, n, R, d)]
    OBVIOUS
  <2>2. f \in Surjection(D, E)
    BY <1>2, <2>1 DEF Surjection
  <2> QED
    BY <1>1, <2>2, FS_Surjection
<1>4. ASSUME NEW d \in D
      PROVE  DirectoryEntry(files, n, R, d).path = PathShown(d) /\ PathShown(d) \in Seq(Int)
  <2>1. <<Here>> \in Seq(Int)
    BY DEF Here
  <2> QED
    BY <1>1, <2>1 DEF DirectoryEntry, PathShown
<1>5. \A d, other \in D : PathShown(d) = PathShown(other) => d = other
  BY <1>1 DEF PathShown
<1>6. PICK Before : Before = [entry \in E |-> {other \in E : Less(other.path, entry.path)}]
  OBVIOUS
<1>7. Orders(E, Before)
  <2>1. \A entry \in E : entry.path \in Seq(Int)
    BY <1>2, <1>4
  <2>2. ASSUME NEW entry \in E, NEW other \in E, entry.path = other.path  PROVE entry = other
    <3>1. PICK d \in D : entry = DirectoryEntry(files, n, R, d)
      BY <1>2
    <3>2. PICK c \in D : other = DirectoryEntry(files, n, R, c)
      BY <1>2
    <3>3. d = c
      BY <1>4, <1>5, <2>2, <3>1, <3>2
    <3> QED
      BY <3>1, <3>2, <3>3
  <2>3. Before \in [E -> SUBSET E]
    BY <1>6
  <2>4. \A x \in E : x \notin Before[x]
    BY <1>6, <2>1, LessIrreflexive
  <2>5. \A x, y, z \in E : x \in Before[y] /\ y \in Before[z] => x \in Before[z]
    BY <1>6, <2>1, LessTransitive
  <2>6. \A x, y \in E : x = y \/ x \in Before[y] \/ y \in Before[x]
    BY <1>6, <2>1, <2>2, LessTotal
  <2> QED
    BY <1>3, <2>3, <2>4, <2>5, <2>6 DEF Orders, IsOrder
<1>8. PICK list : list = AntiFunction([entry \in E |-> 1 + Cardinality(Before[entry])])
  OBVIOUS
<1>9. Lists(list, E, Before)
  BY <1>7, <1>8, RanksList DEF Orders
<1>10. ToSet(list) = E /\ \E m \in Nat : DOMAIN list = 1 .. m /\ Len(list) = m
  <2>1. PICK m \in Nat : m = Cardinality(E)
    BY <1>3, FS_CardinalityType
  <2>2. list \in [1 .. m -> E] /\ \A x \in E : \E i \in 1 .. m : list[i] = x
    BY <1>9, <2>1 DEF Lists
  <2>3. list \in Seq(E) /\ Len(list) = m
    BY <2>2
  <2> QED
    BY <2>2, <2>3 DEF ToSet
<1>11. list = Ranked(E, ByPath)
  BY <1>6, <1>8 DEF Ranked, ByPath
<1>12. UNION {Ancestors(file.path, R) : file \in ToSet(files)} = D
  BY <1>0 DEF ToSet, DirectoriesOf
<1>13. ASSUME NEW d
       PROVE  TotalsBelow(files, R, d)
                = [files  |-> Cardinality(OfDirectory(files, n, R, d)),
                   tokens |-> SumOver(TokensIn(files), OfDirectory(files, n, R, d)),
                   bytes  |-> SumOver(BytesIn(files), OfDirectory(files, n, R, d))]
  <2>1. PICK S \in SUBSET (1 .. n) : S = OfDirectory(files, n, R, d)
    BY DEF OfDirectory
  <2>2. PICK part : part = Arranged(files, [i \in S |-> {j \in S : j < i}])
    OBVIOUS
  <2>3. Filtered(files, LAMBDA file : d \in Ancestors(file.path, R)) = part
    <3>1. {i \in DOMAIN files : d \in Ancestors(files[i].path, R)} = S
      BY <1>0, <2>1 DEF OfDirectory
    <3> QED
      BY <2>2, <3>1 DEF Filtered, Ranked, Arranged
  <2>4. TotalsOf(part) = TotalsOver(files, S)
    BY <2>2, TotalsOfPart
  <2>5. Fits(files, S)
    <3>1. PICK all \in SUBSET (1 .. n) : all = 1 .. n
      OBVIOUS
    <3> QED
      BY <3>1, SumsGrow
  <2> QED
    BY <2>1, <2>3, <2>4, <2>5 DEF TotalsBelow, TotalsOver
<1>14. AggregateDirectories(files, ins) = [all |-> Ranked(E, ByPath)]
  <2>1. \A d \in D : TotalsBelow(files, R, d) # Overflow
    BY <1>13 DEF Overflow
  <2>2. \A d \in D :
          [path   |-> IF d = <<>> THEN <<Here>> ELSE d,
           files  |-> TotalsBelow(files, R, d).files,
           tokens |-> TotalsBelow(files, R, d).tokens,
           bytes  |-> TotalsBelow(files, R, d).bytes]
            = DirectoryEntry(files, n, R, d)
    BY <1>13 DEF DirectoryEntry, PathShown
  <2> QED
    BY <1>2, <1>12, <2>1, <2>2, ZenonT(30) DEF AggregateDirectories, RootsOf
<1>16. AggregateDirectories(files, ins) = [all |-> list]
  BY <1>11, <1>14
<1>17. [all |-> list].all = list /\ [all |-> list] # Overflow
  BY DEF Overflow
<1> QED
  BY <1>2, <1>10, <1>16, <1>17
=============================================================================
