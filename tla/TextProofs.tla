------------------------------ MODULE TextProofs ------------------------------
(***************************************************************************)
(* Lemmas about what is read and parsed: characters of bytes, line ends,   *)
(* what is skipped, tokens of a text, numbers and sizes.  Each states what *)
(* an operator of Text, Counting, Figures or Cli returns.                  *)
(***************************************************************************)
EXTENDS Cli, SequenceProofs

-----------------------------------------------------------------------------
(* Words in sequences *)

LEMMA SeqWithin ==
  ASSUME NEW S, NEW T, S \subseteq T, NEW seq \in Seq(S)
  PROVE  seq \in Seq(T)
OBVIOUS

LEMMA PartIs ==
  ASSUME NEW T, NEW seq \in Seq(T), NEW i \in Int, NEW j \in Int, 1 =< i, i =< j + 1, j =< Len(seq)
  PROVE  /\ SubSeq(seq, i, j) \in Seq(T) /\ Len(SubSeq(seq, i, j)) = j - i + 1
         /\ \A k \in 1 .. j - i + 1 : SubSeq(seq, i, j)[k] = seq[i + k - 1]
OBVIOUS

LEMMA OneLong ==
  ASSUME NEW seq \in Seq(Int), NEW a \in Int
  PROVE  seq = <<a>> <=> Len(seq) = 1 /\ seq[1] = a
<1>1. ASSUME seq = <<a>>  PROVE Len(seq) = 1 /\ seq[1] = a
  BY <1>1
<1>2. ASSUME Len(seq) = 1, seq[1] = a  PROVE <<a>> = seq
  BY <1>2
<1> QED
  BY <1>1, <1>2

LEMMA TwoLong ==
  ASSUME NEW seq \in Seq(Int), NEW a \in Int, NEW b \in Int
  PROVE  seq = <<a, b>> <=> Len(seq) = 2 /\ seq[1] = a /\ seq[2] = b
<1>1. ASSUME seq = <<a, b>>  PROVE Len(seq) = 2 /\ seq[1] = a /\ seq[2] = b
  BY <1>1
<1>2. ASSUME Len(seq) = 2, seq[1] = a, seq[2] = b  PROVE <<a, b>> = seq
  BY <1>2
<1> QED
  BY <1>1, <1>2

LEMMA LineFeedOccurs ==
  ASSUME NEW seq \in Seq(Int), NEW i \in Int, i >= 1
  PROVE  OccursAt(<<10>>, seq, i) <=> i =< Len(seq) /\ seq[i] = 10
<1>1. PICK word : word = <<10>>
  OBVIOUS
<1>2. word \in Seq(Int) /\ Len(word) = 1 /\ word[1] = 10
  BY <1>1
<1> HIDE <1>1
<1>3. OccursAt(word, seq, i) <=> i =< Len(seq) /\ SubSeq(seq, i, i) = word
  <2>1. i + Len(word) - 1 = i
    BY <1>2
  <2> QED
    BY <1>2, <2>1 DEF OccursAt
<1>4. ASSUME i =< Len(seq)  PROVE SubSeq(seq, i, i) = word <=> seq[i] = 10
  <2>1. PICK part : part = SubSeq(seq, i, i)
    OBVIOUS
  <2>2. part \in Seq(Int) /\ Len(part) = 1 /\ part[1] = seq[i]
    BY <1>4, <2>1, PartIs
  <2>3. ASSUME part[1] = 10  PROVE part = word
    <3>1. \A k \in 1 .. 1 : part[k] = word[k]
      BY <1>2, <2>3
    <3>2. Len(part) = Len(word) /\ \A k \in 1 .. Len(part) : part[k] = word[k]
      BY <1>2, <2>2, <3>1
    <3>3. part \in Seq(Int) /\ word \in Seq(Int)
      BY <1>2, <2>2
    <3> HIDE <2>2, <2>3
    <3> QED
      BY <3>2, <3>3, SeqEqual
  <2> QED
    BY <1>2, <2>1, <2>2, <2>3
<1>5. OccursAt(word, seq, i) <=> i =< Len(seq) /\ seq[i] = 10
  BY <1>3, <1>4
<1> QED
  BY <1>1, <1>5

LEMMA CutMarkOccurs ==
  ASSUME NEW seq \in Seq(Int), NEW i \in Int, i >= 1
  PROVE  OccursAt(<<239, 187>>, seq, i) <=> i + 1 =< Len(seq) /\ seq[i] = 239 /\ seq[i + 1] = 187
<1>1. PICK word : word = <<239, 187>>
  OBVIOUS
<1>2. word \in Seq(Int) /\ Len(word) = 2 /\ word[1] = 239 /\ word[2] = 187
  BY <1>1
<1> HIDE <1>1
<1>3. OccursAt(word, seq, i) <=> i + 1 =< Len(seq) /\ SubSeq(seq, i, i + 1) = word
  <2>1. i + Len(word) - 1 = i + 1
    BY <1>2
  <2> QED
    BY <1>2, <2>1 DEF OccursAt
<1>4. ASSUME i + 1 =< Len(seq)  PROVE SubSeq(seq, i, i + 1) = word <=> seq[i] = 239 /\ seq[i + 1] = 187
  <2>1. PICK part : part = SubSeq(seq, i, i + 1)
    OBVIOUS
  <2>2. part \in Seq(Int) /\ Len(part) = 2 /\ part[1] = seq[i] /\ part[2] = seq[i + 1]
    BY <1>4, <2>1, PartIs
  <2>3. ASSUME part[1] = 239 /\ part[2] = 187  PROVE part = word
    <3>1. \A k \in 1 .. 2 : part[k] = word[k]
      BY <1>2, <2>3
    <3>2. Len(part) = Len(word) /\ \A k \in 1 .. Len(part) : part[k] = word[k]
      BY <1>2, <2>2, <3>1
    <3>3. part \in Seq(Int) /\ word \in Seq(Int)
      BY <1>2, <2>2
    <3> HIDE <2>2, <2>3
    <3> QED
      BY <3>2, <3>3, SeqEqual
  <2> QED
    BY <1>2, <2>1, <2>2, <2>3
<1>5. OccursAt(word, seq, i) <=> i + 1 =< Len(seq) /\ seq[i] = 239 /\ seq[i + 1] = 187
  BY <1>3, <1>4
<1> QED
  BY <1>1, <1>5

LEMMA WholeMarkOccurs ==
  ASSUME NEW seq \in Seq(Int), NEW i \in Int, i >= 1
  PROVE  OccursAt(MarkBytes, seq, i) <=> i + 2 =< Len(seq) /\ seq[i] = 239 /\ seq[i + 1] = 187 /\ seq[i + 2] = 191
<1>1. PICK word : word = MarkBytes
  OBVIOUS
<1>2. word \in Seq(Int) /\ Len(word) = 3 /\ word[1] = 239 /\ word[2] = 187 /\ word[3] = 191
  BY <1>1 DEF MarkBytes
<1> HIDE <1>1
<1>3. OccursAt(word, seq, i) <=> i + 2 =< Len(seq) /\ SubSeq(seq, i, i + 2) = word
  <2>1. i + Len(word) - 1 = i + 2
    BY <1>2
  <2> QED
    BY <1>2, <2>1 DEF OccursAt
<1>4. ASSUME i + 2 =< Len(seq)  PROVE SubSeq(seq, i, i + 2) = word <=> seq[i] = 239 /\ seq[i + 1] = 187 /\ seq[i + 2] = 191
  <2>1. PICK part : part = SubSeq(seq, i, i + 2)
    OBVIOUS
  <2>2. part \in Seq(Int) /\ Len(part) = 3 /\ part[1] = seq[i] /\ part[2] = seq[i + 1] /\ part[3] = seq[i + 2]
    BY <1>4, <2>1, PartIs
  <2>3. ASSUME part[1] = 239 /\ part[2] = 187 /\ part[3] = 191  PROVE part = word
    <3>1. \A k \in 1 .. 3 : part[k] = word[k]
      BY <1>2, <2>3
    <3>2. Len(part) = Len(word) /\ \A k \in 1 .. Len(part) : part[k] = word[k]
      BY <1>2, <2>2, <3>1
    <3>3. part \in Seq(Int) /\ word \in Seq(Int)
      BY <1>2, <2>2
    <3> HIDE <2>2, <2>3
    <3> QED
      BY <3>2, <3>3, SeqEqual
  <2> QED
    BY <1>2, <2>1, <2>2, <2>3
<1>5. OccursAt(word, seq, i) <=> i + 2 =< Len(seq) /\ seq[i] = 239 /\ seq[i + 1] = 187 /\ seq[i + 2] = 191
  BY <1>3, <1>4
<1> QED
  BY <1>1, <1>5

LEMMA TwoPointsOccurs ==
  ASSUME NEW seq \in Seq(Int), NEW i \in Int, i >= 1
  PROVE  OccursAt(<<10, 10>>, seq, i) <=> i + 1 =< Len(seq) /\ seq[i] = 10 /\ seq[i + 1] = 10
<1>1. PICK word : word = <<10, 10>>
  OBVIOUS
<1>2. word \in Seq(Int) /\ Len(word) = 2 /\ word[1] = 10 /\ word[2] = 10
  BY <1>1
<1> HIDE <1>1
<1>3. OccursAt(word, seq, i) <=> i + 1 =< Len(seq) /\ SubSeq(seq, i, i + 1) = word
  <2>1. i + Len(word) - 1 = i + 1
    BY <1>2
  <2> QED
    BY <1>2, <2>1 DEF OccursAt
<1>4. ASSUME i + 1 =< Len(seq)  PROVE SubSeq(seq, i, i + 1) = word <=> seq[i] = 10 /\ seq[i + 1] = 10
  <2>1. PICK part : part = SubSeq(seq, i, i + 1)
    OBVIOUS
  <2>2. part \in Seq(Int) /\ Len(part) = 2 /\ part[1] = seq[i] /\ part[2] = seq[i + 1]
    BY <1>4, <2>1, PartIs
  <2>3. ASSUME part[1] = 10 /\ part[2] = 10  PROVE part = word
    <3>1. \A k \in 1 .. 2 : part[k] = word[k]
      BY <1>2, <2>3
    <3>2. Len(part) = Len(word) /\ \A k \in 1 .. Len(part) : part[k] = word[k]
      BY <1>2, <2>2, <3>1
    <3>3. part \in Seq(Int) /\ word \in Seq(Int)
      BY <1>2, <2>2
    <3> HIDE <2>2, <2>3
    <3> QED
      BY <3>2, <3>3, SeqEqual
  <2> QED
    BY <1>2, <2>1, <2>2, <2>3
<1>5. OccursAt(word, seq, i) <=> i + 1 =< Len(seq) /\ seq[i] = 10 /\ seq[i + 1] = 10
  BY <1>3, <1>4
<1> QED
  BY <1>1, <1>5

LEMMA OneBegins ==
  ASSUME NEW seq \in Seq(Int), NEW a \in Int
  PROVE  IsPrefix(<<a>>, seq) <=> 1 =< Len(seq) /\ seq[1] = a
<1>1. Len(<<a>>) = 1 /\ <<a>> \in Seq(Int)
  OBVIOUS
<1>2. SubSeq(<<a>>, 1, 1) = <<a>>
  <2>1. PICK word : word = <<a>>
    OBVIOUS
  <2>2. PICK part : part = SubSeq(word, 1, 1)
    OBVIOUS
  <2>3. word \in Seq(Int) /\ Len(word) = 1 /\ word[1] = a
    BY <2>1
  <2>4. part \in Seq(Int) /\ Len(part) = 1 /\ part[1] = word[1]
    BY <2>2, <2>3, PartIs
  <2>5. part = <<a>>
    BY <2>3, <2>4, OneLong
  <2> QED
    BY <2>1, <2>2, <2>5
<1>3. IsPrefix(<<a>>, seq) <=> 1 =< Len(seq) /\ <<a>> = SubSeq(seq, 1, 1)
  BY <1>1, <1>2 DEF IsPrefix
<1>4. ASSUME 1 =< Len(seq)  PROVE SubSeq(seq, 1, 1) = <<a>> <=> seq[1] = a
  <2>1. PICK part : part = SubSeq(seq, 1, 1)
    OBVIOUS
  <2>2. part \in Seq(Int) /\ Len(part) = 1 /\ part[1] = seq[1]
    BY <1>4, <2>1, PartIs
  <2>3. part = <<a>> <=> Len(part) = 1 /\ part[1] = a
    BY <2>2, OneLong
  <2> QED
    BY <2>1, <2>2, <2>3
<1> QED
  BY <1>3, <1>4

LEMMA TwoBegin ==
  ASSUME NEW seq \in Seq(Int), NEW a \in Int, NEW b \in Int
  PROVE  IsPrefix(<<a, b>>, seq) <=> 2 =< Len(seq) /\ seq[1] = a /\ seq[2] = b
<1>1. Len(<<a, b>>) = 2 /\ <<a, b>> \in Seq(Int)
  OBVIOUS
<1>2. SubSeq(<<a, b>>, 1, 2) = <<a, b>>
  <2>1. PICK word : word = <<a, b>>
    OBVIOUS
  <2>2. PICK part : part = SubSeq(word, 1, 2)
    OBVIOUS
  <2>3. word \in Seq(Int) /\ Len(word) = 2 /\ word[1] = a /\ word[2] = b
    BY <2>1
  <2>4. part \in Seq(Int) /\ Len(part) = 2 /\ part[1] = word[1] /\ part[2] = word[2]
    BY <2>2, <2>3, PartIs
  <2>5. part = <<a, b>>
    BY <2>3, <2>4, TwoLong
  <2> QED
    BY <2>1, <2>2, <2>5
<1>3. IsPrefix(<<a, b>>, seq) <=> 2 =< Len(seq) /\ <<a, b>> = SubSeq(seq, 1, 2)
  BY <1>1, <1>2 DEF IsPrefix
<1>4. ASSUME 2 =< Len(seq)  PROVE SubSeq(seq, 1, 2) = <<a, b>> <=> seq[1] = a /\ seq[2] = b
  <2>1. PICK part : part = SubSeq(seq, 1, 2)
    OBVIOUS
  <2>2. part \in Seq(Int) /\ Len(part) = 2 /\ part[1] = seq[1] /\ part[2] = seq[2]
    BY <1>4, <2>1, PartIs
  <2>3. part = <<a, b>> <=> Len(part) = 2 /\ part[1] = a /\ part[2] = b
    BY <2>2, TwoLong
  <2> QED
    BY <2>1, <2>2, <2>3
<1> QED
  BY <1>3, <1>4

LEMMA FourBegin ==
  ASSUME NEW seq \in Seq(Int), NEW a \in Int, NEW b \in Int, NEW c \in Int, NEW d \in Int
  PROVE  IsPrefix(<<a, b, c, d>>, seq) <=> 4 =< Len(seq) /\ seq[1] = a /\ seq[2] = b /\ seq[3] = c /\ seq[4] = d
<1>1. Len(<<a, b, c, d>>) = 4 /\ <<a, b, c, d>> \in Seq(Int)
  OBVIOUS
<1>2. SubSeq(<<a, b, c, d>>, 1, 4) = <<a, b, c, d>>
  <2>1. PICK word : word = <<a, b, c, d>>
    OBVIOUS
  <2>2. PICK part : part = SubSeq(word, 1, 4)
    OBVIOUS
  <2>3. word \in Seq(Int) /\ Len(word) = 4 /\ word[1] = a /\ word[2] = b /\ word[3] = c /\ word[4] = d
    BY <2>1
  <2>4. part \in Seq(Int) /\ Len(part) = 4 /\ part[1] = word[1] /\ part[2] = word[2] /\ part[3] = word[3] /\ part[4] = word[4]
    BY <2>2, <2>3, PartIs
  <2>5. <<a, b, c, d>> = part
    BY <2>3, <2>4
  <2> QED
    BY <2>1, <2>2, <2>5
<1>3. IsPrefix(<<a, b, c, d>>, seq) <=> 4 =< Len(seq) /\ <<a, b, c, d>> = SubSeq(seq, 1, 4)
  BY <1>1, <1>2 DEF IsPrefix
<1>4. ASSUME 4 =< Len(seq)  PROVE SubSeq(seq, 1, 4) = <<a, b, c, d>> <=> seq[1] = a /\ seq[2] = b /\ seq[3] = c /\ seq[4] = d
  <2>1. PICK part : part = SubSeq(seq, 1, 4)
    OBVIOUS
  <2>2. part \in Seq(Int) /\ Len(part) = 4 /\ part[1] = seq[1] /\ part[2] = seq[2] /\ part[3] = seq[3] /\ part[4] = seq[4]
    BY <1>4, <2>1, PartIs, SMTT(30)
  <2>3. part = <<a, b, c, d>> <=> Len(part) = 4 /\ part[1] = a /\ part[2] = b /\ part[3] = c /\ part[4] = d
    <3>1. ASSUME part = <<a, b, c, d>>  PROVE Len(part) = 4 /\ part[1] = a /\ part[2] = b /\ part[3] = c /\ part[4] = d
      BY <3>1
    <3>2. ASSUME Len(part) = 4 /\ part[1] = a /\ part[2] = b /\ part[3] = c /\ part[4] = d  PROVE <<a, b, c, d>> = part
      BY <2>2, <3>2
    <3> QED
      BY <3>1, <3>2
  <2> QED
    BY <2>1, <2>2, <2>3
<1> QED
  BY <1>3, <1>4

-----------------------------------------------------------------------------
(* Characters *)

\* Where the first two bytes of marks occur.
Cuts(bytes) == {i \in DOMAIN bytes : OccursAt(<<239, 187>>, bytes, i)}

LEMMA BytesAre ==
  ASSUME NEW bytes \in Seq(Int), NEW n \in Nat, n = Len(bytes)
  PROVE  DOMAIN bytes = 1 .. n /\ \A i \in 1 .. n : bytes[i] \in Int
OBVIOUS

MarkPlaces(bytes, n) ==
  {i \in 1 .. n : i + 2 =< n /\ bytes[i] = 239 /\ bytes[i + 1] = 187 /\ bytes[i + 2] = 191}
CutPlaces(bytes, n) == {i \in 1 .. n : i + 1 =< n /\ bytes[i] = 239 /\ bytes[i + 1] = 187}

LEMMA MarksAre ==
  ASSUME NEW bytes \in Seq(Int), NEW n \in Nat, n = Len(bytes)
  PROVE  Marks(bytes) = MarkPlaces(bytes, n)
<1>1. DOMAIN bytes = 1 .. n
  BY BytesAre
<1>2. ASSUME NEW i \in Int, i >= 1
      PROVE  OccursAt(MarkBytes, bytes, i)
               <=> i + 2 =< n /\ bytes[i] = 239 /\ bytes[i + 1] = 187 /\ bytes[i + 2] = 191
  BY <1>2, WholeMarkOccurs, SMTT(30)
<1>3. \A i \in 1 .. n : OccursAt(MarkBytes, bytes, i)
        <=> i + 2 =< n /\ bytes[i] = 239 /\ bytes[i + 1] = 187 /\ bytes[i + 2] = 191
  BY <1>2
<1>4. Marks(bytes) = {i \in 1 .. n : OccursAt(MarkBytes, bytes, i)}
  BY <1>1 DEF Marks
<1> QED
  BY <1>3, <1>4, SMTT(30) DEF MarkPlaces

LEMMA BegunAre ==
  ASSUME NEW bytes \in Seq(Int), NEW n \in Nat, n = Len(bytes)
  PROVE  Cuts(bytes) = CutPlaces(bytes, n)
<1>1. DOMAIN bytes = 1 .. n
  BY BytesAre
<1>2. ASSUME NEW i \in Int, i >= 1
      PROVE  OccursAt(<<239, 187>>, bytes, i) <=> i + 1 =< n /\ bytes[i] = 239 /\ bytes[i + 1] = 187
  BY <1>2, CutMarkOccurs
<1>3. \A i \in 1 .. n : OccursAt(<<239, 187>>, bytes, i)
        <=> i + 1 =< n /\ bytes[i] = 239 /\ bytes[i + 1] = 187
  BY <1>2
<1>4. Cuts(bytes) = {i \in 1 .. n : OccursAt(<<239, 187>>, bytes, i)}
  BY <1>1 DEF Cuts
<1> QED
  BY <1>3, <1>4 DEF CutPlaces

LEMMA MarkBegins ==
  SubSeq(MarkBytes, 1, 2) = <<239, 187>> /\ SubSeq(MarkBytes, 1, 3) = <<239, 187, 191>>
<1>1. PICK mark : mark = MarkBytes
  OBVIOUS
<1>2. mark \in Seq(Int) /\ Len(mark) = 3 /\ mark[1] = 239 /\ mark[2] = 187 /\ mark[3] = 191
  BY <1>1 DEF MarkBytes
<1>3. PICK two : two = SubSeq(mark, 1, 2)
  OBVIOUS
<1>4. PICK three : three = SubSeq(mark, 1, 3)
  OBVIOUS
<1>5. two \in Seq(Int) /\ Len(two) = 2 /\ \A k \in 1 .. 2 : two[k] = mark[k]
  BY <1>2, <1>3, PartIs
<1>6. three \in Seq(Int) /\ Len(three) = 3 /\ \A k \in 1 .. 3 : three[k] = mark[k]
  BY <1>2, <1>4, PartIs
<1>7. <<239, 187>> = two
  BY <1>2, <1>5
<1>8. <<239, 187, 191>> = three
  BY <1>2, <1>6
<1> QED
  BY <1>1, <1>3, <1>4, <1>7, <1>8

LEMMA ContinuesIs ==
  ASSUME NEW bytes \in Seq(Int), NEW i \in 1 .. Len(bytes)
  PROVE  Continues(bytes, i) <=> i - 1 \in Cuts(bytes) \/ i - 2 \in Marks(bytes)
<1>1. PICK n \in Nat : n = Len(bytes)
  OBVIOUS
<1>2. /\ bytes \in Seq(Int) /\ DOMAIN bytes = 1 .. n
      /\ Marks(bytes) = {j \in 1 .. n : j + 2 =< n /\ bytes[j] = 239 /\ bytes[j + 1] = 187
                                                   /\ bytes[j + 2] = 191}
      /\ Cuts(bytes) = {j \in 1 .. n : j + 1 =< n /\ bytes[j] = 239 /\ bytes[j + 1] = 187}
  <2>1. Marks(bytes) = MarkPlaces(bytes, n)
    BY <1>1, MarksAre
  <2>2. Cuts(bytes) = CutPlaces(bytes, n)
    BY <1>1, BegunAre
  <2> QED
    BY <1>1, BytesAre, <2>1, <2>2 DEF MarkPlaces, CutPlaces
<1>3. SubSeq(MarkBytes, 1, 2) = <<239, 187>> /\ SubSeq(MarkBytes, 1, 3) = <<239, 187, 191>>
  BY MarkBegins
<1>4. Continues(bytes, i) <=> \/ i > 1 /\ SubSeq(bytes, i - 1, i) = <<239, 187>>
                              \/ i > 2 /\ SubSeq(bytes, i - 2, i) = <<239, 187, 191>>
  <2>1. Continues(bytes, i)
          <=> \/ i > 1 /\ SubSeq(bytes, i - 1, i) = SubSeq(MarkBytes, 1, 1 + 1)
              \/ i > 2 /\ SubSeq(bytes, i - 2, i) = SubSeq(MarkBytes, 1, 2 + 1)
    BY DEF Continues
  <2>2. 1 + 1 = 2 /\ 2 + 1 = 3
    OBVIOUS
  <2> QED
    BY <1>3, <2>1, <2>2, ZenonT(30)
<1>5. ASSUME i > 1  PROVE SubSeq(bytes, i - 1, i) = <<239, 187>> <=> i - 1 \in Cuts(bytes)
  <2>1. Len(<<239, 187>>) = 2 /\ i - 1 + 2 - 1 = i /\ i - 1 \in 1 .. n
    BY <1>1, <1>5
  <2>2. OccursAt(<<239, 187>>, bytes, i - 1) <=> SubSeq(bytes, i - 1, i) = <<239, 187>>
    <3>1. PICK word : word = <<239, 187>>
      OBVIOUS
    <3>2. Len(word) = 2 /\ i - 1 + Len(word) - 1 = i /\ i =< Len(bytes)
      BY <2>1, <3>1
    <3>3. OccursAt(word, bytes, i - 1) <=> SubSeq(bytes, i - 1, i) = word
      BY <3>2 DEF OccursAt
    <3> QED
      BY <3>1, <3>3
  <2> QED
    BY <1>2, <2>1, <2>2 DEF Cuts
<1>6. ASSUME i > 2  PROVE SubSeq(bytes, i - 2, i) = <<239, 187, 191>> <=> i - 2 \in Marks(bytes)
  <2>1. Len(<<239, 187, 191>>) = 3 /\ i - 2 + 3 - 1 = i /\ i - 2 \in 1 .. n
    BY <1>1, <1>6
  <2>2. OccursAt(<<239, 187, 191>>, bytes, i - 2) <=> SubSeq(bytes, i - 2, i) = <<239, 187, 191>>
    <3>1. PICK word : word = <<239, 187, 191>>
      OBVIOUS
    <3>2. Len(word) = 3 /\ i - 2 + Len(word) - 1 = i /\ i =< Len(bytes)
      BY <2>1, <3>1
    <3>3. OccursAt(word, bytes, i - 2) <=> SubSeq(bytes, i - 2, i) = word
      BY <3>2 DEF OccursAt
    <3> QED
      BY <3>1, <3>3
  <2> QED
    BY <1>2, <2>1, <2>2 DEF Marks, MarkBytes
<1>7. (i - 1 \in Cuts(bytes) => i > 1) /\ (i - 2 \in Marks(bytes) => i > 2)
  BY <1>1, <1>2
<1> QED
  BY <1>4, <1>5, <1>6, <1>7

InOrder(S) == [i \in S |-> {j \in S : j < i}]

\* A text has the characters that begin in the bytes, in their order.
Spells(text, bytes, list) ==
  /\ Lists(list, Starts(bytes), InOrder(Starts(bytes)))
  /\ text = [k \in 1 .. Cardinality(Starts(bytes)) |-> CharacterAt(bytes, list[k])]

LEMMA StartsOrder ==
  ASSUME NEW bytes \in Seq(Int), NEW n \in Nat, n = Len(bytes)
  PROVE  Starts(bytes) \in SUBSET (1 .. n) /\ Orders(Starts(bytes), InOrder(Starts(bytes)))
<1>1. PICK S : S = Starts(bytes)
  OBVIOUS
<1>2. S \in SUBSET (1 .. n)
  BY <1>1, BytesAre DEF Starts
<1>3. Orders(S, InOrder(S))
  BY <1>2, IndicesOrder DEF InOrder
<1> QED
  BY <1>1, <1>2, <1>3

LEMMA CharacterIs ==
  ASSUME NEW bytes \in Seq(Int), NEW i \in 1 .. Len(bytes)
  PROVE  CharacterAt(bytes, i)
           = IF bytes[i] < 128 THEN bytes[i] ELSE IF i \in Marks(bytes) THEN Mark ELSE Replacement
<1>1. DOMAIN bytes = 1 .. Len(bytes)
  OBVIOUS
<1>2. OccursAt(MarkBytes, bytes, i) <=> i \in Marks(bytes)
  BY <1>1 DEF Marks
<1>3. i \in Marks(bytes) => ~(bytes[i] < 128)
  <2>1. PICK n \in Nat : n = Len(bytes)
    OBVIOUS
  <2>2. Marks(bytes) \subseteq {j \in 1 .. n : bytes[j] = 239}
    <3>1. Marks(bytes) = MarkPlaces(bytes, n)
      BY <2>1, MarksAre
    <3> QED
      BY <2>1, <3>1 DEF MarkPlaces
  <2> QED
    BY <2>2
<1> QED
  BY <1>2, <1>3 DEF CharacterAt

LEMMA CharactersAre ==
  ASSUME NEW bytes \in Seq(Int)
  PROVE  \E list : Spells(Characters(bytes), bytes, list)
<1>1. PICK n \in Nat : n = Len(bytes)
  OBVIOUS
<1>2. PICK S : S = Starts(bytes)
  OBVIOUS
<1>3. PICK Before : Before = InOrder(S)
  OBVIOUS
<1>4. S \in SUBSET (1 .. n) /\ Orders(S, Before)
  BY <1>1, <1>2, <1>3, StartsOrder
<1>5. DOMAIN bytes = 1 .. n /\ \A i \in 1 .. n : bytes[i] \in Int
  BY <1>1, BytesAre
<1>6. CASE \A i \in DOMAIN bytes : bytes[i] < 128
  <2>1. PICK list : list = [i \in 1 .. n |-> i]
    OBVIOUS
  <2>2. S = 1 .. n
    <3> SUFFICES ASSUME NEW i \in 1 .. n  PROVE ~Continues(bytes, i)
      BY <1>2, <1>4, <1>5 DEF Starts
    <3>1. i - 1 \notin Cuts(bytes) /\ i - 2 \notin Marks(bytes)
      <4>1. \A j \in 1 .. n : bytes[j] # 239
        BY <1>5, <1>6
      <4>2. Cuts(bytes) \subseteq {j \in 1 .. n : bytes[j] = 239} /\ Marks(bytes) \subseteq {j \in 1 .. n : bytes[j] = 239}
        <5>1. Marks(bytes) = MarkPlaces(bytes, n)
          BY <1>1, MarksAre
        <5>2. Cuts(bytes) = CutPlaces(bytes, n)
          BY <1>1, BegunAre
        <5> QED
          BY <1>1, <5>1, <5>2 DEF MarkPlaces, CutPlaces
      <4> QED
        BY <4>1, <4>2
    <3> QED
      BY <1>1, <3>1, ContinuesIs
  <2>3. Cardinality(S) = n
    BY <2>2, UptoIsFinite
  <2>4. Before = [i \in 1 .. n |-> {j \in 1 .. n : j < i}]
    BY <1>3, <2>2 DEF InOrder
  <2>5. Lists(list, S, Before)
    <3>1. list \in [1 .. n -> S] /\ \A x \in S : x \in 1 .. n /\ list[x] = x
      BY <2>1, <2>2
    <3>2. \A i, j \in 1 .. n : i < j <=> list[i] \in Before[list[j]]
      <4> SUFFICES ASSUME NEW i \in 1 .. n, NEW j \in 1 .. n
                   PROVE  i < j <=> list[i] \in Before[list[j]]
        OBVIOUS
      <4>1. list[i] = i /\ list[j] = j
        BY <2>1
      <4>2. Before[j] = {x \in 1 .. n : x < j}
        BY <2>4
      <4> QED
        BY <4>1, <4>2
    <3> QED
      BY <2>3, <3>1, <3>2 DEF Lists
  <2>6. bytes = [k \in 1 .. n |-> bytes[k]]
    BY <1>5
  <2>7. \A k \in 1 .. n : CharacterAt(bytes, list[k]) = bytes[k]
    BY <1>1, <1>5, <1>6, <2>1, CharacterIs
  <2>8. bytes = [k \in 1 .. n |-> CharacterAt(bytes, list[k])]
    BY <2>6, <2>7
  <2>9. Characters(bytes) = bytes
    BY <1>6 DEF Characters
  <2> QED
    BY <1>2, <1>3, <2>3, <2>5, <2>8, <2>9 DEF Spells
<1>7. CASE ~ \A i \in DOMAIN bytes : bytes[i] < 128
  <2>1. PICK list : list = AntiFunction([x \in S |-> 1 + Cardinality(Before[x])])
    OBVIOUS
  <2>2. Lists(list, S, Before)
    BY <1>4, <2>1, RanksList DEF Orders
  <2>3. Ranked(S, <) = list
    <3>1. \A x \in S : Before[x] = {j \in S : j < x}
      BY <1>3 DEF InOrder
    <3>2. [x \in S |-> 1 + Cardinality(Before[x])] = [x \in S |-> 1 + Cardinality({j \in S : j < x})]
      BY <3>1
    <3>4. list = AntiFunction([x \in S |-> 1 + Cardinality({j \in S : j < x})])
      BY <2>1, <3>2
    <3> QED
      BY <3>4 DEF Ranked
  <2>4. PICK m \in Nat : m = Cardinality(S)
    BY <1>4, FS_CardinalityType DEF Orders
  <2>5. DOMAIN list = 1 .. m /\ \A k \in 1 .. m : list[k] \in S
    BY <2>2, <2>4 DEF Lists
  <2>6. Characters(bytes) = [k \in DOMAIN Ranked(S, <) |-> CharacterAt(bytes, Ranked(S, <)[k])]
    BY <1>2, <1>7 DEF Characters
  <2>7. Characters(bytes) = [k \in 1 .. m |-> CharacterAt(bytes, list[k])]
    BY <2>3, <2>5, <2>6
  <2> QED
    BY <1>2, <1>3, <2>2, <2>4, <2>7 DEF Spells
<1> QED
  BY <1>6, <1>7

\* What a text is, by where its characters begin.
TextFrom(text, bytes, list, n, m) ==
  /\ m \in Nat /\ m = Cardinality(Starts(bytes)) /\ n = Len(bytes) /\ n \in Nat
  /\ text \in Seq(Int) /\ Len(text) = m /\ DOMAIN text = 1 .. m
  /\ \A k \in 1 .. m : list[k] \in Starts(bytes) /\ text[k] = CharacterAt(bytes, list[k])
  /\ \A i \in Starts(bytes) : i \in 1 .. n /\ \E k \in 1 .. m : list[k] = i
  /\ \A k, l \in 1 .. m : k < l <=> list[k] < list[l]

LEMMA TextIs ==
  ASSUME NEW bytes \in Seq(Int)
  PROVE  \E list : TextFrom(Characters(bytes), bytes, list, Len(bytes), Cardinality(Starts(bytes)))
<1>1. PICK n \in Nat : n = Len(bytes)
  OBVIOUS
<1>2. PICK S : S = Starts(bytes)
  OBVIOUS
<1>3. S \in SUBSET (1 .. n) /\ Orders(S, InOrder(S))
  BY <1>1, <1>2, StartsOrder
<1>4. PICK m \in Nat : m = Cardinality(S)
  BY <1>3, FS_CardinalityType DEF Orders
<1>5. PICK text : text = Characters(bytes)
  OBVIOUS
<1>6. PICK list : Spells(text, bytes, list)
  BY <1>5, CharactersAre
<1>7. /\ list \in [1 .. m -> S] /\ \A x \in S : \E k \in 1 .. m : list[k] = x
      /\ \A k, l \in 1 .. m : k < l <=> list[k] \in InOrder(S)[list[l]]
      /\ text = [k \in 1 .. m |-> CharacterAt(bytes, list[k])]
  BY <1>2, <1>4, <1>6 DEF Spells, Lists
<1>8. \A k, l \in 1 .. m : k < l <=> list[k] < list[l]
  <2> SUFFICES ASSUME NEW k \in 1 .. m, NEW l \in 1 .. m  PROVE k < l <=> list[k] < list[l]
    OBVIOUS
  <2>1. list[k] \in S /\ list[l] \in S
    BY <1>7
  <2>2. InOrder(S)[list[l]] = {j \in S : j < list[l]}
    BY <2>1 DEF InOrder
  <2> QED
    BY <1>7, <2>1, <2>2
<1>9. \A i \in 1 .. n : CharacterAt(bytes, i) \in Int
  <2> SUFFICES ASSUME NEW i \in 1 .. n  PROVE CharacterAt(bytes, i) \in Int
    OBVIOUS
  <2>1. bytes[i] \in Int
    BY <1>1, BytesAre
  <2>2. CharacterAt(bytes, i)
          = IF bytes[i] < 128 THEN bytes[i] ELSE IF i \in Marks(bytes) THEN Mark ELSE Replacement
    BY <1>1, CharacterIs
  <2> QED
    BY <2>1, <2>2 DEF Mark, Replacement
<1>10. text \in Seq(Int) /\ Len(text) = m /\ DOMAIN text = 1 .. m
  <2>1. \A k \in 1 .. m : text[k] \in Int
    BY <1>3, <1>7, <1>9
  <2> QED
    BY <1>7, <2>1
<1>11. \A k \in 1 .. m : list[k] \in S /\ text[k] = CharacterAt(bytes, list[k])
  BY <1>7
<1>12. \A i \in S : i \in 1 .. n /\ \E k \in 1 .. m : list[k] = i
  BY <1>3, <1>7
<1>13. TextFrom(text, bytes, list, n, m)
  BY <1>1, <1>2, <1>4, <1>8, <1>10, <1>11, <1>12 DEF TextFrom
<1> QED
  BY <1>1, <1>2, <1>4, <1>5, <1>13

\* Where a character of one byte is in the bytes.
LEMMA OneByte ==
  ASSUME NEW bytes \in Seq(Int), NEW i \in 1 .. Len(bytes), NEW c \in 0 .. 127
  PROVE  /\ bytes[i] = c => i \in Starts(bytes)
         /\ CharacterAt(bytes, i) = c <=> bytes[i] = c
<1>1. PICK n \in Nat : n = Len(bytes)
  OBVIOUS
<1>2. DOMAIN bytes = 1 .. n /\ \A j \in 1 .. n : bytes[j] \in Int
  BY <1>1, BytesAre
<1>3. ASSUME bytes[i] = c  PROVE i \in Starts(bytes)
  <2>1. i - 1 \in Cuts(bytes) => bytes[i - 1 + 1] = 187
    <3>1. Cuts(bytes) = CutPlaces(bytes, n)
      BY <1>1, BegunAre
    <3> QED
      BY <1>1, <3>1 DEF CutPlaces
  <2>2. i - 2 \in Marks(bytes) => bytes[i - 2 + 2] = 191
    <3>1. Marks(bytes) = MarkPlaces(bytes, n)
      BY <1>1, MarksAre
    <3> QED
      BY <1>1, <3>1 DEF MarkPlaces
  <2>3. i - 1 + 1 = i /\ i - 2 + 2 = i
    BY <1>1
  <2>4. bytes[i] # 187 /\ bytes[i] # 191
    BY <1>3
  <2>5. i - 1 \notin Cuts(bytes) /\ i - 2 \notin Marks(bytes)
    BY <2>1, <2>2, <2>3, <2>4
  <2> QED
    BY <1>1, <1>2, <2>5, ContinuesIs DEF Starts
<1>4. CharacterAt(bytes, i) = c <=> bytes[i] = c
  <2>1. CharacterAt(bytes, i)
          = IF bytes[i] < 128 THEN bytes[i] ELSE IF i \in Marks(bytes) THEN Mark ELSE Replacement
    BY CharacterIs
  <2>2. bytes[i] \in Int
    BY <1>1, <1>2
  <2> QED
    BY <2>1, <2>2 DEF Mark, Replacement
<1> QED
  BY <1>3, <1>4

Returns(seq) == {i \in DOMAIN seq : seq[i] = CR}
Pairs(seq) == {i \in DOMAIN seq : seq[i] = CR /\ i + 1 \in DOMAIN seq /\ seq[i + 1] = LF}

\* The text has the line ends of the bytes.
LEMMA SameLineEnds ==
  ASSUME NEW bytes \in Seq(Int), NEW text, NEW list, NEW n, NEW m, TextFrom(text, bytes, list, n, m)
  PROVE  /\ Cardinality(Returns(text)) = Cardinality(Returns(bytes))
         /\ Cardinality(Pairs(text)) = Cardinality(Pairs(bytes))
<1>1. /\ m \in Nat /\ n = Len(bytes) /\ n \in Nat /\ DOMAIN text = 1 .. m /\ DOMAIN bytes = 1 .. n
      /\ \A k \in 1 .. m : list[k] \in Starts(bytes) /\ text[k] = CharacterAt(bytes, list[k])
      /\ \A i \in Starts(bytes) : i \in 1 .. n /\ \E k \in 1 .. m : list[k] = i
      /\ \A k, l \in 1 .. m : k < l <=> list[k] < list[l]
  BY BytesAre DEF TextFrom
<1>2. \A k, l \in 1 .. m : list[k] = list[l] => k = l
  <2> SUFFICES ASSUME NEW k \in 1 .. m, NEW l \in 1 .. m, list[k] = list[l]  PROVE k = l
    OBVIOUS
  <2>1. list[k] \in 1 .. n /\ ~(list[k] < list[l]) /\ ~(list[l] < list[k])
    BY <1>1
  <2> QED
    BY <1>1, <2>1
<1>3. \A k \in 1 .. m : list[k] \in 1 .. n
  BY <1>1
<1>4. \A c \in {LF, CR} : \A k \in 1 .. m : text[k] = c <=> bytes[list[k]] = c
  <2> SUFFICES ASSUME NEW c \in {LF, CR}, NEW k \in 1 .. m
               PROVE  text[k] = c <=> bytes[list[k]] = c
    OBVIOUS
  <2>1. c \in 0 .. 127
    BY DEF LF, CR
  <2>2. PICK i \in 1 .. Len(bytes) : i = list[k]
    BY <1>1, <1>3
  <2>3. CharacterAt(bytes, i) = c <=> bytes[i] = c
    BY <2>1, OneByte
  <2> QED
    BY <1>1, <2>2, <2>3
<1>5. \A c \in {LF, CR} : \A i \in 1 .. n : bytes[i] = c => i \in Starts(bytes)
  <2>1. \A c \in {LF, CR} : c \in 0 .. 127
    BY DEF LF, CR
  <2> QED
    BY <1>1, <2>1, OneByte
<1>6. Corresponds(list, Returns(text), Returns(bytes))
  <2>1. \A k \in Returns(text) : list[k] \in Returns(bytes)
    BY <1>1, <1>3, <1>4 DEF Returns
  <2>2. \A i \in Returns(bytes) : \E k \in Returns(text) : list[k] = i
    BY <1>1, <1>4, <1>5 DEF Returns
  <2> QED
    BY <1>1, <1>2, <2>1, <2>2 DEF Corresponds, Returns
<1>7. Corresponds(list, Pairs(text), Pairs(bytes))
  <2>1. ASSUME NEW k \in Pairs(text)  PROVE list[k] \in Pairs(bytes)
    <3>1. k \in 1 .. m /\ k + 1 \in 1 .. m /\ text[k] = CR /\ text[k + 1] = LF /\ k < k + 1
      BY <1>1 DEF Pairs
    <3>2. PICK i \in 1 .. n : i = list[k]
      BY <1>3, <3>1
    <3>3. PICK j \in 1 .. n : j = list[k + 1]
      BY <1>3, <3>1
    <3>4. bytes[i] = CR /\ bytes[j] = LF /\ i < j
      BY <1>1, <1>4, <3>1, <3>2, <3>3
    <3>5. ASSUME i + 1 < j  PROVE FALSE
      <4>1. i + 1 \in 1 .. n
        BY <1>1, <3>5
      <4>2. i + 1 \notin Starts(bytes)
        <5>1. ASSUME NEW l \in 1 .. m, list[l] = i + 1  PROVE FALSE
          <6>1. list[k] < list[l] /\ list[l] < list[k + 1]
            BY <3>2, <3>3, <3>5, <5>1
          <6>2. k < l /\ l < k + 1
            BY <1>1, <3>1, <6>1
          <6> QED
            BY <3>1, <6>2
        <5> QED
          BY <1>1, <5>1
      <4>3. i + 1 - 1 \in Cuts(bytes) \/ i + 1 - 2 \in Marks(bytes)
        BY <1>1, <4>1, <4>2, ContinuesIs DEF Starts
      <4>4. i \in Cuts(bytes) \/ i - 1 \in Marks(bytes)
        <5>1. i + 1 - 1 = i /\ i + 1 - 2 = i - 1
          OBVIOUS
        <5> QED
          BY <4>3, <5>1
      <4>5. bytes[i] = 239 \/ bytes[i - 1 + 1] = 187
        <5>1. Marks(bytes) = MarkPlaces(bytes, n)
          BY <1>1, MarksAre
        <5>2. Cuts(bytes) = CutPlaces(bytes, n)
          BY <1>1, BegunAre
        <5> QED
          BY <1>1, <4>4, <5>1, <5>2 DEF MarkPlaces, CutPlaces
      <4>6. i - 1 + 1 = i
        OBVIOUS
      <4> QED
        BY <3>4, <4>5, <4>6 DEF CR
    <3>6. j = i + 1
      BY <3>4, <3>5
    <3> QED
      BY <1>1, <3>2, <3>4, <3>6 DEF Pairs
  <2>2. ASSUME NEW i \in Pairs(bytes)  PROVE \E k \in Pairs(text) : list[k] = i
    <3>1. i \in 1 .. n /\ i + 1 \in 1 .. n /\ bytes[i] = CR /\ bytes[i + 1] = LF
      BY <1>1 DEF Pairs
    <3>2. PICK k \in 1 .. m : list[k] = i
      BY <1>1, <1>5, <3>1
    <3>3. PICK l \in 1 .. m : list[l] = i + 1
      BY <1>1, <1>5, <3>1
    <3>4. k < l
      BY <1>1, <3>1, <3>2, <3>3
    <3>5. ASSUME k + 1 < l  PROVE FALSE
      <4>1. k + 1 \in 1 .. m /\ k < k + 1
        BY <1>1, <3>5
      <4>2. list[k] < list[k + 1] /\ list[k + 1] < list[l] /\ list[k + 1] \in 1 .. n
        BY <1>1, <1>3, <3>5, <4>1
      <4> QED
        BY <3>1, <3>2, <3>3, <4>2
    <3>6. l = k + 1
      BY <3>4, <3>5
    <3>7. text[k] = CR /\ text[k + 1] = LF
      BY <1>4, <3>1, <3>2, <3>3, <3>6
    <3> QED
      BY <1>1, <3>2, <3>3, <3>6, <3>7 DEF Pairs
  <2> QED
    BY <1>1, <1>2, <2>1, <2>2 DEF Corresponds, Pairs
<1>8. IsFiniteSet(Returns(text)) /\ IsFiniteSet(Pairs(text))
  <2>1. Returns(text) \in SUBSET (1 .. m) /\ Pairs(text) \in SUBSET (1 .. m)
    BY <1>1 DEF Returns, Pairs
  <2> QED
    BY <1>1, <2>1, UptoIsFinite, FS_Subset
<1> QED
  BY <1>6, <1>7, <1>8, SameCount

LEMMA TwoParts ==
  ASSUME NEW S, IsFiniteSet(S), NEW T, IsFiniteSet(T), S \cap T = {}
  PROVE  /\ IsFiniteSet(S \cup T)
         /\ Cardinality(S \cup T) = Cardinality(S) + Cardinality(T)
         /\ Cardinality(S) \in Nat /\ Cardinality(T) \in Nat
<1>1. Cardinality(S \cap T) = 0
  BY FS_EmptySet
<1>2. Cardinality(S) \in Nat /\ Cardinality(T) \in Nat
  BY FS_CardinalityType
<1>3. Cardinality(S \cup T) = Cardinality(S) + Cardinality(T) - Cardinality(S \cap T) /\ IsFiniteSet(S \cup T)
  BY FS_Union
<1> QED
  BY <1>1, <1>2, <1>3

\* Begun marks that do not go on.
LEMMA CutsAre ==
  ASSUME NEW bytes \in Seq(Int)
  PROVE  {i \in Invalids(bytes) : OccursAt(SubSeq(MarkBytes, 1, 2), bytes, i)} = Cuts(bytes) \ Marks(bytes)
<1>1. PICK n \in Nat : n = Len(bytes)
  OBVIOUS
<1>2. DOMAIN bytes = 1 .. n
  BY <1>1, BytesAre
<1>3. Cuts(bytes) = {i \in 1 .. n : i + 1 =< n /\ bytes[i] = 239 /\ bytes[i + 1] = 187}
  <2>1. Cuts(bytes) = CutPlaces(bytes, n)
    BY <1>1, BegunAre
  <2> QED
    BY <1>1, <2>1 DEF CutPlaces
<1>4. {i \in Invalids(bytes) : OccursAt(SubSeq(MarkBytes, 1, 2), bytes, i)} = {i \in Invalids(bytes) : i \in Cuts(bytes)}
  BY <1>2, MarkBegins DEF Cuts, Invalids
<1>5. ASSUME NEW i \in Cuts(bytes)  PROVE i \in Invalids(bytes) <=> i \notin Marks(bytes)
  <2>1. i \in 1 .. n /\ bytes[i] = 239
    BY <1>3
  <2>2. ASSUME NEW j \in Marks(bytes), j \in i - 2 .. i  PROVE j = i
    <3>0. Marks(bytes) = {k \in 1 .. n : k + 2 =< n /\ bytes[k] = 239 /\ bytes[k + 1] = 187
                                                   /\ bytes[k + 2] = 191}
      <4>1. Marks(bytes) = MarkPlaces(bytes, n)
        BY <1>1, MarksAre
      <4> QED
        BY <1>1, <4>1 DEF MarkPlaces
    <3>1. bytes[j + 1] = 187 /\ bytes[j + 2] = 191 /\ j \in 1 .. n
      BY <3>0
    <3>2. j + 1 # i /\ j + 2 # i
      BY <2>1, <3>1
    <3> QED
      BY <2>1, <2>2, <3>1, <3>2
  <2>3. i \in i - 2 .. i
    BY <2>1
  <2>4. Marks(bytes) \cap (i - 2 .. i) = {} <=> i \notin Marks(bytes)
    BY <2>2, <2>3
  <2> QED
    BY <1>2, <2>1, <2>4 DEF Invalids
<1> QED
  BY <1>4, <1>5

\* A mark is one character, and so are two bytes of one that is cut.
LEMMA CharactersCount ==
  ASSUME NEW bytes \in Seq(Int)
  PROVE  Cardinality(Starts(bytes))
           = Len(bytes) - 2 * Cardinality(Marks(bytes)) - Cardinality(Cuts(bytes) \ Marks(bytes))
<1>1. PICK n \in Nat : n = Len(bytes)
  OBVIOUS
<1>2. Cuts(bytes) = {i \in 1 .. n : i + 1 =< n /\ bytes[i] = 239 /\ bytes[i + 1] = 187}
  <2>1. Cuts(bytes) = CutPlaces(bytes, n)
    BY <1>1, BegunAre
  <2> QED
    BY <1>1, <2>1 DEF CutPlaces
<1>3. Marks(bytes) = {i \in 1 .. n : i + 2 =< n /\ bytes[i] = 239 /\ bytes[i + 1] = 187 /\ bytes[i + 2] = 191}
  <2>1. Marks(bytes) = MarkPlaces(bytes, n)
    BY <1>1, MarksAre
  <2> QED
    BY <1>1, <2>1 DEF MarkPlaces
<1>4. PICK S : S = Starts(bytes)
  OBVIOUS
<1>5. PICK C : C = Cuts(bytes)
  OBVIOUS
<1>6. PICK M : M = Marks(bytes)
  OBVIOUS
<1>7. M \subseteq C /\ C \subseteq 1 .. n
  BY <1>2, <1>3, <1>5, <1>6
<1>8. /\ \A i \in C : i + 1 =< n /\ bytes[i + 1] = 187
      /\ \A i \in M : i + 2 =< n /\ bytes[i + 2] = 191
  BY <1>2, <1>3, <1>5, <1>6
<1>9. S = {i \in 1 .. n : i - 1 \notin C /\ i - 2 \notin M}
  <2>1. DOMAIN bytes = 1 .. n
    BY <1>1, BytesAre
  <2>2. \A i \in 1 .. n : Continues(bytes, i) <=> i - 1 \in C \/ i - 2 \in M
    BY <1>1, <1>5, <1>6, ContinuesIs
  <2> QED
    BY <1>4, <2>1, <2>2 DEF Starts
<1>10. PICK D : D = {i + 1 : i \in C}
  OBVIOUS
<1>11. PICK E : E = {i + 2 : i \in M}
  OBVIOUS
<1>12. IsFiniteSet(1 .. n) /\ Cardinality(1 .. n) = n
  BY UptoIsFinite
<1>13. IsFiniteSet(C) /\ IsFiniteSet(M) /\ IsFiniteSet(C \ M) /\ IsFiniteSet(S)
  BY <1>7, <1>9, <1>12, FS_Subset
<1>14. IsFiniteSet(D) /\ Cardinality(D) = Cardinality(C)
  <2>1. PICK f : f = [i \in C |-> i + 1]
    OBVIOUS
  <2>2. \A i \in C : f[i] = i + 1 /\ i \in Int
    BY <1>7, <2>1
  <2>3. Corresponds(f, C, D)
    BY <1>10, <2>2 DEF Corresponds
  <2> QED
    BY <1>13, <2>3, SameCount
<1>15. IsFiniteSet(E) /\ Cardinality(E) = Cardinality(M)
  <2>1. PICK f : f = [i \in M |-> i + 2]
    OBVIOUS
  <2>2. \A i \in M : f[i] = i + 2 /\ i \in Int
    BY <1>7, <2>1
  <2>3. Corresponds(f, M, E)
    BY <1>11, <2>2 DEF Corresponds
  <2> QED
    BY <1>13, <2>3, SameCount
<1>16. D \cap E = {}
  <2>1. \A x \in D : bytes[x] = 187
    BY <1>8, <1>10
  <2>2. \A x \in E : bytes[x] = 191
    BY <1>8, <1>11
  <2> QED
    BY <2>1, <2>2
<1>17. S \cap (D \cup E) = {} /\ S \cup (D \cup E) = 1 .. n
  <2>1. ASSUME NEW i \in S  PROVE i \notin D /\ i \notin E
    <3>1. i \in 1 .. n /\ i - 1 \notin C /\ i - 2 \notin M
      BY <1>9
    <3>2. ASSUME NEW c \in C, i = c + 1  PROVE FALSE
      <4>1. c \in Int /\ i - 1 = c
        BY <1>7, <3>2
      <4> QED
        BY <3>1, <4>1
    <3>3. ASSUME NEW c \in M, i = c + 2  PROVE FALSE
      <4>1. c \in Int /\ i - 2 = c
        BY <1>7, <3>3
      <4> QED
        BY <3>1, <4>1
    <3> QED
      BY <1>10, <1>11, <3>2, <3>3
  <2>2. ASSUME NEW i \in 1 .. n, i \notin S  PROVE i \in D \cup E
    <3>1. i - 1 \in C \/ i - 2 \in M
      BY <1>9, <2>2
    <3>2. i = (i - 1) + 1 /\ i = (i - 2) + 2
      OBVIOUS
    <3>3. i - 1 \in C => i \in D
      BY <1>10, <3>2
    <3>4. i - 2 \in M => i \in E
      BY <1>11, <3>2
    <3> QED
      BY <3>1, <3>3, <3>4
  <2>3. D \subseteq 1 .. n
    <3> SUFFICES ASSUME NEW c \in C  PROVE c + 1 \in 1 .. n
      BY <1>10
    <3> QED
      BY <1>7, <1>8
  <2>4. E \subseteq 1 .. n
    <3> SUFFICES ASSUME NEW c \in M  PROVE c + 2 \in 1 .. n
      BY <1>11
    <3> QED
      BY <1>7, <1>8
  <2>5. S \subseteq 1 .. n
    BY <1>9
  <2> QED
    BY <2>1, <2>2, <2>3, <2>4, <2>5
<1>18. /\ IsFiniteSet(D \cup E) /\ Cardinality(D \cup E) = Cardinality(D) + Cardinality(E)
       /\ Cardinality(D) \in Nat /\ Cardinality(E) \in Nat
  BY <1>14, <1>15, <1>16, TwoParts
<1>19. n = Cardinality(S) + Cardinality(D \cup E) /\ Cardinality(S) \in Nat
  BY <1>12, <1>13, <1>17, <1>18, TwoParts
<1>20. Cardinality(C) = Cardinality(M) + Cardinality(C \ M) /\ Cardinality(C \ M) \in Nat
  <2>1. M \cap (C \ M) = {} /\ M \cup (C \ M) = C
    BY <1>7
  <2> QED
    BY <1>13, <2>1, TwoParts
<1>21. ASSUME NEW s \in Nat, NEW d \in Nat, NEW e \in Nat, NEW k \in Nat, n = s + (d + e), d = e + k
       PROVE  s = n - 2 * e - k
  BY <1>21
<1>22. Cardinality(S) = n - 2 * Cardinality(M) - Cardinality(C \ M)
  <2>1. n = Cardinality(S) + (Cardinality(D) + Cardinality(E)) /\ Cardinality(D) = Cardinality(E) + Cardinality(C \ M)
    BY <1>14, <1>15, <1>18, <1>19, <1>20
  <2>2. Cardinality(S) = n - 2 * Cardinality(E) - Cardinality(C \ M)
    BY <1>18, <1>19, <1>20, <1>21, <2>1, SMTT(30)
  <2> QED
    BY <1>15, <2>2
<1> QED
  BY <1>1, <1>4, <1>5, <1>6, <1>22

\* A text begins with a mark if its bytes do.
LEMMA LeadingMark ==
  ASSUME NEW bytes \in Seq(Int), NEW text, NEW list, NEW n, NEW m, TextFrom(text, bytes, list, n, m)
  PROVE  (m >= 1 /\ text[1] = Mark) <=> 1 \in Marks(bytes)
<1>1. /\ m \in Nat /\ n = Len(bytes) /\ n \in Nat
      /\ \A k \in 1 .. m : list[k] \in Starts(bytes) /\ text[k] = CharacterAt(bytes, list[k])
      /\ \A i \in Starts(bytes) : i \in 1 .. n /\ \E k \in 1 .. m : list[k] = i
      /\ \A k, l \in 1 .. m : k < l <=> list[k] < list[l]
  BY DEF TextFrom
<1>2. CASE n = 0
  <2>1. m = 0
    <3>1. m >= 1 => list[1] \in 1 .. n
      BY <1>1
    <3> QED
      BY <1>1, <1>2, <3>1
  <2>2. Marks(bytes) \subseteq 1 .. n
    <3>1. Marks(bytes) = MarkPlaces(bytes, n)
      BY <1>1, MarksAre
    <3> QED
      BY <1>1, <3>1 DEF MarkPlaces
  <2> QED
    BY <1>2, <2>1, <2>2
<1>3. CASE n # 0
  <2>1. 1 \in 1 .. n
    BY <1>1, <1>3
  <2>2. 1 \in Starts(bytes)
    <3>1. Cuts(bytes) \subseteq 1 .. n /\ Marks(bytes) \subseteq 1 .. n
      <4>1. Marks(bytes) = MarkPlaces(bytes, n)
        BY <1>1, MarksAre
      <4>2. Cuts(bytes) = CutPlaces(bytes, n)
        BY <1>1, BegunAre
      <4> QED
        BY <1>1, <4>1, <4>2 DEF MarkPlaces, CutPlaces
    <3>2. 1 - 1 \notin Cuts(bytes) /\ 1 - 2 \notin Marks(bytes)
      BY <3>1
    <3>3. DOMAIN bytes = 1 .. n
      BY <1>1, BytesAre
    <3> QED
      BY <1>1, <2>1, <3>2, <3>3, ContinuesIs DEF Starts
  <2>3. PICK k \in 1 .. m : list[k] = 1
    BY <1>1, <2>2
  <2>4. k = 1
    <3>1. 1 \in 1 .. m /\ list[1] \in 1 .. n
      BY <1>1
    <3>2. ~(list[1] < list[k])
      BY <2>3, <3>1
    <3>3. ~(1 < k)
      BY <1>1, <3>1, <3>2
    <3> QED
      BY <1>1, <3>3
  <2>5. m >= 1 /\ text[1] = CharacterAt(bytes, 1)
    BY <1>1, <2>3, <2>4
  <2>6. CharacterAt(bytes, 1)
          = IF bytes[1] < 128 THEN bytes[1] ELSE IF 1 \in Marks(bytes) THEN Mark ELSE Replacement
    BY <1>1, <2>1, CharacterIs
  <2>7. 1 \in Marks(bytes) => bytes[1] = 239
    <3>1. Marks(bytes) \subseteq {i \in 1 .. n : bytes[i] = 239}
      <4>1. Marks(bytes) = MarkPlaces(bytes, n)
        BY <1>1, MarksAre
      <4> QED
        BY <1>1, <4>1 DEF MarkPlaces
    <3> QED
      BY <3>1
  <2>8. PICK b \in Int : b = bytes[1]
    BY <1>1, <2>1, BytesAre
  <2>9. CharacterAt(bytes, 1) = Mark <=> 1 \in Marks(bytes)
    BY <2>6, <2>7, <2>8 DEF Mark, Replacement
  <2> QED
    BY <2>5, <2>9
<1> QED
  BY <1>2, <1>3

\* A text has a replacement if a byte is no part of UTF-8 text.
LEMMA Replaces ==
  ASSUME NEW bytes \in Seq(Int), NEW text, NEW list, NEW n, NEW m, TextFrom(text, bytes, list, n, m)
  PROVE  Replacement \in ToSet(text) <=> Invalids(bytes) # {}
<1>1. /\ m \in Nat /\ n = Len(bytes) /\ n \in Nat /\ DOMAIN text = 1 .. m
      /\ \A k \in 1 .. m : list[k] \in Starts(bytes) /\ text[k] = CharacterAt(bytes, list[k])
      /\ \A i \in Starts(bytes) : i \in 1 .. n /\ \E k \in 1 .. m : list[k] = i
  BY DEF TextFrom
<1>2. \A i \in 1 .. n : CharacterAt(bytes, i) = Replacement <=> ~(bytes[i] < 128) /\ i \notin Marks(bytes)
  <2> SUFFICES ASSUME NEW i \in 1 .. n
               PROVE  CharacterAt(bytes, i) = Replacement <=> ~(bytes[i] < 128) /\ i \notin Marks(bytes)
    OBVIOUS
  <2>1. CharacterAt(bytes, i)
          = IF bytes[i] < 128 THEN bytes[i] ELSE IF i \in Marks(bytes) THEN Mark ELSE Replacement
    BY <1>1, CharacterIs
  <2>2. PICK b \in Int : b = bytes[i]
    BY <1>1, BytesAre
  <2> QED
    BY <2>1, <2>2 DEF Mark, Replacement
<1>3. Replacement \in ToSet(text) <=> \E i \in Starts(bytes) : CharacterAt(bytes, i) = Replacement
  <2>1. Replacement \in ToSet(text) <=> \E k \in 1 .. m : text[k] = Replacement
    BY <1>1 DEF ToSet
  <2> QED
    BY <1>1, <2>1
<1>4. \A i \in 1 .. n : i \in Starts(bytes) <=> i - 1 \notin Cuts(bytes) /\ i - 2 \notin Marks(bytes)
  <2>1. DOMAIN bytes = 1 .. n
    BY <1>1, BytesAre
  <2> QED
    BY <1>1, <2>1, ContinuesIs DEF Starts
<1>5. DOMAIN bytes = 1 .. n /\ \A i \in 1 .. n : bytes[i] \in Int
  <2>1. DOMAIN bytes = 1 .. n
    BY <1>1, BytesAre
  <2>2. \A i \in 1 .. n : bytes[i] \in Int
    BY <1>1, BytesAre
  <2> QED
    BY <2>1, <2>2
<1>6. Marks(bytes) = {i \in 1 .. n : i + 2 =< n /\ bytes[i] = 239 /\ bytes[i + 1] = 187 /\ bytes[i + 2] = 191}
  <2>1. Marks(bytes) = MarkPlaces(bytes, n)
    BY <1>1, MarksAre
  <2> QED
    BY <1>1, <2>1 DEF MarkPlaces
<1>7. Cuts(bytes) = {i \in 1 .. n : i + 1 =< n /\ bytes[i] = 239 /\ bytes[i + 1] = 187}
  <2>1. Cuts(bytes) = CutPlaces(bytes, n)
    BY <1>1, BegunAre
  <2> QED
    BY <1>1, <2>1 DEF CutPlaces
<1>8. ASSUME NEW i \in 1 .. n
      PROVE  i \in Invalids(bytes)
               <=> ~(bytes[i] < 128) /\ i \notin Marks(bytes) /\ i - 1 \notin Marks(bytes) /\ i - 2 \notin Marks(bytes)
  <2>1. PICK b \in Int : b = bytes[i]
    BY <1>5
  <2>2. bytes[i] > 127 <=> ~(bytes[i] < 128)
    BY <2>1
  <2>3. i - 2 .. i = {i, i - 1, i - 2}
    BY <1>8
  <2>4. i \in Invalids(bytes) <=> bytes[i] > 127 /\ Marks(bytes) \cap (i - 2 .. i) = {}
    BY <1>5 DEF Invalids
  <2>5. Marks(bytes) \cap {i, i - 1, i - 2} = {}
          <=> i \notin Marks(bytes) /\ i - 1 \notin Marks(bytes) /\ i - 2 \notin Marks(bytes)
    OBVIOUS
  <2>6. i \in Invalids(bytes) <=> bytes[i] > 127 /\ Marks(bytes) \cap {i, i - 1, i - 2} = {}
    BY <2>3, <2>4
  <2>7. bytes[i] > 127 /\ Marks(bytes) \cap {i, i - 1, i - 2} = {}
          <=> ~(bytes[i] < 128) /\ (i \notin Marks(bytes) /\ i - 1 \notin Marks(bytes) /\ i - 2 \notin Marks(bytes))
    <3> HIDE <2>3
    <3>1. PICK none \in BOOLEAN : none <=> Marks(bytes) \cap {i, i - 1, i - 2} = {}
      OBVIOUS
    <3>2. none <=> i \notin Marks(bytes) /\ i - 1 \notin Marks(bytes) /\ i - 2 \notin Marks(bytes)
      BY <2>5, <3>1
    <3> QED
      BY ONLY <2>1, <2>2, <3>1, <3>2
  <2> QED
    BY ONLY <2>6, <2>7, Zenon
<1>9. ASSUME NEW i \in Starts(bytes), CharacterAt(bytes, i) = Replacement  PROVE i \in Invalids(bytes)
  <2>1. i \in 1 .. n
    BY <1>1
  <2>2. Marks(bytes) \subseteq Cuts(bytes)
    BY <1>1, <1>6, <1>7, SMTT(30)
  <2>3. ~(bytes[i] < 128) /\ i \notin Marks(bytes)
    BY <1>2, <1>9, <2>1
  <2>4. i - 1 \notin Cuts(bytes) /\ i - 2 \notin Marks(bytes)
    BY <1>4, <2>1, Zenon
  <2>5. i - 1 \notin Marks(bytes)
    BY <2>2, <2>4, Zenon
  <2> QED
    BY <1>8, <2>1, <2>3, <2>4, <2>5, Zenon
<1>10. ASSUME NEW i \in Invalids(bytes)  PROVE \E j \in Starts(bytes) : CharacterAt(bytes, j) = Replacement
  <2>1. i \in 1 .. n
    BY <1>5 DEF Invalids
  <2>2. CASE i \in Starts(bytes)
    BY <1>2, <1>8, <2>1, <2>2
  <2>3. CASE i \notin Starts(bytes)
    <3>1. PICK j \in Int : j = i - 1
      BY <2>1
    <3>2. j \in Cuts(bytes) /\ j \notin Marks(bytes)
      BY <1>4, <1>8, <2>1, <2>3, <3>1
    <3>3. j \in 1 .. n /\ bytes[j] = 239
      BY <1>7, <3>2
    <3>4. j - 1 \in Cuts(bytes) => bytes[j - 1 + 1] = 187
      BY <1>7
    <3>5. j - 2 \in Marks(bytes) => bytes[j - 2 + 2] = 191
      BY <1>6
    <3>6. j - 1 + 1 = j /\ j - 2 + 2 = j
      BY <3>1
    <3>7. j \in Starts(bytes)
      BY <1>4, <3>3, <3>4, <3>5, <3>6
    <3> QED
      BY <1>2, <3>2, <3>3, <3>7
  <2> QED
    BY <2>2, <2>3
<1> QED
  BY <1>3, <1>9, <1>10


-----------------------------------------------------------------------------
(* The text policy *)

\* What holds of n, and of a number whenever of the next, holds of all up to n.
LEMMA Downward ==
  ASSUME NEW n \in Nat, NEW Good, n \in Good,
         \A k \in 1 .. n : k < n /\ k + 1 \in Good => k \in Good
  PROVE  \A k \in 1 .. n : k \in Good
<1> DEFINE Bad == {d \in Nat : n - d \in 1 .. n /\ n - d \notin Good}
<1> SUFFICES ASSUME NEW k \in 1 .. n, k \notin Good  PROVE FALSE
  OBVIOUS
<1>1. n - k \in Bad
  <2>1. n - k \in Nat /\ n - (n - k) = k
    OBVIOUS
  <2> QED
    BY <2>1
<1>2. PICK d \in Bad : \A e \in Bad : d =< e
  <2>1. Bad \in SUBSET Nat /\ Bad # {}
    BY <1>1
  <2> HIDE DEF Bad
  <2> QED
    BY <2>1, LeastNatural
<1>3. d # 0
  BY <1>2
<1>4. d - 1 \in Nat /\ n - (d - 1) \in 1 .. n /\ n - (d - 1) = (n - d) + 1 /\ n - d < n
  BY <1>2, <1>3
<1>5. n - (d - 1) \in Good
  <2>1. d - 1 \notin Bad
    BY <1>2, <1>4
  <2> QED
    BY <1>4, <2>1
<1> QED
  BY <1>2, <1>4, <1>5

\* What normalize makes of w from a place on, if f is what it makes from later ones.
Onward(f, w, end, i) ==
  IF i > end THEN <<>>
  ELSE IF w[i] # CR THEN <<w[i]>> \o f[i + 1]
  ELSE IF i < end /\ w[i + 1] = LF THEN <<LF>> \o f[i + 2]
  ELSE <<LF>> \o f[i + 1]

Unrolls(f, w, end) == f = [i \in 1 .. end + 2 |-> Onward(f, w, end, i)]

LEMMA UnrollsExists ==
  ASSUME NEW w, NEW end \in Nat
  PROVE  \E f : Unrolls(f, w, end)
<1> DEFINE Until(f, k) == /\ f = [i \in 1 .. end + 2 |-> f[i]]
                          /\ \A i \in k .. end + 2 : f[i] = Onward(f, w, end, i)
           Good == {k \in 1 .. end + 2 : \E f : Until(f, k)}
<1>1. end + 2 \in Good
  <2>1. PICK f : f = [i \in 1 .. end + 2 |-> <<>>]
    OBVIOUS
  <2>2. f = [i \in 1 .. end + 2 |-> f[i]]
    BY <2>1
  <2>3. ASSUME NEW i \in (end + 2) .. (end + 2)  PROVE f[i] = Onward(f, w, end, i)
    <3>1. i > end /\ i \in 1 .. end + 2
      OBVIOUS
    <3> QED
      BY <2>1, <3>1 DEF Onward
  <2> QED
    BY <2>2, <2>3
<1>2. ASSUME NEW k \in 1 .. end + 2, k < end + 2, k + 1 \in Good  PROVE k \in Good
  <2>1. PICK f : Until(f, k + 1)
    BY <1>2
  <2>2. PICK g : g = [i \in 1 .. end + 2 |-> IF i = k THEN Onward(f, w, end, k) ELSE f[i]]
    OBVIOUS
  <2>3. g = [i \in 1 .. end + 2 |-> g[i]]
    BY <2>2
  <2>4. \A i \in 1 .. end + 2 : i # k => g[i] = f[i]
    BY <2>2
  <2>5. ASSUME NEW i \in k .. end + 2  PROVE Onward(f, w, end, i) = Onward(g, w, end, i)
    <3>1. CASE i > end
      BY <3>1 DEF Onward
    <3>2. CASE ~(i > end)
      <4>1. i + 1 \in 1 .. end + 2 /\ i + 2 \in 1 .. end + 2 /\ i + 1 # k /\ i + 2 # k
        BY <3>2
      <4>2. f[i + 1] = g[i + 1] /\ f[i + 2] = g[i + 2]
        BY <2>4, <4>1
      <4> QED
        BY <4>2 DEF Onward
    <3> QED
      BY <3>1, <3>2
  <2>6. ASSUME NEW i \in k .. end + 2  PROVE g[i] = Onward(g, w, end, i)
    <3>1. g[i] = Onward(f, w, end, i)
      <4>1. CASE i = k
        BY <2>2, <4>1
      <4>2. CASE i # k
        <5>1. i \in k + 1 .. end + 2 /\ i \in 1 .. end + 2
          BY <4>2
        <5> QED
          BY <2>1, <2>4, <4>2, <5>1
      <4> QED
        BY <4>1, <4>2
    <3> QED
      BY <2>5, <3>1
  <2> QED
    BY <2>3, <2>6
<1>3. 1 \in Good
  <2> HIDE DEF Good
  <2>1. end + 2 \in Nat /\ 1 \in 1 .. end + 2
    OBVIOUS
  <2> QED
    BY <1>1, <1>2, <2>1, Downward
<1>4. PICK f : Until(f, 1)
  BY <1>3
<1>5. Unrolls(f, w, end)
  <2>1. \A i \in 1 .. end + 2 : f[i] = Onward(f, w, end, i)
    BY <1>4
  <2>2. f = [i \in 1 .. end + 2 |-> f[i]]
    BY <1>4
  <2> QED
    BY <2>1, <2>2 DEF Unrolls
<1> QED
  BY <1>5

\* The pairs from a place on.
PairsFrom(w, i) == {j \in Pairs(w) : j >= i}

LEMMA PairsFromNext ==
  ASSUME NEW w \in Seq(Int), NEW end \in Nat, end = Len(w), NEW i \in 1 .. end
  PROVE  /\ Cardinality(PairsFrom(w, i)) \in Nat /\ Cardinality(PairsFrom(w, i + 1)) \in Nat
         /\ i \notin Pairs(w) => PairsFrom(w, i) = PairsFrom(w, i + 1)
         /\ i \in Pairs(w) => /\ Cardinality(PairsFrom(w, i)) = Cardinality(PairsFrom(w, i + 1)) + 1
                              /\ PairsFrom(w, i + 1) = PairsFrom(w, i + 2)
<1>1. DOMAIN w = 1 .. end
  BY BytesAre
<1>2. Pairs(w) \in SUBSET (1 .. end)
  BY <1>1 DEF Pairs
<1>3. IsFiniteSet(PairsFrom(w, i)) /\ IsFiniteSet(PairsFrom(w, i + 1))
  BY <1>2, UptoIsFinite, FS_Subset DEF PairsFrom
<1>4. ASSUME i \notin Pairs(w)  PROVE PairsFrom(w, i) = PairsFrom(w, i + 1)
  BY <1>2, <1>4 DEF PairsFrom
<1>5. ASSUME i \in Pairs(w)
      PROVE  /\ Cardinality(PairsFrom(w, i)) = Cardinality(PairsFrom(w, i + 1)) + 1
             /\ PairsFrom(w, i + 1) = PairsFrom(w, i + 2)
  <2>1. i \in PairsFrom(w, i) /\ PairsFrom(w, i) \ {i} = PairsFrom(w, i + 1)
    BY <1>2, <1>5 DEF PairsFrom
  <2>2. Cardinality(PairsFrom(w, i + 1)) = Cardinality(PairsFrom(w, i)) - 1
    BY <1>3, <2>1, FS_RemoveElement
  <2>3. i + 1 \notin Pairs(w)
    BY <1>5 DEF Pairs, CR, LF
  <2>4. PairsFrom(w, i + 1) = PairsFrom(w, i + 2)
    BY <1>2, <2>3 DEF PairsFrom
  <2> QED
    BY <1>3, <2>2, <2>4, FS_CardinalityType
<1> QED
  BY <1>3, <1>4, <1>5, FS_CardinalityType

\* What is made from a place on has no carriage return, and a pair is one character.
Shorter(f, w, end, i) ==
  /\ f[i] \in Seq(Int) /\ Len(f[i]) = end + 1 - i - Cardinality(PairsFrom(w, i))
  /\ \A k \in 1 .. Len(f[i]) : f[i][k] # CR

LEMMA Prepends ==
  ASSUME NEW rest \in Seq(Int), \A k \in 1 .. Len(rest) : rest[k] # CR, NEW c \in Int, c # CR
  PROVE  /\ <<c>> \o rest \in Seq(Int) /\ Len(<<c>> \o rest) = Len(rest) + 1
         /\ \A k \in 1 .. Len(<<c>> \o rest) : (<<c>> \o rest)[k] # CR
<1>1. PICK word : word = <<c>>
  OBVIOUS
<1>2. word \in Seq(Int) /\ Len(word) = 1 /\ word[1] = c
  BY <1>1
<1>3. /\ word \o rest \in Seq(Int) /\ Len(word \o rest) = Len(rest) + 1
      /\ \A k \in 1 .. Len(rest) + 1 : (word \o rest)[k] = IF k =< 1 THEN word[k] ELSE rest[k - 1]
  <2>1. /\ word \o rest \in Seq(Int) /\ Len(word \o rest) = Len(word) + Len(rest)
        /\ \A k \in 1 .. Len(word) + Len(rest) :
             (word \o rest)[k] = IF k =< Len(word) THEN word[k] ELSE rest[k - Len(word)]
    BY <1>2, ConcatProperties, Zenon
  <2>2. PICK m \in Nat : m = Len(rest)
    OBVIOUS
  <2>3. 1 + m = m + 1
    OBVIOUS
  <2> QED
    BY <1>2, <2>1, <2>2, <2>3
<1>4. ASSUME NEW k \in 1 .. Len(word \o rest)  PROVE (word \o rest)[k] # CR
  <2>1. CASE k = 1
    BY <1>2, <2>1
  <2>2. CASE k # 1
    <3>1. k - 1 \in 1 .. Len(rest)
      BY <1>3, <2>2
    <3>2. (word \o rest)[k] = rest[k - 1]
      BY <1>2, <1>3, <2>2
    <3> QED
      BY <3>1, <3>2
  <2> QED
    BY <2>1, <2>2
<1> QED
  BY <1>1, <1>3, <1>4

LEMMA UnrolledAre ==
  ASSUME NEW w \in Seq(Int), NEW end \in Nat, end = Len(w), NEW f, Unrolls(f, w, end)
  PROVE  \A i \in 1 .. end + 2 : i =< end + 1 => Shorter(f, w, end, i)
<1> DEFINE Good == {k \in 1 .. end + 1 : \A i \in k .. end + 1 : Shorter(f, w, end, i)}
<1>0. \A i \in 1 .. end + 2 : f[i] = Onward(f, w, end, i)
  BY DEF Unrolls
<1>1. DOMAIN w = 1 .. end /\ \A i \in 1 .. end : w[i] \in Int
  BY BytesAre
<1>2. Shorter(f, w, end, end + 1)
  <2>1. end + 1 \in 1 .. end + 2 /\ end + 1 > end
    OBVIOUS
  <2>2. f[end + 1] = <<>>
    BY <1>0, <2>1 DEF Onward
  <2>3. PairsFrom(w, end + 1) = {}
    BY <1>1 DEF PairsFrom, Pairs
  <2>4. Cardinality(PairsFrom(w, end + 1)) = 0
    BY <2>3, FS_EmptySet
  <2> QED
    BY <2>2, <2>4 DEF Shorter
<1>3. ASSUME NEW k \in 1 .. end, Shorter(f, w, end, k + 1),
             k + 2 =< end + 1 => Shorter(f, w, end, k + 2)
      PROVE  Shorter(f, w, end, k)
  <2>1. f[k] = Onward(f, w, end, k)
    BY <1>0
  <2>2. PICK p \in Nat : p = Cardinality(PairsFrom(w, k))
    BY PairsFromNext
  <2>3. PICK q \in Nat : q = Cardinality(PairsFrom(w, k + 1))
    BY PairsFromNext
  <2>4. k \in Pairs(w) <=> w[k] = CR /\ k < end /\ w[k + 1] = LF
    BY <1>1 DEF Pairs
  <2>5. PICK later : later = f[k + 1]
    OBVIOUS
  <2>6. later \in Seq(Int) /\ Len(later) = end - k - q /\ \A j \in 1 .. Len(later) : later[j] # CR
    BY <1>3, <2>3, <2>5, SMTT(30) DEF Shorter
  <2>7. CASE k \in Pairs(w)
    <3>1. k + 2 =< end + 1 /\ PairsFrom(w, k + 1) = PairsFrom(w, k + 2) /\ p = q + 1
      BY <2>2, <2>3, <2>4, <2>7, PairsFromNext
    <3>2. PICK rest : rest = f[k + 2]
      OBVIOUS
    <3>3. rest \in Seq(Int) /\ Len(rest) = end - 1 - k - q /\ \A j \in 1 .. Len(rest) : rest[j] # CR
      <4>1. Shorter(f, w, end, k + 2) /\ Cardinality(PairsFrom(w, k + 2)) = q
        BY <1>3, <2>3, <3>1
      <4>2. /\ f[k + 2] \in Seq(Int) /\ Len(f[k + 2]) = end + 1 - (k + 2) - q
            /\ \A j \in 1 .. Len(f[k + 2]) : f[k + 2][j] # CR
        BY <4>1 DEF Shorter
      <4>3. end + 1 - (k + 2) - q = end - 1 - k - q
        OBVIOUS
      <4> QED
        BY <3>2, <4>2, <4>3
    <3>4. f[k] = <<LF>> \o rest
      BY <2>1, <2>4, <2>7, <3>2, SMTT(30) DEF Onward
    <3>5. LF \in Int /\ LF # CR
      BY DEF LF, CR
    <3>6. f[k] \in Seq(Int) /\ Len(f[k]) = Len(rest) + 1 /\ \A j \in 1 .. Len(f[k]) : f[k][j] # CR
      BY <3>3, <3>4, <3>5, Prepends
    <3>7. Len(f[k]) = end + 1 - k - p
      <4>1. Len(rest) = end - 1 - k - q
        BY <3>3
      <4>2. Len(f[k]) = Len(rest) + 1
        BY <3>6
      <4>3. p = q + 1
        BY <3>1
      <4> QED
        BY <4>1, <4>2, <4>3
    <3> QED
      BY <2>2, <3>6, <3>7 DEF Shorter
  <2>8. CASE k \notin Pairs(w)
    <3>1. p = q
      BY <2>2, <2>3, <2>8, PairsFromNext
    <3>2. PICK c \in Int : c # CR /\ f[k] = <<c>> \o later
      <4>1. CASE w[k] # CR
        BY <1>1, <2>1, <2>5, <4>1, SMTT(30) DEF Onward
      <4>2. CASE w[k] = CR
        <5>1. f[k] = <<LF>> \o later
          BY <2>1, <2>4, <2>5, <2>8, <4>2 DEF Onward
        <5>2. LF \in Int /\ LF # CR
          BY DEF LF, CR
        <5> QED
          BY <5>1, <5>2
      <4> QED
        BY <4>1, <4>2
    <3>3. f[k] \in Seq(Int) /\ Len(f[k]) = Len(later) + 1 /\ \A j \in 1 .. Len(f[k]) : f[k][j] # CR
      BY <2>6, <3>2, Prepends
    <3>4. Len(f[k]) = end + 1 - k - p
      <4>1. Len(later) = end - k - q
        BY <2>6
      <4>2. Len(f[k]) = Len(later) + 1
        BY <3>3
      <4> QED
        BY <3>1, <4>1, <4>2
    <3> QED
      BY <2>2, <3>3, <3>4 DEF Shorter
  <2> QED
    BY <2>7, <2>8
<1>4. end + 1 \in Good
  BY <1>2
<1>5. ASSUME NEW k \in 1 .. end + 1, k < end + 1, k + 1 \in Good  PROVE k \in Good
  <2>1. \A i \in k + 1 .. end + 1 : Shorter(f, w, end, i)
    BY <1>5
  <2>2. k \in 1 .. end /\ Shorter(f, w, end, k + 1) /\ (k + 2 =< end + 1 => Shorter(f, w, end, k + 2))
    BY <1>5, <2>1
  <2>3. Shorter(f, w, end, k)
    BY <1>3, <2>2
  <2>4. \A i \in k .. end + 1 : i = k \/ i \in k + 1 .. end + 1
    OBVIOUS
  <2> QED
    BY <2>1, <2>3, <2>4
<1>6. \A k \in 1 .. end + 1 : k \in Good
  <2> HIDE DEF Good
  <2>1. end + 1 \in Nat
    OBVIOUS
  <2> QED
    BY <1>4, <1>5, <2>1, Downward
<1> QED
  BY <1>6

LEMMA LineEndsUnroll ==
  ASSUME NEW w
  PROVE  LineEnds(w) = IF CR \notin ToSet(w) THEN w ELSE (CHOOSE g : Unrolls(g, w, Len(w)))[1]
BY DEF LineEnds, Unrolls, Onward

\* What is normalised has no carriage return, a pair is one character, and a leading mark
\* is none.
LEMMA NormalizeIs ==
  ASSUME NEW text \in Seq(Int)
  PROVE  /\ Normalize(text) \in Seq(Int)
         /\ Len(Normalize(text))
              = Len(text) - Cardinality(Pairs(text)) - (IF Len(text) >= 1 /\ text[1] = Mark THEN 1 ELSE 0)
         /\ Returns(Normalize(text)) = {}
<1>1. PICK w : w = IF IsPrefix(<<Mark>>, text) THEN Tail(text) ELSE text
  OBVIOUS
<1>2. PICK m \in Nat : m = Len(text)
  OBVIOUS
<1>3. DOMAIN text = 1 .. m /\ \A i \in 1 .. m : text[i] \in Int
  BY <1>2, BytesAre
<1>4. IsPrefix(<<Mark>>, text) <=> m >= 1 /\ text[1] = Mark
  <2>1. PICK mark \in Int : mark = Mark
    BY DEF Mark
  <2>2. IsPrefix(<<mark>>, text) <=> 1 =< Len(text) /\ text[1] = mark
    BY OneBegins
  <2> QED
    BY <1>2, <2>1, <2>2
<1>5. PICK d \in {0, 1} : d = IF m >= 1 /\ text[1] = Mark THEN 1 ELSE 0
  OBVIOUS
<1>6. PICK end \in Nat : end = m - d
  BY <1>5
<1>7. w \in Seq(Int) /\ Len(w) = end /\ \A i \in 1 .. end : w[i] = text[i + d]
  <2>1. CASE d = 0
    <3>1. w = text /\ end = m /\ \A i \in 1 .. end : i + d = i
      BY <1>1, <1>4, <1>5, <1>6, <2>1
    <3> QED
      BY <1>2, <3>1
  <2>2. CASE d = 1
    <3>1. w = Tail(text) /\ end = m - 1 /\ m >= 1
      BY <1>1, <1>4, <1>5, <1>6, <2>2
    <3>2. text # <<>>
      BY <1>2, <3>1
    <3>3. w \in Seq(Int) /\ Len(w) = Len(text) - 1 /\ \A i \in 1 .. Len(text) - 1 : w[i] = text[i + 1]
      BY <3>1, <3>2, HeadTailProperties
    <3> QED
      BY <1>2, <2>2, <3>1, <3>3
  <2> QED
    BY <2>1, <2>2
<1>8. DOMAIN w = 1 .. end
  BY <1>7
<1>9. Cardinality(Pairs(w)) = Cardinality(Pairs(text)) /\ Pairs(w) \in SUBSET (1 .. end)
  <2>1. \A i \in Pairs(text) : i > d
    BY <1>3, <1>5 DEF Pairs, CR, Mark
  <2>2. PICK shift : shift = [i \in Pairs(w) |-> i + d]
    OBVIOUS
  <2>3. Pairs(w) \in SUBSET (1 .. end) /\ IsFiniteSet(Pairs(w))
    <3>1. Pairs(w) \in SUBSET (1 .. end)
      BY <1>8 DEF Pairs
    <3> QED
      BY <3>1, UptoIsFinite, FS_Subset
  <2>4. ASSUME NEW i \in Pairs(w)  PROVE shift[i] \in Pairs(text)
    <3>1. i \in 1 .. end /\ i + 1 \in 1 .. end /\ w[i] = CR /\ w[i + 1] = LF /\ shift[i] = i + d
      BY <1>8, <2>2 DEF Pairs
    <3>2. i + d \in 1 .. m /\ i + d + 1 \in 1 .. m /\ i + 1 + d = i + d + 1
      BY <1>6, <3>1
    <3>3. text[i + d] = CR /\ text[i + d + 1] = LF
      BY <1>7, <3>1, <3>2
    <3> QED
      BY <1>3, <3>1, <3>2, <3>3 DEF Pairs
  <2>5. ASSUME NEW j \in Pairs(text)  PROVE \E i \in Pairs(w) : shift[i] = j
    <3>1. j \in 1 .. m /\ j + 1 \in 1 .. m /\ text[j] = CR /\ text[j + 1] = LF /\ j > d
      BY <1>3, <2>1 DEF Pairs
    <3>2. PICK i \in 1 .. end : i = j - d
      BY <1>6, <3>1
    <3>3. i + d = j /\ i + 1 + d = j + 1 /\ i + 1 \in 1 .. end
      BY <1>6, <3>1, <3>2
    <3>4. w[i] = CR /\ w[i + 1] = LF
      BY <1>7, <3>1, <3>3
    <3> QED
      BY <1>8, <2>2, <3>3, <3>4 DEF Pairs
  <2>6. \A i, j \in Pairs(w) : shift[i] = shift[j] => i = j
    BY <2>2, <2>3
  <2>7. Corresponds(shift, Pairs(w), Pairs(text))
    BY <2>4, <2>5, <2>6 DEF Corresponds
  <2> QED
    BY <2>3, <2>7, SameCount
<1>15. Cardinality(Pairs(w)) \in Nat
  BY <1>9, UptoIsFinite, FS_Subset, FS_CardinalityType
<1>10. PICK f : f = CHOOSE g : Unrolls(g, w, end)
  OBVIOUS
<1>11. Normalize(text) = IF CR \notin ToSet(w) THEN w ELSE f[1]
  <2>1. Normalize(text) = LineEnds(w)
    BY <1>1 DEF Normalize
  <2>2. LineEnds(w) = IF CR \notin ToSet(w) THEN w ELSE (CHOOSE g : Unrolls(g, w, Len(w)))[1]
    BY LineEndsUnroll
  <2> QED
    BY <1>7, <1>10, <2>1, <2>2
<1>12. PICK normal : normal = Normalize(text)
  OBVIOUS
<1>13. normal \in Seq(Int) /\ Len(normal) = end - Cardinality(Pairs(w)) /\ \A k \in 1 .. Len(normal) : normal[k] # CR
  <2>1. CASE CR \notin ToSet(w)
    <3>1. \A i \in 1 .. end : w[i] # CR
      BY <1>8, <2>1 DEF ToSet
    <3>2. Pairs(w) = {}
      BY <1>8, <3>1 DEF Pairs
    <3>3. Cardinality(Pairs(w)) = 0
      BY <3>2, FS_EmptySet
    <3> QED
      BY <1>7, <1>11, <1>12, <2>1, <3>1, <3>3
  <2>2. CASE CR \in ToSet(w)
    <3>1. normal = f[1] /\ Unrolls(f, w, end)
      BY <1>10, <1>11, <1>12, <2>2, UnrollsExists
    <3>2. 1 \in 1 .. end + 2 /\ 1 =< end + 1
      OBVIOUS
    <3>3. Shorter(f, w, end, 1)
      BY <1>7, <3>1, <3>2, UnrolledAre
    <3>4. PairsFrom(w, 1) = Pairs(w)
      BY <1>9 DEF PairsFrom
    <3>5. end + 1 - 1 - Cardinality(Pairs(w)) = end - Cardinality(Pairs(w))
      BY <1>15
    <3> QED
      BY <3>1, <3>3, <3>4, <3>5 DEF Shorter
  <2> QED
    BY <2>1, <2>2
<1>14. Returns(normal) = {}
  <2>1. DOMAIN normal = 1 .. Len(normal)
    BY <1>13
  <2> QED
    BY <1>13, <2>1 DEF Returns
<1> QED
  BY <1>2, <1>5, <1>6, <1>9, <1>12, <1>13, <1>14, <1>15

-----------------------------------------------------------------------------
(* Counting bytes *)

LEMMA TimesNatural ==
  ASSUME NEW a \in Nat, NEW b \in Nat
  PROVE  a * b \in Nat
OBVIOUS

LEMMA CountIs ==
  ASSUME NEW definition \in Nat, NEW text \in Seq(Int)
  PROVE  /\ Count(definition, text) = definition * Len(text) + Cardinality(Returns(text))
         /\ Cardinality(Returns(text)) \in Nat /\ Count(definition, text) \in Nat
<1>1. PICK n \in Nat : n = Len(text)
  OBVIOUS
<1>2. Returns(text) \in SUBSET (1 .. n)
  BY <1>1, BytesAre DEF Returns
<1>3. PICK r \in Nat : r = Cardinality(Returns(text))
  BY <1>2, UptoIsFinite, FS_Subset, FS_CardinalityType
<1>4. Returns(text) = {i \in DOMAIN text : text[i] = 13}
  BY DEF Returns, CR
<1>5. Count(definition, text) = definition * n + r
  BY <1>1, <1>3, <1>4 DEF Count
<1>6. definition * n \in Nat
  BY TimesNatural
<1> QED
  BY <1>1, <1>3, <1>5, <1>6

\* What is counted of decoded bytes is what the marks and line ends in them say.
LEMMA TokensAre ==
  ASSUME NEW bytes \in Seq(Int), NEW definition \in Nat, NEW text_policy,
         text_policy = (IF command.normalize THEN "normalized" ELSE "literal")
  PROVE  /\ Count(definition, Apply(text_policy, Characters(bytes))) = TokensOf(bytes, definition)
         /\ TokensOf(bytes, definition) \in Nat
<1>1. PICK n \in Nat : n = Len(bytes)
  OBVIOUS
<1>2. PICK m : m = Cardinality(Starts(bytes))
  OBVIOUS
<1>3. PICK text : text = Characters(bytes)
  OBVIOUS
<1>4. PICK list : TextFrom(text, bytes, list, n, m)
  BY <1>1, <1>2, <1>3, TextIs
<1>5. text \in Seq(Int) /\ Len(text) = m /\ m \in Nat
  BY <1>4 DEF TextFrom
<1>6. DOMAIN bytes = 1 .. n
  BY <1>1, BytesAre
<1>7. /\ Returns(bytes) \in SUBSET (1 .. n) /\ Pairs(bytes) \in SUBSET (1 .. n)
      /\ Marks(bytes) \in SUBSET (1 .. n)
  BY <1>6 DEF Returns, Pairs, Marks
<1>8. PICK returns \in Nat : returns = Cardinality(Returns(bytes))
  BY <1>7, UptoIsFinite, FS_Subset, FS_CardinalityType
<1>9. PICK pairs \in Nat : pairs = Cardinality(Pairs(bytes))
  BY <1>7, UptoIsFinite, FS_Subset, FS_CardinalityType
<1>10. PICK leading \in Nat : leading = Cardinality(Marks(bytes) \cap {1})
  <2>1. Marks(bytes) \cap {1} \in SUBSET (1 .. n)
    BY <1>7
  <2> QED
    BY <2>1, UptoIsFinite, FS_Subset, FS_CardinalityType
<1>11. leading = IF m >= 1 /\ text[1] = Mark THEN 1 ELSE 0
  <2>1. (m >= 1 /\ text[1] = Mark) <=> 1 \in Marks(bytes)
    BY <1>4, LeadingMark
  <2>2. CASE 1 \in Marks(bytes)
    <3>1. Marks(bytes) \cap {1} = {1}
      BY <2>2
    <3> QED
      BY <1>10, <2>1, <2>2, <3>1, FS_Singleton
  <2>3. CASE 1 \notin Marks(bytes)
    <3>1. Marks(bytes) \cap {1} = {}
      BY <2>3
    <3> QED
      BY <1>10, <2>1, <2>3, <3>1, FS_EmptySet
  <2> QED
    BY <2>2, <2>3
<1>12. Cardinality(Returns(text)) = returns /\ Cardinality(Pairs(text)) = pairs
  BY <1>4, <1>8, <1>9, SameLineEnds
<1>13. TokensOf(bytes, definition)
         = IF command.normalize THEN definition * (m - pairs - leading) ELSE definition * m + returns
  <2>1. PICK cut : cut = Cuts(bytes) \ Marks(bytes)
    OBVIOUS
  <2>2. {i \in Invalids(bytes) : OccursAt(SubSeq(MarkBytes, 1, 2), bytes, i)} = cut
    BY <2>1, CutsAre
  <2>3. m = Len(bytes) - 2 * Cardinality(Marks(bytes)) - Cardinality(cut)
    BY <1>2, <2>1, CharactersCount
  <2>4. {i \in DOMAIN bytes : bytes[i] = CR} = Returns(bytes)
    BY DEF Returns
  <2>5. {i \in Returns(bytes) : OccursAt(<<LF>>, bytes, i + 1)} = Pairs(bytes)
    <3>1. \A i \in 1 .. n : OccursAt(<<LF>>, bytes, i + 1) <=> i + 1 \in 1 .. n /\ bytes[i + 1] = LF
      <4> SUFFICES ASSUME NEW i \in 1 .. n
                   PROVE  OccursAt(<<LF>>, bytes, i + 1) <=> i + 1 \in 1 .. n /\ bytes[i + 1] = LF
        OBVIOUS
      <4>1. PICK j \in Int : j = i + 1 /\ j >= 1
        OBVIOUS
      <4>2. OccursAt(<<10>>, bytes, j) <=> j =< Len(bytes) /\ bytes[j] = 10
        BY <4>1, LineFeedOccurs
      <4> QED
        BY <1>1, <4>1, <4>2 DEF LF
    <3> QED
      BY <1>6, <1>7, <3>1 DEF Pairs, Returns
  <2> QED
    BY <1>8, <1>9, <1>10, <2>2, <2>3, <2>4, <2>5 DEF TokensOf
<1>14. CASE command.normalize
  <2>1. PICK normal : normal = Normalize(text)
    OBVIOUS
  <2>2. normal \in Seq(Int) /\ Len(normal) = m - pairs - leading /\ Returns(normal) = {}
    BY <1>5, <1>11, <1>12, <2>1, NormalizeIs
  <2>3. Apply(text_policy, text) = normal
    BY <1>14, <2>1 DEF Apply
  <2>4. Cardinality(Returns(normal)) = 0
    BY <2>2, FS_EmptySet
  <2>5. Count(definition, normal) = definition * Len(normal) + 0 /\ Count(definition, normal) \in Nat
    BY <2>2, <2>4, CountIs
  <2>6. PICK l \in Nat : l = Len(normal)
    BY <2>2
  <2>7. definition * l + 0 = definition * l
    BY <2>6
  <2> QED
    BY <1>3, <1>13, <1>14, <2>2, <2>3, <2>5, <2>6, <2>7
<1>15. CASE ~command.normalize
  <2>1. Apply(text_policy, text) = text
    BY <1>15 DEF Apply
  <2>2. Count(definition, text) = definition * m + returns /\ Count(definition, text) \in Nat
    BY <1>5, <1>12, CountIs
  <2> QED
    BY <1>3, <1>13, <1>15, <2>1, <2>2
<1> QED
  BY <1>14, <1>15

LEMMA MinOfTwo ==
  ASSUME NEW a \in Int, NEW b \in Int
  PROVE  Min({a, b}) = IF a =< b THEN a ELSE b
<1>1. PICK least \in {a, b} : \A other \in {a, b} : least =< other
  OBVIOUS
<1>2. /\ Min({a, b}) \in {a, b}
      /\ \A other \in {a, b} : Min({a, b}) =< other
  BY <1>1 DEF Min
<1> QED
  BY <1>2

\* A zero byte is seen where it is looked for.
LEMMA ZeroSeen ==
  ASSUME NEW bytes \in Seq(Int)
  PROVE  0 \in ToSet(SubSeq(bytes, 1, Min({InspectedBytes, Len(bytes)})))
           <=> \E i \in DOMAIN bytes : i =< InspectedBytes /\ bytes[i] = 0
<1>1. PICK n \in Nat : n = Len(bytes)
  OBVIOUS
<1>2. PICK inspected \in Nat : inspected = InspectedBytes
  BY TextAssumption
<1>3. PICK l \in Nat : l = Min({InspectedBytes, Len(bytes)}) /\ l = IF inspected =< n THEN inspected ELSE n
  BY <1>1, <1>2, MinOfTwo
<1>4. PICK part : part = SubSeq(bytes, 1, l)
  OBVIOUS
<1>5. part \in Seq(Int) /\ Len(part) = l /\ \A k \in 1 .. l : part[k] = bytes[k]
  <2>1. 1 \in Int /\ l \in Int /\ 1 =< 1 /\ 1 =< l + 1 /\ l =< Len(bytes) /\ l - 1 + 1 = l
    BY <1>1, <1>3
  <2>2. /\ part \in Seq(Int) /\ Len(part) = l - 1 + 1
        /\ \A k \in 1 .. l - 1 + 1 : part[k] = bytes[1 + k - 1]
    BY <1>4, <2>1, PartIs
  <2>3. \A k \in 1 .. l : 1 + k - 1 = k
    OBVIOUS
  <2> QED
    BY <2>1, <2>2, <2>3
<1>6. DOMAIN part = 1 .. l
  BY <1>5
<1>7. 0 \in ToSet(part) <=> \E k \in 1 .. l : bytes[k] = 0
  BY <1>5, <1>6 DEF ToSet
<1>8. DOMAIN bytes = 1 .. n
  BY <1>1, BytesAre
<1>9. (\E k \in 1 .. l : bytes[k] = 0) <=> \E i \in 1 .. n : i =< inspected /\ bytes[i] = 0
  BY <1>1, <1>2, <1>3
<1> QED
  BY <1>2, <1>3, <1>4, <1>7, <1>8, <1>9

\* The marks of other encodings.
Marked(bytes, le32, be32, le16, be16) ==
  /\ le32 \in BOOLEAN /\ be32 \in BOOLEAN /\ le16 \in BOOLEAN /\ be16 \in BOOLEAN
  /\ le32 <=> IsPrefix(Utf32LE, bytes)
  /\ be32 <=> IsPrefix(Utf32BE, bytes)
  /\ le16 <=> IsPrefix(Utf16LE, bytes)
  /\ be16 <=> IsPrefix(Utf16BE, bytes)

LEMMA MarkedOnce ==
  ASSUME NEW bytes \in Seq(Int), NEW le32, NEW be32, NEW le16, NEW be16,
         Marked(bytes, le32, be32, le16, be16)
  PROVE  /\ le32 => le16
         /\ ~(le16 /\ be16) /\ ~(le16 /\ be32) /\ ~(be16 /\ be32)
<1>1. le32 => Len(bytes) >= 4 /\ bytes[1] = 255 /\ bytes[2] = 254
  BY FourBegin DEF Marked, Utf32LE
<1>2. be32 => bytes[1] = 0
  BY FourBegin DEF Marked, Utf32BE
<1>3. le16 <=> Len(bytes) >= 2 /\ bytes[1] = 255 /\ bytes[2] = 254
  BY TwoBegin DEF Marked, Utf16LE
<1>4. be16 => bytes[1] = 254
  BY TwoBegin DEF Marked, Utf16BE
<1> QED
  BY <1>1, <1>2, <1>3, <1>4

LEMMA UnsupportedBomIs ==
  ASSUME NEW bytes \in Seq(Int), NEW le32, NEW be32, NEW le16, NEW be16,
         Marked(bytes, le32, be32, le16, be16)
  PROVE  UnsupportedBom(bytes)
           = IF le32 THEN "UTF-32LE" ELSE IF be32 THEN "UTF-32BE"
             ELSE IF le16 THEN "UTF-16LE" ELSE IF be16 THEN "UTF-16BE" ELSE "none"
BY DEF UnsupportedBom, Marked

ZeroInspected(bytes) == \E i \in DOMAIN bytes : i =< InspectedBytes /\ bytes[i] = 0

SkipsBy(le32, be32, le16, be16, binary, lossy, invalid_utf8) ==
  IF le16 THEN {<<"unsupported encoding", IF le32 THEN "UTF-32LE" ELSE "UTF-16LE">>}
  ELSE IF be16 THEN {<<"unsupported encoding", "UTF-16BE">>}
  ELSE IF be32 THEN {<<"unsupported encoding", "UTF-32BE">>}
  ELSE IF binary THEN {<<"binary", "none">>}
  ELSE IF lossy /\ invalid_utf8 = "skip" THEN {<<"invalid UTF-8", "none">>}
  ELSE {}

LEMMA SkipsForIs ==
  ASSUME NEW bytes \in Seq(Int), NEW le32, NEW be32, NEW le16, NEW be16,
         Marked(bytes, le32, be32, le16, be16),
         NEW binary \in BOOLEAN, binary <=> ZeroInspected(bytes),
         NEW lossy \in BOOLEAN, lossy <=> Invalids(bytes) # {}
  PROVE  SkipsFor(bytes) = SkipsBy(le32, be32, le16, be16, binary, lossy, command.invalid_utf8)
<1>2. PICK seen : seen = ToSet(SubSeq(bytes, 1, Min({InspectedBytes, Len(bytes)})))
  OBVIOUS
<1>3. binary <=> 0 \in seen
  BY <1>2, ZeroSeen DEF ZeroInspected
<1>4. PICK invalids : invalids = Invalids(bytes)
  OBVIOUS
<1>5. SkipsFor(bytes)
        = IF IsPrefix(Utf16LE, bytes)
          THEN {<<"unsupported encoding",
                  IF IsPrefix(Utf32LE, bytes) THEN "UTF-32LE" ELSE "UTF-16LE">>}
          ELSE IF IsPrefix(Utf16BE, bytes) THEN {<<"unsupported encoding", "UTF-16BE">>}
          ELSE IF IsPrefix(Utf32BE, bytes) THEN {<<"unsupported encoding", "UTF-32BE">>}
          ELSE IF 0 \in seen THEN {<<"binary", "none">>}
          ELSE IF invalids # {} /\ command.invalid_utf8 = "skip" THEN {<<"invalid UTF-8", "none">>}
          ELSE {}
  BY <1>2, <1>4 DEF SkipsFor
<1>6. /\ le32 <=> IsPrefix(Utf32LE, bytes)
      /\ be32 <=> IsPrefix(Utf32BE, bytes)
      /\ le16 <=> IsPrefix(Utf16LE, bytes)
      /\ be16 <=> IsPrefix(Utf16BE, bytes)
  BY DEF Marked
<1> QED
  BY <1>3, <1>4, <1>5, <1>6 DEF SkipsBy

\* What decoding comes to.
Skipping(bytes, reason, detail) ==
  /\ SkipsFor(bytes) = {<<reason, detail>>}
  /\ Decode(bytes, command.invalid_utf8) = [reason |-> reason, detail |-> detail]

LEMMA DecodeIs ==
  ASSUME NEW bytes \in Seq(Int)
  PROVE  \/ /\ SkipsFor(bytes) = {}
            /\ Decode(bytes, command.invalid_utf8)
                 = [text |-> Characters(bytes), decoded_lossily |-> (Invalids(bytes) # {})]
         \/ \E reason \in {"unsupported encoding", "binary", "invalid UTF-8"},
               detail \in {"none", "UTF-32LE", "UTF-32BE", "UTF-16LE", "UTF-16BE"} :
              Skipping(bytes, reason, detail)
<1>1. PICK le32, be32, le16, be16 : Marked(bytes, le32, be32, le16, be16)
  <2>1. PICK le32 \in BOOLEAN : le32 <=> IsPrefix(Utf32LE, bytes)
    OBVIOUS
  <2>2. PICK be32 \in BOOLEAN : be32 <=> IsPrefix(Utf32BE, bytes)
    OBVIOUS
  <2>3. PICK le16 \in BOOLEAN : le16 <=> IsPrefix(Utf16LE, bytes)
    OBVIOUS
  <2>4. PICK be16 \in BOOLEAN : be16 <=> IsPrefix(Utf16BE, bytes)
    OBVIOUS
  <2> QED
    BY <2>1, <2>2, <2>3, <2>4 DEF Marked
<1>2. /\ le32 => le16
      /\ ~(le16 /\ be16) /\ ~(le16 /\ be32) /\ ~(be16 /\ be32)
  BY <1>1, MarkedOnce
<1>3. PICK binary \in BOOLEAN : binary <=> ZeroInspected(bytes)
  OBVIOUS
<1>4. PICK lossy \in BOOLEAN : lossy <=> Invalids(bytes) # {}
  OBVIOUS
<1>5. Replacement \in ToSet(Characters(bytes)) <=> lossy
  <2>1. PICK list : TextFrom(Characters(bytes), bytes, list, Len(bytes), Cardinality(Starts(bytes)))
    BY TextIs
  <2> QED
    BY <1>4, <2>1, Replaces
<1>6. UnsupportedBom(bytes)
        = IF le32 THEN "UTF-32LE" ELSE IF be32 THEN "UTF-32BE"
          ELSE IF le16 THEN "UTF-16LE" ELSE IF be16 THEN "UTF-16BE" ELSE "none"
  BY <1>1, UnsupportedBomIs
<1>7. SkipsFor(bytes)
        = IF le16 THEN {<<"unsupported encoding", IF le32 THEN "UTF-32LE" ELSE "UTF-16LE">>}
          ELSE IF be16 THEN {<<"unsupported encoding", "UTF-16BE">>}
          ELSE IF be32 THEN {<<"unsupported encoding", "UTF-32BE">>}
          ELSE IF binary THEN {<<"binary", "none">>}
          ELSE IF lossy /\ command.invalid_utf8 = "skip" THEN {<<"invalid UTF-8", "none">>}
          ELSE {}
  <2>1. SkipsFor(bytes) = SkipsBy(le32, be32, le16, be16, binary, lossy, command.invalid_utf8)
    BY <1>1, <1>3, <1>4, SkipsForIs
  <2> QED
    BY <2>1 DEF SkipsBy
<1>8. Decode(bytes, command.invalid_utf8)
        = IF UnsupportedBom(bytes) # "none"
          THEN [reason |-> "unsupported encoding", detail |-> UnsupportedBom(bytes)]
          ELSE IF binary THEN [reason |-> "binary", detail |-> "none"]
          ELSE IF lossy /\ command.invalid_utf8 = "skip" THEN [reason |-> "invalid UTF-8", detail |-> "none"]
          ELSE [text |-> Characters(bytes), decoded_lossily |-> lossy]
  BY <1>3, <1>5 DEF Decode, ZeroInspected
<1>9. CASE le16 \/ be16 \/ be32
  <2>1. PICK detail \in {"UTF-32LE", "UTF-32BE", "UTF-16LE", "UTF-16BE"} : detail = UnsupportedBom(bytes)
    BY <1>2, <1>6, <1>9
  <2>2. SkipsFor(bytes) = {<<"unsupported encoding", detail>>}
    BY <1>2, <1>6, <1>7, <1>9, <2>1
  <2>3. Decode(bytes, command.invalid_utf8) = [reason |-> "unsupported encoding", detail |-> detail]
    BY <1>8, <2>1
  <2> QED
    BY <2>2, <2>3 DEF Skipping
<1>10. CASE ~(le16 \/ be16 \/ be32)
  <2>1. UnsupportedBom(bytes) = "none"
    BY <1>2, <1>6, <1>10
  <2>2. CASE binary
    BY <1>7, <1>8, <1>10, <2>1, <2>2 DEF Skipping
  <2>3. CASE ~binary /\ lossy /\ command.invalid_utf8 = "skip"
    BY <1>7, <1>8, <1>10, <2>1, <2>3 DEF Skipping
  <2>4. CASE ~binary /\ ~(lossy /\ command.invalid_utf8 = "skip")
    <3>1. SkipsFor(bytes) = {}
      BY <1>7, <1>10, <2>4
    <3>2. Decode(bytes, command.invalid_utf8) = [text |-> Characters(bytes), decoded_lossily |-> lossy]
      BY <1>8, <2>1, <2>4
    <3> QED
      BY <1>4, <3>1, <3>2
  <2> QED
    BY <2>2, <2>3, <2>4
<1> QED
  BY <1>9, <1>10

LEMMA SameBytes ==
  ASSUME NEW s \in Seq(Int), NEW t \in Seq(Int), NEW n \in Nat, Len(s) = n, Len(t) = n,
         \A k \in 1 .. n : s[k] = t[k]
  PROVE  s = t
OBVIOUS

-----------------------------------------------------------------------------
(* Numbers *)

\* g[T] is the number that FoldLeft makes of the digits at the places T.
Reads(g, digits, n) ==
  g = [T \in SUBSET (1 .. n) |->
         IF T = {} THEN 0 ELSE g[T \ {Max(T)}] * 10 + digits[Max(T)]]

LEMMA ReadsExists ==
  ASSUME NEW n \in Nat, NEW digits
  PROVE  \E g : Reads(g, digits, n)
<1> DEFINE Without == {m \in Nat : ~ \E g : Reads(g, digits, m)}
<1> SUFFICES ASSUME n \in Without  PROVE FALSE
  OBVIOUS
<1>1. PICK m \in Without : \A k \in Without : m =< k
  <2>1. Without \in SUBSET Nat /\ Without # {}
    OBVIOUS
  <2> HIDE DEF Without
  <2> QED
    BY <2>1, LeastNatural
<1>2. m \in Nat /\ ~ \E g : Reads(g, digits, m)
  OBVIOUS
<1>3. CASE m = 0
  <2>1. PICK g : g = [T \in SUBSET (1 .. 0) |-> 0]
    OBVIOUS
  <2>2. \A T \in SUBSET (1 .. 0) : T = {}
    OBVIOUS
  <2>3. Reads(g, digits, 0)
    BY <2>1, <2>2 DEF Reads
  <2> QED
    BY <1>2, <1>3, <2>3
<1>4. CASE m # 0
  <2>1. PICK p \in Nat : p = m - 1
    BY <1>2, <1>4
  <2>2. PICK g : Reads(g, digits, p)
    <3>1. p \notin Without
      BY <1>1, <1>2, <2>1
    <3> QED
      BY <3>1
  <2>3. PICK h : h = [T \in SUBSET (1 .. m) |->
                        IF m \in T THEN g[T \ {m}] * 10 + digits[m] ELSE g[T]]
    OBVIOUS
  <2>4. ASSUME NEW T \in SUBSET (1 .. m)
        PROVE  h[T] = IF T = {} THEN 0 ELSE h[T \ {Max(T)}] * 10 + digits[Max(T)]
    <3>1. T # {} => Max(T) \in T /\ \A i \in T : i =< Max(T)
      BY <1>2, GreatestNatural
    <3>2. CASE m \in T
      <4>1. Max(T) = m
        <5>1. PICK k : k = Max(T)
          OBVIOUS
        <5>2. k \in 1 .. m /\ m =< k
          BY <3>1, <3>2, <5>1
        <5> QED
          BY <1>2, <5>1, <5>2
      <4>2. T \ {m} \in SUBSET (1 .. m) /\ m \notin T \ {m}
        OBVIOUS
      <4>3. h[T] = g[T \ {m}] * 10 + digits[m] /\ h[T \ {m}] = g[T \ {m}]
        BY <2>3, <3>2, <4>2
      <4> QED
        BY <3>2, <4>1, <4>3
    <3>3. CASE m \notin T
      <4>1. T \in SUBSET (1 .. p)
        BY <1>2, <2>1, <3>3
      <4>2. h[T] = g[T]
        BY <2>3, <3>3
      <4>3. g[T] = IF T = {} THEN 0 ELSE g[T \ {Max(T)}] * 10 + digits[Max(T)]
        BY <2>2, <4>1 DEF Reads
      <4>4. h[T \ {Max(T)}] = g[T \ {Max(T)}]
        <5>1. T \ {Max(T)} \in SUBSET (1 .. m) /\ m \notin T \ {Max(T)}
          BY <3>3
        <5> QED
          BY <2>3, <5>1
      <4> QED
        BY <4>2, <4>3, <4>4
    <3> QED
      BY <3>2, <3>3
  <2>5. h = [T \in SUBSET (1 .. m) |-> h[T]]
    BY <2>3
  <2>6. Reads(h, digits, m)
    BY <2>4, <2>5 DEF Reads
  <2> QED
    BY <1>2, <2>6
<1> QED
  BY <1>3, <1>4

LEMMA NumberNatural ==
  ASSUME NEW digits \in Seq(Int), \A i \in DOMAIN digits : digits[i] \in Nat
  PROVE  Number(digits) \in Nat
<1>1. PICK n \in Nat : DOMAIN digits = 1 .. n /\ \A i \in 1 .. n : digits[i] \in Nat
  OBVIOUS
<1>2. PICK g : g = CHOOSE other : Reads(other, digits, n)
  OBVIOUS
<1>3. Reads(g, digits, n)
  BY <1>2, ReadsExists
<1>4. Number(digits) = g[1 .. n]
  BY <1>1, <1>2 DEF Number, FoldLeft, MapThenFoldSet, Reads
<1>5. PICK Good : Good = {T \in SUBSET (1 .. n) : g[T] \in Nat}
  OBVIOUS
<1>6. {} \in Good
  <2>1. {} \in SUBSET (1 .. n)
    OBVIOUS
  <2>2. g[{}] = 0
    BY <1>3, <2>1 DEF Reads
  <2> QED
    BY <1>5, <2>1, <2>2
<1>7. ASSUME NEW T \in SUBSET (1 .. n), T # {}, T \ {Max(T)} \in Good  PROVE T \in Good
  <2>1. PICK m : m = Max(T)
    OBVIOUS
  <2>2. m \in 1 .. n
    BY <1>7, <2>1, GreatestNatural
  <2>3. g[T] = g[T \ {m}] * 10 + digits[m]
    <3>1. g[T] = IF T = {} THEN 0 ELSE g[T \ {Max(T)}] * 10 + digits[Max(T)]
      BY <1>3 DEF Reads
    <3> QED
      BY <1>7, <2>1, <3>1
  <2>4. PICK a \in Nat : a = g[T \ {m}]
    BY <1>5, <1>7, <2>1
  <2>5. PICK b \in Nat : b = digits[m]
    BY <1>1, <2>2
  <2>6. g[T] \in Nat
    BY <2>3, <2>4, <2>5
  <2> QED
    BY <1>5, <2>6
<1>8. 1 .. n \in Good
  BY <1>6, <1>7, GreatestLast
<1> QED
  BY <1>4, <1>5, <1>8

-----------------------------------------------------------------------------
(* Sizes *)

\* A text is the digits that it begins with, and what is left.
Parts(text, n, k) ==
  /\ k \in 0 .. n
  /\ NumberPart(text) = SubSeq(text, 1, k) /\ Suffix(text) = SubSeq(text, k + 1, n)
  /\ \A i \in 1 .. k : text[i] \in 0 .. 9
  /\ k < n => text[k + 1] \notin 0 .. 9

LEMMA PartLength ==
  ASSUME NEW text \in Seq(Int), NEW n \in Nat, n = Len(text), NEW k \in 0 .. n
  PROVE  /\ SubSeq(text, 1, k) \in Seq(Int) /\ Len(SubSeq(text, 1, k)) = k
         /\ \A i \in 1 .. k : SubSeq(text, 1, k)[i] = text[i]
<1>1. 1 \in Int /\ k \in Int /\ 1 =< 1 /\ 1 =< k + 1 /\ k =< Len(text)
  OBVIOUS
<1>2. /\ SubSeq(text, 1, k) \in Seq(Int) /\ Len(SubSeq(text, 1, k)) = k - 1 + 1
      /\ \A i \in 1 .. k - 1 + 1 : SubSeq(text, 1, k)[i] = text[1 + i - 1]
  BY <1>1, PartIs
<1>3. k - 1 + 1 = k /\ \A i \in 1 .. k : 1 + i - 1 = i
  OBVIOUS
<1> QED
  BY <1>2, <1>3

LEMMA PartsExist ==
  ASSUME NEW text \in Seq(Int), NEW n \in Nat, n = Len(text)
  PROVE  \E k : Parts(text, n, k)
<1>1. PICK others \in SUBSET (1 .. n) : others = {i \in 1 .. n : text[i] \notin 0 .. 9}
  OBVIOUS
<1>2. PICK first : first = IF others # {} THEN Min(others) ELSE 0
  OBVIOUS
<1>3. NumberPart(text) = IF first = 0 THEN text ELSE SubSeq(text, 1, first - 1)
  BY <1>1, <1>2 DEF NumberPart, SelectInSeq
<1>4. \E k \in 0 .. n : /\ NumberPart(text) = SubSeq(text, 1, k)
                        /\ \A i \in 1 .. k : text[i] \in 0 .. 9
                        /\ k < n => text[k + 1] \notin 0 .. 9
  <2>1. CASE others = {}
    <3>1. NumberPart(text) = text
      BY <1>2, <1>3, <2>1
    <3>2. n \in 0 .. n
      OBVIOUS
    <3>3. PICK all : all = SubSeq(text, 1, n)
      OBVIOUS
    <3>4. all \in Seq(Int) /\ Len(all) = n /\ \A i \in 1 .. n : all[i] = text[i]
      BY <3>2, <3>3, PartLength
    <3>5. all = text
      BY <3>4, SameBytes
    <3>6. \A i \in 1 .. n : text[i] \in 0 .. 9
      BY <1>1, <2>1
    <3>7. ~(n < n)
      OBVIOUS
    <3> QED
      BY <3>1, <3>2, <3>3, <3>5, <3>6, <3>7
  <2>2. CASE others # {}
    <3>1. PICK least \in others : \A i \in others : least =< i
      <4>1. others \in SUBSET Nat
        OBVIOUS
      <4> QED
        BY <2>2, <4>1, LeastNatural
    <3>2. Min(others) \in others /\ \A i \in others : Min(others) =< i
      BY <3>1 DEF Min
    <3>3. first \in 1 .. n /\ text[first] \notin 0 .. 9 /\ \A i \in others : first =< i
      BY <1>1, <1>2, <2>2, <3>2
    <3>4. PICK k \in 0 .. n : k = first - 1 /\ k < n /\ k + 1 = first
      BY <3>3
    <3>5. NumberPart(text) = SubSeq(text, 1, k)
      BY <1>3, <3>3, <3>4
    <3>6. ASSUME NEW i \in 1 .. k  PROVE text[i] \in 0 .. 9
      <4>1. i \in 1 .. n /\ i < first
        BY <3>3, <3>4
      <4>2. i \notin others
        BY <3>3, <4>1
      <4> QED
        BY <1>1, <4>1, <4>2
    <3> QED
      BY <3>3, <3>4, <3>5, <3>6
  <2> QED
    BY <2>1, <2>2
<1>5. PICK k \in 0 .. n : /\ NumberPart(text) = SubSeq(text, 1, k)
                          /\ \A i \in 1 .. k : text[i] \in 0 .. 9
                          /\ k < n => text[k + 1] \notin 0 .. 9
  BY <1>4
<1>6. Len(NumberPart(text)) = k
  BY <1>5, PartLength
<1>7. Suffix(text) = SubSeq(text, k + 1, n)
  BY <1>6 DEF Suffix
<1> QED
  BY <1>5, <1>7 DEF Parts

\* A spelling begins with a letter that tells its power.
LEMMA SpellingIs ==
  ASSUME NEW power \in 0 .. 3, NEW word \in Spellings(power)
  PROVE  /\ word = <<>> => power = 0
         /\ word # <<>> => word[1] = IF power = 0 THEN 12 ELSE 13 + power
<1>1. CASE power = 0
  <2>1. word = <<>> \/ word = <<12>>
    BY <1>1 DEF Spellings, LetterB
  <2> QED
    BY <1>1, <2>1
<1>2. CASE power # 0
  <2>1. PICK unit \in Int : unit = 13 + power
    OBVIOUS
  <2>2. UnitLetter[power] = unit
    BY <1>2, <2>1 DEF UnitLetter
  <2>3. word = <<unit>> \/ word = <<unit, 12>> \/ word = <<unit, 13, 12>>
    BY <1>2, <2>2 DEF Spellings, LetterB, LetterI
  <2> QED
    BY <1>2, <2>1, <2>3
<1> QED
  BY <1>1, <1>2

LEMMA SpelledOnce ==
  ASSUME NEW power \in 0 .. 3, NEW other \in 0 .. 3, NEW word,
         word \in Spellings(power), word \in Spellings(other)
  PROVE  power = other
<1>1. CASE word = <<>>
  BY <1>1, SpellingIs
<1>2. CASE word # <<>>
  <2>1. /\ word[1] = IF power = 0 THEN 12 ELSE 13 + power
        /\ word[1] = IF other = 0 THEN 12 ELSE 13 + other
    BY <1>2, SpellingIs
  <2> QED
    BY <2>1
<1> QED
  BY <1>1, <1>2

LEMMA MultiplierNatural ==
  ASSUME NEW power \in 0 .. 3
  PROVE  Multiplier(power) \in Nat
<1>1. PICK kilo \in Nat : kilo = Kilo
  BY FiguresAssumption
<1>2. PICK two \in Nat : two = kilo * kilo
  OBVIOUS
<1>3. PICK three \in Nat : three = kilo * kilo * kilo
  BY <1>2
<1>4. Multiplier(power) = <<1, kilo, two, three>>[power + 1]
  BY <1>1, <1>2, <1>3 DEF Multiplier
<1> QED
  BY <1>4

\* A limit that is accepted is its digits times the one power that its letters spell.
Sized(text, n, k, limit, power) ==
  /\ power \in 0 .. 3 /\ k # 0 /\ SubSeq(text, k + 1, n) \in Spellings(power)
  /\ Number(SubSeq(text, 1, k)) \in Nat
  /\ limit = Number(SubSeq(text, 1, k)) * Multiplier(power) /\ limit \in Nat

LEMMA DigitsNatural ==
  ASSUME NEW text \in Seq(Int), NEW n \in Nat, n = Len(text), NEW k \in 0 .. n,
         \A i \in 1 .. k : text[i] \in 0 .. 9
  PROVE  Number(SubSeq(text, 1, k)) \in Nat
<1>1. PICK digits : digits = SubSeq(text, 1, k)
  OBVIOUS
<1>2. digits \in Seq(Int) /\ Len(digits) = k /\ \A i \in 1 .. k : digits[i] = text[i]
  BY <1>1, PartLength
<1>3. ASSUME NEW i \in DOMAIN digits  PROVE digits[i] \in Nat
  <2>1. i \in 1 .. k
    BY <1>2
  <2>2. text[i] \in 0 .. 9
    BY <2>1
  <2> QED
    BY <1>2, <2>1, <2>2
<1> QED
  BY <1>1, <1>2, <1>3, NumberNatural

LEMMA ParseFileSizeIs ==
  ASSUME NEW text \in Seq(Int), text # Unlimited, NEW n \in Nat, n = Len(text),
         NEW k, Parts(text, n, k),
         NEW limit, limit = ParseFileSize(text), limit # Invalid
  PROVE  \E power : Sized(text, n, k, limit, power)
<1>1. /\ k \in 0 .. n /\ \A i \in 1 .. k : text[i] \in 0 .. 9
      /\ NumberPart(text) = SubSeq(text, 1, k) /\ Suffix(text) = SubSeq(text, k + 1, n)
  BY DEF Parts
<1>2. PICK number \in Nat : number = Number(NumberPart(text))
  BY <1>1, DigitsNatural
<1>3. PICK powers : powers = {power \in 0 .. 3 : Suffix(text) \in Spellings(power)}
  OBVIOUS
<1>4. PICK sizes : sizes = {number * Multiplier(power) : power \in powers}
  OBVIOUS
<1>5. NumberPart(text) # <<>> /\ \E bytes \in sizes : bytes =< MaxNumber
  BY <1>2, <1>3, <1>4 DEF ParseFileSize
<1>6. limit = CHOOSE bytes \in sizes : bytes =< MaxNumber
  BY <1>2, <1>3, <1>4, <1>5 DEF ParseFileSize
<1>7. limit \in sizes
  BY <1>5, <1>6
<1>8. PICK power \in powers : limit = number * Multiplier(power)
  BY <1>4, <1>7
<1>9. k # 0
  <2>1. Len(SubSeq(text, 1, k)) = k /\ SubSeq(text, 1, k) \in Seq(Int)
    BY <1>1, PartLength
  <2> QED
    BY <1>1, <1>5, <2>1
<1>10. power \in 0 .. 3 /\ SubSeq(text, k + 1, n) \in Spellings(power)
  BY <1>1, <1>3
<1>11. limit \in Nat
  <2>1. PICK multiplier \in Nat : multiplier = Multiplier(power)
    BY <1>10, MultiplierNatural
  <2> QED
    BY <1>8, <2>1, TimesNatural
<1> QED
  BY <1>1, <1>2, <1>8, <1>9, <1>10, <1>11 DEF Sized

\* There is one way to take a text apart into digits and the spelling of a power.
LEMMA TakenApart ==
  ASSUME NEW text \in Seq(Int), NEW n \in Nat, n = Len(text), NEW k, Parts(text, n, k),
         NEW j \in 1 .. n, \A i \in 1 .. j : text[i] \in 0 .. 9,
         NEW power \in 0 .. 3, SubSeq(text, j + 1, n) \in Spellings(power)
  PROVE  j = k
<1>1. /\ k \in 0 .. n /\ \A i \in 1 .. k : text[i] \in 0 .. 9
      /\ k < n => text[k + 1] \notin 0 .. 9
  BY DEF Parts
<1>2. ASSUME k < j  PROVE FALSE
  <2>1. k < n /\ k + 1 \in 1 .. j
    BY <1>1, <1>2
  <2> QED
    BY <1>1, <2>1
<1>3. ASSUME j < k  PROVE FALSE
  <2>1. PICK word : word = SubSeq(text, j + 1, n)
    OBVIOUS
  <2>2. j + 1 \in Int /\ n \in Int /\ 1 =< j + 1 /\ j + 1 =< n + 1 /\ n =< Len(text)
    BY <1>1, <1>3
  <2>3. /\ word \in Seq(Int) /\ Len(word) = n - (j + 1) + 1
        /\ \A i \in 1 .. n - (j + 1) + 1 : word[i] = text[j + 1 + i - 1]
    BY <2>1, <2>2, PartIs
  <2>4. 1 \in 1 .. n - (j + 1) + 1 /\ j + 1 + 1 - 1 = j + 1 /\ n - (j + 1) + 1 # 0
    BY <1>1, <1>3
  <2>5. word # <<>> /\ word[1] = text[j + 1]
    BY <2>3, <2>4
  <2>6. text[j + 1] \in 0 .. 9
    BY <1>1, <1>3
  <2>7. word[1] = IF power = 0 THEN 12 ELSE 13 + power
    BY <2>1, <2>5, SpellingIs
  <2> QED
    BY <2>5, <2>6, <2>7
<1> QED
  BY <1>1, <1>2, <1>3

\* As much is admitted as the digits and the letters of a limit say, however they are read.
LEMMA LimitReads ==
  ASSUME NEW text \in Seq(Int), text # Unlimited, NEW n \in Nat, n = Len(text),
         NEW limit, limit = ParseFileSize(text), limit # Invalid, NEW bytes \in Nat
  PROVE  /\ limit \in Nat
         /\ (\E k \in DOMAIN text, power \in 0 .. 3 :
               /\ ToSet(SubSeq(text, 1, k)) \subseteq 0 .. 9
               /\ SubSeq(text, k + 1, Len(text)) \in Spellings(power)
               /\ bytes =< Number(SubSeq(text, 1, k)) * Multiplier(power))
              <=> bytes =< limit
<1>1. PICK k : Parts(text, n, k)
  BY PartsExist
<1>2. PICK power : Sized(text, n, k, limit, power)
  BY <1>1, ParseFileSizeIs
<1>3. /\ k \in 0 .. n /\ k # 0 /\ \A i \in 1 .. k : text[i] \in 0 .. 9
      /\ power \in 0 .. 3 /\ SubSeq(text, k + 1, n) \in Spellings(power)
      /\ limit = Number(SubSeq(text, 1, k)) * Multiplier(power) /\ limit \in Nat
  BY <1>1, <1>2 DEF Parts, Sized
<1>4. DOMAIN text = 1 .. n
  OBVIOUS
<1>5. ASSUME NEW j \in 1 .. n
      PROVE  ToSet(SubSeq(text, 1, j)) \subseteq 0 .. 9 <=> \A i \in 1 .. j : text[i] \in 0 .. 9
  <2>1. PICK digits : digits = SubSeq(text, 1, j)
    OBVIOUS
  <2>2. digits \in Seq(Int) /\ Len(digits) = j /\ \A i \in 1 .. j : digits[i] = text[i]
    <3>1. j \in 0 .. n
      OBVIOUS
    <3> QED
      BY <2>1, <3>1, PartLength
  <2>3. DOMAIN digits = 1 .. j
    BY <2>2
  <2>4. ToSet(digits) = {digits[i] : i \in 1 .. j}
    BY <2>3 DEF ToSet
  <2> QED
    <3>1. {digits[i] : i \in 1 .. j} = {text[i] : i \in 1 .. j}
      BY <2>2
    <3>2. {text[i] : i \in 1 .. j} \subseteq 0 .. 9 <=> \A i \in 1 .. j : text[i] \in 0 .. 9
      OBVIOUS
    <3> QED
      BY <2>1, <2>4, <3>1, <3>2
<1>6. ASSUME bytes =< limit
      PROVE  \E other \in DOMAIN text, spelled \in 0 .. 3 :
               /\ ToSet(SubSeq(text, 1, other)) \subseteq 0 .. 9
               /\ SubSeq(text, other + 1, Len(text)) \in Spellings(spelled)
               /\ bytes =< Number(SubSeq(text, 1, other)) * Multiplier(spelled)
  <2>1. k \in DOMAIN text
    <3>1. k \in 1 .. n
      BY <1>3
    <3> QED
      BY <1>4, <3>1
  <2>2. ToSet(SubSeq(text, 1, k)) \subseteq 0 .. 9
    <3>1. k \in 1 .. n
      BY <1>3
    <3> QED
      BY <1>3, <1>5, <3>1
  <2> QED
    BY <1>3, <1>6, <2>1, <2>2
<1>7. ASSUME NEW j \in DOMAIN text, NEW spelled \in 0 .. 3,
             ToSet(SubSeq(text, 1, j)) \subseteq 0 .. 9,
             SubSeq(text, j + 1, Len(text)) \in Spellings(spelled),
             bytes =< Number(SubSeq(text, 1, j)) * Multiplier(spelled)
      PROVE  bytes =< limit
  <2>1. j \in 1 .. n /\ \A i \in 1 .. j : text[i] \in 0 .. 9
    BY <1>4, <1>5, <1>7
  <2>2. SubSeq(text, j + 1, n) \in Spellings(spelled)
    BY <1>7
  <2>3. j = k
    BY <1>1, <2>1, <2>2, TakenApart
  <2>4. SubSeq(text, k + 1, n) \in Spellings(spelled)
    BY <2>2, <2>3
  <2>5. spelled = power
    BY <1>3, <2>4, SpelledOnce
  <2> QED
    BY <1>3, <1>7, <2>3, <2>5
<1> QED
  BY <1>3, <1>6, <1>7

\* An accepted limit is a number of bytes or none.
LEMMA LimitIs ==
  ASSUME command \in Commands, ~Conflict
  PROVE  command.limit \in Nat \cup {Unlimited}
<1>1. /\ command.limit = ParseFileSize(command.limit_text)
      /\ command.limit_text = Unlimited \/ command.limit_text \in Seq(Int)
      /\ command.limit # Invalid
  BY CliAssumption DEF Conflict
<1>2. CASE command.limit_text = Unlimited
  BY <1>1, <1>2 DEF ParseFileSize
<1>3. CASE command.limit_text # Unlimited
  <2>1. PICK text \in Seq(Int) : text = command.limit_text /\ text # Unlimited
    BY <1>1, <1>3
  <2>2. PICK n \in Nat : n = Len(text)
    OBVIOUS
  <2>3. PICK limit : limit = command.limit
    OBVIOUS
  <2>4. limit = ParseFileSize(text) /\ limit # Invalid
    BY <1>1, <2>1, <2>3
  <2>5. PICK k : Parts(text, n, k)
    BY <2>2, PartsExist
  <2>6. PICK power : Sized(text, n, k, limit, power)
    BY <2>1, <2>2, <2>4, <2>5, ParseFileSizeIs
  <2> QED
    BY <2>3, <2>6 DEF Sized
<1> QED
  BY <1>2, <1>3

\* What counting bytes comes to: they are too many, skipped or counted.
Oversized(bytes, outcome) ==
  ~Admits(command.limit, Len(bytes)) /\ outcome = [reason |-> "oversized", detail |-> "none"]
Refused(bytes, outcome) ==
  /\ Admits(command.limit, Len(bytes))
  /\ \E reason \in {"unsupported encoding", "binary", "invalid UTF-8"},
        detail \in {"none", "UTF-32LE", "UTF-32BE", "UTF-16LE", "UTF-16BE"} :
       SkipsFor(bytes) = {<<reason, detail>>} /\ outcome = [reason |-> reason, detail |-> detail]
Counted(bytes, outcome) ==
  /\ Admits(command.limit, Len(bytes)) /\ SkipsFor(bytes) = {}
  /\ TokensOf(bytes, counter.definition) \in Nat
  /\ outcome = [tokens          |-> TokensOf(bytes, counter.definition),
                bytes           |-> Len(bytes),
                decoded_lossily |-> (Invalids(bytes) # {}),
                fingerprint     |-> counter.fingerprint,
                text_policy     |-> IF command.normalize THEN "normalized" ELSE "literal",
                invalid_utf8    |-> command.invalid_utf8]

LEMMA CountBytesIs ==
  ASSUME NEW bytes \in Seq(Int), counter \in Counters,
         NEW outcome, outcome = CountBytes(bytes, Options)
  PROVE  Oversized(bytes, outcome) \/ Refused(bytes, outcome) \/ Counted(bytes, outcome)
<1>1. PICK options : options = Options
  OBVIOUS
<1>2. PICK text_policy : text_policy = IF command.normalize THEN "normalized" ELSE "literal"
  OBVIOUS
<1>3. /\ options.counter = counter /\ options.text_policy = text_policy
      /\ options.invalid_utf8 = command.invalid_utf8 /\ options.max_file_size = command.limit
  BY <1>1, <1>2 DEF Options
<1>4. PICK decoded : decoded = Decode(bytes, command.invalid_utf8)
  OBVIOUS
<1>5. outcome = IF ~Admits(command.limit, Len(bytes))
                THEN [reason |-> "oversized", detail |-> "none"]
                ELSE IF "reason" \in DOMAIN decoded THEN decoded
                ELSE [tokens          |-> CountText(decoded.text, options).tokens,
                      bytes           |-> Len(bytes),
                      decoded_lossily |-> decoded.decoded_lossily,
                      fingerprint     |-> counter.fingerprint,
                      text_policy     |-> text_policy,
                      invalid_utf8    |-> command.invalid_utf8]
  BY <1>1, <1>3, <1>4 DEF CountBytes
<1>6. CASE ~Admits(command.limit, Len(bytes))
  BY <1>5, <1>6 DEF Oversized
<1>7. CASE /\ Admits(command.limit, Len(bytes))
           /\ SkipsFor(bytes) = {}
           /\ decoded = [text |-> Characters(bytes), decoded_lossily |-> (Invalids(bytes) # {})]
  <2>1. "reason" \notin DOMAIN decoded /\ decoded.text = Characters(bytes)
        /\ decoded.decoded_lossily = (Invalids(bytes) # {})
    BY <1>7
  <2>2. counter.definition \in Nat
    BY DEF Counters
  <2>3. CountText(decoded.text, options).tokens
          = Count(counter.definition, Apply(text_policy, Characters(bytes)))
    BY <1>3, <2>1 DEF CountText
  <2>4. PICK tokens \in Nat : tokens = TokensOf(bytes, counter.definition)
    BY <1>2, <2>2, TokensAre
  <2>5. CountText(decoded.text, options).tokens = tokens
    BY <1>2, <2>2, <2>3, <2>4, TokensAre
  <2> QED
    BY <1>2, <1>5, <1>7, <2>1, <2>4, <2>5 DEF Counted
<1>8. ASSUME Admits(command.limit, Len(bytes)),
             NEW reason \in {"unsupported encoding", "binary", "invalid UTF-8"},
             NEW detail \in {"none", "UTF-32LE", "UTF-32BE", "UTF-16LE", "UTF-16BE"},
             Skipping(bytes, reason, detail)
      PROVE  Refused(bytes, outcome)
  <2>1. decoded = [reason |-> reason, detail |-> detail] /\ SkipsFor(bytes) = {<<reason, detail>>}
    BY <1>4, <1>8 DEF Skipping
  <2>2. "reason" \in DOMAIN decoded
    BY <2>1
  <2>3. outcome = decoded
    BY <1>5, <1>8, <2>2
  <2> QED
    BY <1>8, <2>1, <2>3 DEF Refused
<1> QED
  BY <1>4, <1>6, <1>7, <1>8, DecodeIs

\* What is read of standard input is all of it, or too much.
LEMMA ReadBoundedIs ==
  ASSUME command \in Commands, ~Conflict
  PROVE  /\ command.stdin \in Seq(Int)
         /\ ReadBounded(command.limit) \in Seq(Int)
         /\ Admits(command.limit, Len(command.stdin)) => ReadBounded(command.limit) = command.stdin
         /\ ~Admits(command.limit, Len(command.stdin)) =>
              ~Admits(command.limit, Len(ReadBounded(command.limit)))
<1>1. command.stdin \in Seq(Int)
  <2>0. 0 .. 255 \in SUBSET Int
    OBVIOUS
  <2>1. PICK octets \in SUBSET Int : octets = 0 .. 255
    BY <2>0
  <2>2. PICK bytes \in Seq(octets) : bytes = command.stdin
    BY <2>1, CliAssumption
  <2>3. bytes \in Seq(Int)
    BY SeqWithin
  <2> QED
    BY <2>2, <2>3
<1>2. PICK bytes \in Seq(Int) : bytes = command.stdin
  BY <1>1
<1>3. PICK limit \in Nat \cup {Unlimited} : limit = command.limit
  BY LimitIs
<1>4. PICK read : read = ReadBounded(command.limit)
  OBVIOUS
<1>5. read = IF Admits(limit, Len(bytes)) THEN bytes ELSE SubSeq(bytes, 1, limit + 1)
  BY <1>2, <1>3, <1>4 DEF ReadBounded
<1>6. CASE Admits(limit, Len(bytes))
  BY <1>1, <1>2, <1>3, <1>4, <1>5, <1>6
<1>7. CASE ~Admits(limit, Len(bytes))
  <2>1. limit # Unlimited /\ limit \in Nat /\ limit + 1 =< Len(bytes)
    BY <1>7 DEF Admits
  <2>2. read = SubSeq(bytes, 1, limit + 1)
    BY <1>5, <1>7
  <2>3. PICK l \in Int : l = limit + 1 /\ 1 =< l /\ l =< Len(bytes) /\ 1 =< l + 1 /\ l - 1 + 1 = limit + 1
    BY <2>1
  <2>4. read \in Seq(Int) /\ Len(read) = l - 1 + 1
    BY <2>2, <2>3, PartIs
  <2>5. ~Admits(limit, Len(read))
    BY <2>1, <2>3, <2>4 DEF Admits
  <2> QED
    BY <1>1, <1>2, <1>3, <1>4, <1>7, <2>4, <2>5
<1> QED
  BY <1>6, <1>7
=============================================================================
