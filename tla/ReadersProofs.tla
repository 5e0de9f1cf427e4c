----------------------------- MODULE ReadersProofs -----------------------------
(* What holds of Readers for all files, however the reads cut them: the     *)
(* values that are given are the values of the file.                        *)
EXTENDS Readers, SequenceTheorems, FiniteSetTheorems, NaturalsInduction, WellFoundedInduction, TLAPS

-----------------------------------------------------------------------------
(***************************************************************************)
(* Numbers and sets of numbers.                                            *)
(***************************************************************************)
LEMMA LeastExists ==
  ASSUME NEW S \in SUBSET Nat, S # {}
  PROVE  \E i \in S : \A j \in S : i <= j
<1>1. IsWellFoundedOn({ss \in Nat \X Nat : ss[1] < ss[2]}, Nat)
  BY NatLessThanWellFounded DEF OpToRel
<1>2. PICK i \in S : \A j \in S : ~(<<j, i>> \in {ss \in Nat \X Nat : ss[1] < ss[2]})
  BY <1>1, WFMin
<1>3. ASSUME NEW j \in S PROVE i <= j
  <2>1. j \in Nat /\ i \in Nat
    OBVIOUS
  <2>2. j < i => <<j, i>> \in {ss \in Nat \X Nat : ss[1] < ss[2]}
    BY <2>1
  <2>. QED  BY <1>2, <2>1, <2>2
<1>. QED  BY <1>3

LEMMA LeastIsLeast ==
  ASSUME NEW S \in SUBSET Nat, S # {}
  PROVE  Least(S) \in S /\ \A j \in S : Least(S) <= j
BY LeastExists DEF Least

LEMMA LeastUnique ==
  ASSUME NEW S \in SUBSET Nat, NEW i \in S, \A j \in S : i <= j
  PROVE  Least(S) = i
<1>1. Least(S) \in S /\ \A j \in S : Least(S) <= j
  BY LeastIsLeast
<1>2. Least(S) <= i /\ i <= Least(S) /\ Least(S) \in Nat /\ i \in Nat
  BY <1>1
<1>. QED  BY <1>2

\* The n-th of the members is the one that has n - 1 below it.
LEMMA NthIs ==
  ASSUME NEW S \in SUBSET Nat, IsFiniteSet(S), NEW s \in S
  PROVE  /\ Cardinality({t \in S : t < s}) + 1 \in 1 .. Cardinality(S)
         /\ Nth(S, Cardinality({t \in S : t < s}) + 1) = s
<1>. DEFINE Below(r) == {t \in S : t < r}
<1>1. \A r \in S : IsFiniteSet(Below(r)) /\ Cardinality(Below(r)) \in Nat
  BY FS_Subset, FS_CardinalityType
<1>2. ASSUME NEW q \in S, NEW r \in S, q < r
      PROVE  Cardinality(Below(q)) < Cardinality(Below(r))
  <2>0. /\ \A t \in S : t < q => t < r
        /\ q < r /\ ~(q < q)
    BY <1>2
  <2>1. Below(q) \in SUBSET Below(r) /\ q \in Below(r) /\ q \notin Below(q)
    BY <2>0
  <2>2. Cardinality(Below(q)) <= Cardinality(Below(r)) /\ Cardinality(Below(q)) # Cardinality(Below(r))
    BY <1>1, <2>1, FS_Subset
  <2>. QED  BY <1>1, <2>2
<1>3. Cardinality(Below(s)) < Cardinality(S)
  <2>1. Below(s) \in SUBSET S /\ s \notin Below(s)
    OBVIOUS
  <2>2. Cardinality(Below(s)) <= Cardinality(S) /\ Cardinality(Below(s)) # Cardinality(S) /\ Cardinality(S) \in Nat
    BY <2>1, FS_Subset, FS_CardinalityType
  <2>. QED  BY <1>1, <2>2
<1>4. \A r \in S : Cardinality(Below(r)) = Cardinality(Below(s)) => r = s
  BY <1>1, <1>2
<1>5. Cardinality(S) \in Nat
  BY FS_CardinalityType
<1>6. Cardinality(Below(s)) \in Nat
  BY <1>1
<1>. DEFINE n == Cardinality(Below(s)) + 1
<1>7. n - 1 = Cardinality(Below(s)) /\ n \in 1 .. Cardinality(S)
  BY <1>3, <1>5, <1>6
<1>8. Nth(S, n) = CHOOSE r \in S : Cardinality(Below(r)) = n - 1
  BY DEF Nth
<1>9. s \in S /\ Cardinality(Below(s)) = n - 1 /\ \A r \in S : Cardinality(Below(r)) = n - 1 => r = s
  BY <1>4, <1>7
<1>10. Nth(S, n) = s
  <2>. HIDE DEF n, Below
  <2>. QED  BY <1>8, <1>9
<1>. QED  BY <1>7, <1>10

LEMMA SubSeqOfInterval ==
  ASSUME NEW T, NEW s \in Seq(T), NEW m \in Nat, NEW n \in Nat, 1 <= m, n <= Len(s), m <= n + 1
  PROVE  /\ SubSeq(s, m, n) \in Seq(T)
         /\ Len(SubSeq(s, m, n)) = n - m + 1
         /\ \A i \in 1 .. n - m + 1 : SubSeq(s, m, n)[i] = s[m + i - 1]
<1>1. \A i \in m .. n : s[i] \in T
  BY ElementOfSeq
<1>. QED  BY <1>1, SubSeqProperties

-----------------------------------------------------------------------------
(***************************************************************************)
(* The file and its values.                                                *)
(***************************************************************************)
Content == file.bytes
Cells == {file.bytes[i] : i \in DOMAIN file.bytes}
Marks == Complete(Good)              \* where the values begin
Upto(S, p) == {s \in S : s <= p}
NextMark(S, p, s) == s \in S /\ p < s /\ \A t \in S : t <= p \/ s <= t
MarkAfter(S, p) == CHOOSE s \in S : NextMark(S, p, s)
ValueFrom == [s \in Marks |-> ValueAt(Good, s)]
Apart == {Space, "[", "]"}           \* in a JSON file, what is not a digit
\* The byte at o and the next are digits of one number.
Cut(o) == o \in 1 .. Len(Content) - 1 /\ Content[o] \notin Apart /\ Content[o + 1] \notin Apart
\* Where a reader stands between two values.
Boundaries ==
  CASE file.format = "line" -> {p \in 0 .. Len(Content) : p = 0 \/ p = Len(Content) \/ Content[p] = LF}
    [] file.format = "json" -> {p \in 0 .. Len(Good) : Depth(Content, 1, p) = 0 /\ ~Cut(p)}
    [] OTHER -> FirstRow(file) .. Len(Content)

LEMMA ContentType ==
  ASSUME file \in Files
  PROVE  /\ Content \in Seq(Cells) /\ Len(Content) \in Nat /\ DOMAIN Content = 1 .. Len(Content)
         /\ file.format \in {"line", "json", "csv", "list"}
         /\ file.random \in BOOLEAN /\ file.repeat \in BOOLEAN /\ file.headers \in BOOLEAN
<1>1. /\ Content \in Seq(Cells) /\ file.format \in {"line", "json", "csv", "list"}
      /\ {file.random, file.repeat, file.headers} \subseteq BOOLEAN
  BY FilesAssumption DEF Content, Cells
<1>2. Len(Content) \in Nat /\ DOMAIN Content = 1 .. Len(Content)
  BY <1>1, LenProperties
<1>. QED  BY <1>1, <1>2

\* A part of a part of the file.
LEMMA Parts ==
  ASSUME file \in Files, NEW p \in Nat, NEW o \in Nat, p <= o, o <= Len(Content)
  PROVE  /\ SubSeq(Content, p + 1, o) \in Seq(Cells) /\ Len(SubSeq(Content, p + 1, o)) = o - p
         /\ DOMAIN SubSeq(Content, p + 1, o) = 1 .. o - p
         /\ \A k \in 1 .. o - p : SubSeq(Content, p + 1, o)[k] = Content[p + k]
<1>1. Content \in Seq(Cells) /\ Len(Content) \in Nat /\ p + 1 \in Nat /\ 1 <= p + 1 /\ p + 1 <= o + 1
  BY ContentType
<1>2. /\ SubSeq(Content, p + 1, o) \in Seq(Cells)
      /\ Len(SubSeq(Content, p + 1, o)) = o - (p + 1) + 1
      /\ \A k \in 1 .. o - (p + 1) + 1 : SubSeq(Content, p + 1, o)[k] = Content[p + 1 + k - 1]
  BY <1>1, SubSeqOfInterval
<1>3. o - (p + 1) + 1 = o - p /\ \A k \in 1 .. o - p : p + 1 + k - 1 = p + k
  OBVIOUS
<1>4. DOMAIN SubSeq(Content, p + 1, o) = 1 .. Len(SubSeq(Content, p + 1, o))
  BY <1>2, LenProperties
<1>. QED  BY <1>2, <1>3, <1>4

LEMMA PartsOfParts ==
  ASSUME file \in Files, NEW p \in Nat, NEW o \in Nat, p <= o, o <= Len(Content), NEW m \in 0 .. o - p
  PROVE  /\ SubSeq(SubSeq(Content, p + 1, o), m + 1, o - p) = SubSeq(Content, p + m + 1, o)
         /\ SubSeq(SubSeq(Content, p + 1, o), 1, m) = SubSeq(Content, p + 1, p + m)
<1>. DEFINE part == SubSeq(Content, p + 1, o)
<1>1. /\ part \in Seq(Cells) /\ Len(part) = o - p
      /\ \A k \in 1 .. o - p : part[k] = Content[p + k]
  BY Parts
<1>2. /\ m \in Nat /\ p + m \in Nat /\ p + m <= o /\ p <= p + m /\ p + m <= Len(Content) /\ Len(Content) \in Nat
      /\ o - p \in Nat /\ m <= o - p /\ 1 <= m + 1 /\ m + 1 \in Nat /\ m + 1 <= o - p + 1
  BY ContentType
<1>3. /\ SubSeq(part, m + 1, o - p) \in Seq(Cells)
      /\ Len(SubSeq(part, m + 1, o - p)) = (o - p) - (m + 1) + 1
      /\ \A k \in 1 .. (o - p) - (m + 1) + 1 : SubSeq(part, m + 1, o - p)[k] = part[m + 1 + k - 1]
  <2>. HIDE DEF part
  <2>. QED  BY <1>1, <1>2, SubSeqOfInterval
<1>4. /\ SubSeq(Content, p + m + 1, o) \in Seq(Cells) /\ Len(SubSeq(Content, p + m + 1, o)) = o - (p + m)
      /\ \A k \in 1 .. o - (p + m) : SubSeq(Content, p + m + 1, o)[k] = Content[p + m + k]
  BY <1>2, Parts
<1>5. SubSeq(part, m + 1, o - p) = SubSeq(Content, p + m + 1, o)
  <2>. HIDE DEF part
  <2>1. (o - p) - (m + 1) + 1 = o - (p + m)
    BY <1>2
  <2>2. ASSUME NEW k \in 1 .. o - (p + m)
        PROVE  SubSeq(part, m + 1, o - p)[k] = SubSeq(Content, p + m + 1, o)[k]
    <3>1. m + 1 + k - 1 = m + k /\ m + k \in 1 .. o - p /\ p + (m + k) = p + m + k
      BY <1>2
    <3>. QED  BY <1>1, <1>3, <1>4, <2>1, <3>1
  <2>. DEFINE tail == SubSeq(part, m + 1, o - p)
              same == SubSeq(Content, p + m + 1, o)
  <2>3. /\ tail \in Seq(Cells) /\ same \in Seq(Cells) /\ Len(tail) = Len(same)
        /\ \A k \in 1 .. Len(tail) : tail[k] = same[k]
    BY <1>3, <1>4, <2>1, <2>2
  <2>. QED  BY <2>3, SeqEqual
<1>6. /\ SubSeq(part, 1, m) \in Seq(Cells)
      /\ Len(SubSeq(part, 1, m)) = m - 1 + 1
      /\ \A k \in 1 .. m - 1 + 1 : SubSeq(part, 1, m)[k] = part[1 + k - 1]
  <2>. HIDE DEF part
  <2>1. 1 \in Nat /\ 1 <= 1 /\ 1 <= m + 1
    BY <1>2
  <2>. QED  BY <1>1, <1>2, <2>1, SubSeqOfInterval
<1>7. /\ SubSeq(Content, p + 1, p + m) \in Seq(Cells) /\ Len(SubSeq(Content, p + 1, p + m)) = (p + m) - p
      /\ \A k \in 1 .. (p + m) - p : SubSeq(Content, p + 1, p + m)[k] = Content[p + k]
  BY <1>2, Parts
<1>8. SubSeq(part, 1, m) = SubSeq(Content, p + 1, p + m)
  <2>. HIDE DEF part
  <2>1. m - 1 + 1 = m /\ (p + m) - p = m /\ \A k \in 1 .. m : 1 + k - 1 = k /\ k \in 1 .. o - p
    BY <1>2
  <2>. QED  BY <1>1, <1>6, <1>7, <2>1, SeqEqual
<1>. QED  BY <1>5, <1>8

LEMMA PartsJoined ==
  ASSUME file \in Files, NEW p \in Nat, NEW o \in Nat, p <= o, NEW n \in Nat, o + n <= Len(Content)
  PROVE  SubSeq(Content, p + 1, o) \o SubSeq(Content, o + 1, o + n) = SubSeq(Content, p + 1, o + n)
<1>1. /\ Content \in Seq(Cells) /\ Len(Content) \in Nat
      /\ p + 1 \in 1 .. Len(Content) + 1 /\ o \in (p + 1) - 1 .. Len(Content) /\ o + n \in o .. Len(Content)
  BY ContentType
<1>. QED  BY <1>1, ConcatAdjacentSubSeq

\* The part of the file before what is wrong.
LEMMA GoodIs ==
  ASSUME file \in Files
  PROVE  /\ Len(Good) \in 0 .. Len(Content) /\ Good = SubSeq(Content, 1, Len(Good))
         /\ \A i \in 1 .. Len(Good) : ~Wrong(Content, i)
         /\ ~WellFormed => Len(Good) < Len(Content) /\ Wrong(Content, Len(Good) + 1)
         /\ WellFormed => Len(Good) = Len(Content)
<1>. DEFINE wrong == {i \in DOMAIN Content : Wrong(Content, i)}
<1>1. Content \in Seq(Cells) /\ Len(Content) \in Nat /\ DOMAIN Content = 1 .. Len(Content)
  BY ContentType
<1>2. Good = IF wrong = {} THEN Content ELSE SubSeq(Content, 1, Least(wrong) - 1)
  BY DEF Good, Content
<1>3. WellFormed <=> Good = Content
  BY DEF WellFormed, Content
<1>4. wrong \in SUBSET Nat
  BY <1>1
<1>5. CASE wrong = {}
  <2>1. Good = Content
    BY <1>2, <1>5
  <2>2. Content = SubSeq(Content, 1, Len(Content))
    BY <1>1, SubSeqFull
  <2>. QED  BY <1>1, <1>3, <1>5, <2>1, <2>2
<1>6. CASE wrong # {}
  <2>. DEFINE w == Least(wrong)
  <2>1. w \in wrong /\ \A j \in wrong : w <= j
    BY <1>4, <1>6, LeastIsLeast
  <2>2. w \in 1 .. Len(Content) /\ Wrong(Content, w)
    BY <1>1, <2>1
  <2>. HIDE DEF w
  <2>3. Good = SubSeq(Content, 1, w - 1)
    BY <1>2, <1>6 DEF w
  <2>4. Len(Good) = w - 1
    <3>1. 1 \in Nat /\ w - 1 \in Nat /\ 1 <= 1 /\ w - 1 <= Len(Content) /\ 1 <= (w - 1) + 1
      BY <1>1, <2>2
    <3>2. Len(SubSeq(Content, 1, w - 1)) = (w - 1) - 1 + 1
      BY <1>1, <3>1, SubSeqOfInterval
    <3>. QED  BY <2>2, <2>3, <3>2
  <2>5. \A i \in 1 .. w - 1 : ~Wrong(Content, i)
    <3>1. SUFFICES ASSUME NEW i \in 1 .. w - 1, Wrong(Content, i) PROVE FALSE
      OBVIOUS
    <3>2. i \in DOMAIN Content /\ i < w
      BY <1>1, <2>2
    <3>3. i \in wrong
      BY <3>1, <3>2
    <3>. QED  BY <2>1, <3>2, <3>3, <2>2
  <2>. HIDE DEF wrong
  <2>6. Len(Good) < Len(Content) /\ Len(Good) \in 0 .. Len(Content) /\ Len(Good) + 1 = w
    BY <1>1, <2>2, <2>4
  <2>7. ~WellFormed
    BY <1>3, <2>6, <1>1
  <2>. QED  BY <2>2, <2>3, <2>4, <2>5, <2>6, <2>7
<1>. QED  BY <1>5, <1>6

LEMMA GoodType ==
  ASSUME file \in Files
  PROVE  /\ Good \in Seq(Cells) /\ Len(Good) \in Nat /\ Len(Good) <= Len(Content) /\ DOMAIN Good = 1 .. Len(Good)
         /\ \A i \in 1 .. Len(Good) : Good[i] = Content[i]
<1>1. Len(Good) \in Nat /\ Len(Good) <= Len(Content) /\ Good = SubSeq(Content, 1, Len(Good))
  <2>1. Len(Good) \in 0 .. Len(Content) /\ Good = SubSeq(Content, 1, Len(Good))
    BY GoodIs
  <2>2. Len(Content) \in Nat
    BY ContentType
  <2>. QED  BY <2>1, <2>2
<1>2. /\ SubSeq(Content, 0 + 1, Len(Good)) \in Seq(Cells)
      /\ DOMAIN SubSeq(Content, 0 + 1, Len(Good)) = 1 .. Len(Good) - 0
      /\ \A k \in 1 .. Len(Good) - 0 : SubSeq(Content, 0 + 1, Len(Good))[k] = Content[0 + k]
  BY <1>1, Parts
<1>3. 0 + 1 = 1 /\ Len(Good) - 0 = Len(Good) /\ \A k \in 1 .. Len(Good) : 0 + k = k
  BY <1>1
<1>. QED  BY <1>1, <1>2, <1>3

\* Only a csv or JSON file can be wrong.
LEMMA MostlyGood ==
  ASSUME file \in Files, file.format \in {"line", "list"}
  PROVE  Good = Content /\ WellFormed
<1>1. \A i : ~Wrong(Content, i)
  BY DEF Wrong
<1>2. WellFormed
  BY <1>1, GoodIs
<1>. QED  BY <1>2 DEF WellFormed, Content

LEMMA MarksAre ==
  ASSUME file \in Files
  PROVE  /\ Marks \in SUBSET Nat /\ Marks \subseteq 1 .. Len(Good) /\ IsFiniteSet(Marks)
         /\ Cardinality(Marks) \in Nat
         /\ Len(Values) = Cardinality(Marks) /\ DOMAIN Values = 1 .. Cardinality(Marks)
         /\ \A n \in 1 .. Cardinality(Marks) : Values[n] = ValueAt(Good, Nth(Marks, n))
<1>1. DOMAIN Good = 1 .. Len(Good) /\ Len(Good) \in Nat
  BY GoodType
<1>2. Starts(Good) \subseteq 1 .. Len(Good)
  <2>1. CASE file.format = "line"
    BY <1>1, <2>1 DEF Starts
  <2>2. CASE file.format = "json"
    BY <1>1, <2>2 DEF Starts
  <2>3. CASE file.format \notin {"line", "json"}
    <3>1. Starts(Good) = FirstRow(file) + 1 .. Len(Good)
      BY <2>3 DEF Starts
    <3>2. FirstRow(file) \in {0, 1}
      BY DEF FirstRow
    <3>. QED  BY <1>1, <3>1, <3>2
  <2>. QED  BY <2>1, <2>2, <2>3
<1>3. Marks \subseteq 1 .. Len(Good)
  BY <1>2 DEF Marks, Complete
<1>4. Marks \in SUBSET Nat /\ IsFiniteSet(1 .. Len(Good))
  BY <1>1, <1>3, FS_Interval
<1>5. IsFiniteSet(Marks)
  BY <1>3, <1>4, FS_Subset
<1>6. Cardinality(Marks) \in Nat
  BY <1>5, FS_CardinalityType
<1>7. Values = [n \in 1 .. Cardinality(Marks) |-> ValueAt(Good, Nth(Marks, n))]
  BY DEF Values, ValuesOf, Marks
<1>8. Len(Values) = Cardinality(Marks)
  BY <1>6, <1>7
<1>. QED  BY <1>3, <1>4, <1>5, <1>6, <1>7, <1>8

LEMMA UptoIs ==
  ASSUME file \in Files, NEW p \in Nat
  PROVE  /\ Upto(Marks, p) \in SUBSET Marks /\ IsFiniteSet(Upto(Marks, p)) /\ Cardinality(Upto(Marks, p)) \in Nat
         /\ Cardinality(Upto(Marks, p)) <= Len(Values)
         /\ Cardinality(Upto(Marks, p)) = Len(Values) <=> \A t \in Marks : t <= p
<1>1. Upto(Marks, p) \in SUBSET Marks /\ IsFiniteSet(Marks) /\ Len(Values) = Cardinality(Marks)
  BY MarksAre DEF Upto
<1>2. IsFiniteSet(Upto(Marks, p)) /\ Cardinality(Upto(Marks, p)) <= Cardinality(Marks)
      /\ (Cardinality(Marks) = Cardinality(Upto(Marks, p)) => Marks = Upto(Marks, p))
  BY <1>1, FS_Subset
<1>3. Marks = Upto(Marks, p) <=> \A t \in Marks : t <= p
  BY DEF Upto
<1>. QED  BY <1>1, <1>2, <1>3, FS_CardinalityType

\* The value that begins at the next mark is the next one of the file.
LEMMA NextValue ==
  ASSUME file \in Files, NEW p \in Nat, NEW s, NextMark(Marks, p, s)
  PROVE  /\ Cardinality(Upto(Marks, p)) + 1 \in 1 .. Len(Values)
         /\ Values[Cardinality(Upto(Marks, p)) + 1] = ValueAt(Good, s)
         /\ Cardinality(Upto(Marks, p) \cup {s}) = Cardinality(Upto(Marks, p)) + 1
<1>1. Marks \in SUBSET Nat /\ IsFiniteSet(Marks) /\ Len(Values) = Cardinality(Marks) /\ s \in Marks /\ s \in Nat
  BY MarksAre DEF NextMark
<1>2. \A t \in Marks : t < s <=> t <= p
  BY <1>1 DEF NextMark
<1>3. {t \in Marks : t < s} = Upto(Marks, p)
  BY <1>2 DEF Upto
<1>4. /\ Cardinality(Upto(Marks, p)) + 1 \in 1 .. Cardinality(Marks)
      /\ Nth(Marks, Cardinality(Upto(Marks, p)) + 1) = s
  <2>1. /\ Cardinality({t \in Marks : t < s}) + 1 \in 1 .. Cardinality(Marks)
        /\ Nth(Marks, Cardinality({t \in Marks : t < s}) + 1) = s
    BY <1>1, NthIs
  <2>. QED  BY <1>3, <2>1
<1>5. s \notin Upto(Marks, p) /\ IsFiniteSet(Upto(Marks, p))
  BY <1>1, UptoIs DEF NextMark, Upto
<1>6. Cardinality(Upto(Marks, p) \cup {s}) = Cardinality(Upto(Marks, p)) + 1
  BY <1>5, FS_AddElement
<1>. QED  BY <1>1, <1>4, <1>6, MarksAre

\* Without the carriage returns at its end a line is the part of it before them.
LEMMA WithoutCRIs ==
  ASSUME NEW T, NEW s \in Seq(T)
  PROVE  \E k \in 0 .. Len(s) : WithoutCR(s) = SubSeq(s, 1, k)
<1>. DEFINE ends == {i \in 0 .. Len(s) : \A j \in i + 1 .. Len(s) : s[j] = CR}
<1>1. Len(s) \in Nat
  BY LenProperties
<1>2. ends \in SUBSET Nat /\ Len(s) \in ends
  BY <1>1
<1>3. Least(ends) \in ends
  BY <1>2, LeastIsLeast
<1>4. Least(ends) \in 0 .. Len(s)
  BY <1>3
<1>. QED  BY <1>4 DEF WithoutCR

\* What is between the brackets of a part of a file is not the error.
LEMMA PartsAreValues ==
  ASSUME file \in Files, Bytewise, NEW p \in Nat, NEW o \in Nat, p <= o, o <= Len(Content),
         NEW k \in 0 .. o - p, NEW v, v = SubSeq(SubSeq(Content, p + 1, o), 1, k)
  PROVE  v \in Seq(Cells) /\ v # Error
<1>1. k \in Nat /\ p + k \in Nat /\ p <= p + k /\ p + k <= Len(Content) /\ v = SubSeq(Content, p + 1, p + k)
  BY PartsOfParts, ContentType
<1>2. /\ v \in Seq(Cells) /\ Len(v) = k /\ \A i \in 1 .. k : v[i] = Content[p + i]
  <2>. DEFINE o1 == p + k
  <2>1. o1 - p = k /\ o1 \in Nat /\ p <= o1 /\ o1 <= Len(Content) /\ v = SubSeq(Content, p + 1, o1)
    BY <1>1
  <2>. HIDE DEF o1
  <2>2. /\ SubSeq(Content, p + 1, o1) \in Seq(Cells) /\ Len(SubSeq(Content, p + 1, o1)) = o1 - p
        /\ \A i \in 1 .. o1 - p : SubSeq(Content, p + 1, o1)[i] = Content[p + i]
    BY <2>1, Parts
  <2>. QED  BY <2>1, <2>2
<1>3. SUFFICES ASSUME v = Error PROVE FALSE
  BY <1>2
<1>4. Len(v) = 1 /\ v[1] = "error"
  <2>1. Len(<<"error">>) = 1 /\ <<"error">>[1] = "error"
    OBVIOUS
  <2>. QED  BY <1>3, <2>1 DEF Error
<1>5. 1 \in 1 .. k /\ p + 1 \in 1 .. Len(Content)
  BY <1>1, <1>2, <1>4, ContentType
<1>6. Content[p + 1] = "error" /\ p + 1 \in DOMAIN Content
  BY <1>2, <1>4, <1>5, ContentType
<1>7. \A i \in DOMAIN Content : Content[i] # "error"
  BY FilesAssumption DEF Content, Bytewise
<1>. QED  BY <1>6, <1>7

-----------------------------------------------------------------------------
(***************************************************************************)
(* What get_value finds, where it stands after it, and what it misses.     *)
(***************************************************************************)
\* The reader stands at p and has read up to o; it finds the value at s and moves to q.
FindsNext(p, o, buf, found, s, q) ==
  /\ NextMark(Marks, p, s) /\ Upto(Marks, q) = Upto(Marks, p) \cup {s}
  /\ found.value = ValueAt(Good, s) /\ found.value \in Seq(Cells) /\ found.value # Error
  /\ found.size \in 0 .. o - p /\ found.moved \in Nat
  /\ q \in Nat /\ p <= q /\ q <= o
  /\ SubSeq(buf, found.moved + 1, Len(buf)) = SubSeq(Content, q + 1, o)
  /\ q = p + found.moved \/ q = Len(Content)

LEMMA LineMarks ==
  ASSUME file \in Files, file.format = "line"
  PROVE  /\ Marks = {i \in 1 .. Len(Content) : i = 1 \/ Content[i - 1] = LF}
         /\ Boundaries = {p \in 0 .. Len(Content) : p = 0 \/ p = Len(Content) \/ Content[p] = LF}
         /\ WellFormed /\ Good = Content
         /\ \A s \in Marks : Ends(Content, s) = {e \in s .. Len(Content) + 1 : e = Len(Content) + 1 \/ Content[e] = LF}
<1>1. Good = Content /\ WellFormed
  BY MostlyGood
<1>2. DOMAIN Content = 1 .. Len(Content) /\ Len(Content) \in Nat
  BY ContentType
<1>3. Starts(Content) = {i \in 1 .. Len(Content) : i = 1 \/ Content[i - 1] = LF}
  BY <1>2 DEF Starts
<1>4. \A s : Ends(Content, s) = {e \in s .. Len(Content) + 1 : e = Len(Content) + 1 \/ Content[e] = LF}
  BY DEF Ends, IsEnd
<1>5. \A s \in Starts(Content) : Len(Content) + 1 \in Ends(Content, s)
  BY <1>2, <1>3, <1>4
<1>6. Marks = Starts(Content)
  BY <1>1, <1>5 DEF Marks, Complete
<1>. QED  BY <1>1, <1>3, <1>4, <1>6 DEF Boundaries

LEMMA BoundariesType ==
  ASSUME file \in Files, NEW p \in Boundaries
  PROVE  p \in Nat /\ p <= Len(Content) /\ Len(Content) \in Nat
<1>1. Len(Content) \in Nat /\ Len(Good) \in Nat /\ Len(Good) <= Len(Content) /\ FirstRow(file) \in {0, 1}
  BY ContentType, GoodType DEF FirstRow
<1>2. CASE file.format = "line"
  BY <1>1, <1>2 DEF Boundaries
<1>3. CASE file.format = "json"
  BY <1>1, <1>3 DEF Boundaries
<1>4. CASE file.format \notin {"line", "json"}
  <2>1. p \in FirstRow(file) .. Len(Content)
    BY <1>4 DEF Boundaries
  <2>. QED  BY <1>1, <2>1
<1>. QED  BY <1>2, <1>3, <1>4

\* The next line begins where the reader stands.
LEMMA NextLine ==
  ASSUME file \in Files, file.format = "line", NEW p \in Boundaries, p < Len(Content)
  PROVE  NextMark(Marks, p, p + 1)
<1>1. /\ Len(Content) \in Nat /\ p \in Nat /\ (p = 0 \/ Content[p] = LF)
  BY LineMarks, ContentType
<1>2. p + 1 \in 1 .. Len(Content) /\ p + 1 - 1 = p /\ (p = 0 => p + 1 = 1)
  BY <1>1
<1>3. p + 1 \in Marks
  BY <1>1, <1>2, LineMarks
<1>4. \A t \in Marks : t \in Nat
  BY MarksAre
<1>5. \A t \in Marks : t <= p \/ p + 1 <= t
  BY <1>1, <1>4
<1>. QED  BY <1>1, <1>3, <1>5 DEF NextMark

\* The line ends at e, and the reader moves on to q.
LEMMA LineEnds ==
  ASSUME file \in Files, file.format = "line", NEW p \in Boundaries,
         NEW e \in p + 1 .. Len(Content) + 1, NEW q \in p + 1 .. Len(Content),
         e = Len(Content) + 1 \/ Content[e] = LF,
         \A k \in p + 1 .. e - 1 : k <= Len(Content) /\ Content[k] # LF,
         q = e \/ (q = Len(Content) /\ e = q + 1)
  PROVE  /\ q \in Boundaries
         /\ Upto(Marks, q) = Upto(Marks, p) \cup {p + 1}
         /\ ValueAt(Good, p + 1) = WithoutCR(SubSeq(Content, p + 1, e - 1))
<1>1. /\ Len(Content) \in Nat /\ p \in Nat /\ p < Len(Content) /\ e \in Nat /\ q \in Nat /\ p < e /\ e <= Len(Content) + 1
      /\ p < q /\ q <= Len(Content) /\ q <= e
  <2>1. Len(Content) \in Nat /\ p \in Nat
    BY BoundariesType
  <2>. QED  BY <2>1
<1>2. NextMark(Marks, p, p + 1)
  BY <1>1, NextLine
<1>3. Least(Ends(Content, p + 1)) = e
  <2>. DEFINE E == {x \in p + 1 .. Len(Content) + 1 : x = Len(Content) + 1 \/ Content[x] = LF}
  <2>1. Ends(Content, p + 1) = E
    BY <1>2, LineMarks DEF NextMark
  <2>2. E \in SUBSET Nat /\ e \in E
    BY <1>1
  <2>3. \A x \in E : e <= x
    <3>1. SUFFICES ASSUME NEW x \in E, x < e PROVE FALSE
      BY <1>1
    <3>2. x \in p + 1 .. e - 1
      BY <1>1, <3>1
    <3>3. x <= Len(Content) /\ Content[x] # LF
      BY <3>2
    <3>4. x = Len(Content) + 1 \/ Content[x] = LF
      BY <3>1
    <3>. QED  BY <1>1, <3>2, <3>3, <3>4
  <2>. HIDE DEF E
  <2>4. Least(E) = e
    BY <2>2, <2>3, LeastUnique
  <2>. QED  BY <2>1, <2>4
<1>4. ValueAt(Good, p + 1) = WithoutCR(SubSeq(Content, p + 1, e - 1))
  BY <1>3, LineMarks DEF ValueAt
<1>5. Upto(Marks, q) = Upto(Marks, p) \cup {p + 1}
  <2>1. ASSUME NEW t \in Marks PROVE t <= q <=> (t <= p \/ t = p + 1)
    <3>1. t \in 1 .. Len(Content) /\ (t = 1 \/ Content[t - 1] = LF)
      BY LineMarks
    <3>2. t <= q /\ p + 1 < t => t - 1 \in p + 1 .. e - 1 /\ t # 1
      BY <1>1, <3>1
    <3>3. t <= q /\ p + 1 < t => FALSE
      BY <3>1, <3>2
    <3>. QED  BY <1>1, <3>1, <3>3
  <2>2. p + 1 \in Marks
    BY <1>2 DEF NextMark
  <2>. QED  BY <2>1, <2>2 DEF Upto
<1>6. q \in Boundaries
  <2>1. q \in 0 .. Len(Content) /\ (q = Len(Content) \/ Content[q] = LF)
    BY <1>1
  <2>. QED  BY <2>1, LineMarks
<1>. QED  BY <1>4, <1>5, <1>6

\* What has been read up to o holds the line, which is found.
LEMMA LineFound ==
  ASSUME file \in Files, file.format = "line", NEW p \in Boundaries,
         NEW o \in Nat, o <= Len(Content), NEW e \in Nat, NEW q \in p + 1 .. o,
         e = Len(Content) + 1 \/ Content[e] = LF, e - 1 <= o, p + 1 <= e,
         \A k \in p + 1 .. e - 1 : k <= Len(Content) /\ Content[k] # LF,
         q = e \/ (q = Len(Content) /\ e = q + 1),
         NEW found,
         found = Found(WithoutCR(SubSeq(SubSeq(Content, p + 1, o), 1, e - 1 - p)), e - 1 - p, e - p)
  PROVE  q \in Boundaries /\ FindsNext(p, o, SubSeq(Content, p + 1, o), found, p + 1, q)
<1>1. /\ Len(Content) \in Nat /\ p \in Nat /\ p < o /\ q \in Nat /\ p < q /\ q <= o
      /\ e \in p + 1 .. Len(Content) + 1 /\ q \in p + 1 .. Len(Content) /\ p < Len(Content)
  <2>1. Len(Content) \in Nat /\ p \in Nat
    BY BoundariesType
  <2>. QED  BY <2>1
<1>2. /\ q \in Boundaries /\ Upto(Marks, q) = Upto(Marks, p) \cup {p + 1}
      /\ ValueAt(Good, p + 1) = WithoutCR(SubSeq(Content, p + 1, e - 1))
      /\ NextMark(Marks, p, p + 1)
  BY <1>1, LineEnds, NextLine
<1>. DEFINE n == e - 1 - p
            buf == SubSeq(Content, p + 1, o)
<1>3. n \in 0 .. o - p /\ p + n = e - 1 /\ e - p \in Nat /\ o - p \in Nat
  BY <1>1
<1>4. SubSeq(buf, 1, n) = SubSeq(Content, p + 1, e - 1) /\ Len(buf) = o - p
  BY <1>1, <1>3, PartsOfParts, Parts
<1>5. found.value = WithoutCR(SubSeq(Content, p + 1, e - 1)) /\ found.size = n /\ found.moved = e - p
  BY <1>4 DEF Found
<1>6. found.value \in Seq(Cells) /\ found.value # Error
  <2>. DEFINE line == SubSeq(Content, p + 1, e - 1)
  <2>1. e - 1 \in Nat /\ p <= e - 1 /\ e - 1 <= Len(Content) /\ e - 1 - p \in Nat
    BY <1>1
  <2>2. line \in Seq(Cells) /\ Len(line) = e - 1 - p
    BY <1>1, <2>1, Parts
  <2>. HIDE DEF line
  <2>3. PICK k \in 0 .. Len(line) : WithoutCR(line) = SubSeq(line, 1, k)
    BY <2>2, WithoutCRIs
  <2>4. found.value = SubSeq(line, 1, k)
    BY <1>5, <2>3 DEF line
  <2>5. k \in 0 .. e - 1 - p /\ Bytewise
    BY <2>2, <2>3 DEF Bytewise
  <2>. QED  BY <1>1, <2>1, <2>4, <2>5, PartsAreValues DEF line
<1>7. SubSeq(buf, e - p + 1, Len(buf)) = SubSeq(Content, q + 1, o)
  <2>. HIDE DEF buf
  <2>1. CASE q = e
    <3>. DEFINE m == e - p
    <3>1. m \in 0 .. o - p /\ p + m = q
      BY <1>1, <2>1
    <3>. HIDE DEF m
    <3>2. SubSeq(buf, m + 1, o - p) = SubSeq(Content, p + m + 1, o)
      BY <1>1, <3>1, PartsOfParts DEF buf
    <3>3. SubSeq(buf, m + 1, Len(buf)) = SubSeq(Content, q + 1, o)
      BY <1>4, <3>1, <3>2
    <3>. QED  BY <3>3 DEF m
  <2>2. CASE q = Len(Content) /\ e = q + 1
    <3>1. o = q /\ Len(buf) < e - p + 1 /\ o < q + 1 /\ e - p + 1 \in Int /\ Len(buf) \in Int /\ q + 1 \in Int
      BY <1>1, <1>4, <2>2
    <3>. QED  BY <3>1, SubSeqEmpty
  <2>. QED  BY <2>1, <2>2
<1>8. q = p + found.moved \/ q = Len(Content)
  BY <1>1, <1>5
<1>9. SubSeq(buf, found.moved + 1, Len(buf)) = SubSeq(Content, q + 1, o)
  BY <1>5, <1>7
<1>10. found.value = ValueAt(Good, p + 1) /\ found.size \in 0 .. o - p /\ found.moved \in Nat
  BY <1>2, <1>3, <1>5
<1>11. p <= q
  BY <1>1
<1>. HIDE DEF n, buf
<1>. QED  BY <1>1, <1>2, <1>6, <1>8, <1>9, <1>10, <1>11 DEF FindsNext, buf

LEMMA FindsLine ==
  ASSUME file \in Files, file.format = "line",
         NEW p \in Boundaries, NEW o \in Nat, p <= o, o <= Len(Content), NEW ended
  PROVE  LET buf == SubSeq(Content, p + 1, o)
             found == FindLine(buf, ended)
         IN \/ found = Nothing /\ ~ended
            \/ buf = <<>> /\ ended
            \/ found # Nothing /\ ended /\ o # Len(Content)
            \/ found # Nothing /\ found # Malformed /\ \E s, q : q \in Boundaries /\ FindsNext(p, o, buf, found, s, q)
<1>. DEFINE buf == SubSeq(Content, p + 1, o)
            found == FindLine(buf, ended)
            newlines == {i \in DOMAIN buf : buf[i] = LF}
<1>1. Len(Content) \in Nat /\ p \in Nat
  BY BoundariesType
<1>2. /\ buf \in Seq(Cells) /\ Len(buf) = o - p /\ DOMAIN buf = 1 .. o - p
      /\ \A k \in 1 .. o - p : buf[k] = Content[p + k]
  BY <1>1, Parts
<1>3. found = IF newlines # {} THEN Found(WithoutCR(SubSeq(buf, 1, Least(newlines) - 1)), Least(newlines) - 1, Least(newlines))
              ELSE IF ended THEN Found(WithoutCR(buf), Len(buf), Len(buf) + 1) ELSE Nothing
  BY DEF FindLine
<1>. HIDE DEF buf, found
<1>4. newlines \in SUBSET Nat
  BY <1>2
<1>5. CASE newlines # {}
  <2>. DEFINE i == Least(newlines)
  <2>1. i \in newlines /\ \A j \in newlines : i <= j
    BY <1>4, <1>5, LeastIsLeast
  <2>2. found = Found(WithoutCR(SubSeq(buf, 1, i - 1)), i - 1, i)
    BY <1>3, <1>5
  <2>3. i \in 1 .. o - p /\ buf[i] = LF /\ Content[p + i] = LF
    BY <1>2, <2>1
  <2>. HIDE DEF i
  <2>4. ASSUME NEW k \in p + 1 .. p + i - 1 PROVE k <= Len(Content) /\ Content[k] # LF
    <3>1. k - p \in 1 .. o - p /\ k - p < i /\ ~(i <= k - p) /\ p + (k - p) = k /\ k <= Len(Content)
      BY <1>1, <2>3
    <3>2. buf[k - p] = Content[k]
      BY <1>2, <3>1
    <3>3. k - p \notin newlines
      BY <2>1, <3>1
    <3>4. buf[k - p] # LF
      BY <1>2, <3>1, <3>3
    <3>. QED  BY <3>1, <3>2, <3>4
  <2>. DEFINE e == p + i
  <2>5. e \in Nat /\ e \in p + 1 .. o /\ e - 1 <= o /\ p + 1 <= e /\ e - 1 - p = i - 1 /\ e - p = i
    BY <1>1, <2>3
  <2>6. found = Found(WithoutCR(SubSeq(SubSeq(Content, p + 1, o), 1, e - 1 - p)), e - 1 - p, e - p)
    BY <2>2, <2>5 DEF buf
  <2>7. Content[e] = LF /\ \A k \in p + 1 .. e - 1 : k <= Len(Content) /\ Content[k] # LF
    <3>1. Content[e] = LF
      BY <2>3
    <3>2. ASSUME NEW k \in p + 1 .. e - 1 PROVE k <= Len(Content) /\ Content[k] # LF
      <4>1. k \in p + 1 .. p + i - 1
        BY <1>1, <2>3
      <4>. QED  BY <2>4, <4>1
    <3>. QED  BY <3>1, <3>2
  <2>. HIDE DEF e
  <2>8. e \in Boundaries /\ FindsNext(p, o, SubSeq(Content, p + 1, o), found, p + 1, e)
    BY <2>5, <2>6, <2>7, LineFound
  <2>9. found.size # -1
    BY <2>2, <2>3 DEF Found
  <2>10. found # Nothing /\ found # Malformed
    BY <2>9 DEF Found, Nothing, Malformed
  <2>. QED  BY <2>8, <2>10 DEF buf, found
<1>6. CASE newlines = {} /\ ended /\ o = Len(Content) /\ buf # <<>>
  <2>1. found = Found(WithoutCR(buf), Len(buf), Len(buf) + 1)
    BY <1>3, <1>6
  <2>2. p < o
    <3>1. Len(buf) # 0
      BY <1>2, <1>6, EmptySeq
    <3>. QED  BY <1>1, <1>2, <3>1
  <2>3. SubSeq(buf, 1, Len(buf)) = buf
    BY <1>2, SubSeqFull
  <2>. DEFINE e == o + 1
  <2>4. \A k \in p + 1 .. e - 1 : k <= Len(Content) /\ Content[k] # LF
    <3>1. TAKE k \in p + 1 .. e - 1
    <3>2. k - p \in 1 .. o - p /\ p + (k - p) = k /\ k <= Len(Content)
      BY <1>1, <1>6, <2>2
    <3>. QED  BY <1>2, <1>6, <3>2
  <2>5. /\ e \in Nat /\ o \in p + 1 .. o /\ e - 1 <= o /\ p + 1 <= e /\ e - 1 - p = Len(buf) /\ e - p = Len(buf) + 1
        /\ e = Len(Content) + 1 /\ o = Len(Content)
    BY <1>1, <1>2, <1>6, <2>2
  <2>6. found = Found(WithoutCR(SubSeq(SubSeq(Content, p + 1, o), 1, e - 1 - p)), e - 1 - p, e - p)
    BY <2>1, <2>3, <2>5 DEF buf
  <2>. HIDE DEF e
  <2>7. o = e \/ (o = Len(Content) /\ e = o + 1)
    BY <1>6, <2>5
  <2>8. o \in Boundaries /\ FindsNext(p, o, SubSeq(Content, p + 1, o), found, p + 1, o)
    BY <2>4, <2>5, <2>6, <2>7, LineFound
  <2>9. found.size # -1
    BY <2>1, <1>1, <1>2 DEF Found
  <2>10. found # Nothing /\ found # Malformed
    BY <2>9 DEF Found, Nothing, Malformed
  <2>. QED  BY <2>8, <2>10 DEF buf, found
<1>7. CASE newlines = {} /\ ~ended
  BY <1>3, <1>7 DEF buf, found
<1>8. CASE newlines = {} /\ ended /\ o # Len(Content)
  <2>1. found = Found(WithoutCR(buf), Len(buf), Len(buf) + 1)
    BY <1>3, <1>8
  <2>2. found.size # -1
    BY <2>1, <1>1, <1>2 DEF Found
  <2>3. found # Nothing
    BY <2>2 DEF Found, Nothing
  <2>. QED  BY <1>8, <2>3 DEF buf, found
<1>9. CASE buf = <<>> /\ ended
  BY <1>9 DEF buf
<1>. QED  BY <1>5, <1>6, <1>7, <1>8, <1>9

-----------------------------------------------------------------------------
(***************************************************************************)
(* The depth of the brackets.                                              *)
(***************************************************************************)
Number(b, c, i, j) == Cardinality({k \in i .. j : b[k] = c})

LEMMA NumberType ==
  ASSUME NEW b, NEW c, NEW i \in Nat, NEW j \in Nat
  PROVE  Number(b, c, i, j) \in Nat /\ IsFiniteSet({k \in i .. j : b[k] = c})
<1>1. IsFiniteSet(i .. j)
  BY FS_Interval
<1>2. IsFiniteSet({k \in i .. j : b[k] = c})
  BY <1>1, FS_Subset
<1>. QED  BY <1>2, FS_CardinalityType DEF Number

LEMMA NumberSplit ==
  ASSUME NEW b, NEW c, NEW i \in Nat, NEW j \in Nat, NEW m \in Nat, i <= j + 1, j <= m
  PROVE  Number(b, c, i, m) = Number(b, c, i, j) + Number(b, c, j + 1, m)
<1>. DEFINE A == {k \in i .. j : b[k] = c}
            B == {k \in j + 1 .. m : b[k] = c}
            C == {k \in i .. m : b[k] = c}
<1>1. IsFiniteSet(A) /\ IsFiniteSet(B)
  <2>1. j + 1 \in Nat
    OBVIOUS
  <2>2. IsFiniteSet(A)
    BY NumberType
  <2>3. IsFiniteSet(B)
    BY <2>1, NumberType
  <2>. QED  BY <2>2, <2>3
<1>2. C = A \cup B /\ A \cap B = {}
  <2>1. \A k : k \in i .. m <=> k \in i .. j \/ k \in j + 1 .. m
    OBVIOUS
  <2>2. \A k : ~(k \in i .. j /\ k \in j + 1 .. m)
    OBVIOUS
  <2>. QED  BY <2>1, <2>2
<1>. HIDE DEF A, B, C
<1>3. Cardinality(C) = Cardinality(A) + Cardinality(B)
  <2>1. Cardinality(A \cup B) = Cardinality(A) + Cardinality(B) - Cardinality(A \cap B)
    BY <1>1, FS_Union
  <2>2. Cardinality(A \cap B) = 0
    BY <1>2, FS_EmptySet
  <2>3. Cardinality(A) \in Nat /\ Cardinality(B) \in Nat
    BY <1>1, FS_CardinalityType
  <2>. QED  BY <1>2, <2>1, <2>2, <2>3
<1>. QED  BY <1>3 DEF Number, A, B, C

LEMMA NumberShift ==
  ASSUME NEW b, NEW d, NEW c, NEW p \in Nat, NEW i \in Nat, NEW j \in Nat, \A k \in i .. j : b[k] = d[p + k]
  PROVE  Number(b, c, i, j) = Number(d, c, p + i, p + j)
<1>. DEFINE A == {k \in i .. j : b[k] = c}
            B == {k \in p + i .. p + j : d[k] = c}
            f == [k \in A |-> p + k]
<1>1. IsFiniteSet(A)
  BY NumberType
<1>2. \A k \in A : k \in Nat /\ p + k \in B
  OBVIOUS
<1>3. f \in [A -> B]
  BY <1>2
<1>4. \A k, m \in A : f[k] = f[m] => k = m
  BY <1>2
<1>5. \A m \in B : \E k \in A : f[k] = m
  <2>. TAKE m \in B
  <2>1. m - p \in i .. j /\ p + (m - p) = m
    OBVIOUS
  <2>2. m - p \in A
    BY <2>1
  <2>. QED  BY <2>1, <2>2
<1>6. f \in Bijection(A, B)
  <2>. HIDE DEF A, B, f
  <2>1. f \in Injection(A, B)
    BY <1>3, <1>4 DEF Injection, IsInjective
  <2>2. f \in Surjection(A, B)
    BY <1>3, <1>5 DEF Surjection
  <2>. QED  BY <2>1, <2>2 DEF Bijection
<1>. HIDE DEF A, B, f
<1>7. Cardinality(A) = Cardinality(B)
  BY <1>1, <1>6, FS_Bijection DEF ExistsBijection
<1>. QED  BY <1>7 DEF Number, A, B

LEMMA NumberNone ==
  ASSUME NEW b, NEW c, NEW i \in Nat, NEW j \in Nat, \A k \in i .. j : b[k] # c
  PROVE  Number(b, c, i, j) = 0
<1>1. {k \in i .. j : b[k] = c} = {}
  OBVIOUS
<1>. QED  BY <1>1, FS_EmptySet DEF Number

LEMMA NumberOne ==
  ASSUME NEW b, NEW c, NEW i \in Nat
  PROVE  Number(b, c, i, i) = IF b[i] = c THEN 1 ELSE 0
<1>1. i .. i = {i}
  OBVIOUS
<1>2. {k \in i .. i : b[k] = c} = IF b[i] = c THEN {i} ELSE {}
  BY <1>1
<1>. QED  BY <1>2, FS_EmptySet, FS_Singleton DEF Number

LEMMA DepthIs ==
  ASSUME NEW b, NEW i \in Nat, NEW j \in Nat
  PROVE  Depth(b, i, j) = Number(b, "[", i, j) - Number(b, "]", i, j) /\ Depth(b, i, j) \in Int
<1>1. Number(b, "[", i, j) \in Nat /\ Number(b, "]", i, j) \in Nat
  BY NumberType
<1>2. Depth(b, i, j) = Number(b, "[", i, j) - Number(b, "]", i, j)
  BY DEF Depth, Number
<1>. QED  BY <1>1, <1>2

LEMMA DepthSplit ==
  ASSUME NEW b, NEW i \in Nat, NEW j \in Nat, NEW m \in Nat, i <= j + 1, j <= m
  PROVE  Depth(b, i, m) = Depth(b, i, j) + Depth(b, j + 1, m)
<1>1. /\ Number(b, "[", i, m) = Number(b, "[", i, j) + Number(b, "[", j + 1, m)
      /\ Number(b, "]", i, m) = Number(b, "]", i, j) + Number(b, "]", j + 1, m)
  BY NumberSplit
<1>2. /\ Number(b, "[", i, j) \in Nat /\ Number(b, "[", j + 1, m) \in Nat
      /\ Number(b, "]", i, j) \in Nat /\ Number(b, "]", j + 1, m) \in Nat
  <2>1. j + 1 \in Nat
    OBVIOUS
  <2>. QED  BY <2>1, NumberType
<1>3. j + 1 \in Nat
  OBVIOUS
<1>. QED  BY <1>1, <1>2, <1>3, DepthIs

LEMMA DepthShift ==
  ASSUME NEW b, NEW d, NEW p \in Nat, NEW i \in Nat, NEW j \in Nat, \A k \in i .. j : b[k] = d[p + k]
  PROVE  Depth(b, i, j) = Depth(d, p + i, p + j)
BY NumberShift, DepthIs

LEMMA DepthNone ==
  ASSUME NEW b, NEW i \in Nat, NEW j \in Nat, \A k \in i .. j : b[k] \notin {"[", "]"}
  PROVE  Depth(b, i, j) = 0
<1>1. Number(b, "[", i, j) = 0 /\ Number(b, "]", i, j) = 0
  BY NumberNone
<1>. QED  BY <1>1, DepthIs

LEMMA DepthStep ==
  ASSUME NEW b, NEW j \in Nat
  PROVE  /\ Depth(b, 1, j) \in Int /\ Depth(b, 1, 0) = 0
         /\ b[j + 1] = "[" => Depth(b, 1, j + 1) = Depth(b, 1, j) + 1
         /\ b[j + 1] = "]" => Depth(b, 1, j + 1) = Depth(b, 1, j) - 1
         /\ b[j + 1] \notin {"[", "]"} => Depth(b, 1, j + 1) = Depth(b, 1, j)
<1>1. Depth(b, 1, j + 1) = Depth(b, 1, j) + Depth(b, j + 1, j + 1)
  BY DepthSplit
<1>2. /\ Depth(b, j + 1, j + 1) = Number(b, "[", j + 1, j + 1) - Number(b, "]", j + 1, j + 1)
      /\ Number(b, "[", j + 1, j + 1) = (IF b[j + 1] = "[" THEN 1 ELSE 0)
      /\ Number(b, "]", j + 1, j + 1) = (IF b[j + 1] = "]" THEN 1 ELSE 0)
  BY DepthIs, NumberOne
<1>3. Depth(b, 1, j) \in Int
  BY DepthIs
<1>4. Depth(b, 1, 0) = 0
  <2>1. \A k \in 1 .. 0 : b[k] \notin {"[", "]"}
    OBVIOUS
  <2>2. 0 \in Nat /\ 1 \in Nat
    OBVIOUS
  <2>. QED  BY ONLY <2>1, <2>2, DepthNone
<1>5. "[" # "]"
  OBVIOUS
<1>. QED  BY <1>1, <1>2, <1>3, <1>4, <1>5

-----------------------------------------------------------------------------
(***************************************************************************)
(* JSON values, whose numbers no read ends inside of: of a number that is  *)
(* cut there the reader finds what it has read.                            *)
(***************************************************************************)

LEMMA JsonDepths ==
  ASSUME file \in Files, file.format = "json"
  PROVE  /\ Len(Content) \in Nat /\ Len(Good) \in Nat /\ Len(Good) <= Len(Content)
         /\ \A i \in 0 .. Len(Good) : Depth(Content, 1, i) >= 0
         /\ ~WellFormed => /\ Len(Good) < Len(Content) /\ Content[Len(Good) + 1] = "]"
                           /\ Depth(Content, 1, Len(Good)) = 0
         /\ WellFormed => Len(Good) = Len(Content)
         /\ \A i \in Nat : Depth(Content, 1, i) \in Int
<1>1. Len(Content) \in Nat /\ Len(Good) \in Nat /\ Len(Good) <= Len(Content)
  BY ContentType, GoodType
<1>2. \A i \in Nat : Depth(Content, 1, i) \in Int
  BY DepthStep
<1>3. \A i : Wrong(Content, i) <=> Depth(Content, 1, i) < 0
  BY DEF Wrong
<1>4. \A i \in 0 .. Len(Good) : Depth(Content, 1, i) >= 0
  <2>. TAKE i \in 0 .. Len(Good)
  <2>1. CASE i = 0
    <3>1. Depth(Content, 1, 0) = 0
      BY DepthStep
    <3>. QED  BY <2>1, <3>1
  <2>2. CASE i # 0
    <3>1. i \in 1 .. Len(Good) /\ i \in Nat
      BY <1>1, <2>2
    <3>2. ~Wrong(Content, i)
      BY <3>1, GoodIs
    <3>. QED  BY <1>2, <1>3, <3>1, <3>2
  <2>. QED  BY <2>1, <2>2
<1>5. ASSUME ~WellFormed
      PROVE  /\ Len(Good) < Len(Content) /\ Content[Len(Good) + 1] = "]"
             /\ Depth(Content, 1, Len(Good)) = 0
  <2>. DEFINE g == Len(Good)
  <2>1. g < Len(Content) /\ Wrong(Content, g + 1)
    BY <1>5, GoodIs
  <2>2. Depth(Content, 1, g + 1) < 0
    BY <1>3, <2>1
  <2>3. g \in Nat /\ g \in 0 .. Len(Good)
    BY <1>1
  <2>4. Depth(Content, 1, g) \in Int /\ Depth(Content, 1, g) >= 0
    BY <1>2, <1>4, <2>3
  <2>. HIDE DEF g
  <2>5. /\ Content[g + 1] = "[" => Depth(Content, 1, g + 1) = Depth(Content, 1, g) + 1
        /\ Content[g + 1] = "]" => Depth(Content, 1, g + 1) = Depth(Content, 1, g) - 1
        /\ Content[g + 1] \notin {"[", "]"} => Depth(Content, 1, g + 1) = Depth(Content, 1, g)
    BY <2>3, DepthStep
  <2>6. Content[g + 1] = "]"
    BY <2>2, <2>4, <2>5
  <2>7. Depth(Content, 1, g) = 0
    BY <2>2, <2>4, <2>5, <2>6
  <2>. QED  BY <2>1, <2>6, <2>7 DEF g
<1>6. WellFormed => Len(Good) = Len(Content)
  BY GoodIs
<1>. QED  BY <1>1, <1>2, <1>4, <1>5, <1>6

\* The marks of a JSON file, by the depth in the whole file.
LEMMA JsonMarks ==
  ASSUME file \in Files, file.format = "json"
  PROVE  /\ Boundaries = {p \in 0 .. Len(Good) : Depth(Content, 1, p) = 0 /\ ~Cut(p)}
         /\ \A s \in Marks : /\ s \in 1 .. Len(Good) /\ Content[s] \notin {Space, "]"}
                             /\ Depth(Content, 1, s - 1) = 0
                             /\ Content[s] = "[" \/ s = 1 \/ Content[s - 1] \in {Space, "]"}
                             /\ Ends(Good, s) # {}
         /\ \A s \in 1 .. Len(Good) :
              /\ Content[s] \notin {Space, "]"} /\ Depth(Content, 1, s - 1) = 0
              /\ Content[s] = "[" \/ s = 1 \/ Content[s - 1] \in {Space, "]"}
              /\ Ends(Good, s) # {}
              => s \in Marks
         /\ \A s \in 1 .. Len(Good) : Content[s] = "[" /\ Depth(Content, 1, s - 1) = 0 =>
              Ends(Good, s) = {e \in s .. Len(Good) : Depth(Content, 1, e) = 0}
         /\ \A s \in 1 .. Len(Good) : Content[s] # "[" =>
              Ends(Good, s) = {e \in s .. Len(Good) : e = Len(Good) \/ Content[e + 1] \in Apart}
<1>1. /\ Len(Content) \in Nat /\ Len(Good) \in Nat /\ Len(Good) <= Len(Content) /\ DOMAIN Good = 1 .. Len(Good)
      /\ \A i \in 1 .. Len(Good) : Good[i] = Content[i]
  BY ContentType, GoodType
<1>2. ASSUME NEW i \in Nat, NEW j \in Nat, 1 <= i, j <= Len(Good) PROVE Depth(Good, i, j) = Depth(Content, i, j)
  <2>1. 0 \in Nat /\ \A k \in i .. j : Good[k] = Content[0 + k]
    BY <1>1, <1>2
  <2>2. Depth(Good, i, j) = Depth(Content, 0 + i, 0 + j)
    BY <2>1, DepthShift
  <2>. QED  BY <2>2
<1>3. Starts(Good) = {i \in 1 .. Len(Good) : /\ Good[i] \notin {Space, "]"} /\ Depth(Good, 1, i - 1) = 0
                                             /\ (Good[i] = "[" \/ i = 1 \/ Good[i - 1] \in {Space, "]"})}
  BY <1>1 DEF Starts
<1>4. ASSUME NEW i \in 1 .. Len(Good) PROVE Depth(Good, 1, i - 1) = Depth(Content, 1, i - 1) /\ (i # 1 => Good[i - 1] = Content[i - 1])
  <2>1. i - 1 \in Nat /\ i - 1 <= Len(Good) /\ 1 \in Nat /\ 1 <= 1 /\ (i # 1 => i - 1 \in 1 .. Len(Good))
    BY <1>1
  <2>. QED  BY <1>1, <1>2, <2>1
<1>5. \A s \in Marks : s \in Starts(Good) /\ Ends(Good, s) # {}
  BY DEF Marks, Complete
<1>6. \A s \in Starts(Good) : Ends(Good, s) # {} => s \in Marks
  BY DEF Marks, Complete
<1>7. \A s \in Marks : /\ s \in 1 .. Len(Good) /\ Content[s] \notin {Space, "]"}
                       /\ Depth(Content, 1, s - 1) = 0
                       /\ Content[s] = "[" \/ s = 1 \/ Content[s - 1] \in {Space, "]"}
                       /\ Ends(Good, s) # {}
  <2>. TAKE s \in Marks
  <2>1. /\ s \in 1 .. Len(Good) /\ Good[s] \notin {Space, "]"} /\ Depth(Good, 1, s - 1) = 0 /\ Ends(Good, s) # {}
        /\ Good[s] = "[" \/ s = 1 \/ Good[s - 1] \in {Space, "]"}
    BY <1>3, <1>5
  <2>. QED  BY <1>1, <1>4, <2>1
<1>8. ASSUME NEW s \in 1 .. Len(Good), Content[s] \notin {Space, "]"}, Depth(Content, 1, s - 1) = 0,
             Content[s] = "[" \/ s = 1 \/ Content[s - 1] \in {Space, "]"}, Ends(Good, s) # {}
      PROVE  s \in Marks
  <2>1. Good[s] = Content[s] /\ Depth(Good, 1, s - 1) = 0 /\ (s # 1 => Good[s - 1] = Content[s - 1])
    BY <1>1, <1>4, <1>8
  <2>2. s \in Starts(Good)
    BY <1>3, <1>8, <2>1
  <2>. QED  BY <1>6, <1>8, <2>2
<1>9. ASSUME NEW s \in 1 .. Len(Good), Content[s] = "[", Depth(Content, 1, s - 1) = 0
      PROVE  Ends(Good, s) = {e \in s .. Len(Good) : Depth(Content, 1, e) = 0}
  <2>1. \A e \in s .. Len(Good) + 1 : IsEnd(Good, s, e) <=> (e <= Len(Good) /\ Depth(Good, s, e) = 0)
    BY <1>1, <1>9 DEF IsEnd
  <2>2. ASSUME NEW e \in s .. Len(Good) PROVE Depth(Good, s, e) = Depth(Content, 1, e)
    <3>1. s - 1 \in Nat /\ s \in Nat /\ e \in Nat /\ 1 \in Nat /\ 1 <= s /\ e <= Len(Good) /\ s - 1 <= e /\ s - 1 + 1 = s
          /\ 1 <= s - 1 + 1
      BY <1>1
    <3>2. Depth(Good, s, e) = Depth(Content, s, e)
      BY <1>2, <3>1
    <3>3. Depth(Content, 1, e) = Depth(Content, 1, s - 1) + Depth(Content, s - 1 + 1, e)
      BY <3>1, DepthSplit
    <3>4. Depth(Content, s, e) \in Int
      BY <3>1, DepthIs
    <3>. QED  BY <1>9, <3>1, <3>2, <3>3, <3>4
  <2>3. \A e \in s .. Len(Good) + 1 : IsEnd(Good, s, e) <=> (e \in s .. Len(Good) /\ Depth(Content, 1, e) = 0)
    <3>. TAKE e \in s .. Len(Good) + 1
    <3>1. e <= Len(Good) <=> e \in s .. Len(Good)
      BY <1>1
    <3>. QED  BY <2>1, <2>2, <3>1
  <2>4. \A e \in s .. Len(Good) : e \in s .. Len(Good) + 1
    BY <1>1
  <2>. QED  BY <2>3, <2>4 DEF Ends
<1>10. ASSUME NEW s \in 1 .. Len(Good), Content[s] # "["
       PROVE  Ends(Good, s) = {e \in s .. Len(Good) : e = Len(Good) \/ Content[e + 1] \in Apart}
  <2>1. \A e \in s .. Len(Good) + 1 : IsEnd(Good, s, e) <=> (e <= Len(Good) /\ (e = Len(Good) \/ Good[e + 1] \in Apart))
    BY <1>1, <1>10 DEF IsEnd, Apart
  <2>2. \A e \in s .. Len(Good) + 1 : e <= Len(Good) <=> e \in s .. Len(Good)
    BY <1>1
  <2>3. \A e \in s .. Len(Good) : e \in s .. Len(Good) + 1 /\ (e # Len(Good) => Good[e + 1] = Content[e + 1])
    <3>. TAKE e \in s .. Len(Good)
    <3>1. e \in s .. Len(Good) + 1
      BY <1>1
    <3>2. ASSUME e # Len(Good) PROVE Good[e + 1] = Content[e + 1]
      <4>. DEFINE g == Len(Good)
      <4>0. g \in Nat /\ s \in 1 .. g /\ e \in s .. g /\ e # g
        BY <1>1, <3>2
      <4>. HIDE DEF g
      <4>1. e + 1 \in 1 .. g
        BY <4>0
      <4>. USE DEF g
      <4>. QED  BY <1>1, <4>1
    <3>. QED  BY <3>1, <3>2
  <2>. QED  BY <2>1, <2>2, <2>3 DEF Ends
<1>11. Boundaries = {p \in 0 .. Len(Good) : Depth(Content, 1, p) = 0 /\ ~Cut(p)}
  BY DEF Boundaries
<1>. QED  BY <1>7, <1>8, <1>9, <1>10, <1>11

\* Spaces between two values hold no value and nothing wrong.
LEMMA OnlySpaces ==
  ASSUME file \in Files, file.format = "json", NEW p \in Boundaries,
         NEW r \in Nat, p <= r, r <= Len(Content), \A k \in p + 1 .. r : Content[k] = Space
  PROVE  /\ Depth(Content, 1, r) = 0 /\ r <= Len(Good)
         /\ \A t \in Marks : t <= p \/ r < t
<1>1. p \in Nat /\ p <= Len(Good) /\ Depth(Content, 1, p) = 0 /\ Len(Good) \in Nat
  <2>1. p \in 0 .. Len(Good) /\ Depth(Content, 1, p) = 0 /\ Len(Good) \in Nat
    BY JsonMarks, GoodType
  <2>. QED  BY <2>1
<1>2. Depth(Content, 1, r) = 0
  <2>1. Depth(Content, 1, r) = Depth(Content, 1, p) + Depth(Content, p + 1, r)
    BY <1>1, DepthSplit
  <2>2. p + 1 \in Nat /\ \A k \in p + 1 .. r : Content[k] \notin {"[", "]"}
    <3>1. Space \notin {"[", "]"}
      BY DEF Space
    <3>2. p + 1 \in Nat
      BY <1>1
    <3>. QED  BY <3>1, <3>2
  <2>3. Depth(Content, p + 1, r) = 0
    BY <2>2, DepthNone
  <2>. QED  BY <1>1, <2>1, <2>3
<1>3. r <= Len(Good)
  <2>1. SUFFICES ASSUME ~(r <= Len(Good)) PROVE FALSE
    OBVIOUS
  <2>2. Len(Good) # Len(Content) /\ Len(Good) + 1 \in p + 1 .. r
    BY <1>1, <2>1
  <2>3. Content[Len(Good) + 1] = "]"
    BY <2>2, JsonDepths
  <2>. QED  BY <2>2, <2>3 DEF Space
<1>4. \A t \in Marks : t <= p \/ r < t
  <2>1. SUFFICES ASSUME NEW t \in Marks, ~(t <= p \/ r < t) PROVE FALSE
    OBVIOUS
  <2>2. t \in 1 .. Len(Good) /\ Content[t] # Space
    BY JsonMarks
  <2>3. t \in p + 1 .. r
    BY <1>1, <2>1, <2>2
  <2>. QED  BY <2>2, <2>3
<1>. QED  BY <1>2, <1>3, <1>4

LEMMA AnyPart ==
  ASSUME file \in Files, NEW p \in Nat, NEW o \in Nat, p <= o, o <= Len(Content),
         NEW i \in Nat, NEW j \in Nat, 1 <= i, i <= j, j <= o - p
  PROVE  SubSeq(SubSeq(Content, p + 1, o), i, j) = SubSeq(Content, p + i, p + j)
<1>. DEFINE part == SubSeq(Content, p + 1, o)
            m == i - 1
            n == j - m
<1>1. m \in 0 .. o - p /\ m \in Nat /\ m + 1 = i /\ p + m \in Nat /\ p + m <= o /\ n \in 0 .. o - (p + m) /\ p + m + n = p + j
      /\ p + m + 1 = p + i /\ o - p \in Nat
  OBVIOUS
<1>2. part \in Seq(Cells) /\ Len(part) = o - p /\ \A k \in 1 .. o - p : part[k] = Content[p + k]
  BY Parts
<1>3. /\ SubSeq(part, i, j) \in Seq(Cells) /\ Len(SubSeq(part, i, j)) = j - i + 1
      /\ \A k \in 1 .. j - i + 1 : SubSeq(part, i, j)[k] = part[i + k - 1]
  <2>. HIDE DEF part
  <2>1. part \in Seq(Cells) /\ i \in Nat /\ j \in Nat /\ 1 <= i /\ i <= j + 1 /\ j <= Len(part)
    BY <1>2
  <2>2. /\ SubSeq(part, i, j) \in Seq(Cells) /\ Len(SubSeq(part, i, j)) = j - i + 1
        /\ \A k \in 1 .. j - i + 1 : SubSeq(part, i, j)[k] = part[i + k - 1]
    BY ONLY <2>1, SubSeqOfInterval
  <2>. QED  BY <2>2
<1>. DEFINE p1 == p + m
            o1 == p + j
<1>4. p1 \in Nat /\ o1 \in Nat /\ p1 <= o1 /\ o1 <= Len(Content) /\ p1 + 1 = p + i /\ o1 - p1 = j - i + 1
  BY <1>1, ContentType
<1>. HIDE DEF p1, o1
<1>5. /\ SubSeq(Content, p1 + 1, o1) \in Seq(Cells) /\ Len(SubSeq(Content, p1 + 1, o1)) = o1 - p1
      /\ \A k \in 1 .. o1 - p1 : SubSeq(Content, p1 + 1, o1)[k] = Content[p1 + k]
  BY <1>4, Parts
<1>6. ASSUME NEW k \in 1 .. j - i + 1 PROVE SubSeq(part, i, j)[k] = SubSeq(Content, p1 + 1, o1)[k]
  <2>1. i + k - 1 \in 1 .. o - p /\ p + (i + k - 1) = p1 + k
    BY <1>1, <1>4 DEF p1
  <2>. HIDE DEF part
  <2>. QED  BY <1>2, <1>3, <1>4, <1>5, <2>1
<1>. DEFINE one == SubSeq(part, i, j)
            same == SubSeq(Content, p1 + 1, o1)
<1>7. one \in Seq(Cells) /\ same \in Seq(Cells) /\ Len(one) = Len(same) /\ \A k \in 1 .. Len(one) : one[k] = same[k]
  BY <1>3, <1>4, <1>5, <1>6
<1>8. one = same
  <2>. HIDE DEF one, same
  <2>. QED  BY <1>7, SeqEqual
<1>. QED  BY <1>4, <1>8 DEF o1

\* The value begins at x and ends at y, where the reader moves on to.
LEMMA JsonFound ==
  ASSUME file \in Files, file.format = "json", NEW p \in Boundaries,
         NEW o \in Nat, o <= Len(Content), NEW x \in p + 1 .. Len(Good), NEW y \in x .. o,
         x \in Marks, \A t \in Marks : t <= p \/ x <= t, \A t \in Marks : t <= x \/ y < t,
         y \in Boundaries, y \in Ends(Good, x), \A e \in Ends(Good, x) : y <= e,
         NEW found, found = Found(SubSeq(SubSeq(Content, p + 1, o), x - p, y - p), y - p, y - p)
  PROVE  FindsNext(p, o, SubSeq(Content, p + 1, o), found, x, y)
<1>1. /\ p \in Nat /\ Len(Content) \in Nat /\ Len(Good) \in Nat /\ Len(Good) <= Len(Content)
      /\ x \in Nat /\ y \in Nat /\ p < x /\ x <= y /\ y <= o /\ x <= Len(Good) /\ p <= o
  <2>1. p \in Nat /\ Len(Content) \in Nat /\ Len(Good) \in Nat /\ Len(Good) <= Len(Content)
    BY BoundariesType, GoodType
  <2>. QED  BY <2>1
<1>2. NextMark(Marks, p, x)
  BY <1>1 DEF NextMark
<1>3. Upto(Marks, y) = Upto(Marks, p) \cup {x}
  <2>1. ASSUME NEW t \in Marks PROVE t <= y <=> (t <= p \/ t = x)
    <3>1. t \in Nat
      BY MarksAre
    <3>. QED  BY <1>1, <3>1
  <2>. QED  BY <2>1 DEF Upto
<1>4. y <= Len(Good) /\ Least(Ends(Good, x)) = y
  <2>1. y \in 0 .. Len(Good)
    BY JsonMarks
  <2>2. Ends(Good, x) \subseteq x .. Len(Good) + 1
    BY DEF Ends
  <2>3. Ends(Good, x) \in SUBSET Nat
    BY <1>1, <2>2
  <2>4. Least(Ends(Good, x)) = y
    BY <2>3, LeastUnique
  <2>. QED  BY <1>1, <2>1, <2>4
<1>5. SubSeq(Good, x, y) = SubSeq(Content, x, y)
  <2>. DEFINE zero == 0
  <2>1. Good = SubSeq(Content, zero + 1, Len(Good))
    BY GoodIs
  <2>2. zero \in Nat /\ zero <= Len(Good) /\ 1 <= x /\ y <= Len(Good) - zero /\ zero + x = x /\ zero + y = y
    BY <1>1, <1>4
  <2>. HIDE DEF zero
  <2>3. SubSeq(SubSeq(Content, zero + 1, Len(Good)), x, y) = SubSeq(Content, zero + x, zero + y)
    BY <1>1, <2>2, AnyPart
  <2>. QED  BY <2>1, <2>2, <2>3
<1>6. ValueAt(Good, x) = SubSeq(Content, x, y)
  BY <1>4, <1>5 DEF ValueAt
<1>. DEFINE i == x - p
            m == y - p
            buf == SubSeq(Content, p + 1, o)
<1>7. i \in Nat /\ m \in Nat /\ 1 <= i /\ i <= m /\ m <= o - p /\ p + i = x /\ p + m = y /\ m \in 0 .. o - p
  BY <1>1
<1>8. SubSeq(buf, i, m) = SubSeq(Content, x, y)
  <2>. HIDE DEF i, m
  <2>1. SubSeq(buf, i, m) = SubSeq(Content, p + i, p + m)
    BY <1>1, <1>7, AnyPart
  <2>. QED  BY <1>7, <2>1
<1>9. SubSeq(buf, m + 1, Len(buf)) = SubSeq(Content, y + 1, o)
  <2>. HIDE DEF m
  <2>1. SubSeq(buf, m + 1, o - p) = SubSeq(Content, p + m + 1, o) /\ Len(buf) = o - p
    BY <1>1, <1>7, PartsOfParts, Parts
  <2>. QED  BY <1>7, <2>1
<1>10. found.value = SubSeq(Content, x, y) /\ found.size = m /\ found.moved = m
  BY <1>8 DEF Found
<1>11. found.value \in Seq(Cells) /\ found.value # Error
  <2>. DEFINE p2 == x - 1
  <2>1. p2 \in Nat /\ p2 <= y /\ y <= Len(Content) /\ p2 + 1 = x /\ y - p2 \in 0 .. y - p2
    BY <1>1, <1>4
  <2>2. Bytewise
    BY DEF Bytewise
  <2>. HIDE DEF p2
  <2>. DEFINE one == SubSeq(Content, p2 + 1, y)
  <2>3. one \in Seq(Cells) /\ Len(one) = y - p2
    BY <1>1, <2>1, Parts
  <2>4. one = SubSeq(one, 1, y - p2)
    <3>. HIDE DEF one
    <3>. QED  BY <2>3, SubSeqFull
  <2>5. one \in Seq(Cells) /\ one # Error
    BY <1>1, <2>1, <2>2, <2>4, PartsAreValues
  <2>. QED  BY <1>10, <2>1, <2>5
<1>12. found.size \in 0 .. o - p /\ found.moved \in Nat /\ y = p + found.moved /\ p <= y
  BY <1>1, <1>7, <1>10
<1>13. found.value = ValueAt(Good, x)
  BY <1>6, <1>10
<1>14. SubSeq(buf, found.moved + 1, Len(buf)) = SubSeq(Content, y + 1, o)
  BY <1>9, <1>10
<1>. HIDE DEF m, i, buf
<1>. QED  BY <1>1, <1>2, <1>3, <1>11, <1>12, <1>13, <1>14 DEF FindsNext, buf

LEMMA FindsJson ==
  ASSUME file \in Files, file.format = "json",
         NEW p \in Boundaries, NEW o \in Nat, p <= o, o <= Len(Content), ~Cut(o)
  PROVE  LET buf == SubSeq(Content, p + 1, o)
             found == FindJson(buf)
         IN \/ /\ found = Nothing
               /\ o = Len(Content) => WellFormed /\ \A t \in Marks : t <= p
            \/ found = Malformed /\ ~WellFormed /\ \A t \in Marks : t <= p
            \/ found # Nothing /\ found # Malformed /\ \E s, q : q \in Boundaries /\ FindsNext(p, o, buf, found, s, q)
<1>. DEFINE buf == SubSeq(Content, p + 1, o)
            found == FindJson(buf)
            written == {i \in DOMAIN buf : buf[i] # Space}
            G == Len(Good)
            D(i) == Depth(Content, 1, i)
<1>1. p \in Nat /\ Len(Content) \in Nat /\ G \in Nat /\ G <= Len(Content) /\ p <= G /\ D(p) = 0 /\ ~Cut(p)
  <2>1. p \in 0 .. G /\ D(p) = 0 /\ ~Cut(p)
    BY JsonMarks
  <2>. QED  BY <2>1, BoundariesType, JsonDepths
<1>2. DOMAIN buf = 1 .. o - p /\ Len(buf) = o - p /\ \A k \in 1 .. o - p : buf[k] = Content[p + k]
  BY <1>1, Parts
<1>3. CASE written = {}
  <2>1. found = Nothing
    BY <1>3 DEF FindJson
  <2>2. ASSUME NEW k \in p + 1 .. o PROVE Content[k] = Space
    <3>1. k - p \in 1 .. o - p /\ p + (k - p) = k
      BY <1>1
    <3>. HIDE DEF buf
    <3>. QED  BY <1>2, <1>3, <3>1
  <2>3. o <= G /\ \A t \in Marks : t <= p \/ o < t
    BY <1>1, <2>2, OnlySpaces
  <2>4. ASSUME o = Len(Content) PROVE WellFormed /\ \A t \in Marks : t <= p
    <3>1. WellFormed
      BY <1>1, <2>3, <2>4, JsonDepths
    <3>2. \A t \in Marks : t \in Nat /\ t <= G
      <4>1. \A t \in Marks : t \in 1 .. G
        BY JsonMarks
      <4>. QED  BY <1>1, <4>1
    <3>. QED  BY <1>1, <2>3, <2>4, <3>1, <3>2
  <2>. HIDE DEF found
  <2>. QED  BY <2>1, <2>4 DEF found
<1>4. CASE written # {}
  <2>. DEFINE s == Least(written)
              x == p + s
              r == x - 1
  <2>1. s \in written /\ \A j \in written : s <= j
    <3>1. written \in SUBSET Nat
      BY <1>2
    <3>. QED  BY <1>4, <3>1, LeastIsLeast
  <2>. HIDE DEF s
  <2>2. /\ s \in 1 .. o - p /\ x \in p + 1 .. o /\ r \in Nat /\ x \in Nat /\ p <= r /\ r < x /\ x = r + 1 /\ x <= o
        /\ r <= Len(Content) /\ buf[s] = Content[x] /\ Content[x] # Space
    <3>1. s \in 1 .. o - p /\ buf[s] # Space
      BY <1>2, <2>1
    <3>2. buf[s] = Content[p + s]
      BY <1>2, <3>1
    <3>. HIDE DEF buf
    <3>. QED  BY <1>1, <3>1, <3>2
  <2>3. ASSUME NEW k \in p + 1 .. r PROVE Content[k] = Space
    <3>1. k - p \in 1 .. o - p /\ p + (k - p) = k /\ k - p < s /\ ~(s <= k - p)
      <4>1. k \in p + 1 .. x - 1 /\ x <= o /\ x = p + s /\ p \in Nat /\ o \in Nat /\ s \in Nat
        BY <1>1, <2>2 DEF x, r
      <4>. QED  BY ONLY <4>1
    <3>2. k - p \notin written
      BY <2>1, <3>1
    <3>. HIDE DEF buf
    <3>. QED  BY <1>2, <3>1, <3>2
  <2>. HIDE DEF x, r
  <2>4. D(r) = 0 /\ r <= G /\ \A t \in Marks : t <= p \/ r < t
    BY <2>2, <2>3, OnlySpaces
  <2>5. \A t \in Marks : t \in 1 .. G /\ t \in Nat /\ D(t - 1) = 0 /\ Ends(Good, t) # {}
    <3>1. \A t \in Marks : t \in 1 .. G /\ D(t - 1) = 0 /\ Ends(Good, t) # {}
      BY JsonMarks
    <3>. QED  BY <1>1, <3>1
  <2>6. \A t \in Marks : t <= p \/ x <= t
    BY <2>2, <2>4, <2>5
  <2>7. /\ Content[x] = "[" => D(x) = 1
        /\ Content[x] = "]" => D(x) = -1
        /\ Content[x] \notin {"[", "]"} => D(x) = 0
    BY <2>2, <2>4, DepthStep
  <2>8. Content[x] # "]" => x <= G
    <3>1. SUFFICES ASSUME Content[x] # "]", ~(x <= G) PROVE FALSE
      BY <1>1, <2>2
    <3>2. G = r /\ G # Len(Content)
      BY <1>1, <2>2, <2>4, <3>1
    <3>. QED  BY <2>2, <3>1, <3>2, JsonDepths
  <2>. DEFINE ends == IF buf[s] = "[" THEN {j \in s .. Len(buf) : Depth(buf, s, j) = 0}
                      ELSE {j \in s .. Len(buf) : j = Len(buf) \/ buf[j + 1] \in {Space, "[", "]"}}
  <2>9. found = IF buf[s] = "]" THEN Malformed ELSE IF ends = {} THEN Nothing
                ELSE Found(SubSeq(buf, s, Least(ends)), Least(ends), Least(ends))
    BY <1>4 DEF FindJson, s
  <2>. HIDE DEF found, written
  <2>10. CASE Content[x] = "]"
    <3>1. found = Malformed
      BY <2>2, <2>9, <2>10
    <3>2. G < x
      <4>1. SUFFICES ASSUME x <= G PROVE FALSE
        BY <1>1, <2>2
      <4>2. x \in 0 .. G
        BY <1>1, <2>2, <4>1
      <4>3. D(x) >= 0
        BY <4>2, JsonDepths
      <4>. QED  BY <2>7, <2>10, <4>3
    <3>3. ~WellFormed
      BY <1>1, <2>2, <3>2, JsonDepths
    <3>4. \A t \in Marks : t <= p
      BY <1>1, <2>2, <2>5, <2>6, <3>2
    <3>. QED  BY <3>1, <3>3, <3>4 DEF found
  <2>11. CASE Content[x] = "["
    <3>1. D(x) = 1 /\ x \in 1 .. G /\ x <= G /\ Content[x] \notin {Space, "]"}
      BY <1>1, <2>2, <2>7, <2>8, <2>11
    <3>2. ASSUME NEW j \in s .. Len(buf) PROVE Depth(buf, s, j) = D(p + j)
      <4>1. s \in Nat /\ j \in Nat /\ \A k \in s .. j : buf[k] = Content[p + k]
        <5>1. s \in Nat /\ j \in Nat /\ \A k \in s .. j : k \in 1 .. o - p
          BY <1>1, <1>2, <2>2
        <5>. HIDE DEF buf
        <5>. QED  BY <1>2, <5>1
      <4>2. Depth(buf, s, j) = Depth(Content, p + s, p + j)
        <5>. HIDE DEF buf
        <5>. QED  BY <1>1, <4>1, DepthShift
      <4>3. p + j \in Nat /\ r <= p + j /\ 1 <= r + 1 /\ p + s = r + 1 /\ 1 \in Nat
        BY <1>1, <2>2, <4>1 DEF x
      <4>4. D(p + j) = D(r) + Depth(Content, r + 1, p + j)
        BY <2>2, <4>3, DepthSplit
      <4>5. Depth(Content, r + 1, p + j) \in Int
        BY <2>2, <4>3, DepthIs
      <4>. QED  BY <2>4, <4>2, <4>3, <4>4, <4>5
    <3>3. ends = {j \in s .. Len(buf) : D(p + j) = 0}
      BY <2>2, <2>11, <3>2
    <3>4. Ends(Good, x) = {e \in x .. G : D(e) = 0}
      <4>1. D(x - 1) = 0
        BY <2>2, <2>4
      <4>. QED  BY <2>11, <3>1, <4>1, JsonMarks
    <3>5. CASE ends = {}
      <4>1. found = Nothing
        BY <2>2, <2>9, <2>11, <3>5
      <4>2. ASSUME o = Len(Content) PROVE WellFormed /\ \A t \in Marks : t <= p
        <5>1. ASSUME NEW i \in x .. Len(Content) PROVE D(i) # 0
          <6>1. i - p \in s .. Len(buf) /\ p + (i - p) = i
            BY <1>1, <1>2, <2>2, <4>2 DEF x
          <6>. QED  BY <3>3, <3>5, <6>1
        <5>2. WellFormed
          <6>1. SUFFICES ASSUME ~WellFormed PROVE FALSE
            OBVIOUS
          <6>2. D(G) = 0
            BY <6>1, JsonDepths
          <6>3. G \in x .. Len(Content)
            BY <1>1, <3>1
          <6>. QED  BY <5>1, <6>2, <6>3
        <5>3. ASSUME NEW t \in Marks, ~(t <= p) PROVE FALSE
          <6>1. x <= t /\ t \in 1 .. G /\ t \in Nat
            BY <2>5, <2>6, <5>3
          <6>2. CASE t = x
            <7>1. PICK e \in x .. G : D(e) = 0
              BY <2>5, <3>4, <6>2
            <7>2. e \in x .. Len(Content)
              BY <1>1, <3>1
            <7>. QED  BY <5>1, <7>1, <7>2
          <6>3. CASE t # x
            <7>1. t - 1 \in x .. Len(Content)
              BY <1>1, <2>2, <6>1, <6>3
            <7>2. D(t - 1) = 0
              BY <2>5
            <7>. QED  BY <5>1, <7>1, <7>2
          <6>. QED  BY <6>2, <6>3
        <5>. QED  BY <5>2, <5>3
      <4>. QED  BY <4>1, <4>2 DEF found
    <3>6. CASE ends # {}
      <4>. DEFINE j == Least(ends)
                  y == p + j
      <4>1. j \in ends /\ \A i \in ends : j <= i
        <5>1. ends \in SUBSET Nat
          BY <1>2, <2>2, <3>3
        <5>. HIDE DEF ends
        <5>. QED  BY <3>6, <5>1, LeastIsLeast
      <4>. HIDE DEF j
      <4>2. j \in s .. Len(buf) /\ D(y) = 0 /\ y \in x .. o /\ y \in Nat /\ x <= y /\ y <= o /\ y - p = j /\ x - p = s
        <5>1. j \in s .. Len(buf) /\ D(p + j) = 0
          <6>. HIDE DEF buf, ends
          <6>. QED  BY <3>3, <4>1
        <5>2. j \in s .. o - p
          BY <1>2, <5>1
        <5>. QED  BY <1>1, <2>2, <5>1, <5>2 DEF x
      <4>3. ASSUME NEW i \in x .. y - 1 PROVE D(i) # 0
        <5>1. i - p \in s .. Len(buf) /\ p + (i - p) = i /\ ~(j <= i - p)
          BY <1>1, <1>2, <2>2, <4>2 DEF x
        <5>2. i - p \notin ends
          BY <4>1, <5>1
        <5>. HIDE DEF ends
        <5>. QED  BY <3>3, <5>1, <5>2
      <4>. HIDE DEF y, ends
      <4>4. y <= G
        <5>1. SUFFICES ASSUME ~(y <= G) PROVE FALSE
          BY <1>1, <4>2
        <5>2. G \in x .. y - 1 /\ G # Len(Content)
          BY <1>1, <3>1, <4>2, <5>1
        <5>3. D(G) = 0
          BY <5>2, JsonDepths
        <5>. QED  BY <4>3, <5>2, <5>3
      <4>5. y \in Ends(Good, x) /\ y \in Boundaries
        <5>1. y \in x .. G /\ y \in 0 .. G
          BY <1>1, <4>2, <4>4
        <5>2. Content[y] \in {"[", "]"}
          <6>1. CASE y = x
            BY <2>11, <6>1
          <6>2. CASE y # x
            <7>. DEFINE n == y - 1
            <7>1. n \in Nat /\ n \in x .. y - 1 /\ n + 1 = y
              BY <2>2, <4>2, <6>2
            <7>. HIDE DEF n
            <7>2. D(n) # 0
              BY <4>3, <7>1
            <7>. QED  BY <4>2, <7>1, <7>2, DepthStep
          <6>. QED  BY <6>1, <6>2
        <5>3. ~Cut(y)
          BY <5>2 DEF Cut, Apart
        <5>. QED  BY <3>4, <4>2, <5>1, <5>3, JsonMarks
      <4>6. x \in Marks
        <5>1. D(x - 1) = 0
          BY <2>2, <2>4
        <5>. QED  BY <2>11, <3>1, <4>5, <5>1, JsonMarks
      <4>7. \A e \in Ends(Good, x) : y <= e
        <5>. SUFFICES ASSUME NEW e \in Ends(Good, x), ~(y <= e) PROVE FALSE
          OBVIOUS
        <5>1. e \in x .. G /\ D(e) = 0
          BY <3>4
        <5>2. e \in x .. y - 1
          BY <1>1, <2>2, <4>2, <5>1
        <5>. QED  BY <4>3, <5>1, <5>2
      <4>8. \A t \in Marks : t <= x \/ y < t
        <5>. SUFFICES ASSUME NEW t \in Marks, ~(t <= x), ~(y < t) PROVE FALSE
          OBVIOUS
        <5>1. t \in Nat /\ D(t - 1) = 0
          BY <2>5
        <5>2. t - 1 \in x .. y - 1
          BY <2>2, <4>2, <5>1
        <5>. QED  BY <4>3, <5>1, <5>2
      <4>9. found = Found(SubSeq(SubSeq(Content, p + 1, o), x - p, y - p), y - p, y - p)
        BY <2>2, <2>9, <2>11, <3>6, <4>2 DEF j
      <4>10. FindsNext(p, o, SubSeq(Content, p + 1, o), found, x, y)
        <5>1. x \in p + 1 .. Len(Good) /\ y \in x .. o
          BY <1>1, <2>2, <3>1, <4>2
        <5>. QED  BY <2>6, <4>5, <4>6, <4>7, <4>8, <4>9, <5>1, JsonFound
      <4>11. found # Nothing /\ found # Malformed
        <5>1. found.size = y - p /\ y - p # -1
          BY <1>1, <2>2, <4>2, <4>9 DEF Found
        <5>. QED  BY <5>1 DEF Found, Nothing, Malformed
      <4>. QED  BY <4>5, <4>10, <4>11 DEF found
    <3>. QED  BY <3>5, <3>6
  <2>12. CASE Content[x] \notin {"[", "]"}
    <3>1. x \in 1 .. G /\ x <= G /\ D(x) = 0 /\ Content[x] \notin Apart /\ D(x - 1) = 0
      BY <1>1, <2>2, <2>4, <2>7, <2>8, <2>12 DEF Apart
    <3>2. ends = {j \in s .. Len(buf) : j = Len(buf) \/ buf[j + 1] \in Apart}
      BY <2>2, <2>12 DEF Apart
    <3>3. Len(buf) \in ends
      <4>1. Len(buf) \in s .. Len(buf)
        <5>1. Len(buf) = o - p /\ s \in 1 .. o - p /\ o - p \in Int
          BY <1>1, <1>2, <2>2
        <5>. HIDE DEF buf
        <5>. QED  BY <5>1
      <4>. QED  BY <3>2, <4>1
    <3>. DEFINE j == Least(ends)
                y == p + j
    <3>4. j \in ends /\ \A i \in ends : j <= i
      <4>1. ends \in SUBSET Nat
        BY <1>2, <2>2, <3>2
      <4>. HIDE DEF ends
      <4>. QED  BY <3>3, <4>1, LeastIsLeast
    <3>. HIDE DEF j
    <3>5. /\ j \in s .. Len(buf) /\ y \in x .. o /\ y \in Nat /\ x <= y /\ y <= o /\ y - p = j /\ x - p = s
          /\ y = o \/ Content[y + 1] \in Apart
      <4>1. j \in s .. Len(buf) /\ (j = Len(buf) \/ buf[j + 1] \in Apart)
        <5>. HIDE DEF buf, ends
        <5>. QED  BY <3>2, <3>4
      <4>2. j \in s .. o - p /\ (j = o - p \/ buf[j + 1] \in Apart)
        BY <1>2, <4>1
      <4>3. y \in x .. o /\ y \in Nat /\ x <= y /\ y <= o /\ y - p = j /\ x - p = s /\ (j = o - p <=> y = o)
        BY <1>1, <2>2, <4>2 DEF x
      <4>4. ASSUME y # o PROVE buf[j + 1] = Content[y + 1]
        <5>. DEFINE k == j + 1
        <5>1. k \in 1 .. o - p /\ p + k = y + 1
          <6>1. j # o - p /\ p \in Nat /\ o \in Nat /\ s \in Nat /\ 1 <= s
            BY <1>1, <2>2, <4>3, <4>4
          <6>. HIDE DEF buf, y
          <6>2. j \in s .. o - p
            BY <4>2
          <6>3. k \in 1 .. o - p
            BY ONLY <6>1, <6>2
          <6>4. p + k = y + 1
            BY <6>1, <6>2 DEF y
          <6>. QED  BY <6>3, <6>4
        <5>. HIDE DEF k, buf
        <5>2. buf[k] = Content[p + k]
          BY <1>2, <5>1
        <5>. QED  BY <5>1, <5>2 DEF k
      <4>. HIDE DEF buf, y
      <4>. QED  BY <4>1, <4>2, <4>3, <4>4
    <3>6. ASSUME NEW k \in x .. y PROVE Content[k] \notin Apart
      <4>1. CASE k = x
        BY <3>1, <4>1
      <4>2. CASE k # x
        <5>. DEFINE i == k - p
                    h == i - 1
        <5>1. i \in 1 .. o - p /\ p + i = k /\ h \in s .. o - p /\ h # o - p /\ h + 1 = i /\ ~(j <= h)
          BY <1>1, <2>2, <3>5, <4>2 DEF x
        <5>. HIDE DEF i, h
        <5>2. h \notin ends
          BY <3>4, <5>1
        <5>. HIDE DEF buf, ends
        <5>3. buf[h + 1] \notin Apart
          BY <1>2, <3>2, <5>1, <5>2
        <5>. QED  BY <1>2, <5>1, <5>3
      <4>. QED  BY <4>1, <4>2
    <3>. HIDE DEF y, ends
    <3>7. D(y) = 0
      <4>1. D(y) = D(r) + Depth(Content, r + 1, y)
        BY <2>2, <3>5, DepthSplit
      <4>2. r + 1 \in Nat /\ \A k \in r + 1 .. y : Content[k] \notin {"[", "]"}
        BY <2>2, <3>6 DEF Apart
      <4>3. Depth(Content, r + 1, y) = 0
        BY <3>5, <4>2, DepthNone
      <4>. QED  BY <2>4, <4>1, <4>3
    <3>8. y <= G
      <4>. SUFFICES ASSUME ~(y <= G) PROVE FALSE
        BY <1>1, <3>5
      <4>1. G + 1 \in x .. y /\ G # Len(Content)
        BY <1>1, <2>2, <3>1, <3>5
      <4>2. Content[G + 1] = "]"
        BY <4>1, JsonDepths
      <4>. QED  BY <3>6, <4>1, <4>2 DEF Apart
    <3>9. y = Len(Content) \/ Content[y + 1] \in Apart
      <4>. SUFFICES ASSUME y # Len(Content), Content[y + 1] \notin Apart PROVE FALSE
        OBVIOUS
      <4>1. y = o
        BY <3>5
      <4>2. y \in 1 .. Len(Content) - 1 /\ y \in x .. y
        BY <1>1, <2>2, <3>1, <3>5, <3>8
      <4>. QED  BY <3>6, <4>1, <4>2 DEF Cut
    <3>10. Ends(Good, x) = {e \in x .. G : e = G \/ Content[e + 1] \in Apart}
      BY <2>12, <3>1, JsonMarks
    <3>11. y \in Ends(Good, x) /\ y \in Boundaries
      <4>1. y \in x .. G /\ y \in 0 .. G /\ (y = Len(Content) => y = G)
        BY <1>1, <2>2, <3>5, <3>8
      <4>2. ~Cut(y)
        <5>1. y \in 1 .. Len(Content) - 1 => y # Len(Content)
          BY <1>1
        <5>. QED  BY <3>9, <5>1 DEF Cut
      <4>. QED  BY <3>7, <3>9, <3>10, <4>1, <4>2, JsonMarks
    <3>12. \A e \in Ends(Good, x) : y <= e
      <4>. SUFFICES ASSUME NEW e \in Ends(Good, x), ~(y <= e) PROVE FALSE
        OBVIOUS
      <4>1. e \in x .. G /\ (e = G \/ Content[e + 1] \in Apart)
        BY <3>10
      <4>2. e # G /\ e + 1 \in x .. y
        BY <1>1, <2>2, <3>5, <3>8, <4>1
      <4>. QED  BY <3>6, <4>1, <4>2
    <3>13. x # 1 => Content[x - 1] \in {Space, "]"}
      <4>. SUFFICES ASSUME x # 1 PROVE Content[x - 1] \in {Space, "]"}
        OBVIOUS
      <4>1. x \in 2 .. Len(Content)
        BY <1>1, <3>1
      <4>2. CASE r = p
        <5>. DEFINE n == p - 1
        <5>1. n \in 0 .. G /\ n \in Nat /\ n + 1 = p /\ x - 1 = p /\ p + 1 = x /\ p \in 1 .. Len(Content) - 1
          <6>1. x = p + 1
            BY <2>2, <4>2
          <6>2. p \in Nat /\ p # 0 /\ p <= G /\ G \in Nat
            BY <1>1, <4>1, <6>1
          <6>3. n \in 0 .. G /\ n \in Nat /\ n + 1 = p
            BY <6>2
          <6>4. p \in 1 .. Len(Content) - 1
            BY <1>1, <4>1, <6>1, <6>2
          <6>. HIDE DEF n
          <6>. QED  BY <6>1, <6>2, <6>3, <6>4
        <5>. HIDE DEF n
        <5>2. Content[p] \in Apart
          BY <1>1, <3>1, <5>1 DEF Cut
        <5>3. D(n) >= 0 /\ D(n) \in Int
          BY <5>1, JsonDepths
        <5>4. Content[n + 1] = "[" => D(n + 1) = D(n) + 1
          BY <5>1, DepthStep
        <5>5. Content[p] # "["
          BY <1>1, <5>1, <5>3, <5>4
        <5>. QED  BY <5>1, <5>2, <5>5 DEF Apart
      <4>3. CASE r # p
        <5>1. r \in p + 1 .. r /\ x - 1 = r
          BY <1>1, <2>2, <4>3
        <5>. QED  BY <2>3, <5>1
      <4>. QED  BY <4>2, <4>3
    <3>14. x \in Marks
      <4>1. Content[x] \notin {Space, "]"}
        BY <2>2, <2>12
      <4>. QED  BY <3>1, <3>11, <3>13, <4>1, JsonMarks
    <3>15. \A t \in Marks : t <= x \/ y < t
      <4>. SUFFICES ASSUME NEW t \in Marks, ~(t <= x), ~(y < t) PROVE FALSE
        OBVIOUS
      <4>1. t \in Nat /\ (Content[t] = "[" \/ t = 1 \/ Content[t - 1] \in {Space, "]"})
        BY <2>5, JsonMarks
      <4>2. t \in x .. y /\ t - 1 \in x .. y /\ t # 1
        BY <2>2, <3>1, <3>5, <4>1
      <4>. QED  BY <3>6, <4>1, <4>2 DEF Apart
    <3>16. found = Found(SubSeq(SubSeq(Content, p + 1, o), x - p, y - p), y - p, y - p)
      <4>1. ends # {} /\ Least(ends) = y - p
        BY <3>3, <3>5 DEF j
      <4>. QED  BY <2>2, <2>9, <2>12, <3>5, <4>1
    <3>17. FindsNext(p, o, SubSeq(Content, p + 1, o), found, x, y)
      <4>1. x \in p + 1 .. Len(Good) /\ y \in x .. o
        BY <1>1, <2>2, <3>1, <3>5
      <4>. QED  BY <2>6, <3>11, <3>12, <3>14, <3>15, <3>16, <4>1, JsonFound
    <3>18. found # Nothing /\ found # Malformed
      <4>1. found.size = y - p /\ y - p # -1
        BY <1>1, <2>2, <3>5, <3>16 DEF Found
      <4>. QED  BY <4>1 DEF Found, Nothing, Malformed
    <3>. QED  BY <3>11, <3>17, <3>18 DEF found
  <2>. QED  BY <2>10, <2>11, <2>12
<1>. QED  BY <1>3, <1>4

-----------------------------------------------------------------------------
(***************************************************************************)
(* The inductive invariant: where the reader is, what its positions point  *)
(* at, and what it has given.                                              *)
(***************************************************************************)
\* What a reader hands over: values and errors.
Given == Seq(Cells) \cup Cells \cup {Error}
\* How far the file is consumed: what is read and not consumed is in the buffer.
Place == IF Bytewise THEN offset - Len(buffer) ELSE offset
\* The marks of the values that are left to a random reader, and of the one it is about to give.
Left == {MarkAfter(Marks, positions[i].at) : i \in DOMAIN positions}
Hand == IF thread = "reading" /\ random THEN {MarkAfter(Marks, Place)} ELSE {}
\* The values of ps are values of different marks, and `others` are the marks of the others.
Drawn(M, V, ps) ==
  \E g \in [DOMAIN ps -> M] : (\A i, j \in DOMAIN ps : g[i] = g[j] => i = j) /\ \A i \in DOMAIN ps : ps[i] = V[g[i]]
Dealt(M, V, ps, others) ==
  \E g \in [DOMAIN ps -> M] :
    /\ (\A i, j \in DOMAIN ps : g[i] = g[j] => i = j) /\ \A i \in DOMAIN ps : ps[i] = V[g[i]]
    /\ \A i \in DOMAIN ps : g[i] \notin others
    /\ others \subseteq M
    /\ \A m \in M : m \in others \/ \E i \in DOMAIN ps : g[i] = m
\* The first n values are given, and then errors if they are all.
InOrder(n, ps, vs) ==
  /\ Len(ps) >= n
  /\ \A i \in 1 .. n : ps[i] = vs[i] /\ ps[i] # Error
  /\ Len(ps) > n => ps[n + 1] = Error /\ n = Len(vs)

\* b has the values of c in some order.
Mixed(c, b) ==
  \E g \in [DOMAIN c -> DOMAIN c] :
    (\A i, j \in DOMAIN c : g[i] = g[j] => i = j) /\ b = [i \in DOMAIN c |-> c[g[i]]]

Threads == {"scanning", "next", "reading", "yield", "done", "stopped", "failed"}
TypeInv ==
  /\ file \in Files /\ offset \in Nat /\ buffer \in Seq(Cells) /\ position \in Nat
  /\ positions \in Seq([at : Nat, size : Nat]) /\ thread \in Threads
  /\ eof \in BOOLEAN /\ random \in BOOLEAN /\ again \in BOOLEAN /\ closed \in BOOLEAN /\ killed \in BOOLEAN
  /\ value \in Given /\ queue \in Seq(Given) /\ pass \in Seq(Given)

\* An error is met only in a file that has one.
ErrorInv ==
  /\ value = Error => ~WellFormed
  /\ \A i \in DOMAIN queue : queue[i] = Error => ~WellFormed
  /\ killed \/ thread = "failed" => ~WellFormed

\* A reader of bytes stands between two values, and its buffer is what it has read beyond that place.
PlaceInv ==
  /\ FirstRow(file) <= offset /\ offset <= Len(Content)
  /\ Bytewise => /\ Len(buffer) <= offset /\ buffer = SubSeq(Content, Place + 1, offset)
                 /\ Place \in Boundaries
                 /\ eof => offset = Len(Content)
  /\ file.format # "list" => \A i \in DOMAIN positions :
                               positions[i].at \in Boundaries /\ positions[i].at + positions[i].size <= Len(Content)

\* When the thread is where.
ThreadInv ==
  /\ thread = "reading" => Bytewise
  /\ thread = "scanning" => file.format # "list" /\ (file.random \/ (file.repeat /\ file.headers))
  /\ thread \in {"scanning", "failed"} => pass = <<>>
  /\ again /\ thread = "reading" => pass = <<>>
  /\ ~file.random => ~random

\* In order: the values given in this pass are those up to the place.
InOrderInv ==
  ~file.random =>
  /\ positions # <<>> => positions[1].at = FirstRow(file)
  /\ file.repeat /\ positions = <<>> => /\ offset = FirstRow(file) /\ file.format = "csv"
                                        /\ thread # "scanning" => Marks = {}
                                        /\ thread \notin {"scanning", "failed"} => offset = Len(Content)
  /\ thread # "scanning" => InOrder(Cardinality(Upto(Marks, Place)), pass, Values)
  /\ thread # "scanning" /\ Len(pass) > Cardinality(Upto(Marks, Place)) => ~WellFormed
  /\ thread # "scanning" /\ file.format = "csv" => Len(pass) = offset - FirstRow(file)
  /\ file.format = "list" => buffer = Content /\ Len(pass) = offset
  /\ thread = "done" => IF file.repeat THEN Marks = {} ELSE Cardinality(Upto(Marks, Place)) = Len(Values)

\* A random reader that knows its file: what is left, in hand and given are the values, each once.
ScannedInv ==
  /\ WellFormed
  /\ ~random => Marks = {} /\ positions = <<>> /\ (file.format = "csv" => offset = Len(Content))
  /\ thread = "reading" /\ random =>
       /\ NextMark(Marks, Place, MarkAfter(Marks, Place))
       /\ ~file.repeat => MarkAfter(Marks, Place) \notin Left
  /\ IF file.repeat THEN Left = Marks /\ Drawn(Marks, ValueFrom, pass)
     ELSE Dealt(Marks, ValueFrom, pass, Left \cup Hand)
  /\ thread = "done" => IF file.repeat THEN Marks = {} ELSE Left \cup Hand = {}
\* Its positions are followed by different values; until it knows its file, by those up to the place.
RandomInv ==
  file.random /\ file.format # "list" =>
  /\ \A i \in DOMAIN positions : NextMark(Marks, positions[i].at, MarkAfter(Marks, positions[i].at))
  /\ \A i, j \in DOMAIN positions : MarkAfter(Marks, positions[i].at) = MarkAfter(Marks, positions[j].at) => i = j
  /\ thread = "scanning" => /\ Left = Upto(Marks, Place)
                            /\ Bytewise => position = Place \/ Place = Len(Content)
                            /\ file.format = "csv" => offset <= Len(Good)
  /\ thread \notin {"scanning", "failed"} => ScannedInv

\* A random list: shuffled once and dealt, or drawn from for ever.
ListInv ==
  file.random /\ file.format = "list" =>
  IF file.repeat THEN buffer = Content /\ thread # "done" /\ Drawn(Marks, ValueFrom, pass)
  ELSE /\ Mixed(Content, buffer)
       /\ Len(pass) = offset /\ \A i \in 1 .. offset : pass[i] = buffer[i]
       /\ thread = "done" => offset = Len(Content)

IInv == TypeInv /\ ErrorInv /\ PlaceInv /\ ThreadInv /\ InOrderInv /\ RandomInv /\ ListInv

\* What is in the file stays what it is.
LEMMA SameFile ==
  ASSUME file' = file
  PROVE  /\ Content' = Content /\ Cells' = Cells /\ Good' = Good /\ Marks' = Marks /\ Boundaries' = Boundaries
         /\ ValueFrom' = ValueFrom /\ Values' = Values /\ Given' = Given
         /\ WellFormed' <=> WellFormed
         /\ Bytewise' <=> Bytewise
<1>1. Content' = Content /\ Cells' = Cells
  BY DEF Content, Cells
<1>2. Good' = Good
  BY DEF Good, Wrong
<1>3. Marks' = Marks
  BY <1>2 DEF Marks, Complete, Starts, Ends, IsEnd
<1>4. Boundaries' = Boundaries
  BY <1>1, <1>2 DEF Boundaries
<1>5. ValueFrom' = ValueFrom
  BY <1>2, <1>3 DEF ValueFrom, ValueAt, Ends, IsEnd
<1>6. Values' = Values
  BY <1>2 DEF Values, ValuesOf, ValueAt, Complete, Starts, Ends, IsEnd
<1>7. Given' = Given
  BY <1>1 DEF Given
<1>8. (WellFormed' <=> WellFormed) /\ (Bytewise' <=> Bytewise)
  BY <1>2 DEF WellFormed, Bytewise
<1>. QED  BY <1>1, <1>2, <1>3, <1>4, <1>5, <1>6, <1>7, <1>8

-----------------------------------------------------------------------------
(***************************************************************************)
(* One more value.                                                         *)
(***************************************************************************)
LEMMA NextInOrderIs ==
  ASSUME NEW T, NEW ps \in Seq(T), NEW U, NEW vs \in Seq(U), NEW n \in Nat, NEW v \in T, InOrder(n, ps, vs)
  PROVE  /\ n < Len(vs) /\ v = vs[n + 1] /\ v # Error => InOrder(n + 1, Append(ps, v), vs) /\ Len(ps) = n
         /\ n = Len(vs) /\ (v = Error \/ Len(ps) > n) => InOrder(n, Append(ps, v), vs)
<1>. DEFINE qs == Append(ps, v)
<1>1. /\ Len(ps) \in Nat /\ Len(qs) = Len(ps) + 1
      /\ \A i \in 1 .. Len(ps) : qs[i] = ps[i]
      /\ qs[Len(ps) + 1] = v
  BY AppendProperties, LenProperties
<1>2. /\ Len(ps) >= n
      /\ \A i \in 1 .. n : ps[i] = vs[i] /\ ps[i] # Error
      /\ Len(ps) > n => ps[n + 1] = Error /\ n = Len(vs)
  BY DEF InOrder
<1>. HIDE DEF qs
<1>3. \A i \in 1 .. n : qs[i] = vs[i] /\ qs[i] # Error
  <2>. TAKE i \in 1 .. n
  <2>1. i \in 1 .. Len(ps)
    BY <1>1, <1>2
  <2>. QED  BY <1>1, <1>2, <2>1
<1>4. ASSUME n < Len(vs), v = vs[n + 1], v # Error PROVE InOrder(n + 1, qs, vs) /\ Len(ps) = n
  <2>1. Len(ps) = n
    <3>1. Len(vs) \in Nat
      BY LenProperties
    <3>. QED  BY <1>1, <1>2, <1>4, <3>1
  <2>2. \A i \in 1 .. n + 1 : qs[i] = vs[i] /\ qs[i] # Error
    <3>. TAKE i \in 1 .. n + 1
    <3>1. i \in 1 .. n \/ i = n + 1
      OBVIOUS
    <3>2. qs[n + 1] = v
      BY <1>1, <2>1
    <3>. QED  BY <1>3, <1>4, <3>1, <3>2
  <2>3. Len(qs) = n + 1 /\ Len(qs) >= n + 1 /\ ~(Len(qs) > n + 1)
    BY <1>1, <2>1
  <2>. QED  BY <2>1, <2>2, <2>3 DEF InOrder
<1>5. ASSUME n = Len(vs), v = Error \/ Len(ps) > n PROVE InOrder(n, qs, vs)
  <2>1. Len(qs) >= n
    BY <1>1, <1>2
  <2>2. qs[n + 1] = Error
    <3>1. CASE Len(ps) > n
      <4>1. n + 1 \in 1 .. Len(ps)
        BY <1>1, <3>1
      <4>2. qs[n + 1] = ps[n + 1]
        BY <1>1, <4>1
      <4>. QED  BY <1>2, <3>1, <4>2
    <3>2. CASE ~(Len(ps) > n)
      <4>1. Len(ps) = n
        BY <1>1, <1>2, <3>2
      <4>. QED  BY <1>1, <1>5, <3>2, <4>1
    <3>. QED  BY <3>1, <3>2
  <2>. QED  BY <1>3, <1>5, <2>1, <2>2 DEF InOrder
<1>. QED  BY <1>4, <1>5 DEF qs

LEMMA DealOne ==
  ASSUME NEW M, NEW V, NEW T, NEW ps \in Seq(T), NEW others, NEW m \in others, V[m] \in T, Dealt(M, V, ps, others)
  PROVE  Dealt(M, V, Append(ps, V[m]), others \ {m})
<1>. DEFINE qs == Append(ps, V[m])
            n == Len(ps)
<1>1. /\ n \in Nat /\ DOMAIN ps = 1 .. n /\ DOMAIN qs = 1 .. n + 1
      /\ \A i \in 1 .. n : qs[i] = ps[i]
      /\ qs[n + 1] = V[m]
  <2>1. qs \in Seq(T) /\ Len(qs) = n + 1 /\ (\A i \in 1 .. n : qs[i] = ps[i]) /\ qs[n + 1] = V[m]
    BY AppendProperties
  <2>2. n \in Nat /\ DOMAIN ps = 1 .. n /\ DOMAIN qs = 1 .. Len(qs)
    BY <2>1, LenProperties
  <2>. QED  BY <2>1, <2>2
<1>2. PICK g \in [1 .. n -> M] :
        /\ (\A i, j \in 1 .. n : g[i] = g[j] => i = j) /\ \A i \in 1 .. n : ps[i] = V[g[i]]
        /\ \A i \in 1 .. n : g[i] \notin others
        /\ others \subseteq M
        /\ \A k \in M : k \in others \/ \E i \in 1 .. n : g[i] = k
  BY <1>1 DEF Dealt
<1>. HIDE DEF qs, n
<1>. DEFINE h == [i \in 1 .. n + 1 |-> IF i = n + 1 THEN m ELSE g[i]]
<1>3. /\ \A i \in 1 .. n + 1 : i = n + 1 \/ i \in 1 .. n
      /\ \A i \in 1 .. n : i \in 1 .. n + 1 /\ i # n + 1
      /\ n + 1 \in 1 .. n + 1
  BY <1>1
<1>4. h \in [1 .. n + 1 -> M] /\ h[n + 1] = m /\ \A i \in 1 .. n : h[i] = g[i]
  BY <1>2, <1>3
<1>. HIDE DEF h
<1>5. \A i, j \in 1 .. n + 1 : h[i] = h[j] => i = j
  BY <1>2, <1>3, <1>4
<1>6. \A i \in 1 .. n + 1 : qs[i] = V[h[i]]
  BY <1>1, <1>2, <1>3, <1>4
<1>7. \A i \in 1 .. n + 1 : h[i] \notin others \ {m}
  BY <1>2, <1>3, <1>4
<1>8. \A k \in M : k \in others \ {m} \/ \E i \in 1 .. n + 1 : h[i] = k
  BY <1>2, <1>3, <1>4
<1>9. others \ {m} \subseteq M
  BY <1>2
<1>10. Dealt(M, V, qs, others \ {m})
  <2>. DEFINE D == DOMAIN qs
  <2>1. D = 1 .. n + 1
    BY <1>1
  <2>2. /\ h \in [D -> M]
        /\ (\A i, j \in D : h[i] = h[j] => i = j) /\ \A i \in D : qs[i] = V[h[i]]
        /\ \A i \in D : h[i] \notin others \ {m}
        /\ \A k \in M : k \in others \ {m} \/ \E i \in D : h[i] = k
    <3>. HIDE DEF D
    <3>. QED  BY <1>4, <1>5, <1>6, <1>7, <1>8, <2>1
  <2>. QED  BY <1>9, <2>2 DEF Dealt
<1>. QED  BY <1>10 DEF qs

LEMMA DealtNone ==
  ASSUME NEW M, NEW V
  PROVE  Dealt(M, V, <<>>, M) /\ Drawn(M, V, <<>>)
<1>1. DOMAIN <<>> = {}
  OBVIOUS
<1>2. [i \in {} |-> i] \in [{} -> M]
  OBVIOUS
<1>. QED  BY <1>1, <1>2 DEF Dealt, Drawn

LEMMA DrawnOne ==
  ASSUME NEW M, NEW V, NEW m \in M
  PROVE  Drawn(M, V, <<V[m]>>)
<1>1. DOMAIN <<V[m]>> = {1} /\ <<V[m]>>[1] = V[m]
  OBVIOUS
<1>. DEFINE g == [i \in {1} |-> m]
<1>2. g \in [{1} -> M] /\ g[1] = m
  OBVIOUS
<1>3. (\A i, j \in {1} : g[i] = g[j] => i = j) /\ \A i \in {1} : <<V[m]>>[i] = V[g[i]]
  <2>. HIDE DEF g
  <2>. QED  BY <1>1, <1>2
<1>. HIDE DEF g
<1>. QED  BY <1>1, <1>2, <1>3 DEF Drawn

LEMMA DealtIsDrawn ==
  ASSUME NEW M, NEW V, NEW ps, NEW others, Dealt(M, V, ps, others)
  PROVE  Drawn(M, V, ps)
BY DEF Dealt, Drawn

-----------------------------------------------------------------------------
LEMMA MarkAfterIs ==
  ASSUME file \in Files, NEW p \in Nat, NEW s, NextMark(Marks, p, s)
  PROVE  MarkAfter(Marks, p) = s
<1>1. \A t \in Marks : t \in Nat
  BY MarksAre
<1>2. \A t \in Marks : NextMark(Marks, p, t) => t = s
  <2>. SUFFICES ASSUME NEW t \in Marks, NextMark(Marks, p, t) PROVE t = s
    OBVIOUS
  <2>2. (s <= p \/ t <= s) /\ (t <= p \/ s <= t) /\ p < s /\ p < t /\ s \in Marks
    BY DEF NextMark
  <2>. QED  BY <1>1, <2>2
<1>3. s \in Marks
  BY DEF NextMark
<1>. QED  BY <1>2, <1>3 DEF MarkAfter

LEMMA RemovedAt ==
  ASSUME NEW T, NEW s \in Seq(T), NEW i \in DOMAIN s
  PROVE  /\ RemoveAt(s, i) \in Seq(T)
         /\ \A k \in DOMAIN RemoveAt(s, i) : \E j \in DOMAIN s : j # i /\ RemoveAt(s, i)[k] = s[j] /\ j = IF k < i THEN k ELSE k + 1
         /\ \A j \in DOMAIN s : j # i => \E k \in DOMAIN RemoveAt(s, i) : RemoveAt(s, i)[k] = s[j]
<1>. DEFINE n == Len(s)
            a == SubSeq(s, 1, i - 1)
            b == SubSeq(s, i + 1, n)
<1>1. n \in Nat /\ DOMAIN s = 1 .. n /\ i \in 1 .. n /\ i \in Nat
  <2>1. n \in Nat /\ DOMAIN s = 1 .. n
    BY LenProperties
  <2>. QED  BY <2>1
<1>2. a \in Seq(T) /\ Len(a) = i - 1 /\ \A k \in 1 .. i - 1 : a[k] = s[k]
  <2>1. 1 \in Nat /\ i - 1 \in Nat /\ 1 <= 1 /\ i - 1 <= n /\ 1 <= (i - 1) + 1
    BY <1>1
  <2>2. a \in Seq(T) /\ Len(a) = (i - 1) - 1 + 1 /\ \A k \in 1 .. (i - 1) - 1 + 1 : a[k] = s[1 + k - 1]
    BY <2>1, SubSeqOfInterval
  <2>3. (i - 1) - 1 + 1 = i - 1 /\ \A k \in 1 .. i - 1 : 1 + k - 1 = k
    BY <1>1
  <2>. QED  BY <2>2, <2>3
<1>3. b \in Seq(T) /\ Len(b) = n - i /\ \A k \in 1 .. n - i : b[k] = s[i + k]
  <2>1. i + 1 \in Nat /\ n \in Nat /\ 1 <= i + 1 /\ n <= n /\ i + 1 <= n + 1
    BY <1>1
  <2>2. b \in Seq(T) /\ Len(b) = n - (i + 1) + 1 /\ \A k \in 1 .. n - (i + 1) + 1 : b[k] = s[i + 1 + k - 1]
    BY <2>1, SubSeqOfInterval
  <2>3. n - (i + 1) + 1 = n - i /\ \A k \in 1 .. n - i : i + 1 + k - 1 = i + k
    BY <1>1
  <2>. QED  BY <2>2, <2>3
<1>. HIDE DEF a, b
<1>4. /\ a \o b \in Seq(T) /\ Len(a \o b) = n - 1
      /\ \A k \in 1 .. n - 1 : (a \o b)[k] = IF k < i THEN s[k] ELSE s[k + 1]
  <2>1. /\ a \o b \in Seq(T) /\ Len(a \o b) = (i - 1) + (n - i)
        /\ \A k \in 1 .. (i - 1) + (n - i) : (a \o b)[k] = IF k <= i - 1 THEN a[k] ELSE b[k - (i - 1)]
    <3>1. /\ a \o b \in Seq(T) /\ Len(a \o b) = Len(a) + Len(b)
          /\ \A k \in 1 .. Len(a) + Len(b) : (a \o b)[k] = IF k <= Len(a) THEN a[k] ELSE b[k - Len(a)]
      BY <1>2, <1>3, ConcatProperties
    <3>2. Len(a) = i - 1 /\ Len(b) = n - i
      BY <1>2, <1>3
    <3>. HIDE DEF n
    <3>. QED  BY <3>1, <3>2
  <2>2. (i - 1) + (n - i) = n - 1
    BY <1>1
  <2>3. ASSUME NEW k \in 1 .. n - 1 PROVE (a \o b)[k] = IF k < i THEN s[k] ELSE s[k + 1]
    <3>1. CASE k < i
      <4>1. k \in 1 .. i - 1 /\ k <= i - 1
        BY <1>1, <3>1
      <4>. QED  BY <1>2, <2>1, <2>2, <3>1, <4>1
    <3>2. CASE ~(k < i)
      <4>1. ~(k <= i - 1) /\ k - (i - 1) \in 1 .. n - i /\ i + (k - (i - 1)) = k + 1
        BY <1>1, <3>2
      <4>2. (a \o b)[k] = b[k - (i - 1)]
        BY <2>1, <2>2, <4>1
      <4>3. b[k - (i - 1)] = s[k + 1]
        BY <1>3, <4>1
      <4>. QED  BY <3>2, <4>2, <4>3
    <3>. QED  BY <3>1, <3>2
  <2>. QED  BY <2>1, <2>2, <2>3
<1>. DEFINE c == RemoveAt(s, i)
<1>5. c = a \o b
  BY DEF RemoveAt, a, b
<1>. HIDE DEF c
<1>6. DOMAIN c = 1 .. n - 1
  BY <1>4, <1>5, LenProperties
<1>7. ASSUME NEW k \in DOMAIN c
      PROVE  \E j \in DOMAIN s : j # i /\ c[k] = s[j] /\ j = IF k < i THEN k ELSE k + 1
  <2>1. k \in 1 .. n - 1 /\ k \in 1 .. n /\ k + 1 \in 1 .. n
    BY <1>1, <1>6
  <2>. QED  BY <1>1, <1>4, <1>5, <2>1
<1>8. ASSUME NEW j \in DOMAIN s, j # i PROVE \E k \in DOMAIN c : c[k] = s[j]
  <2>1. CASE j < i
    <3>1. j \in 1 .. n - 1
      BY <1>1, <2>1
    <3>. QED  BY <1>4, <1>5, <1>6, <2>1, <3>1
  <2>2. CASE ~(j < i)
    <3>1. j - 1 \in 1 .. n - 1 /\ ~(j - 1 < i) /\ j - 1 + 1 = j
      BY <1>1, <1>8, <2>2
    <3>. QED  BY <1>4, <1>5, <1>6, <3>1
  <2>. QED  BY <2>1, <2>2
<1>. QED  BY <1>4, <1>5, <1>7, <1>8 DEF c

LEMMA FirstRowIs ==
  ASSUME file \in Files
  PROVE  /\ FirstRow(file) \in {0, 1} /\ FirstRow(file) <= Len(Content)
         /\ file.format # "csv" => FirstRow(file) = 0
         /\ FirstRow(file) \in Boundaries
         /\ Upto(Marks, FirstRow(file)) = {} /\ Cardinality(Upto(Marks, FirstRow(file))) = 0
<1>1. Len(Content) \in Nat /\ Len(Good) \in Nat /\ Content \in Seq(Cells)
  BY ContentType, GoodType
<1>2. file.headers => file.format = "csv" /\ Content # <<>>
  BY FilesAssumption DEF Content
<1>3. FirstRow(file) \in {0, 1} /\ (file.format # "csv" => FirstRow(file) = 0) /\ FirstRow(file) <= Len(Content)
  <2>1. CASE file.headers
    <3>1. Len(Content) # 0
      BY <1>1, <1>2, <2>1, EmptySeq
    <3>. QED  BY <1>1, <1>2, <2>1, <3>1 DEF FirstRow
  <2>2. CASE ~file.headers
    BY <1>1, <2>2 DEF FirstRow
  <2>. QED  BY <2>1, <2>2
<1>4. FirstRow(file) \in Boundaries
  <2>1. CASE file.format = "line"
    <3>1. 0 \in 0 .. Len(Content)
      BY <1>1
    <3>. QED  BY <1>3, <2>1, <3>1, LineMarks
  <2>2. CASE file.format = "json"
    <3>1. 0 \in 0 .. Len(Good) /\ Depth(Content, 1, 0) = 0 /\ ~Cut(0)
      BY <1>1, DepthStep DEF Cut
    <3>. QED  BY <1>3, <2>2, <3>1, JsonMarks
  <2>3. CASE file.format \notin {"line", "json"}
    <3>1. FirstRow(file) \in FirstRow(file) .. Len(Content)
      BY <1>1, <1>3
    <3>. QED  BY <2>3, <3>1 DEF Boundaries
  <2>. QED  BY <2>1, <2>2, <2>3
<1>5. ASSUME NEW s \in Marks PROVE ~(s <= FirstRow(file))
  <2>1. s \in 1 .. Len(Good) /\ s \in Starts(Good)
    BY MarksAre DEF Marks, Complete
  <2>2. CASE file.format = "csv"
    <3>1. s \in FirstRow(file) + 1 .. Len(Good)
      BY <2>1, <2>2 DEF Starts
    <3>. QED  BY <1>1, <1>3, <3>1
  <2>3. CASE file.format # "csv"
    BY <1>3, <2>1, <2>3
  <2>. QED  BY <2>2, <2>3
<1>6. Upto(Marks, FirstRow(file)) = {}
  BY <1>5 DEF Upto
<1>. QED  BY <1>3, <1>4, <1>6, FS_EmptySet

\* The marks of a csv file or a list are its rows.
LEMMA RowMarks ==
  ASSUME file \in Files, file.format \in {"csv", "list"}
  PROVE  /\ Marks = FirstRow(file) + 1 .. Len(Good) /\ Boundaries = FirstRow(file) .. Len(Content)
         /\ \A s \in Marks : ValueAt(Good, s) = Content[s] /\ ValueFrom[s] = Content[s] /\ Content[s] # Error
         /\ \A p \in FirstRow(file) .. Len(Good) : p < Len(Good) =>
              NextMark(Marks, p, p + 1) /\ Upto(Marks, p + 1) = Upto(Marks, p) \cup {p + 1}
         /\ ~WellFormed => Content[Len(Good) + 1] = Error
<1>1. /\ Len(Content) \in Nat /\ Len(Good) \in Nat /\ Len(Good) <= Len(Content) /\ DOMAIN Content = 1 .. Len(Content)
      /\ \A i \in 1 .. Len(Good) : Good[i] = Content[i]
  BY ContentType, GoodType
<1>2. FirstRow(file) \in {0, 1} /\ FirstRow(file) \in Nat
  BY FirstRowIs
<1>3. Starts(Good) = FirstRow(file) + 1 .. Len(Good)
  BY DEF Starts
<1>4. ASSUME NEW s \in Starts(Good) PROVE Ends(Good, s) # {}
  <2>1. \A e \in s .. Len(Good) + 1 : IsEnd(Good, s, e)
    BY DEF IsEnd
  <2>2. s \in s .. Len(Good) + 1
    BY <1>1, <1>2, <1>3
  <2>. QED  BY <2>1, <2>2 DEF Ends
<1>5. Marks = FirstRow(file) + 1 .. Len(Good)
  BY <1>3, <1>4 DEF Marks, Complete
<1>6. ASSUME NEW s \in Marks PROVE ValueAt(Good, s) = Content[s] /\ ValueFrom[s] = Content[s] /\ Content[s] # Error
  <2>1. s \in 1 .. Len(Good) /\ s \in DOMAIN Content
    BY <1>1, <1>2, <1>5
  <2>2. ValueAt(Good, s) = Content[s]
    BY <1>1, <2>1 DEF ValueAt
  <2>3. Content[s] # Error
    <3>1. CASE file.format = "csv"
      BY <2>1, <3>1, GoodIs DEF Wrong
    <3>2. CASE file.format = "list"
      BY <2>1, <3>2, FilesAssumption DEF Content, Error
    <3>. QED  BY <3>1, <3>2
  <2>. QED  BY <2>2, <2>3 DEF ValueFrom
<1>7. ASSUME NEW p \in FirstRow(file) .. Len(Good), p < Len(Good)
      PROVE  NextMark(Marks, p, p + 1) /\ Upto(Marks, p + 1) = Upto(Marks, p) \cup {p + 1}
  <2>1. p \in Nat /\ p + 1 \in Marks
    BY <1>1, <1>2, <1>5, <1>7
  <2>2. \A t \in Marks : t \in Nat
    BY MarksAre
  <2>3. \A t \in Marks : (t <= p \/ p + 1 <= t) /\ (t <= p + 1 <=> t <= p \/ t = p + 1)
    BY <2>1, <2>2
  <2>. QED  BY <2>1, <2>3 DEF NextMark, Upto
<1>8. ASSUME ~WellFormed PROVE Content[Len(Good) + 1] = Error
  BY <1>8, GoodIs DEF Wrong
<1>9. Boundaries = FirstRow(file) .. Len(Content)
  BY DEF Boundaries
<1>. QED  BY <1>5, <1>6, <1>7, <1>8, <1>9

\* A read has not ended inside a number, whose digits the reader would take for a number.
NumbersWhole == file.format = "json" => ~Cut(offset)

\* What get_value finds, in the state it is called in.
LEMMA BytesFound ==
  ASSUME NumbersWhole, TypeInv, PlaceInv, Bytewise
  PROVE  /\ Find = Malformed => ~WellFormed /\ \A t \in Marks : t <= Place
         /\ Find.size # -1 /\ ~(eof /\ buffer = <<>>) =>
              \E s, q : q \in Boundaries /\ FindsNext(Place, offset, buffer, Find, s, q)
         /\ AtTheEnd => WellFormed /\ \A t \in Marks : t <= Place
<1>1. /\ file \in Files /\ offset \in Nat /\ Len(buffer) \in Nat /\ Len(buffer) <= offset /\ offset <= Len(Content)
      /\ Place \in Boundaries /\ buffer = SubSeq(Content, Place + 1, offset) /\ Place = offset - Len(buffer)
      /\ eof \in BOOLEAN /\ (eof => offset = Len(Content))
  BY LenProperties DEF TypeInv, PlaceInv, Place
<1>2. Place \in Nat /\ Place <= offset
  BY <1>1
<1>3. Nothing.size = -1 /\ Malformed.size = -1 /\ Nothing # Malformed
  BY DEF Nothing, Malformed, Found, Error
<1>. DEFINE p == Place
            found == Find
<1>4. CASE file.format = "line"
  <2>1. found = FindLine(SubSeq(Content, p + 1, offset), eof)
    BY <1>1, <1>4 DEF Find
  <2>2. \/ found = Nothing /\ ~eof
        \/ buffer = <<>> /\ eof
        \/ found # Nothing /\ eof /\ offset # Len(Content)
        \/ found # Nothing /\ found # Malformed /\ \E s, q : q \in Boundaries /\ FindsNext(p, offset, buffer, found, s, q)
    <3>1. p \in Boundaries
      BY <1>1
    <3>. HIDE DEF p, found
    <3>. QED  BY <1>1, <1>2, <1>4, <2>1, <3>1, FindsLine DEF p
  <2>3. found # Malformed
    <3>1. SUFFICES ASSUME buffer = <<>>, eof PROVE found.size # -1
      <4>. HIDE DEF p, found
      <4>. QED  BY <1>1, <1>3, <2>2
    <3>2. {i \in DOMAIN buffer : buffer[i] = LF} = {}
      BY <3>1
    <3>3. found = Found(WithoutCR(buffer), Len(buffer), Len(buffer) + 1)
      BY <1>4, <3>1, <3>2 DEF Find, FindLine
    <3>4. found.size = Len(buffer)
      BY <3>3 DEF Found
    <3>. QED  BY <1>1, <3>4
  <2>4. ASSUME AtTheEnd PROVE WellFormed /\ \A t \in Marks : t <= Place
    <3>1. eof /\ buffer = <<>>
      BY <1>4, <2>4 DEF AtTheEnd
    <3>2. Place = Len(Content)
      <4>1. Len(<<>>) = 0
        BY EmptySeq
      <4>. QED  BY <1>1, <3>1, <4>1
    <3>3. \A t \in Marks : t \in 1 .. Len(Good)
      BY <1>1, MarksAre
    <3>4. Len(Good) <= Len(Content) /\ Len(Content) \in Nat /\ Len(Good) \in Nat
      BY <1>1, GoodType, ContentType
    <3>5. \A t \in Marks : t <= Place
      BY <3>2, <3>3, <3>4
    <3>. QED  BY <1>1, <1>4, <3>5, MostlyGood
  <2>. QED  BY <1>1, <1>3, <2>2, <2>3, <2>4
<1>5. CASE file.format = "json"
  <2>1. found = FindJson(SubSeq(Content, p + 1, offset))
    BY <1>1, <1>5 DEF Find
  <2>2. \/ /\ found = Nothing
           /\ offset = Len(Content) => WellFormed /\ \A t \in Marks : t <= p
        \/ found = Malformed /\ ~WellFormed /\ \A t \in Marks : t <= p
        \/ found # Nothing /\ found # Malformed /\ \E s, q : q \in Boundaries /\ FindsNext(p, offset, buffer, found, s, q)
    <3>1. p \in Boundaries
      BY <1>1
    <3>. HIDE DEF p, found
    <3>. QED  BY <1>1, <1>2, <1>5, <2>1, <3>1, FindsJson DEF p, NumbersWhole
  <2>3. AtTheEnd => found = Nothing /\ offset = Len(Content)
    BY <1>5 DEF AtTheEnd, Content
  <2>. QED  BY <1>3, <2>2, <2>3
<1>. QED  BY <1>4, <1>5 DEF Bytewise

-----------------------------------------------------------------------------
LEMMA InitInv == Init => IInv
<1>. SUFFICES ASSUME Init PROVE IInv
  OBVIOUS
<1>1. /\ file \in Files /\ Content \in Seq(Cells) /\ Len(Content) \in Nat /\ DOMAIN Content = 1 .. Len(Content)
      /\ file.random \in BOOLEAN /\ file.repeat \in BOOLEAN /\ file.headers \in BOOLEAN
      /\ file.format \in {"line", "json", "csv", "list"}
      /\ (file.headers => file.format = "csv")
  BY ContentType, FilesAssumption DEF Init
<1>2. offset = FirstRow(file) /\ eof = FALSE /\ position = 0 /\ random = FALSE /\ again = FALSE
  BY <1>1, FirstRowIs DEF Init
<1>3. /\ positions = IF file.repeat /\ ~file.random /\ ~file.headers THEN <<At(0, 0)>> ELSE <<>>
      /\ thread = IF file.format # "list" /\ (file.random \/ (file.repeat /\ file.headers)) THEN "scanning" ELSE "next"
      /\ value = <<>> /\ queue = <<>> /\ closed = FALSE /\ killed = FALSE /\ pass = <<>>
  BY DEF Init
<1>4. /\ Upto(Marks, FirstRow(file)) = {} /\ Cardinality(Upto(Marks, FirstRow(file))) = 0 /\ FirstRow(file) \in Nat
      /\ FirstRow(file) <= Len(Content) /\ FirstRow(file) \in Boundaries
      /\ (file.format # "csv" => FirstRow(file) = 0)
  BY <1>1, FirstRowIs
<1>5. file.format # "list" => buffer = <<>>
  BY <1>1 DEF Init
<1>6. file.format = "list" /\ ~(file.random /\ ~file.repeat) => buffer = Content
  BY <1>1 DEF Init, Content
<1>7. ASSUME file.format = "list", file.random, ~file.repeat
      PROVE  \E g \in [DOMAIN Content -> DOMAIN Content] :
               /\ \A i, j \in DOMAIN Content : g[i] = g[j] => i = j
               /\ buffer = [i \in DOMAIN Content |-> Content[g[i]]]
  <2>1. PICK g \in {q \in [DOMAIN Content -> DOMAIN Content] : \A i, j \in DOMAIN q : i # j => q[i] # q[j]} :
          buffer = [i \in DOMAIN Content |-> Content[g[i]]]
    BY <1>7 DEF Init, Content
  <2>. QED  BY <2>1
<1>8. buffer \in Seq(Cells)
  <2>1. CASE file.format = "list" /\ file.random /\ ~file.repeat
    <3>1. PICK g \in [DOMAIN Content -> DOMAIN Content] : buffer = [i \in DOMAIN Content |-> Content[g[i]]]
      BY <1>7, <2>1
    <3>2. \A i \in 1 .. Len(Content) : g[i] \in DOMAIN Content /\ Content[g[i]] \in Cells
      BY <1>1 DEF Cells, Content
    <3>3. buffer \in [1 .. Len(Content) -> Cells]
      BY <1>1, <3>1, <3>2
    <3>. QED  BY <1>1, <3>3
  <2>2. CASE file.format # "list"
    BY <1>5, <2>2, EmptySeq
  <2>. QED  BY <1>1, <1>6, <2>1, <2>2
<1>9. Len(<<>>) = 0 /\ DOMAIN <<>> = {}
  OBVIOUS
<1>10. TypeInv
  <2>1. <<>> \in Seq(Cells) /\ <<>> \in Seq(Given) /\ <<>> \in Given
    BY EmptySeq DEF Given
  <2>2. positions \in Seq([at : Nat, size : Nat])
    <3>1. At(0, 0) \in [at : Nat, size : Nat]
      BY DEF At
    <3>2. <<At(0, 0)>> \in Seq([at : Nat, size : Nat]) /\ <<>> \in Seq([at : Nat, size : Nat])
      BY <3>1
    <3>. QED  BY <1>3, <3>2
  <2>. QED  BY <1>1, <1>2, <1>3, <1>4, <1>8, <2>1, <2>2 DEF TypeInv, Threads
<1>11. ErrorInv
  BY <1>3, <1>9 DEF ErrorInv, Error
<1>12. Place = FirstRow(file)
  <2>1. Bytewise => buffer = <<>>
    BY <1>5 DEF Bytewise
  <2>. QED  BY <1>2, <1>4, <1>9, <2>1 DEF Place
<1>13. ASSUME NEW i \in DOMAIN positions
       PROVE  i = 1 /\ positions[i].at = 0 /\ positions[i].size = 0 /\ ~file.headers /\ ~file.random /\ FirstRow(file) = 0
  <2>1. file.repeat /\ ~file.random /\ ~file.headers /\ positions = <<At(0, 0)>>
    BY <1>3, <1>9
  <2>2. DOMAIN <<At(0, 0)>> = {1} /\ <<At(0, 0)>>[1] = At(0, 0)
    OBVIOUS
  <2>. QED  BY <2>1, <2>2 DEF At, FirstRow
<1>14. PlaceInv
  <2>1. ASSUME Bytewise
        PROVE  /\ Len(buffer) <= offset /\ buffer = SubSeq(Content, Place + 1, offset)
               /\ Place \in Boundaries
    <3>1. buffer = <<>>
      BY <1>5, <2>1 DEF Bytewise
    <3>2. SubSeq(Content, FirstRow(file) + 1, FirstRow(file)) = <<>>
      BY <1>4, SubSeqEmpty
    <3>. QED  BY <1>2, <1>4, <1>9, <1>12, <3>1, <3>2
  <2>2. \A i \in DOMAIN positions : positions[i].at \in Boundaries /\ positions[i].at + positions[i].size <= Len(Content)
    BY <1>1, <1>4, <1>13
  <2>. QED  BY <1>2, <1>4, <2>1, <2>2 DEF PlaceInv
<1>15. ThreadInv
  BY <1>2, <1>3 DEF ThreadInv
<1>16. InOrderInv
  <2>. SUFFICES ASSUME ~file.random PROVE InOrderInv
    BY DEF InOrderInv
  <2>1. positions # <<>> => positions[1].at = FirstRow(file)
    <3>1. positions # <<>> => 1 \in DOMAIN positions
      BY <1>3
    <3>. QED  BY <1>13, <3>1
  <2>2. file.repeat /\ positions = <<>> => file.format = "csv" /\ thread = "scanning"
    <3>1. <<At(0, 0)>> # <<>>
      OBVIOUS
    <3>. QED  BY <1>1, <1>3, <3>1
  <2>3. InOrder(Cardinality(Upto(Marks, Place)), pass, Values)
    <3>1. InOrder(0, <<>>, Values)
      BY <1>9 DEF InOrder
    <3>. QED  BY <1>3, <1>4, <1>12, <3>1
  <2>4. Len(pass) = 0 /\ offset - FirstRow(file) = 0 /\ thread # "done"
    BY <1>2, <1>3, <1>4, <1>9
  <2>5. ~(Len(pass) > Cardinality(Upto(Marks, Place)))
    <3>1. Cardinality(Upto(Marks, Place)) = 0
      BY <1>4, <1>12
    <3>. QED  BY <2>4, <3>1
  <2>. QED  BY <1>2, <1>4, <1>6, <2>1, <2>2, <2>3, <2>4, <2>5 DEF InOrderInv
<1>17. RandomInv
  <2>. SUFFICES ASSUME file.random, file.format # "list" PROVE RandomInv
    BY DEF RandomInv
  <2>1. DOMAIN positions = {} /\ thread = "scanning" /\ Left = {}
    BY <1>3, <1>9 DEF Left
  <2>2. Bytewise => position = Place
    BY <1>2, <1>4, <1>12 DEF Bytewise
  <2>3. file.format = "csv" => offset <= Len(Good)
    <3>1. SUFFICES ASSUME file.format = "csv", ~(FirstRow(file) <= Len(Good)) PROVE FALSE
      BY <1>2
    <3>2. Len(Good) \in Nat
      BY <1>1, GoodType
    <3>3. FirstRow(file) = 1 /\ Len(Good) = 0
      BY <1>1, <3>1, <3>2, FirstRowIs
    <3>4. file.headers /\ Content[1] # Error
      <4>1. file.headers
        BY <3>3 DEF FirstRow
      <4>. QED  BY <1>1, <4>1, FilesAssumption DEF Content, Error
    <3>5. ~WellFormed
      BY <1>1, <1>4, <3>3, GoodIs
    <3>6. Content[0 + 1] = Error
      BY <1>1, <3>1, <3>3, <3>5, RowMarks
    <3>. QED  BY <3>4, <3>6
  <2>. QED  BY <1>4, <1>12, <2>1, <2>2, <2>3 DEF RandomInv
<1>18. ListInv
  <2>. SUFFICES ASSUME file.random, file.format = "list" PROVE ListInv
    BY DEF ListInv
  <2>1. CASE file.repeat
    BY <1>3, <1>6, <2>1, DealtNone DEF ListInv
  <2>2. CASE ~file.repeat
    <3>1. Len(pass) = offset /\ (\A i \in 1 .. offset : pass[i] = buffer[i]) /\ thread # "done"
      BY <1>2, <1>3, <1>4, <1>9
    <3>. QED  BY <1>7, <2>2, <3>1 DEF ListInv, Mixed
  <2>. QED  BY <2>1, <2>2
<1>. QED  BY <1>10, <1>11, <1>14, <1>15, <1>16, <1>17, <1>18 DEF IInv

-----------------------------------------------------------------------------
(***************************************************************************)
(* Steps that leave the reader as it is.                                   *)
(***************************************************************************)
LEMMA SamePlace ==
  ASSUME file' = file, offset' = offset, buffer' = buffer
  PROVE  Place' = Place
BY SameFile DEF Place

LEMMA SameLeft ==
  ASSUME file' = file, positions' = positions
  PROVE  Left' = Left
BY SameFile DEF Left

LEMMA ReaderStays ==
  ASSUME IInv, file' = file, UNCHANGED reader, pass' = pass,
         thread' = thread \/ (thread = "yield" /\ thread' \in {"next", "stopped"})
  PROVE  PlaceInv' /\ ThreadInv' /\ InOrderInv' /\ RandomInv' /\ ListInv'
<1>1. /\ Content' = Content /\ Good' = Good /\ Marks' = Marks /\ Boundaries' = Boundaries
      /\ ValueFrom' = ValueFrom /\ Values' = Values
      /\ (WellFormed' <=> WellFormed) /\ (Bytewise' <=> Bytewise)
  BY SameFile
<1>2. /\ offset' = offset /\ buffer' = buffer /\ eof' = eof /\ position' = position /\ positions' = positions
      /\ random' = random /\ again' = again
  BY DEF reader
<1>3. Place' = Place /\ Left' = Left
  BY <1>2, SamePlace, SameLeft
<1>4. Hand' = Hand
  BY <1>1, <1>2, <1>3 DEF Hand
<1>5. PlaceInv'
  BY <1>1, <1>2, <1>3 DEF IInv, PlaceInv
<1>6. ThreadInv'
  BY <1>1, <1>2 DEF IInv, ThreadInv
<1>7. InOrderInv'
  BY <1>1, <1>2, <1>3 DEF IInv, InOrderInv
<1>8. ScannedInv /\ thread \notin {"scanning", "failed"} => ScannedInv'
  BY <1>1, <1>2, <1>3, <1>4 DEF ScannedInv
<1>9. RandomInv'
  BY <1>1, <1>2, <1>3, <1>8 DEF IInv, RandomInv
<1>10. ListInv'
  BY <1>1, <1>2 DEF IInv, ListInv
<1>. QED  BY <1>5, <1>6, <1>7, <1>9, <1>10

LEMMA SendStep ==
  ASSUME IInv, Send
  PROVE  IInv'
<1>1. /\ thread = "yield" /\ queue' = Append(queue, value) /\ thread' = "next" /\ value' = <<>>
      /\ file' = file /\ (UNCHANGED reader) /\ closed' = closed /\ killed' = killed /\ pass' = pass
  BY DEF Send
<1>2. PlaceInv' /\ ThreadInv' /\ InOrderInv' /\ RandomInv' /\ ListInv'
  BY <1>1, ReaderStays
<1>3. TypeInv'
  <2>1. value' \in Given
    BY <1>1, EmptySeq DEF Given
  <2>2. queue' \in Seq(Given)
    BY <1>1, AppendProperties DEF IInv, TypeInv
  <2>. QED  BY <1>1, <2>1, <2>2, SameFile DEF IInv, TypeInv, Threads, reader
<1>4. ErrorInv'
  <2>1. ASSUME NEW i \in DOMAIN queue', queue'[i] = Error PROVE ~WellFormed
    <3>1. /\ queue \in Seq(Given) /\ value \in Given
      BY DEF IInv, TypeInv
    <3>2. /\ Len(queue) \in Nat /\ DOMAIN queue = 1 .. Len(queue) /\ DOMAIN queue' = 1 .. Len(queue) + 1
          /\ \A k \in 1 .. Len(queue) : queue'[k] = queue[k]
          /\ queue'[Len(queue) + 1] = value
      BY <1>1, <3>1, AppendProperties, LenProperties
    <3>3. i \in DOMAIN queue \/ i = Len(queue) + 1
      BY <3>2
    <3>. QED  BY <2>1, <3>2, <3>3 DEF IInv, ErrorInv
  <2>2. value' # Error /\ thread' # "failed"
    BY <1>1 DEF Error
  <2>. QED  BY <1>1, <2>1, <2>2, SameFile DEF IInv, ErrorInv
<1>. QED  BY <1>2, <1>3, <1>4 DEF IInv

LEMMA SendRefusedStep ==
  ASSUME IInv, SendRefused
  PROVE  IInv'
<1>1. /\ thread = "yield" /\ thread' = "stopped" /\ value' = <<>>
      /\ file' = file /\ (UNCHANGED reader) /\ queue' = queue /\ closed' = closed /\ killed' = killed /\ pass' = pass
  BY DEF SendRefused, task
<1>2. PlaceInv' /\ ThreadInv' /\ InOrderInv' /\ RandomInv' /\ ListInv'
  BY <1>1, ReaderStays
<1>3. value' \in Given /\ value' # Error
  BY <1>1, EmptySeq DEF Given, Error
<1>4. TypeInv'
  BY <1>1, <1>3, SameFile DEF IInv, TypeInv, Threads, reader
<1>5. ErrorInv'
  BY <1>1, <1>3, SameFile DEF IInv, ErrorInv
<1>. QED  BY <1>2, <1>4, <1>5 DEF IInv

LEMMA ForwardStep ==
  ASSUME IInv, Forward
  PROVE  IInv'
<1>1. /\ queue # <<>> /\ file' = file /\ (UNCHANGED reader) /\ thread' = thread /\ value' = value /\ pass' = pass
      /\ IF Head(queue) = Error THEN killed' = TRUE /\ closed' = TRUE /\ queue' = <<>>
         ELSE queue' = Tail(queue) /\ closed' = closed /\ killed' = killed
  BY DEF Forward
<1>2. PlaceInv' /\ ThreadInv' /\ InOrderInv' /\ RandomInv' /\ ListInv'
  BY <1>1, ReaderStays
<1>3. /\ queue \in Seq(Given) /\ Len(queue) \in Nat /\ 1 \in DOMAIN queue /\ Head(queue) = queue[1]
      /\ DOMAIN queue = 1 .. Len(queue)
  <2>1. queue \in Seq(Given)
    BY DEF IInv, TypeInv
  <2>2. Len(queue) \in Nat \ {0}
    BY <1>1, <2>1, EmptySeq
  <2>. QED  BY <1>1, <2>1, <2>2, LenProperties
<1>4. /\ Tail(queue) \in Seq(Given)
      /\ \A i \in DOMAIN Tail(queue) : i + 1 \in DOMAIN queue /\ Tail(queue)[i] = queue[i + 1]
  <2>1. /\ Tail(queue) \in Seq(Given) /\ Len(Tail(queue)) = Len(queue) - 1
        /\ \A i \in 1 .. Len(Tail(queue)) : Tail(queue)[i] = queue[i + 1]
    BY <1>1, <1>3, HeadTailProperties
  <2>2. DOMAIN Tail(queue) = 1 .. Len(queue) - 1
    BY <2>1, LenProperties
  <2>3. \A i \in 1 .. Len(queue) - 1 : i + 1 \in 1 .. Len(queue)
    BY <1>3
  <2>. QED  BY <1>3, <2>1, <2>2, <2>3
<1>5. CASE Head(queue) = Error
  <2>1. ~WellFormed
    BY <1>3, <1>5 DEF IInv, ErrorInv
  <2>2. queue' \in Seq(Given) /\ DOMAIN queue' = {}
    BY <1>1, <1>5, EmptySeq
  <2>3. TypeInv'
    BY <1>1, <1>5, <2>2, SameFile DEF IInv, TypeInv, reader
  <2>4. ErrorInv'
    BY <1>1, <2>1, <2>2, SameFile DEF IInv, ErrorInv
  <2>. QED  BY <1>2, <2>3, <2>4 DEF IInv
<1>6. CASE Head(queue) # Error
  <2>1. queue' = Tail(queue) /\ closed' = closed /\ killed' = killed
    BY <1>1, <1>6
  <2>2. TypeInv'
    BY <1>1, <1>4, <2>1, SameFile DEF IInv, TypeInv, reader
  <2>3. ErrorInv'
    BY <1>1, <1>4, <2>1, SameFile DEF IInv, ErrorInv
  <2>. QED  BY <1>2, <2>2, <2>3 DEF IInv
<1>. QED  BY <1>5, <1>6

LEMMA ReceiversGoneStep ==
  ASSUME IInv, ReceiversGone
  PROVE  IInv'
<1>1. /\ closed' = TRUE /\ queue' = <<>>
      /\ file' = file /\ (UNCHANGED reader) /\ thread' = thread /\ value' = value /\ killed' = killed /\ pass' = pass
  BY DEF ReceiversGone
<1>2. PlaceInv' /\ ThreadInv' /\ InOrderInv' /\ RandomInv' /\ ListInv'
  BY <1>1, ReaderStays
<1>3. queue' \in Seq(Given) /\ DOMAIN queue' = {}
  BY <1>1, EmptySeq
<1>4. TypeInv'
  BY <1>1, <1>3, SameFile DEF IInv, TypeInv, reader
<1>5. ErrorInv'
  BY <1>1, <1>3, SameFile DEF IInv, ErrorInv
<1>. QED  BY <1>2, <1>4, <1>5 DEF IInv

LEMMA StutterStep ==
  ASSUME IInv, UNCHANGED vars
  PROVE  IInv'
<1>1. file' = file /\ (UNCHANGED reader) /\ thread' = thread /\ value' = value /\ (UNCHANGED task) /\ pass' = pass
  BY DEF vars
<1>2. PlaceInv' /\ ThreadInv' /\ InOrderInv' /\ RandomInv' /\ ListInv'
  BY <1>1, ReaderStays
<1>3. TypeInv'
  BY <1>1, SameFile DEF IInv, TypeInv, reader, task
<1>4. ErrorInv'
  BY <1>1, SameFile DEF IInv, ErrorInv, task
<1>. QED  BY <1>2, <1>3, <1>4 DEF IInv

-----------------------------------------------------------------------------
(***************************************************************************)
(* Steps of LineReader and JsonReader.                                     *)
(***************************************************************************)
LEMMA TaskStays ==
  ASSUME IInv, file' = file, UNCHANGED task,
         value' = value \/ value' # Error \/ ~WellFormed, thread' = thread \/ thread' # "failed" \/ ~WellFormed
  PROVE  ErrorInv' /\ queue' = queue /\ closed' = closed /\ killed' = killed
<1>1. queue' = queue /\ closed' = closed /\ killed' = killed
  BY DEF task
<1>2. ErrorInv'
  BY <1>1, SameFile DEF IInv, ErrorInv
<1>. QED  BY <1>1, <1>2

LEMMA BytesIs ==
  ASSUME IInv, Bytewise
  PROVE  /\ file \in Files /\ file.format \in {"line", "json"} /\ FirstRow(file) = 0
         /\ file.random \in BOOLEAN /\ file.repeat \in BOOLEAN
         /\ offset \in Nat /\ Len(buffer) \in Nat /\ Len(buffer) <= offset /\ offset <= Len(Content) /\ Len(Content) \in Nat
         /\ buffer = SubSeq(Content, Place + 1, offset) /\ Place \in Boundaries /\ Place \in Nat /\ Place <= offset
         /\ Place = offset - Len(buffer)
         /\ thread = "scanning" => file.random
         /\ positions = <<>> => file.random \/ ~file.repeat
         /\ \A t \in Marks : t \in 1 .. Len(Content)
<1>1. /\ file \in Files /\ offset \in Nat /\ Len(buffer) \in Nat
  BY LenProperties DEF IInv, TypeInv
<1>2. /\ Len(buffer) <= offset /\ offset <= Len(Content) /\ buffer = SubSeq(Content, Place + 1, offset) /\ Place \in Boundaries
  BY DEF IInv, PlaceInv
<1>3. file.format \in {"line", "json"} /\ FirstRow(file) = 0 /\ ~file.headers
  <2>1. file.format \in {"line", "json"}
    BY DEF Bytewise
  <2>. QED  BY <1>1, <2>1, FirstRowIs, FilesAssumption
<1>4. Place = offset - Len(buffer)
  BY DEF Place
<1>5. Place \in Nat /\ Place <= offset
  BY <1>1, <1>2, <1>4
<1>6. thread = "scanning" => file.random
  BY <1>3 DEF IInv, ThreadInv
<1>7. positions = <<>> => file.random \/ ~file.repeat
  BY <1>3 DEF IInv, InOrderInv
<1>8. \A t \in Marks : t \in 1 .. Len(Content)
  <2>1. Len(Good) \in Nat /\ Len(Good) <= Len(Content) /\ Len(Content) \in Nat
    BY <1>1, GoodType, ContentType
  <2>. QED  BY <1>1, <2>1, MarksAre
<1>. QED  BY <1>1, <1>2, <1>3, <1>4, <1>5, <1>6, <1>7, <1>8, ContentType

\* The reader stands at q, with what it has read from there up to o.
LEMMA NowAt ==
  ASSUME IInv, Bytewise, file' = file, NEW q \in Boundaries, NEW o \in Nat, q <= o, o <= Len(Content),
         offset' = o, buffer' = SubSeq(Content, q + 1, o)
  PROVE  /\ Place' = q /\ buffer' \in Seq(Cells) /\ Len(buffer') \in Nat /\ Len(buffer') <= offset'
         /\ buffer' = SubSeq(Content, Place' + 1, offset')
         /\ offset' \in Nat /\ FirstRow(file) <= offset' /\ offset' <= Len(Content)
<1>1. q \in Nat /\ Len(Content) \in Nat /\ FirstRow(file) = 0
  BY BoundariesType, BytesIs
<1>2. SubSeq(Content, q + 1, o) \in Seq(Cells) /\ Len(SubSeq(Content, q + 1, o)) = o - q
  BY <1>1, BytesIs, Parts
<1>3. buffer' \in Seq(Cells) /\ Len(buffer') = o - q
  BY <1>2
<1>4. Place' = offset' - Len(buffer')
  BY SameFile DEF Place
<1>5. Place' = q /\ Len(buffer') \in Nat /\ Len(buffer') <= offset'
  BY <1>1, <1>3, <1>4
<1>. QED  BY <1>1, <1>3, <1>5

\* A new position is for one more mark.
LEMMA FoundAt ==
  ASSUME IInv, file.random, file.format # "list", file' = file, thread = "scanning",
         NEW at \in [at : Nat, size : Nat], at.at = Place, Place \in Nat,
         NEW s, NextMark(Marks, Place, s), positions' = Append(positions, at)
  PROVE  /\ positions' \in Seq([at : Nat, size : Nat])
         /\ \A k \in DOMAIN positions' : positions'[k] = at \/ \E j \in DOMAIN positions : positions'[k] = positions[j]
         /\ Left' = Upto(Marks, Place) \cup {s}
         /\ \A k \in DOMAIN positions' : NextMark(Marks, positions'[k].at, MarkAfter(Marks, positions'[k].at))
         /\ \A k, l \in DOMAIN positions' : MarkAfter(Marks, positions'[k].at) = MarkAfter(Marks, positions'[l].at) => k = l
<1>. DEFINE n == Len(positions)
<1>1. file \in Files /\ positions \in Seq([at : Nat, size : Nat])
  BY DEF IInv, TypeInv
<1>2. /\ positions' \in Seq([at : Nat, size : Nat]) /\ Len(positions') = n + 1
      /\ \A i \in 1 .. n : positions'[i] = positions[i]
      /\ positions'[n + 1] = at
  BY <1>1, AppendProperties
<1>3. n \in Nat /\ DOMAIN positions = 1 .. n /\ DOMAIN positions' = 1 .. n + 1
  BY <1>1, <1>2, LenProperties
<1>. HIDE DEF n
<1>4. \A i \in 1 .. n + 1 : i \in 1 .. n \/ i = n + 1
  BY <1>3
<1>5. MarkAfter(Marks, Place) = s
  BY <1>1, MarkAfterIs
<1>6. /\ \A i \in DOMAIN positions : NextMark(Marks, positions[i].at, MarkAfter(Marks, positions[i].at))
      /\ \A i, j \in DOMAIN positions : MarkAfter(Marks, positions[i].at) = MarkAfter(Marks, positions[j].at) => i = j
      /\ Left = Upto(Marks, Place)
  BY DEF IInv, RandomInv
<1>7. s \notin Left
  <2>1. s \in Nat /\ Place < s
    BY <1>1, MarksAre DEF NextMark
  <2>. QED  BY <1>6, <2>1 DEF Upto
<1>8. \A i \in 1 .. n : MarkAfter(Marks, positions[i].at) # s
  BY <1>3, <1>7 DEF Left
<1>9. Left' = Left \cup {s}
  <2>1. Left' = {MarkAfter(Marks, positions'[i].at) : i \in DOMAIN positions'}
    BY SameFile DEF Left
  <2>2. n + 1 \in 1 .. n + 1 /\ \A i \in 1 .. n : i \in 1 .. n + 1
    BY <1>3
  <2>3. Left = {MarkAfter(Marks, positions[i].at) : i \in DOMAIN positions}
    BY DEF Left
  <2>4. /\ MarkAfter(Marks, positions'[n + 1].at) = s
        /\ \A i \in 1 .. n : MarkAfter(Marks, positions'[i].at) = MarkAfter(Marks, positions[i].at)
    BY <1>2, <1>5
  <2>. QED  BY <1>3, <1>4, <2>1, <2>2, <2>3, <2>4
<1>10. \A i \in DOMAIN positions' : NextMark(Marks, positions'[i].at, MarkAfter(Marks, positions'[i].at))
  BY <1>2, <1>3, <1>4, <1>5, <1>6
<1>11. \A i, j \in DOMAIN positions' : MarkAfter(Marks, positions'[i].at) = MarkAfter(Marks, positions'[j].at) => i = j
  BY <1>2, <1>3, <1>4, <1>5, <1>6, <1>8
<1>. QED  BY <1>2, <1>3, <1>4, <1>6, <1>9, <1>10, <1>11

LEMMA GetValueStep ==
  ASSUME NumbersWhole, IInv, GetValue
  PROVE  IInv'
<1>1. /\ Bytewise /\ thread \in {"scanning", "reading"} /\ ~(eof /\ buffer = <<>>) /\ Find.size # -1
      /\ buffer' = SubSeq(buffer, Find.moved + 1, Len(buffer)) /\ position' = position + Find.moved /\ eof' = FALSE
      /\ file' = file /\ offset' = offset /\ random' = random /\ again' = again /\ (UNCHANGED task)
  BY DEF GetValue, Searching, Take
<1>2. /\ file \in Files /\ file.format \in {"line", "json"} /\ FirstRow(file) = 0
      /\ file.random \in BOOLEAN /\ file.repeat \in BOOLEAN
      /\ offset \in Nat /\ offset <= Len(Content) /\ Len(Content) \in Nat
      /\ Place \in Boundaries /\ Place \in Nat /\ Place <= offset
      /\ (thread = "scanning" => file.random)
      /\ \A t \in Marks : t \in 1 .. Len(Content)
  BY <1>1, BytesIs
<1>3. PICK s, q : q \in Boundaries /\ FindsNext(Place, offset, buffer, Find, s, q)
  BY <1>1, BytesFound DEF IInv
<1>4. /\ NextMark(Marks, Place, s) /\ Upto(Marks, q) = Upto(Marks, Place) \cup {s}
      /\ Find.value = ValueAt(Good, s) /\ Find.value \in Seq(Cells) /\ Find.value # Error
      /\ Find.size \in 0 .. offset - Place /\ Find.moved \in Nat
      /\ q \in Nat /\ Place <= q /\ q <= offset
      /\ buffer' = SubSeq(Content, q + 1, offset)
      /\ q = Place + Find.moved \/ q = Len(Content)
  BY <1>1, <1>3 DEF FindsNext
<1>5. s \in Marks /\ Place < s /\ s \in Nat /\ s <= Len(Content) /\ Place # Len(Content) /\ ValueFrom[s] = Find.value
  BY <1>2, <1>4 DEF NextMark, ValueFrom
<1>6. MarkAfter(Marks, Place) = s
  BY <1>2, <1>4, MarkAfterIs
<1>7. /\ Place' = q /\ buffer' \in Seq(Cells) /\ Len(buffer') \in Nat /\ Len(buffer') <= offset'
      /\ buffer' = SubSeq(Content, Place' + 1, offset')
      /\ offset' \in Nat /\ FirstRow(file) <= offset' /\ offset' <= Len(Content)
  BY <1>1, <1>2, <1>3, <1>4, NowAt
<1>8. /\ Content' = Content /\ Good' = Good /\ Marks' = Marks /\ Boundaries' = Boundaries
      /\ ValueFrom' = ValueFrom /\ Values' = Values /\ Given' = Given /\ Cells' = Cells
      /\ (WellFormed' <=> WellFormed) /\ (Bytewise' <=> Bytewise)
  BY <1>1, SameFile
<1>9. position' \in Nat /\ Find.value \in Given
  <2>1. position \in Nat
    BY DEF IInv, TypeInv
  <2>2. position' \in Nat
    BY <1>1, <1>4, <2>1
  <2>3. Find.value \in Given
    BY <1>4 DEF Given
  <2>. QED  BY <2>2, <2>3
<1>10. ListInv'
  BY <1>1, <1>2 DEF ListInv
<1>11. CASE thread = "scanning"
  <2>1. positions' = Append(positions, At(position, Find.size)) /\ thread' = thread /\ value' = value /\ pass' = pass
    BY <1>1, <1>11 DEF GetValue
  <2>2. file.random /\ pass = <<>> /\ position = Place
    BY <1>1, <1>2, <1>5, <1>11 DEF IInv, ThreadInv, RandomInv
  <2>. DEFINE new == At(position, Find.size)
  <2>3. new \in [at : Nat, size : Nat] /\ new.at = Place /\ new.size = Find.size /\ Find.size \in Nat
        /\ new.at + new.size <= Len(Content)
    <3>1. Find.size \in Nat /\ Place + Find.size <= Len(Content)
      BY <1>2, <1>4
    <3>. QED  BY <1>2, <2>2, <3>1 DEF At
  <2>. HIDE DEF new
  <2>4. /\ positions' \in Seq([at : Nat, size : Nat])
        /\ \A k \in DOMAIN positions' : positions'[k] = new \/ \E j \in DOMAIN positions : positions'[k] = positions[j]
        /\ Left' = Upto(Marks, Place) \cup {s}
        /\ \A k \in DOMAIN positions' : NextMark(Marks, positions'[k].at, MarkAfter(Marks, positions'[k].at))
        /\ \A k, l \in DOMAIN positions' : MarkAfter(Marks, positions'[k].at) = MarkAfter(Marks, positions'[l].at) => k = l
    <3>1. positions' = Append(positions, new)
      BY <2>1 DEF new
    <3>. QED  BY <1>1, <1>2, <1>4, <1>11, <2>2, <2>3, <3>1, FoundAt
  <2>5. TypeInv'
    BY <1>1, <1>7, <1>8, <1>9, <2>1, <2>4 DEF IInv, TypeInv, task
  <2>6. ErrorInv'
    BY <1>1, <2>1, TaskStays
  <2>7. PlaceInv'
    <3>1. \A i \in DOMAIN positions' : positions'[i].at \in Boundaries /\ positions'[i].at + positions'[i].size <= Len(Content)
      <4>1. \A i \in DOMAIN positions : positions[i].at \in Boundaries /\ positions[i].at + positions[i].size <= Len(Content)
        BY <1>2 DEF IInv, PlaceInv
      <4>. QED  BY <1>2, <2>3, <2>4, <4>1
    <3>. QED  BY <1>1, <1>3, <1>7, <1>8, <3>1 DEF PlaceInv
  <2>8. ThreadInv'
    BY <1>1, <1>8, <1>11, <2>1 DEF IInv, ThreadInv
  <2>9. InOrderInv'
    BY <1>1, <2>2 DEF InOrderInv
  <2>10. RandomInv'
    <3>1. Left' = Upto(Marks, Place')
      BY <1>4, <1>7, <2>4
    <3>2. position' = Place' \/ Place' = Len(Content)
      BY <1>1, <1>4, <1>7, <2>2
    <3>. QED  BY <1>1, <1>2, <1>8, <1>11, <2>1, <2>4, <3>1, <3>2 DEF RandomInv
  <2>. QED  BY <1>10, <2>5, <2>6, <2>7, <2>8, <2>9, <2>10 DEF IInv
<1>12. CASE thread = "reading"
  <2>1. /\ positions' = positions /\ thread' = "yield" /\ value' = Find.value
        /\ pass' = IF file.random /\ file.repeat THEN <<Find.value>> ELSE Append(pass, Find.value)
    BY <1>1, <1>12 DEF GetValue, Yield
  <2>2. pass \in Seq(Given) /\ Append(pass, Find.value) \in Seq(Given) /\ <<Find.value>> \in Seq(Given)
    <3>1. pass \in Seq(Given)
      BY DEF IInv, TypeInv
    <3>. QED  BY <1>9, <3>1, AppendProperties
  <2>3. TypeInv'
    <3>1. pass' \in Seq(Given)
      BY <2>1, <2>2
    <3>. QED  BY <1>1, <1>7, <1>8, <1>9, <2>1, <3>1 DEF IInv, TypeInv, Threads, task
  <2>4. ErrorInv'
    BY <1>1, <1>4, <2>1, TaskStays
  <2>5. PlaceInv'
    BY <1>1, <1>3, <1>7, <1>8, <2>1 DEF IInv, PlaceInv
  <2>6. ThreadInv'
    BY <1>1, <1>8, <2>1 DEF IInv, ThreadInv
  <2>7. InOrderInv'
    <3>. SUFFICES ASSUME ~file.random PROVE InOrderInv'
      BY <1>1 DEF InOrderInv
    <3>. DEFINE k == Cardinality(Upto(Marks, Place))
    <3>1. /\ k \in Nat /\ k + 1 \in 1 .. Len(Values) /\ Values[k + 1] = Find.value
          /\ Cardinality(Upto(Marks, q)) = k + 1
      BY <1>2, <1>4, NextValue, UptoIs
    <3>2. InOrder(k, pass, Values) /\ Values \in Seq({Values[i] : i \in DOMAIN Values}) /\ Len(Values) \in Nat
      <4>1. InOrder(k, pass, Values)
        BY <1>12 DEF IInv, InOrderInv
      <4>2. Len(Values) \in Nat /\ DOMAIN Values = 1 .. Len(Values) /\ Values \in [1 .. Len(Values) -> {Values[i] : i \in DOMAIN Values}]
        BY <1>2, MarksAre DEF Values, ValuesOf
      <4>. QED  BY <4>1, <4>2
    <3>. HIDE DEF k
    <3>3. InOrder(k + 1, Append(pass, Find.value), Values) /\ Len(pass) = k
      <4>1. k < Len(Values)
        BY <3>1, <3>2
      <4>. QED  BY <1>4, <1>9, <2>2, <3>1, <3>2, <4>1, NextInOrderIs
    <3>4. pass' = Append(pass, Find.value) /\ Len(pass') = k + 1
      BY <1>9, <2>1, <2>2, <3>3, AppendProperties
    <3>5. Cardinality(Upto(Marks, Place')) = k + 1
      BY <1>7, <3>1
    <3>6. ~(Len(pass') > Cardinality(Upto(Marks, Place')))
      BY <3>1, <3>4, <3>5
    <3>7. InOrder(Cardinality(Upto(Marks, Place')), pass', Values)
      BY <3>3, <3>4, <3>5
    <3>8. positions' = <<>> => ~file.repeat
      BY <1>1, <2>1, BytesIs
    <3>9. positions' # <<>> => positions'[1].at = FirstRow(file)
      BY <2>1 DEF IInv, InOrderInv
    <3>. QED  BY <1>1, <1>2, <1>8, <2>1, <3>6, <3>7, <3>8, <3>9 DEF InOrderInv
  <2>8. RandomInv'
    <3>. SUFFICES ASSUME file.random PROVE RandomInv'
      BY <1>1 DEF RandomInv
    <3>1. ScannedInv
      BY <1>2, <1>12 DEF IInv, RandomInv
    <3>2. Left' = Left
      BY <1>1, <2>1, SameLeft
    <3>3. random
      BY <1>5, <3>1 DEF ScannedInv
    <3>4. Hand = {s} /\ Hand' = {}
      BY <1>6, <1>12, <2>1, <3>3 DEF Hand
    <3>5. CASE file.repeat
      <4>1. pass' = <<ValueFrom[s]>>
        BY <1>5, <2>1, <3>5
      <4>2. Drawn(Marks, ValueFrom, pass')
        BY <1>5, <4>1, DrawnOne
      <4>3. ScannedInv'
        BY <1>1, <1>8, <2>1, <3>1, <3>2, <3>3, <3>5, <4>2 DEF ScannedInv
      <4>. QED  BY <1>1, <1>2, <1>8, <2>1, <4>3 DEF IInv, RandomInv
    <3>6. CASE ~file.repeat
      <4>1. Dealt(Marks, ValueFrom, pass, Left \cup {s}) /\ s \notin Left
        BY <1>6, <1>12, <3>1, <3>3, <3>4, <3>6 DEF ScannedInv
      <4>2. Dealt(Marks, ValueFrom, Append(pass, ValueFrom[s]), (Left \cup {s}) \ {s})
        BY <1>5, <1>9, <2>2, <4>1, DealOne
      <4>3. (Left \cup {s}) \ {s} = Left /\ Left \cup {} = Left
        BY <4>1
      <4>4. pass' = Append(pass, ValueFrom[s])
        BY <1>5, <2>1, <3>6
      <4>5. Dealt(Marks, ValueFrom, pass', Left' \cup Hand')
        BY <3>2, <3>4, <4>2, <4>3, <4>4
      <4>6. ScannedInv'
        BY <1>1, <1>8, <2>1, <3>1, <3>3, <3>6, <4>5 DEF ScannedInv
      <4>. QED  BY <1>1, <1>2, <1>8, <2>1, <4>6 DEF IInv, RandomInv
    <3>. QED  BY <3>5, <3>6
  <2>. QED  BY <1>10, <2>3, <2>4, <2>5, <2>6, <2>7, <2>8 DEF IInv
<1>. QED  BY <1>1, <1>11, <1>12

LEMMA ValuesType ==
  ASSUME file \in Files
  PROVE  Len(Values) \in Nat /\ Values \in Seq({Values[i] : i \in DOMAIN Values})
<1>1. Len(Values) \in Nat /\ DOMAIN Values = 1 .. Len(Values)
  BY MarksAre
<1>2. Values \in [1 .. Len(Values) -> {Values[i] : i \in DOMAIN Values}]
  BY <1>1 DEF Values, ValuesOf
<1>. QED  BY <1>1, <1>2

LEMMA GetErrorStep ==
  ASSUME NumbersWhole, IInv, GetError
  PROVE  IInv'
<1>1. /\ Bytewise /\ thread \in {"scanning", "reading"} /\ Find = Malformed
      /\ file' = file /\ (UNCHANGED reader) /\ (UNCHANGED task)
      /\ IF thread = "scanning" THEN thread' = "failed" /\ value' = value /\ pass' = pass
         ELSE /\ thread' = "yield" /\ value' = Error
              /\ pass' = IF file.random /\ file.repeat THEN <<Error>> ELSE Append(pass, Error)
  BY DEF GetError, Searching, Yield
<1>2. /\ file \in Files /\ file.format \in {"line", "json"} /\ FirstRow(file) = 0
      /\ file.random \in BOOLEAN /\ file.repeat \in BOOLEAN /\ Place \in Nat
      /\ (thread = "scanning" => file.random)
  BY <1>1, BytesIs
<1>3. ~WellFormed /\ \A t \in Marks : t <= Place
  BY <1>1, BytesFound DEF IInv
<1>4. /\ offset' = offset /\ buffer' = buffer /\ eof' = eof /\ position' = position /\ positions' = positions
      /\ random' = random /\ again' = again
  BY <1>1 DEF reader
<1>5. Place' = Place /\ Left' = Left
  BY <1>1, <1>4, SamePlace, SameLeft
<1>6. /\ Content' = Content /\ Good' = Good /\ Marks' = Marks /\ Boundaries' = Boundaries
      /\ ValueFrom' = ValueFrom /\ Values' = Values /\ Given' = Given /\ Cells' = Cells
      /\ (WellFormed' <=> WellFormed) /\ (Bytewise' <=> Bytewise)
  BY <1>1, SameFile
<1>7. pass \in Seq(Given) /\ Error \in Given
  BY DEF IInv, TypeInv, Given
<1>8. TypeInv'
  <2>1. pass' \in Seq(Given) /\ value' \in Given
    <3>1. Append(pass, Error) \in Seq(Given)
      BY <1>7, AppendProperties
    <3>2. <<Error>> \in Seq(Given)
      BY <1>7
    <3>. QED  BY <1>1, <1>7, <3>1, <3>2 DEF IInv, TypeInv
  <2>2. thread' \in Threads
    BY <1>1 DEF Threads
  <2>. QED  BY <1>1, <1>4, <1>6, <2>1, <2>2 DEF IInv, TypeInv, task
<1>9. ErrorInv'
  BY <1>1, <1>3, TaskStays
<1>10. PlaceInv'
  BY <1>1, <1>4, <1>5, <1>6 DEF IInv, PlaceInv
<1>11. ThreadInv'
  BY <1>1, <1>4, <1>6 DEF IInv, ThreadInv
<1>12. RandomInv'
  <2>1. CASE thread = "scanning"
    BY <1>1, <1>2, <1>4, <1>6, <2>1 DEF IInv, RandomInv
  <2>2. CASE thread = "reading"
    BY <1>1, <1>2, <1>3, <2>2 DEF IInv, RandomInv, ScannedInv
  <2>. QED  BY <1>1, <2>1, <2>2
<1>13. ListInv'
  BY <1>1, <1>2 DEF ListInv
<1>14. InOrderInv'
  <2>. SUFFICES ASSUME ~file.random PROVE InOrderInv'
    BY <1>1 DEF InOrderInv
  <2>. DEFINE k == Cardinality(Upto(Marks, Place))
  <2>1. thread' = "yield" /\ thread = "reading" /\ pass' = Append(pass, Error)
    BY <1>1, <1>2
  <2>2. k \in Nat /\ k = Len(Values)
    BY <1>2, <1>3, UptoIs
  <2>3. InOrder(k, pass, Values)
    BY <2>1 DEF IInv, InOrderInv
  <2>. HIDE DEF k
  <2>4. InOrder(k, Append(pass, Error), Values)
    BY <1>2, <1>7, <2>2, <2>3, ValuesType, NextInOrderIs
  <2>5. InOrder(Cardinality(Upto(Marks, Place')), pass', Values)
    BY <1>5, <2>1, <2>4 DEF k
  <2>. QED  BY <1>1, <1>2, <1>3, <1>4, <1>5, <1>6, <2>1, <2>5 DEF IInv, InOrderInv
<1>. QED  BY <1>8, <1>9, <1>10, <1>11, <1>12, <1>13, <1>14 DEF IInv

LEMMA RefillStep ==
  ASSUME IInv, Refill
  PROVE  IInv'
<1>1. /\ Bytewise /\ thread \in {"scanning", "reading"}
      /\ file' = file /\ eof' = eof /\ position' = position /\ positions' = positions /\ random' = random /\ again' = again
      /\ thread' = thread /\ value' = value /\ (UNCHANGED task) /\ pass' = pass
  BY DEF Refill, Searching
<1>2. PICK n \in 1 .. KB8 : /\ offset < Len(Content) /\ offset + n <= Len(Content) /\ offset' = offset + n
                            /\ buffer' = buffer \o SubSeq(Content, offset + 1, offset + n)
  BY DEF Refill, Content
<1>3. n \in Nat /\ n # 0
  BY ReadersAssumption
<1>4. /\ file \in Files /\ file.format \in {"line", "json"}
      /\ offset \in Nat /\ Place \in Boundaries /\ Place \in Nat /\ Place <= offset
      /\ buffer = SubSeq(Content, Place + 1, offset) /\ Len(Content) \in Nat
  BY <1>1, BytesIs
<1>5. buffer' = SubSeq(Content, Place + 1, offset + n)
  BY <1>2, <1>3, <1>4, PartsJoined
<1>6. /\ Place' = Place /\ buffer' \in Seq(Cells) /\ Len(buffer') \in Nat /\ Len(buffer') <= offset'
      /\ buffer' = SubSeq(Content, Place' + 1, offset')
      /\ offset' \in Nat /\ FirstRow(file) <= offset' /\ offset' <= Len(Content)
  <2>. DEFINE o == offset + n
  <2>1. o \in Nat /\ Place <= o /\ o <= Len(Content)
    BY <1>2, <1>3, <1>4
  <2>2. offset' = o /\ buffer' = SubSeq(Content, Place + 1, o)
    BY <1>2, <1>5
  <2>. HIDE DEF o
  <2>. QED  BY <1>1, <1>4, <2>1, <2>2, NowAt
<1>7. /\ Content' = Content /\ Good' = Good /\ Marks' = Marks /\ Boundaries' = Boundaries
      /\ ValueFrom' = ValueFrom /\ Values' = Values /\ Given' = Given /\ Cells' = Cells
      /\ (WellFormed' <=> WellFormed) /\ (Bytewise' <=> Bytewise)
  BY <1>1, SameFile
<1>8. Left' = Left /\ Hand' = Hand
  <2>1. Left' = Left
    BY <1>1, SameLeft
  <2>. QED  BY <1>1, <1>6, <1>7, <2>1 DEF Hand
<1>9. TypeInv'
  BY <1>1, <1>6, <1>7 DEF IInv, TypeInv, task
<1>10. ErrorInv'
  BY <1>1, TaskStays
<1>11. PlaceInv'
  <2>1. ~eof
    BY <1>1, <1>2, <1>4 DEF IInv, PlaceInv
  <2>. QED  BY <1>1, <1>4, <1>6, <1>7, <2>1 DEF IInv, PlaceInv
<1>12. ThreadInv'
  BY <1>1, <1>7 DEF IInv, ThreadInv
<1>13. InOrderInv'
  BY <1>1, <1>4, <1>6, <1>7 DEF IInv, InOrderInv
<1>14. ScannedInv /\ thread \notin {"scanning", "failed"} => ScannedInv'
  BY <1>1, <1>4, <1>6, <1>7, <1>8 DEF ScannedInv
<1>15. RandomInv'
  BY <1>1, <1>4, <1>6, <1>7, <1>8, <1>14 DEF IInv, RandomInv
<1>16. ListInv'
  BY <1>1, <1>4 DEF ListInv
<1>. QED  BY <1>9, <1>10, <1>11, <1>12, <1>13, <1>15, <1>16 DEF IInv

LEMMA ReadNothingStep ==
  ASSUME IInv, ReadNothing
  PROVE  IInv'
<1>1. /\ Bytewise /\ thread \in {"scanning", "reading"} /\ offset = Len(Content) /\ eof' = TRUE
      /\ file' = file /\ offset' = offset /\ buffer' = buffer /\ position' = position /\ positions' = positions
      /\ random' = random /\ again' = again
      /\ thread' = thread /\ value' = value /\ (UNCHANGED task) /\ pass' = pass
  BY DEF ReadNothing, Searching, Content
<1>2. file.format \in {"line", "json"}
  BY <1>1 DEF Bytewise
<1>3. /\ Content' = Content /\ Good' = Good /\ Marks' = Marks /\ Boundaries' = Boundaries
      /\ ValueFrom' = ValueFrom /\ Values' = Values /\ Given' = Given /\ Cells' = Cells
      /\ (WellFormed' <=> WellFormed) /\ (Bytewise' <=> Bytewise)
  BY <1>1, SameFile
<1>4. Place' = Place /\ Left' = Left
  BY <1>1, SamePlace, SameLeft
<1>5. Hand' = Hand
  BY <1>1, <1>3, <1>4 DEF Hand
<1>6. TypeInv'
  BY <1>1, <1>3 DEF IInv, TypeInv, task
<1>7. ErrorInv'
  BY <1>1, TaskStays
<1>8. PlaceInv'
  BY <1>1, <1>3, <1>4 DEF IInv, PlaceInv
<1>9. ThreadInv'
  BY <1>1, <1>3 DEF IInv, ThreadInv
<1>10. InOrderInv'
  BY <1>1, <1>3, <1>4 DEF IInv, InOrderInv
<1>11. ScannedInv /\ thread \notin {"scanning", "failed"} => ScannedInv'
  BY <1>1, <1>3, <1>4, <1>5 DEF ScannedInv
<1>12. RandomInv'
  BY <1>1, <1>3, <1>4, <1>11 DEF IInv, RandomInv
<1>13. ListInv'
  BY <1>1, <1>2 DEF ListInv
<1>. QED  BY <1>6, <1>7, <1>8, <1>9, <1>10, <1>12, <1>13 DEF IInv

LEMMA NextInOrderStep ==
  ASSUME IInv, NextInOrder
  PROVE  IInv'
<1>1. /\ Bytewise /\ thread = "next" /\ random = FALSE /\ thread' = "reading" /\ again' = FALSE /\ eof' = FALSE
      /\ file' = file /\ offset' = offset /\ buffer' = buffer /\ position' = position /\ positions' = positions
      /\ random' = random /\ value' = value /\ (UNCHANGED task) /\ pass' = pass
  BY DEF NextInOrder, IInv, TypeInv
<1>2. file.format \in {"line", "json"}
  BY <1>1 DEF Bytewise
<1>3. /\ Content' = Content /\ Good' = Good /\ Marks' = Marks /\ Boundaries' = Boundaries
      /\ ValueFrom' = ValueFrom /\ Values' = Values /\ Given' = Given /\ Cells' = Cells
      /\ (WellFormed' <=> WellFormed) /\ (Bytewise' <=> Bytewise)
  BY <1>1, SameFile
<1>4. Place' = Place /\ Left' = Left
  BY <1>1, SamePlace, SameLeft
<1>5. Hand' = {} /\ Hand = {}
  BY <1>1 DEF Hand
<1>6. TypeInv'
  BY <1>1, <1>3 DEF IInv, TypeInv, Threads, task
<1>7. ErrorInv'
  BY <1>1, TaskStays
<1>8. PlaceInv'
  BY <1>1, <1>3, <1>4 DEF IInv, PlaceInv
<1>9. ThreadInv'
  BY <1>1, <1>3 DEF IInv, ThreadInv
<1>10. InOrderInv'
  BY <1>1, <1>2, <1>3, <1>4 DEF IInv, InOrderInv
<1>11. ScannedInv => ScannedInv'
  BY <1>1, <1>3, <1>4, <1>5 DEF ScannedInv
<1>12. RandomInv'
  BY <1>1, <1>3, <1>4, <1>11 DEF IInv, RandomInv
<1>13. ListInv'
  BY <1>1, <1>2 DEF ListInv
<1>. QED  BY <1>6, <1>7, <1>8, <1>9, <1>10, <1>12, <1>13 DEF IInv

LEMMA NoMoreRandomStep ==
  ASSUME IInv, NoMoreRandom
  PROVE  IInv'
<1>1. /\ file.format # "list" /\ thread = "next" /\ random /\ positions = <<>> /\ thread' = "done"
      /\ file' = file /\ (UNCHANGED reader) /\ value' = value /\ (UNCHANGED task) /\ pass' = pass
  BY DEF NoMoreRandom
<1>2. /\ offset' = offset /\ buffer' = buffer /\ eof' = eof /\ position' = position /\ positions' = positions
      /\ random' = random /\ again' = again
  BY <1>1 DEF reader
<1>3. /\ Content' = Content /\ Good' = Good /\ Marks' = Marks /\ Boundaries' = Boundaries
      /\ ValueFrom' = ValueFrom /\ Values' = Values /\ Given' = Given /\ Cells' = Cells
      /\ (WellFormed' <=> WellFormed) /\ (Bytewise' <=> Bytewise)
  BY <1>1, SameFile
<1>4. Place' = Place /\ Left' = Left
  BY <1>1, <1>2, SamePlace, SameLeft
<1>5. Hand' = {} /\ Hand = {} /\ Left = {}
  <2>1. DOMAIN positions = {}
    BY <1>1, EmptySeq
  <2>. QED  BY <1>1, <2>1 DEF Hand, Left
<1>6. file.random
  BY <1>1, ContentType DEF IInv, TypeInv, ThreadInv
<1>7. TypeInv'
  BY <1>1, <1>2, <1>3 DEF IInv, TypeInv, Threads, task
<1>8. ErrorInv'
  BY <1>1, TaskStays
<1>9. PlaceInv'
  BY <1>1, <1>2, <1>3, <1>4 DEF IInv, PlaceInv
<1>10. ThreadInv'
  BY <1>1, <1>2, <1>3 DEF IInv, ThreadInv
<1>11. InOrderInv'
  BY <1>1, <1>6 DEF InOrderInv
<1>12. RandomInv'
  <2>1. ScannedInv
    BY <1>1, <1>6 DEF IInv, RandomInv
  <2>2. ScannedInv'
    BY <1>1, <1>2, <1>3, <1>4, <1>5, <2>1 DEF ScannedInv
  <2>. QED  BY <1>1, <1>2, <1>3, <1>4, <2>2 DEF IInv, RandomInv
<1>13. ListInv'
  BY <1>1 DEF ListInv
<1>. QED  BY <1>7, <1>8, <1>9, <1>10, <1>11, <1>12, <1>13 DEF IInv

LEMMA EndStep ==
  ASSUME NumbersWhole, IInv, End
  PROVE  IInv'
<1>1. /\ Bytewise /\ AtTheEnd /\ thread = "reading" /\ thread' = "done" /\ (~file.repeat \/ again \/ positions = <<>>)
      /\ file' = file /\ (UNCHANGED reader) /\ value' = value /\ (UNCHANGED task) /\ pass' = pass
  BY DEF End, AtTheEnd, Searching
<1>2. /\ offset' = offset /\ buffer' = buffer /\ eof' = eof /\ position' = position /\ positions' = positions
      /\ random' = random /\ again' = again
  BY <1>1 DEF reader
<1>3. /\ Content' = Content /\ Good' = Good /\ Marks' = Marks /\ Boundaries' = Boundaries
      /\ ValueFrom' = ValueFrom /\ Values' = Values /\ Given' = Given /\ Cells' = Cells
      /\ (WellFormed' <=> WellFormed) /\ (Bytewise' <=> Bytewise)
  BY <1>1, SameFile
<1>4. Place' = Place /\ Left' = Left
  BY <1>1, <1>2, SamePlace, SameLeft
<1>5. /\ file \in Files /\ file.format \in {"line", "json"} /\ file.random \in BOOLEAN /\ file.repeat \in BOOLEAN
      /\ Place \in Nat /\ (positions = <<>> => file.random \/ ~file.repeat)
  BY <1>1, BytesIs
<1>6. WellFormed /\ \A t \in Marks : t <= Place
  BY <1>1, BytesFound DEF IInv
<1>7. TypeInv'
  BY <1>1, <1>2, <1>3 DEF IInv, TypeInv, Threads, task
<1>8. ErrorInv'
  BY <1>1, TaskStays
<1>9. PlaceInv'
  BY <1>1, <1>2, <1>3, <1>4 DEF IInv, PlaceInv
<1>10. ThreadInv'
  BY <1>1, <1>2, <1>3 DEF IInv, ThreadInv
<1>11. InOrderInv'
  <2>. SUFFICES ASSUME ~file.random PROVE InOrderInv'
    BY <1>1 DEF InOrderInv
  <2>1. Cardinality(Upto(Marks, Place)) = Len(Values)
    BY <1>5, <1>6, UptoIs
  <2>2. ASSUME file.repeat PROVE Marks = {}
    <3>1. pass = <<>>
      BY <1>1, <1>5, <2>2 DEF IInv, ThreadInv
    <3>2. InOrder(Len(Values), <<>>, Values)
      BY <1>1, <2>1, <3>1 DEF IInv, InOrderInv
    <3>3. Len(Values) = 0
      BY <1>5, <3>2, ValuesType DEF InOrder
    <3>. QED  BY <1>5, <3>3, MarksAre, FS_EmptySet
  <2>. QED  BY <1>1, <1>2, <1>3, <1>4, <1>5, <2>1, <2>2 DEF IInv, InOrderInv
<1>12. RandomInv'
  <2>. SUFFICES ASSUME file.random PROVE RandomInv'
    BY <1>1 DEF RandomInv
  <2>1. ScannedInv
    BY <1>1, <1>5 DEF IInv, RandomInv
  <2>2. ~random
    BY <1>1, <1>5, <1>6, <2>1, MarksAre DEF ScannedInv, NextMark
  <2>3. Hand = {} /\ Hand' = {} /\ Left = {}
    <3>1. DOMAIN positions = {}
      BY <2>1, <2>2, EmptySeq DEF ScannedInv
    <3>. QED  BY <1>1, <2>2, <3>1 DEF Hand, Left
  <2>4. ScannedInv'
    BY <1>1, <1>2, <1>3, <1>4, <2>1, <2>2, <2>3 DEF ScannedInv
  <2>. QED  BY <1>1, <1>2, <1>3, <1>4, <2>4 DEF IInv, RandomInv
<1>13. ListInv'
  BY <1>1, <1>5 DEF ListInv
<1>. QED  BY <1>7, <1>8, <1>9, <1>10, <1>11, <1>12, <1>13 DEF IInv

\* A seek puts the reader at a boundary, with the hint's bytes in its buffer.
LEMMA SeekToIs ==
  ASSUME IInv, Bytewise, file' = file, NEW p \in [at : Nat, size : Nat],
         p.at \in Boundaries, p.at + p.size <= Len(Content), SeekTo(p)
  PROVE  /\ Place' = p.at /\ buffer' \in Seq(Cells) /\ Len(buffer') \in Nat /\ Len(buffer') <= offset'
         /\ buffer' = SubSeq(Content, Place' + 1, offset')
         /\ offset' \in Nat /\ FirstRow(file) <= offset' /\ offset' <= Len(Content)
         /\ eof' = FALSE /\ position' \in Nat /\ position' = offset' /\ offset' = p.at + p.size
<1>. DEFINE o == p.at + p.size
            q == p.at
<1>1. o \in Nat /\ q <= o /\ o <= Len(Content) /\ q \in Boundaries
  OBVIOUS
<1>2. offset' = o /\ buffer' = SubSeq(Content, q + 1, o) /\ eof' = FALSE /\ position' = o
  BY DEF SeekTo, Content
<1>. HIDE DEF o, q
<1>3. /\ Place' = q /\ buffer' \in Seq(Cells) /\ Len(buffer') \in Nat /\ Len(buffer') <= offset'
      /\ buffer' = SubSeq(Content, Place' + 1, offset')
      /\ offset' \in Nat /\ FirstRow(file) <= offset' /\ offset' <= Len(Content)
  BY <1>1, <1>2, NowAt
<1>. QED  BY <1>1, <1>2, <1>3 DEF o, q

LEMMA PositionIs ==
  ASSUME IInv, file.format # "list", NEW i \in DOMAIN positions
  PROVE  /\ positions[i] \in [at : Nat, size : Nat] /\ positions[i].at \in Boundaries
         /\ positions[i].at + positions[i].size <= Len(Content) /\ positions[i].at \in Nat
         /\ MarkAfter(Marks, positions[i].at) \in Left
<1>1. positions \in Seq([at : Nat, size : Nat])
  BY DEF IInv, TypeInv
<1>2. positions[i] \in [at : Nat, size : Nat]
  BY <1>1, ElementOfSeq, LenProperties
<1>. QED  BY <1>2 DEF IInv, PlaceInv, Left

LEMMA ReturnStep ==
  ASSUME NumbersWhole, IInv, Return
  PROVE  IInv'
<1>1. /\ Bytewise /\ AtTheEnd /\ thread = "reading" /\ thread' = thread /\ file.repeat /\ positions # <<>>
      /\ again' = TRUE /\ SeekTo(positions[1]) /\ pass' = <<>>
      /\ file' = file /\ positions' = positions /\ random' = random /\ value' = value /\ (UNCHANGED task)
  BY DEF Return, AtTheEnd, Searching
<1>2. /\ Content' = Content /\ Good' = Good /\ Marks' = Marks /\ Boundaries' = Boundaries
      /\ ValueFrom' = ValueFrom /\ Values' = Values /\ Given' = Given /\ Cells' = Cells
      /\ (WellFormed' <=> WellFormed) /\ (Bytewise' <=> Bytewise)
  BY <1>1, SameFile
<1>3. /\ file \in Files /\ file.format \in {"line", "json"} /\ file.random \in BOOLEAN /\ FirstRow(file) = 0
      /\ Place \in Nat
  BY <1>1, BytesIs
<1>4. ~file.random
  <2>. SUFFICES ASSUME file.random PROVE FALSE
    BY <1>3
  <2>1. ScannedInv
    BY <1>1, <1>3 DEF IInv, RandomInv
  <2>2. random
    BY <1>1, <2>1 DEF ScannedInv
  <2>3. \A t \in Marks : t <= Place
    BY <1>1, BytesFound DEF IInv
  <2>. QED  BY <1>1, <1>3, <2>1, <2>2, <2>3, MarksAre DEF ScannedInv, NextMark
<1>5. 1 \in DOMAIN positions /\ positions[1].at = 0
  <2>1. positions \in Seq([at : Nat, size : Nat]) /\ positions # <<>>
    BY <1>1 DEF IInv, TypeInv
  <2>2. Len(positions) \in Nat \ {0} /\ DOMAIN positions = 1 .. Len(positions)
    BY <2>1, EmptySeq, LenProperties
  <2>. QED  BY <1>1, <1>3, <1>4, <2>2 DEF IInv, InOrderInv
<1>6. /\ Place' = 0 /\ buffer' \in Seq(Cells) /\ Len(buffer') \in Nat /\ Len(buffer') <= offset'
      /\ buffer' = SubSeq(Content, Place' + 1, offset')
      /\ offset' \in Nat /\ FirstRow(file) <= offset' /\ offset' <= Len(Content)
      /\ eof' = FALSE /\ position' \in Nat
  <2>. DEFINE p == positions[1]
  <2>1. p \in [at : Nat, size : Nat] /\ p.at \in Boundaries /\ p.at + p.size <= Len(Content) /\ p.at = 0
    BY <1>3, <1>5, PositionIs
  <2>2. SeekTo(p)
    BY <1>1
  <2>. HIDE DEF p
  <2>. QED  BY <1>1, <2>1, <2>2, SeekToIs
<1>7. 0 \in Boundaries /\ Cardinality(Upto(Marks, 0)) = 0
  BY <1>3, FirstRowIs
<1>8. <<>> \in Seq(Given) /\ Len(<<>>) = 0
  BY EmptySeq
<1>9. TypeInv'
  BY <1>1, <1>2, <1>6, <1>8 DEF IInv, TypeInv, task
<1>10. ErrorInv'
  BY <1>1, TaskStays
<1>11. PlaceInv'
  BY <1>1, <1>2, <1>6, <1>7 DEF IInv, PlaceInv
<1>12. ThreadInv'
  BY <1>1, <1>2 DEF IInv, ThreadInv
<1>13. InOrderInv'
  <2>1. InOrder(0, <<>>, Values)
    BY <1>8 DEF InOrder
  <2>. QED  BY <1>1, <1>2, <1>3, <1>4, <1>6, <1>7, <1>8, <2>1 DEF IInv, InOrderInv
<1>14. RandomInv'
  BY <1>1, <1>4 DEF RandomInv
<1>15. ListInv'
  BY <1>1, <1>4 DEF ListInv
<1>. QED  BY <1>9, <1>10, <1>11, <1>12, <1>13, <1>14, <1>15 DEF IInv

LEMMA ScannedStep ==
  ASSUME NumbersWhole, IInv, Scanned
  PROVE  IInv'
<1>1. /\ Bytewise /\ AtTheEnd /\ thread = "scanning" /\ thread' = "next" /\ random' = (positions # <<>>)
      /\ IF positions = <<>> THEN eof' = FALSE /\ offset' = offset /\ buffer' = buffer /\ position' = position
         ELSE \E i \in DOMAIN positions : SeekTo(At(positions[i].at, 0))
      /\ file' = file /\ positions' = positions /\ again' = again /\ value' = value /\ (UNCHANGED task) /\ pass' = pass
  BY DEF Scanned, AtTheEnd, Searching
<1>2. /\ Content' = Content /\ Good' = Good /\ Marks' = Marks /\ Boundaries' = Boundaries
      /\ ValueFrom' = ValueFrom /\ Values' = Values /\ Given' = Given /\ Cells' = Cells
      /\ (WellFormed' <=> WellFormed) /\ (Bytewise' <=> Bytewise)
  BY <1>1, SameFile
<1>3. /\ file \in Files /\ file.format \in {"line", "json"} /\ file.random /\ Place \in Nat /\ Place \in Boundaries
  BY <1>1, BytesIs
<1>4. WellFormed /\ \A t \in Marks : t <= Place
  BY <1>1, BytesFound DEF IInv
<1>5. /\ Place' \in Boundaries /\ buffer' \in Seq(Cells) /\ Len(buffer') \in Nat /\ Len(buffer') <= offset'
      /\ buffer' = SubSeq(Content, Place' + 1, offset')
      /\ offset' \in Nat /\ FirstRow(file) <= offset' /\ offset' <= Len(Content)
      /\ eof' = FALSE /\ position' \in Nat
  <2>1. CASE positions = <<>>
    <3>1. Place' = Place
      BY <1>1, <2>1, SamePlace
    <3>. QED  BY <1>1, <1>3, <2>1, <3>1, BytesIs, LenProperties DEF IInv, TypeInv, PlaceInv
  <2>2. CASE positions # <<>>
    <3>1. PICK i \in DOMAIN positions : SeekTo(At(positions[i].at, 0))
      BY <1>1, <2>2
    <3>. DEFINE p == At(positions[i].at, 0)
    <3>2. p \in [at : Nat, size : Nat] /\ p.at \in Boundaries /\ p.at + p.size <= Len(Content)
      <4>1. positions[i].at \in Nat /\ positions[i].at \in Boundaries
        BY <1>3, PositionIs
      <4>. QED  BY <1>3, <4>1, BoundariesType DEF At
    <3>. HIDE DEF p
    <3>. QED  BY <1>1, <3>1, <3>2, SeekToIs DEF p
  <2>. QED  BY <2>1, <2>2
<1>6. Left = Marks /\ Left' = Marks /\ Hand' = {} /\ (positions = <<>> => Marks = {})
  <2>1. Left = Upto(Marks, Place)
    BY <1>1, <1>3 DEF IInv, RandomInv
  <2>2. Left = Marks
    BY <1>4, <2>1 DEF Upto
  <2>3. positions = <<>> => Left = {}
    BY EmptySeq DEF Left
  <2>. QED  BY <1>1, <2>2, <2>3, SameLeft DEF Hand
<1>7. pass = <<>>
  BY <1>1 DEF IInv, ThreadInv
<1>8. random' \in BOOLEAN
  BY <1>1
<1>9. TypeInv'
  BY <1>1, <1>2, <1>5, <1>8 DEF IInv, TypeInv, Threads, task
<1>10. ErrorInv'
  BY <1>1, TaskStays
<1>11. PlaceInv'
  BY <1>1, <1>2, <1>5 DEF IInv, PlaceInv
<1>12. ThreadInv'
  BY <1>1, <1>2, <1>3 DEF IInv, ThreadInv
<1>13. InOrderInv'
  BY <1>1, <1>3 DEF InOrderInv
<1>14. RandomInv'
  <2>1. Dealt(Marks, ValueFrom, pass, Marks) /\ Drawn(Marks, ValueFrom, pass)
    BY <1>7, DealtNone
  <2>2. Left' \cup Hand' = Marks
    BY <1>6
  <2>3. ScannedInv'
    BY <1>1, <1>2, <1>3, <1>4, <1>6, <2>1, <2>2 DEF ScannedInv
  <2>. QED  BY <1>1, <1>2, <1>3, <2>3 DEF IInv, RandomInv
<1>15. ListInv'
  BY <1>1, <1>3 DEF ListInv
<1>. QED  BY <1>9, <1>10, <1>11, <1>12, <1>13, <1>14, <1>15 DEF IInv

\* Drawing a position takes its mark from what is left, and no other, unless the file repeats.
LEMMA DrawnAt ==
  ASSUME IInv, file.random, file.format # "list", file' = file, NEW i \in DOMAIN positions,
         positions' = IF file.repeat THEN positions ELSE RemoveAt(positions, i)
  PROVE  /\ positions' \in Seq([at : Nat, size : Nat])
         /\ \A k \in DOMAIN positions' : \E j \in DOMAIN positions : positions'[k] = positions[j]
         /\ NextMark(Marks, positions[i].at, MarkAfter(Marks, positions[i].at))
         /\ \A k, l \in DOMAIN positions' : MarkAfter(Marks, positions'[k].at) = MarkAfter(Marks, positions'[l].at) => k = l
         /\ MarkAfter(Marks, positions[i].at) \in Left
         /\ Left' = IF file.repeat THEN Left ELSE Left \ {MarkAfter(Marks, positions[i].at)}
<1>. DEFINE mark(j) == MarkAfter(Marks, positions[j].at)
<1>1. positions \in Seq([at : Nat, size : Nat]) /\ DOMAIN positions = 1 .. Len(positions) /\ Len(positions) \in Nat
  BY LenProperties DEF IInv, TypeInv
<1>2. /\ \A j \in DOMAIN positions : NextMark(Marks, positions[j].at, mark(j))
      /\ \A j, k \in DOMAIN positions : mark(j) = mark(k) => j = k
  BY DEF IInv, RandomInv
<1>3. mark(i) \in Left /\ Left = {mark(j) : j \in DOMAIN positions}
  BY DEF Left
<1>4. Left' = {MarkAfter(Marks, positions'[k].at) : k \in DOMAIN positions'}
  BY SameFile DEF Left
<1>5. CASE file.repeat
  <2>1. positions' = positions
    BY <1>5
  <2>. QED  BY <1>1, <1>2, <1>3, <1>5, <2>1, SameLeft
<1>6. CASE ~file.repeat
  <2>. DEFINE c == RemoveAt(positions, i)
  <2>1. /\ c \in Seq([at : Nat, size : Nat])
        /\ \A k \in DOMAIN c : \E j \in DOMAIN positions : j # i /\ c[k] = positions[j] /\ j = IF k < i THEN k ELSE k + 1
        /\ \A j \in DOMAIN positions : j # i => \E k \in DOMAIN c : c[k] = positions[j]
    <3>. DEFINE T == [at : Nat, size : Nat]
    <3>1. positions \in Seq(T)
      BY <1>1
    <3>. HIDE DEF T
    <3>2. /\ RemoveAt(positions, i) \in Seq(T)
          /\ \A k \in DOMAIN RemoveAt(positions, i) :
               \E j \in DOMAIN positions :
                 j # i /\ RemoveAt(positions, i)[k] = positions[j] /\ j = IF k < i THEN k ELSE k + 1
          /\ \A j \in DOMAIN positions : j # i => \E k \in DOMAIN RemoveAt(positions, i) : RemoveAt(positions, i)[k] = positions[j]
      BY <3>1, RemovedAt
    <3>. QED  BY <3>2 DEF T
  <2>2. positions' = c
    BY <1>6
  <2>3. DOMAIN c = 1 .. Len(c) /\ Len(c) \in Nat
    BY <2>1, LenProperties
  <2>. HIDE DEF c
  <2>4. ASSUME NEW k \in DOMAIN c, NEW l \in DOMAIN c, MarkAfter(Marks, c[k].at) = MarkAfter(Marks, c[l].at) PROVE k = l
    <3>1. PICK j \in DOMAIN positions : j # i /\ c[k] = positions[j] /\ j = IF k < i THEN k ELSE k + 1
      BY <2>1
    <3>2. PICK h \in DOMAIN positions : h # i /\ c[l] = positions[h] /\ h = IF l < i THEN l ELSE l + 1
      BY <2>1
    <3>3. j = h
      BY <1>2, <2>4, <3>1, <3>2
    <3>4. k \in Nat /\ l \in Nat /\ i \in Nat
      <4>1. k \in 1 .. Len(c) /\ l \in 1 .. Len(c) /\ i \in 1 .. Len(positions)
        BY <1>1, <2>3
      <4>2. \A n \in Nat : \A x \in 1 .. n : x \in Nat
        OBVIOUS
      <4>. QED  BY <1>1, <2>3, <4>1, <4>2
    <3>. QED  BY <3>1, <3>2, <3>3, <3>4
  <2>5. {MarkAfter(Marks, c[k].at) : k \in DOMAIN c} = Left \ {mark(i)}
    <3>1. ASSUME NEW k \in DOMAIN c PROVE MarkAfter(Marks, c[k].at) \in Left \ {mark(i)}
      BY <1>2, <1>3, <2>1
    <3>2. ASSUME NEW t \in Left \ {mark(i)} PROVE \E k \in DOMAIN c : t = MarkAfter(Marks, c[k].at)
      <4>1. PICK j \in DOMAIN positions : t = mark(j)
        BY <1>3
      <4>2. j # i
        BY <4>1
      <4>. QED  BY <2>1, <4>1, <4>2
    <3>. QED  BY <3>1, <3>2
  <2>. QED  BY <1>2, <1>3, <1>4, <1>6, <2>1, <2>2, <2>4, <2>5
<1>. QED  BY <1>5, <1>6

LEMMA NextRandomStep ==
  ASSUME IInv, NextRandom
  PROVE  IInv'
<1>1. /\ Bytewise /\ thread = "next" /\ random /\ thread' = "reading" /\ again' = FALSE
      /\ file' = file /\ random' = random /\ value' = value /\ (UNCHANGED task) /\ pass' = pass
  BY DEF NextRandom
<1>2. PICK i \in DOMAIN positions :
        SeekTo(positions[i]) /\ positions' = IF file.repeat THEN positions ELSE RemoveAt(positions, i)
  BY DEF NextRandom
<1>3. /\ Content' = Content /\ Good' = Good /\ Marks' = Marks /\ Boundaries' = Boundaries
      /\ ValueFrom' = ValueFrom /\ Values' = Values /\ Given' = Given /\ Cells' = Cells
      /\ (WellFormed' <=> WellFormed) /\ (Bytewise' <=> Bytewise)
  BY <1>1, SameFile
<1>4. /\ file.format \in {"line", "json"} /\ file.random /\ file.repeat \in BOOLEAN
  BY <1>1, BytesIs DEF IInv, ThreadInv
<1>5. ScannedInv
  BY <1>1, <1>4 DEF IInv, RandomInv
<1>. DEFINE p == positions[i]
            m == MarkAfter(Marks, p.at)
<1>6. p \in [at : Nat, size : Nat] /\ p.at \in Boundaries /\ p.at + p.size <= Len(Content) /\ p.at \in Nat /\ SeekTo(p)
  BY <1>2, <1>4, PositionIs
<1>7. /\ positions' \in Seq([at : Nat, size : Nat])
      /\ \A k \in DOMAIN positions' : \E j \in DOMAIN positions : positions'[k] = positions[j]
      /\ NextMark(Marks, p.at, m)
      /\ \A k, l \in DOMAIN positions' : MarkAfter(Marks, positions'[k].at) = MarkAfter(Marks, positions'[l].at) => k = l
      /\ m \in Left
      /\ Left' = IF file.repeat THEN Left ELSE Left \ {m}
  BY <1>1, <1>2, <1>4, DrawnAt
<1>8. \A j \in DOMAIN positions : /\ positions[j].at \in Boundaries /\ positions[j].at + positions[j].size <= Len(Content)
                                  /\ NextMark(Marks, positions[j].at, MarkAfter(Marks, positions[j].at))
  BY <1>4 DEF IInv, PlaceInv, RandomInv
<1>. HIDE DEF p
<1>9. /\ Place' = p.at /\ buffer' \in Seq(Cells) /\ Len(buffer') \in Nat /\ Len(buffer') <= offset'
      /\ buffer' = SubSeq(Content, Place' + 1, offset')
      /\ offset' \in Nat /\ FirstRow(file) <= offset' /\ offset' <= Len(Content)
      /\ eof' = FALSE /\ position' \in Nat
  BY <1>1, <1>6, SeekToIs
<1>10. Hand = {} /\ Hand' = {m} /\ MarkAfter(Marks', Place') = m
  <2>1. Hand' = {MarkAfter(Marks, Place')}
    BY <1>1, <1>3 DEF Hand
  <2>. QED  BY <1>1, <1>3, <1>9, <2>1 DEF Hand
<1>11. TypeInv'
  BY <1>1, <1>3, <1>7, <1>9 DEF IInv, TypeInv, Threads, task
<1>12. ErrorInv'
  BY <1>1, TaskStays
<1>13. PlaceInv'
  <2>1. \A k \in DOMAIN positions' : positions'[k].at \in Boundaries /\ positions'[k].at + positions'[k].size <= Len(Content)
    BY <1>7, <1>8
  <2>. QED  BY <1>1, <1>3, <1>6, <1>9, <2>1 DEF PlaceInv
<1>14. ThreadInv'
  BY <1>1, <1>3 DEF IInv, ThreadInv
<1>15. InOrderInv'
  BY <1>1, <1>4 DEF InOrderInv
<1>16. ListInv'
  BY <1>1, <1>4 DEF ListInv
<1>. HIDE DEF m
<1>17. RandomInv'
  <2>1. NextMark(Marks, Place', m) /\ (~file.repeat => m \notin Left')
    BY <1>7, <1>9
  <2>2. ~file.repeat => Left' \cup Hand' = Left \cup Hand
    BY <1>7, <1>10
  <2>3. ScannedInv'
    BY <1>1, <1>3, <1>4, <1>5, <1>7, <1>10, <2>1, <2>2 DEF ScannedInv
  <2>4. \A k \in DOMAIN positions' : NextMark(Marks, positions'[k].at, MarkAfter(Marks, positions'[k].at))
    BY <1>7, <1>8
  <2>. QED  BY <1>1, <1>3, <1>7, <2>3, <2>4 DEF RandomInv
<1>. QED  BY <1>11, <1>12, <1>13, <1>14, <1>15, <1>16, <1>17 DEF IInv

-----------------------------------------------------------------------------
(***************************************************************************)
(* Steps of CsvReader.                                                     *)
(***************************************************************************)
LEMMA RowsAre ==
  ASSUME IInv, file.format \in {"csv", "list"}
  PROVE  /\ file \in Files /\ ~Bytewise /\ Place = offset
         /\ file.random \in BOOLEAN /\ file.repeat \in BOOLEAN
         /\ offset \in Nat /\ FirstRow(file) \in {0, 1} /\ FirstRow(file) <= offset /\ offset <= Len(Content)
         /\ Len(Content) \in Nat /\ Len(Good) \in Nat /\ Len(Good) <= Len(Content) /\ FirstRow(file) <= Len(Good)
         /\ WellFormed => Len(Good) = Len(Content)
         /\ ~WellFormed => Len(Good) < Len(Content) /\ Content[Len(Good) + 1] = Error
         /\ \A s \in FirstRow(file) + 1 .. Len(Good) : s \in Marks /\ Content[s] # Error
         /\ \A p \in FirstRow(file) .. Len(Good) : p < Len(Good) =>
              /\ NextMark(Marks, p, p + 1) /\ Upto(Marks, p + 1) = Upto(Marks, p) \cup {p + 1}
              /\ ValueAt(Good, p + 1) = Content[p + 1]
         /\ \A i \in 1 .. Len(Content) : Content[i] \in Given
<1>1. /\ file \in Files /\ ~Bytewise /\ Place = offset /\ offset \in Nat
      /\ FirstRow(file) <= offset /\ offset <= Len(Content)
  BY DEF IInv, TypeInv, PlaceInv, Bytewise, Place
<1>2. /\ Len(Content) \in Nat /\ Len(Good) \in Nat /\ Len(Good) <= Len(Content) /\ FirstRow(file) \in {0, 1}
      /\ file.random \in BOOLEAN /\ file.repeat \in BOOLEAN /\ DOMAIN Content = 1 .. Len(Content)
  BY <1>1, ContentType, GoodType, FirstRowIs
<1>3. /\ WellFormed => Len(Good) = Len(Content)
      /\ ~WellFormed => Len(Good) < Len(Content) /\ Content[Len(Good) + 1] = Error
  BY <1>1, GoodIs, RowMarks
<1>4. FirstRow(file) <= Len(Good)
  <2>. SUFFICES ASSUME FirstRow(file) > Len(Good) PROVE FALSE
    BY <1>2
  <2>1. FirstRow(file) = 1 /\ Len(Good) = 0
    BY <1>2
  <2>2. Content[1] # Error
    <3>1. file.headers
      BY <2>1 DEF FirstRow
    <3>2. file.bytes[1] # Error
      BY <1>1, <3>1, FilesAssumption DEF Error
    <3>. QED  BY <3>2 DEF Content
  <2>3. Len(Content) # 0
    BY <1>1, <1>2, <2>1
  <2>. QED  BY <1>2, <1>3, <2>1, <2>2, <2>3
<1>5. /\ Marks = FirstRow(file) + 1 .. Len(Good)
      /\ \A s \in Marks : ValueAt(Good, s) = Content[s] /\ Content[s] # Error
      /\ \A p \in FirstRow(file) .. Len(Good) : p < Len(Good) =>
           NextMark(Marks, p, p + 1) /\ Upto(Marks, p + 1) = Upto(Marks, p) \cup {p + 1}
  BY <1>1, RowMarks
<1>6. \A s \in FirstRow(file) + 1 .. Len(Good) : s \in Marks /\ Content[s] # Error
  BY <1>5
<1>7. \A p \in FirstRow(file) .. Len(Good) : p < Len(Good) => ValueAt(Good, p + 1) = Content[p + 1]
  BY <1>1, <1>2, <1>5
<1>8. \A i \in 1 .. Len(Content) : Content[i] \in Given
  BY <1>2 DEF Given, Cells, Content
<1>. QED  BY <1>1, <1>2, <1>3, <1>4, <1>5, <1>6, <1>7, <1>8

LEMMA ScanRowStep ==
  ASSUME IInv, ScanRow
  PROVE  IInv'
<1>1. /\ file.format = "csv" /\ thread = "scanning" /\ offset < Len(Content) /\ (file.random \/ positions = <<>>)
      /\ IF Content[offset + 1] = Error THEN thread' = "failed" /\ offset' = offset /\ positions' = positions
         ELSE positions' = Append(positions, At(offset, 0)) /\ offset' = offset + 1 /\ thread' = thread
      /\ file' = file /\ buffer' = buffer /\ eof' = eof /\ position' = position /\ again' = again
      /\ random' = random /\ value' = value /\ (UNCHANGED task) /\ pass' = pass
  BY DEF ScanRow, RowsLeft, Row, Seek, rest, Content
<1>2. /\ Content' = Content /\ Good' = Good /\ Marks' = Marks /\ Boundaries' = Boundaries
      /\ ValueFrom' = ValueFrom /\ Values' = Values /\ Given' = Given /\ Cells' = Cells
      /\ (WellFormed' <=> WellFormed) /\ (Bytewise' <=> Bytewise)
  BY <1>1, SameFile
<1>3. /\ file \in Files /\ ~Bytewise /\ Place = offset /\ file.repeat \in BOOLEAN /\ file.random \in BOOLEAN
      /\ offset \in Nat /\ FirstRow(file) \in {0, 1} /\ FirstRow(file) <= offset
      /\ Len(Content) \in Nat /\ Len(Good) \in Nat /\ Len(Good) <= Len(Content)
      /\ (WellFormed => Len(Good) = Len(Content))
      /\ (~WellFormed => Len(Good) < Len(Content) /\ Content[Len(Good) + 1] = Error)
      /\ \A s \in FirstRow(file) + 1 .. Len(Good) : s \in Marks /\ Content[s] # Error
  BY <1>1, RowsAre
<1>4. Place' = offset'
  BY <1>2, <1>3 DEF Place
<1>5. pass = <<>> /\ (file.random \/ file.repeat) /\ (~file.random => ~random)
  BY <1>1 DEF IInv, ThreadInv
<1>6. ListInv'
  BY <1>1 DEF ListInv
<1>7. CASE Content[offset + 1] = Error
  <2>1. thread' = "failed" /\ offset' = offset /\ positions' = positions
    BY <1>1, <1>7
  <2>2. ~(offset < Len(Good))
    BY <1>3, <1>7
  <2>3. ~WellFormed
    BY <1>1, <1>3, <2>2
  <2>4. TypeInv'
    BY <1>1, <1>2, <2>1 DEF IInv, TypeInv, Threads, task
  <2>5. ErrorInv'
    BY <1>1, <2>3, TaskStays
  <2>6. PlaceInv'
    BY <1>1, <1>2, <1>3, <2>1 DEF IInv, PlaceInv
  <2>7. ThreadInv'
    BY <1>1, <1>2, <1>5, <2>1 DEF IInv, ThreadInv
  <2>8. RandomInv'
    BY <1>1, <1>2, <2>1 DEF IInv, RandomInv
  <2>9. InOrderInv'
    <3>. SUFFICES ASSUME ~file.random PROVE InOrderInv'
      BY <1>1 DEF InOrderInv
    <3>1. positions = <<>> /\ file.repeat /\ offset = FirstRow(file)
      BY <1>1, <1>5 DEF IInv, InOrderInv
    <3>2. Marks = {}
      <4>1. Marks = FirstRow(file) + 1 .. Len(Good)
        BY <1>1, <1>3, RowMarks
      <4>. QED  BY <1>3, <2>2, <3>1, <4>1
    <3>3. Cardinality(Upto(Marks, FirstRow(file))) = 0 /\ Len(<<>>) = 0
      BY <1>3, FirstRowIs, EmptySeq
    <3>4. InOrder(0, <<>>, Values)
      BY <3>3 DEF InOrder
    <3>5. Len(pass') = offset' - FirstRow(file)
      BY <1>1, <1>3, <1>5, <2>1, <3>1, <3>3
    <3>. QED  BY <1>1, <1>2, <1>4, <1>5, <2>1, <3>1, <3>2, <3>3, <3>4, <3>5 DEF IInv, InOrderInv
  <2>. QED  BY <1>6, <2>4, <2>5, <2>6, <2>7, <2>8, <2>9 DEF IInv
<1>8. CASE Content[offset + 1] # Error
  <2>. DEFINE new == At(offset, 0)
  <2>1. positions' = Append(positions, new) /\ offset' = offset + 1 /\ thread' = thread
    BY <1>1, <1>8
  <2>2. new \in [at : Nat, size : Nat] /\ new.at = offset /\ new.size = 0
    BY <1>3 DEF At
  <2>. HIDE DEF new
  <2>3. positions \in Seq([at : Nat, size : Nat]) /\ DOMAIN positions = 1 .. Len(positions) /\ Len(positions) \in Nat
    BY LenProperties DEF IInv, TypeInv
  <2>4. /\ positions' \in Seq([at : Nat, size : Nat])
        /\ \A k \in DOMAIN positions' : positions'[k] = new \/ \E j \in DOMAIN positions : positions'[k] = positions[j]
    <3>1. /\ positions' \in Seq([at : Nat, size : Nat]) /\ Len(positions') = Len(positions) + 1
          /\ \A i \in 1 .. Len(positions) : positions'[i] = positions[i]
          /\ positions'[Len(positions) + 1] = new
      BY <2>1, <2>2, <2>3, AppendProperties
    <3>2. DOMAIN positions' = 1 .. Len(positions) + 1
      BY <3>1, LenProperties
    <3>3. \A i \in 1 .. Len(positions) + 1 : i \in 1 .. Len(positions) \/ i = Len(positions) + 1
      BY <2>3
    <3>. QED  BY <2>3, <3>1, <3>2, <3>3
  <2>5. offset \in Boundaries
    <3>1. Boundaries = FirstRow(file) .. Len(Content)
      BY <1>1, <1>3, RowMarks
    <3>. QED  BY <1>1, <1>3, <3>1
  <2>6. TypeInv'
    BY <1>1, <1>2, <1>3, <2>1, <2>4 DEF IInv, TypeInv, task
  <2>7. ErrorInv'
    BY <1>1, <2>1, TaskStays
  <2>8. PlaceInv'
    <3>1. \A i \in DOMAIN positions : positions[i].at \in Boundaries /\ positions[i].at + positions[i].size <= Len(Content)
      BY <1>1 DEF IInv, PlaceInv
    <3>2. new.at \in Boundaries /\ new.at + new.size <= Len(Content)
      BY <1>1, <1>3, <2>2, <2>5
    <3>3. \A i \in DOMAIN positions' : positions'[i].at \in Boundaries /\ positions'[i].at + positions'[i].size <= Len(Content)
      BY <2>4, <3>1, <3>2
    <3>4. FirstRow(file) <= offset' /\ offset' <= Len(Content)
      BY <1>1, <1>3, <2>1
    <3>. QED  BY <1>1, <1>2, <1>3, <3>3, <3>4 DEF PlaceInv
  <2>9. ThreadInv'
    BY <1>1, <1>2, <2>1 DEF IInv, ThreadInv
  <2>10. InOrderInv'
    <3>. SUFFICES ASSUME ~file.random PROVE InOrderInv'
      BY <1>1 DEF InOrderInv
    <3>1. positions = <<>> /\ file.repeat /\ offset = FirstRow(file)
      BY <1>1, <1>5 DEF IInv, InOrderInv
    <3>2. positions' # <<>> /\ positions'[1].at = FirstRow(file)
      BY <2>1, <2>2, <3>1
    <3>. QED  BY <1>1, <2>1, <3>2 DEF InOrderInv
  <2>11. RandomInv'
    <3>. SUFFICES ASSUME file.random PROVE RandomInv'
      BY <1>1 DEF RandomInv
    <3>1. offset <= Len(Good)
      BY <1>1 DEF IInv, RandomInv
    <3>2. offset < Len(Good)
      BY <1>1, <1>3, <1>8, <3>1
    <3>3. NextMark(Marks, offset, offset + 1) /\ Upto(Marks, offset + 1) = Upto(Marks, offset) \cup {offset + 1}
      BY <1>1, <1>3, <3>2, RowsAre
    <3>. DEFINE s == offset + 1
    <3>4. NextMark(Marks, Place, s) /\ new.at = Place /\ Place \in Nat
      BY <1>3, <2>2, <3>3
    <3>. HIDE DEF s
    <3>5. /\ Left' = Upto(Marks, Place) \cup {s}
          /\ \A k \in DOMAIN positions' : NextMark(Marks, positions'[k].at, MarkAfter(Marks, positions'[k].at))
          /\ \A k, l \in DOMAIN positions' : MarkAfter(Marks, positions'[k].at) = MarkAfter(Marks, positions'[l].at) => k = l
      BY <1>1, <2>1, <2>2, <3>4, FoundAt
    <3>6. Left' = Upto(Marks, Place')
      BY <1>3, <1>4, <2>1, <3>3, <3>5 DEF s
    <3>7. offset' <= Len(Good)
      BY <1>3, <2>1, <3>2
    <3>. QED  BY <1>1, <1>2, <1>3, <2>1, <3>5, <3>6, <3>7 DEF RandomInv
  <2>. QED  BY <1>6, <2>6, <2>7, <2>8, <2>9, <2>10, <2>11 DEF IInv
<1>. QED  BY <1>7, <1>8

LEMMA RowsScannedStep ==
  ASSUME IInv, RowsScanned
  PROVE  IInv'
<1>1. /\ file.format = "csv" /\ thread = "scanning" /\ thread' = "next"
      /\ offset >= Len(Content) \/ (~file.random /\ positions # <<>>)
      /\ random' = (file.random /\ positions # <<>>)
      /\ IF positions = <<>> THEN offset' = offset
         ELSE \E i \in IF file.random THEN DOMAIN positions ELSE {1} : offset' = positions[i].at
      /\ file' = file /\ buffer' = buffer /\ eof' = eof /\ position' = position /\ again' = again
      /\ positions' = positions /\ value' = value /\ (UNCHANGED task) /\ pass' = pass
  <2>1. ~RowsLeft => offset >= Len(Content)
    BY RowsAre DEF RowsLeft, Content, RowsScanned
  <2>. QED  BY <2>1 DEF RowsScanned, Seek, rest
<1>2. /\ Content' = Content /\ Good' = Good /\ Marks' = Marks /\ Boundaries' = Boundaries
      /\ ValueFrom' = ValueFrom /\ Values' = Values /\ Given' = Given /\ Cells' = Cells
      /\ (WellFormed' <=> WellFormed) /\ (Bytewise' <=> Bytewise)
  BY <1>1, SameFile
<1>3. /\ file \in Files /\ ~Bytewise /\ Place = offset /\ file.repeat \in BOOLEAN /\ file.random \in BOOLEAN
      /\ offset \in Nat /\ FirstRow(file) \in {0, 1} /\ FirstRow(file) <= offset /\ offset <= Len(Content)
      /\ Len(Content) \in Nat /\ Len(Good) \in Nat /\ Len(Good) <= Len(Content)
      /\ (~WellFormed => Len(Good) < Len(Content))
  BY <1>1, RowsAre
<1>4. Place' = offset' /\ Left' = Left
  BY <1>1, <1>2, <1>3, SameLeft DEF Place
<1>5. pass = <<>> /\ (file.random \/ file.repeat) /\ Len(<<>>) = 0
  BY <1>1, EmptySeq DEF IInv, ThreadInv
<1>6. Marks = FirstRow(file) + 1 .. Len(Good) /\ Boundaries = FirstRow(file) .. Len(Content)
  BY <1>1, <1>3, RowMarks
<1>7. positions # <<>> => 1 \in DOMAIN positions
  <2>1. positions \in Seq([at : Nat, size : Nat])
    BY DEF IInv, TypeInv
  <2>. QED  BY <2>1, EmptySeq, LenProperties
<1>8. positions # <<>> => \E i \in DOMAIN positions : offset' = positions[i].at /\ (~file.random => i = 1)
  BY <1>1, <1>7
<1>9. offset' \in Boundaries
  <2>1. positions # <<>> => offset' \in Boundaries
    BY <1>1, <1>8, PositionIs
  <2>. QED  BY <1>1, <1>3, <1>6, <2>1
<1>10. offset' \in Nat /\ FirstRow(file) <= offset' /\ offset' <= Len(Content)
  BY <1>3, <1>6, <1>9
<1>11. random' \in BOOLEAN
  BY <1>1
<1>12. TypeInv'
  BY <1>1, <1>2, <1>10, <1>11 DEF IInv, TypeInv, Threads, task
<1>13. ErrorInv'
  BY <1>1, TaskStays
<1>14. PlaceInv'
  BY <1>1, <1>2, <1>3, <1>10 DEF IInv, PlaceInv
<1>15. ThreadInv'
  BY <1>1, <1>2 DEF IInv, ThreadInv
<1>16. ListInv'
  BY <1>1 DEF ListInv
<1>17. InOrderInv'
  <2>. SUFFICES ASSUME ~file.random PROVE InOrderInv'
    BY <1>1 DEF InOrderInv
  <2>1. offset' = FirstRow(file)
    <3>1. positions = <<>> => offset' = FirstRow(file)
      BY <1>1, <1>3, <1>5 DEF IInv, InOrderInv
    <3>2. positions # <<>> => offset' = positions[1].at
      BY <1>8
    <3>. QED  BY <1>3, <3>1, <3>2 DEF IInv, InOrderInv
  <2>2. positions = <<>> => Marks = {} /\ offset' = Len(Content)
    BY <1>1, <1>3, <1>6, <2>1
  <2>3. Cardinality(Upto(Marks, FirstRow(file))) = 0
    BY <1>3, FirstRowIs
  <2>4. InOrder(0, <<>>, Values)
    BY <1>5 DEF InOrder
  <2>5. Len(pass') = offset' - FirstRow(file)
    BY <1>1, <1>3, <1>5, <2>1
  <2>. QED  BY <1>1, <1>2, <1>4, <1>5, <2>1, <2>2, <2>3, <2>4, <2>5 DEF IInv, InOrderInv
<1>18. RandomInv'
  <2>. SUFFICES ASSUME file.random PROVE RandomInv'
    BY <1>1 DEF RandomInv
  <2>1. offset <= Len(Good) /\ Left = Upto(Marks, Place)
    BY <1>1 DEF IInv, RandomInv
  <2>2. offset = Len(Content) /\ Len(Good) = Len(Content) /\ WellFormed
    BY <1>1, <1>3, <2>1
  <2>3. Left = Marks
    BY <1>3, <1>6, <2>1, <2>2 DEF Upto
  <2>4. positions = <<>> => Left = {} /\ offset' = Len(Content)
    BY <1>1, <2>2, EmptySeq DEF Left
  <2>5. Hand' = {} /\ Left' \cup {} = Marks
    BY <1>1, <1>4, <2>3 DEF Hand
  <2>6. Dealt(Marks, ValueFrom, pass, Marks) /\ Drawn(Marks, ValueFrom, pass)
    BY <1>5, DealtNone
  <2>7. ScannedInv'
    BY <1>1, <1>2, <1>4, <2>2, <2>3, <2>4, <2>5, <2>6 DEF ScannedInv
  <2>. QED  BY <1>1, <1>2, <1>4, <2>7 DEF IInv, RandomInv
<1>. QED  BY <1>12, <1>13, <1>14, <1>15, <1>16, <1>17, <1>18 DEF IInv

LEMMA NextRandomRowStep ==
  ASSUME IInv, NextRandomRow
  PROVE  IInv'
<1>1. /\ file.format = "csv" /\ thread = "next" /\ random /\ thread' = "yield"
      /\ file' = file /\ buffer' = buffer /\ eof' = eof /\ position' = position /\ again' = again
      /\ random' = random /\ (UNCHANGED task)
  BY DEF NextRandomRow, Yield, rest
<1>2. PICK i \in DOMAIN positions :
        /\ offset' = positions[i].at + 1 /\ positions' = IF file.repeat THEN positions ELSE RemoveAt(positions, i)
        /\ value' = Content[positions[i].at + 1]
        /\ pass' = IF file.random /\ file.repeat THEN <<Content[positions[i].at + 1]>>
                   ELSE Append(pass, Content[positions[i].at + 1])
  BY DEF NextRandomRow, Yield, Seek, Content
<1>3. /\ Content' = Content /\ Good' = Good /\ Marks' = Marks /\ Boundaries' = Boundaries
      /\ ValueFrom' = ValueFrom /\ Values' = Values /\ Given' = Given /\ Cells' = Cells
      /\ (WellFormed' <=> WellFormed) /\ (Bytewise' <=> Bytewise)
  BY <1>1, SameFile
<1>4. /\ file \in Files /\ ~Bytewise /\ file.repeat \in BOOLEAN /\ file.random
      /\ Len(Content) \in Nat /\ Len(Good) \in Nat /\ Len(Good) <= Len(Content) /\ FirstRow(file) \in {0, 1}
      /\ \A s \in 1 .. Len(Content) : Content[s] \in Given
  BY <1>1, RowsAre DEF IInv, ThreadInv
<1>5. ScannedInv
  BY <1>1, <1>4 DEF IInv, RandomInv
<1>. DEFINE p == positions[i].at
            m == MarkAfter(Marks, p)
<1>6. p \in Boundaries /\ p \in Nat
  BY <1>1, PositionIs
<1>7. /\ positions' \in Seq([at : Nat, size : Nat])
      /\ \A k \in DOMAIN positions' : \E j \in DOMAIN positions : positions'[k] = positions[j]
      /\ NextMark(Marks, p, m)
      /\ \A k, l \in DOMAIN positions' : MarkAfter(Marks, positions'[k].at) = MarkAfter(Marks, positions'[l].at) => k = l
      /\ m \in Left
      /\ Left' = IF file.repeat THEN Left ELSE Left \ {m}
  BY <1>1, <1>2, <1>4, DrawnAt
<1>8. \A j \in DOMAIN positions : /\ positions[j].at \in Boundaries /\ positions[j].at + positions[j].size <= Len(Content)
                                  /\ NextMark(Marks, positions[j].at, MarkAfter(Marks, positions[j].at))
  BY <1>1, <1>4 DEF IInv, PlaceInv, RandomInv
<1>9. /\ offset' = p + 1 /\ value' = Content[p + 1]
      /\ pass' = IF file.repeat THEN <<Content[p + 1]>> ELSE Append(pass, Content[p + 1])
  BY <1>2, <1>4
<1>. HIDE DEF p
<1>10. FirstRow(file) <= p /\ p < Len(Good)
  <2>1. Marks = FirstRow(file) + 1 .. Len(Good) /\ Boundaries = FirstRow(file) .. Len(Content)
    BY <1>1, <1>4, RowMarks
  <2>2. m \in Marks /\ p < m
    BY <1>7 DEF NextMark
  <2>. QED  BY <1>4, <1>6, <2>1, <2>2
<1>11. m = p + 1
  <2>1. NextMark(Marks, p, p + 1)
    BY <1>1, <1>4, <1>6, <1>10, RowsAre
  <2>. DEFINE s == p + 1
  <2>. HIDE DEF s
  <2>2. NextMark(Marks, p, s)
    BY <2>1 DEF s
  <2>3. m = s
    BY <1>4, <1>6, <2>2, MarkAfterIs
  <2>. QED  BY <2>3 DEF s
<1>12. m \in Marks /\ value' = ValueFrom[m] /\ ValueFrom[m] # Error /\ ValueFrom[m] \in Given
  <2>1. m \in Marks
    BY <1>7 DEF NextMark
  <2>2. ValueFrom[m] = Content[m] /\ Content[m] # Error
    BY <1>1, <1>4, <2>1, RowMarks
  <2>3. m \in 1 .. Len(Content)
    BY <1>4, <1>6, <1>10, <1>11
  <2>. QED  BY <1>4, <1>9, <1>11, <2>1, <2>2, <2>3
<1>13. pass' = IF file.repeat THEN <<ValueFrom[m]>> ELSE Append(pass, ValueFrom[m])
  BY <1>9, <1>12
<1>14. Place' = offset' /\ Hand' = {} /\ Hand = {}
  BY <1>1, <1>3, <1>4 DEF Place, Hand
<1>15. offset' \in Nat /\ FirstRow(file) <= offset' /\ offset' <= Len(Content)
  BY <1>4, <1>6, <1>9, <1>10
<1>. HIDE DEF m
<1>16. pass \in Seq(Given) /\ pass' \in Seq(Given)
  <2>1. pass \in Seq(Given)
    BY DEF IInv, TypeInv
  <2>2. Append(pass, ValueFrom[m]) \in Seq(Given)
    BY <1>12, <2>1, AppendProperties
  <2>3. <<ValueFrom[m]>> \in Seq(Given)
    BY <1>12
  <2>. QED  BY <1>13, <2>1, <2>2, <2>3
<1>17. TypeInv'
  BY <1>1, <1>3, <1>7, <1>12, <1>15, <1>16 DEF IInv, TypeInv, Threads, task
<1>18. ErrorInv'
  BY <1>1, <1>12, TaskStays
<1>19. PlaceInv'
  <2>1. \A k \in DOMAIN positions' : positions'[k].at \in Boundaries /\ positions'[k].at + positions'[k].size <= Len(Content)
    BY <1>7, <1>8
  <2>. QED  BY <1>1, <1>3, <1>4, <1>15, <2>1 DEF PlaceInv
<1>20. ThreadInv'
  BY <1>1, <1>3 DEF IInv, ThreadInv
<1>21. InOrderInv'
  BY <1>1, <1>4 DEF InOrderInv
<1>22. ListInv'
  BY <1>1 DEF ListInv
<1>23. RandomInv'
  <2>1. file.repeat => Drawn(Marks, ValueFrom, pass')
    BY <1>12, <1>13, DrawnOne
  <2>2. ~file.repeat => Dealt(Marks, ValueFrom, pass', Left')
    <3>. SUFFICES ASSUME ~file.repeat PROVE Dealt(Marks, ValueFrom, pass', Left')
      OBVIOUS
    <3>1. Dealt(Marks, ValueFrom, pass, Left)
      <4>1. Left \cup Hand = Left
        BY <1>14
      <4>. QED  BY <1>5, <4>1 DEF ScannedInv
    <3>2. Dealt(Marks, ValueFrom, Append(pass, ValueFrom[m]), Left \ {m})
      BY <1>7, <1>12, <1>16, <3>1, DealOne
    <3>. QED  BY <1>7, <1>13, <3>2
  <2>3. Left' \cup Hand' = Left'
    BY <1>14
  <2>4. ScannedInv'
    BY <1>1, <1>3, <1>5, <1>7, <2>1, <2>2, <2>3 DEF ScannedInv
  <2>5. \A k \in DOMAIN positions' : NextMark(Marks, positions'[k].at, MarkAfter(Marks, positions'[k].at))
    BY <1>7, <1>8
  <2>. QED  BY <1>1, <1>3, <1>7, <2>4, <2>5 DEF RandomInv
<1>. QED  BY <1>17, <1>18, <1>19, <1>20, <1>21, <1>22, <1>23 DEF IInv

LEMMA NextRowStep ==
  ASSUME IInv, NextRow
  PROVE  IInv'
<1>1. /\ file.format = "csv" /\ thread = "next" /\ random = FALSE /\ thread' = "yield" /\ offset < Len(Content)
      /\ offset' = offset + 1 /\ value' = Content[offset + 1]
      /\ pass' = IF file.random /\ file.repeat THEN <<Content[offset + 1]>> ELSE Append(pass, Content[offset + 1])
      /\ file' = file /\ buffer' = buffer /\ eof' = eof /\ position' = position /\ again' = again
      /\ positions' = positions /\ random' = random /\ (UNCHANGED task)
  BY DEF NextRow, Yield, RowsLeft, Row, Seek, rest, Content, IInv, TypeInv
<1>2. /\ Content' = Content /\ Good' = Good /\ Marks' = Marks /\ Boundaries' = Boundaries
      /\ ValueFrom' = ValueFrom /\ Values' = Values /\ Given' = Given /\ Cells' = Cells
      /\ (WellFormed' <=> WellFormed) /\ (Bytewise' <=> Bytewise)
  BY <1>1, SameFile
<1>3. /\ file \in Files /\ ~Bytewise /\ Place = offset /\ file.repeat \in BOOLEAN /\ file.random \in BOOLEAN
      /\ offset \in Nat /\ FirstRow(file) \in {0, 1} /\ FirstRow(file) <= offset
      /\ Len(Content) \in Nat /\ Len(Good) \in Nat /\ Len(Good) <= Len(Content) /\ FirstRow(file) <= Len(Good)
      /\ (WellFormed => Len(Good) = Len(Content))
      /\ (~WellFormed => Content[Len(Good) + 1] = Error)
      /\ \A i \in 1 .. Len(Content) : Content[i] \in Given
  BY <1>1, RowsAre
<1>4. Place' = offset'
  BY <1>2, <1>3 DEF Place
<1>5. ~file.random
  <2>. SUFFICES ASSUME file.random PROVE FALSE
    BY <1>3
  <2>. QED  BY <1>1, <1>3 DEF IInv, RandomInv, ScannedInv
<1>. DEFINE v == Content[offset + 1]
            k == Cardinality(Upto(Marks, offset))
<1>6. pass' = Append(pass, v) /\ value' = v /\ v \in Given
  BY <1>1, <1>3, <1>5
<1>7. /\ InOrder(k, pass, Values) /\ k \in Nat /\ Len(pass) = offset - FirstRow(file) /\ pass \in Seq(Given)
      /\ Len(Values) \in Nat
  BY <1>1, <1>3, <1>5, UptoIs, ValuesType DEF IInv, InOrderInv, TypeInv
<1>8. pass' \in Seq(Given) /\ Len(pass') = offset' - FirstRow(file)
  <2>1. pass' \in Seq(Given) /\ Len(pass') = Len(pass) + 1
    BY <1>6, <1>7, AppendProperties
  <2>2. FirstRow(file) \in Nat /\ offset' = offset + 1 /\ Len(pass) = offset - FirstRow(file)
    BY <1>1, <1>3, <1>7
  <2>3. Len(pass') = offset' - FirstRow(file)
    BY <1>3, <2>1, <2>2
  <2>. QED  BY <2>1, <2>3
<1>. HIDE DEF v
<1>9. TypeInv'
  BY <1>1, <1>2, <1>3, <1>6, <1>8 DEF IInv, TypeInv, Threads, task
<1>10. PlaceInv'
  BY <1>1, <1>2, <1>3 DEF IInv, PlaceInv
<1>11. ThreadInv'
  BY <1>1, <1>2 DEF IInv, ThreadInv
<1>12. RandomInv' /\ ListInv'
  BY <1>1, <1>5 DEF RandomInv, ListInv
<1>13. /\ file.repeat => positions # <<>>
       /\ positions # <<>> => positions[1].at = FirstRow(file)
  BY <1>1, <1>3, <1>5 DEF IInv, InOrderInv
<1>14. CASE offset < Len(Good)
  <2>1. /\ NextMark(Marks, offset, offset + 1) /\ Upto(Marks, offset + 1) = Upto(Marks, offset) \cup {offset + 1}
        /\ ValueAt(Good, offset + 1) = v
    BY <1>1, <1>3, <1>14, RowsAre DEF v
  <2>2. v # Error
    BY <1>1, <1>3, <1>14, RowsAre DEF v
  <2>. DEFINE s == offset + 1
  <2>3. NextMark(Marks, offset, s) /\ Upto(Marks, s) = Upto(Marks, offset) \cup {s} /\ ValueAt(Good, s) = v
    BY <2>1
  <2>. HIDE DEF s, k
  <2>4. k + 1 \in 1 .. Len(Values) /\ Values[k + 1] = v /\ Cardinality(Upto(Marks, s)) = k + 1
    BY <1>3, <2>3, NextValue DEF k
  <2>5. k < Len(Values)
    BY <1>7, <2>4
  <2>6. InOrder(k + 1, Append(pass, v), Values) /\ Len(pass) = k
    BY <1>3, <1>6, <1>7, <2>2, <2>4, <2>5, ValuesType, NextInOrderIs
  <2>7. Len(pass') = k + 1
    BY <1>6, <1>7, <2>6, AppendProperties
  <2>8. Cardinality(Upto(Marks, Place')) = k + 1
    BY <1>1, <1>4, <2>4 DEF s
  <2>9. ~(Len(pass') > Cardinality(Upto(Marks, Place')))
    BY <1>7, <2>7, <2>8
  <2>10. InOrder(Cardinality(Upto(Marks, Place')), pass', Values)
    BY <1>6, <2>6, <2>8
  <2>11. InOrderInv'
    BY <1>1, <1>2, <1>8, <1>13, <2>9, <2>10 DEF InOrderInv
  <2>12. ErrorInv'
    BY <1>1, <1>6, <2>2, TaskStays
  <2>. QED  BY <1>9, <1>10, <1>11, <1>12, <2>11, <2>12 DEF IInv
<1>15. CASE ~(offset < Len(Good))
  <2>1. ~WellFormed
    BY <1>1, <1>3, <1>15
  <2>2. Marks = FirstRow(file) + 1 .. Len(Good)
    BY <1>1, <1>3, RowMarks
  <2>3. /\ \A t \in Marks : t <= offset
        /\ \A t \in Marks : t <= offset + 1
    BY <1>3, <1>15, <2>2
  <2>4. Upto(Marks, offset) = Marks /\ Upto(Marks, offset + 1) = Marks
    BY <2>3 DEF Upto
  <2>5. k = Len(Values) /\ k = Cardinality(Marks)
    BY <1>3, <2>4, MarksAre
  <2>6. k = Len(Good) - FirstRow(file)
    <3>. DEFINE a == FirstRow(file) + 1
                b == Len(Good)
    <3>1. a \in Int /\ b \in Int /\ Marks = a .. b
      BY <1>3, <2>2
    <3>. HIDE DEF a, b
    <3>2. Cardinality(Marks) = IF a > b THEN 0 ELSE b - a + 1
      BY <3>1, FS_Interval
    <3>3. Cardinality(Marks) = b - (a - 1)
      BY <1>3, <3>1, <3>2 DEF a, b
    <3>. QED  BY <1>3, <2>5, <3>3 DEF a, b
  <2>. HIDE DEF k
  <2>7. v = Error \/ Len(pass) > k
    <3>1. CASE offset = Len(Good)
      BY <1>3, <2>1, <3>1 DEF v
    <3>2. CASE offset > Len(Good)
      BY <1>3, <1>7, <2>6, <3>2
    <3>. QED  BY <1>3, <1>15, <3>1, <3>2
  <2>8. InOrder(k, Append(pass, v), Values)
    BY <1>3, <1>6, <1>7, <2>5, <2>7, ValuesType, NextInOrderIs
  <2>9. Cardinality(Upto(Marks, Place')) = k
    BY <1>1, <1>4, <2>4, <2>5
  <2>10. InOrder(Cardinality(Upto(Marks, Place')), pass', Values)
    BY <1>6, <2>8, <2>9
  <2>11. InOrderInv'
    BY <1>1, <1>2, <1>8, <1>13, <2>1, <2>10 DEF InOrderInv
  <2>12. ErrorInv'
    BY <1>1, <2>1, TaskStays
  <2>. QED  BY <1>9, <1>10, <1>11, <1>12, <2>11, <2>12 DEF IInv
<1>. QED  BY <1>14, <1>15

LEMMA ReturnToRowStep ==
  ASSUME IInv, ReturnToRow
  PROVE  IInv'
<1>1. /\ file.format = "csv" /\ thread = "next" /\ thread' = thread /\ random = FALSE /\ positions # <<>>
      /\ offset' = positions[1].at /\ pass' = <<>>
      /\ file' = file /\ buffer' = buffer /\ eof' = eof /\ position' = position /\ again' = again
      /\ positions' = positions /\ random' = random /\ value' = value /\ (UNCHANGED task)
  BY DEF ReturnToRow, Seek, rest, IInv, TypeInv
<1>2. /\ Content' = Content /\ Good' = Good /\ Marks' = Marks /\ Boundaries' = Boundaries
      /\ ValueFrom' = ValueFrom /\ Values' = Values /\ Given' = Given /\ Cells' = Cells
      /\ (WellFormed' <=> WellFormed) /\ (Bytewise' <=> Bytewise)
  BY <1>1, SameFile
<1>3. /\ file \in Files /\ ~Bytewise /\ file.random \in BOOLEAN /\ FirstRow(file) \in {0, 1}
      /\ FirstRow(file) <= Len(Content)
  BY <1>1, RowsAre, FirstRowIs
<1>4. ~file.random
  BY <1>1 DEF IInv, RandomInv, ScannedInv
<1>5. offset' = FirstRow(file)
  BY <1>1, <1>4 DEF IInv, InOrderInv
<1>6. Place' = FirstRow(file)
  BY <1>2, <1>3, <1>5 DEF Place
<1>7. Cardinality(Upto(Marks, FirstRow(file))) = 0 /\ <<>> \in Seq(Given) /\ Len(<<>>) = 0
  BY <1>3, FirstRowIs, EmptySeq
<1>8. TypeInv'
  BY <1>1, <1>2, <1>3, <1>5, <1>7 DEF IInv, TypeInv, task
<1>9. ErrorInv'
  BY <1>1, TaskStays
<1>10. PlaceInv'
  BY <1>1, <1>2, <1>3, <1>5 DEF IInv, PlaceInv
<1>11. ThreadInv'
  BY <1>1, <1>2 DEF IInv, ThreadInv
<1>12. InOrderInv'
  <2>1. InOrder(0, <<>>, Values)
    BY <1>7 DEF InOrder
  <2>2. Len(pass') = offset' - FirstRow(file)
    BY <1>1, <1>3, <1>5, <1>7
  <2>. QED  BY <1>1, <1>2, <1>4, <1>5, <1>6, <1>7, <2>1, <2>2 DEF IInv, InOrderInv
<1>13. RandomInv' /\ ListInv'
  BY <1>1, <1>4 DEF RandomInv, ListInv
<1>. QED  BY <1>8, <1>9, <1>10, <1>11, <1>12, <1>13 DEF IInv

LEMMA EndOfRowsStep ==
  ASSUME IInv, EndOfRows
  PROVE  IInv'
<1>1. /\ file.format = "csv" /\ thread = "next" /\ random = FALSE /\ thread' = "done"
      /\ offset >= Len(Content) /\ (file.repeat => positions = <<>>)
      /\ file' = file /\ (UNCHANGED reader) /\ value' = value /\ (UNCHANGED task) /\ pass' = pass
  <2>1. ~RowsLeft => offset >= Len(Content)
    BY RowsAre DEF RowsLeft, Content, EndOfRows
  <2>. QED  BY <2>1 DEF EndOfRows, IInv, TypeInv
<1>2. /\ offset' = offset /\ buffer' = buffer /\ eof' = eof /\ position' = position /\ positions' = positions
      /\ random' = random /\ again' = again
  BY <1>1 DEF reader
<1>3. /\ Content' = Content /\ Good' = Good /\ Marks' = Marks /\ Boundaries' = Boundaries
      /\ ValueFrom' = ValueFrom /\ Values' = Values /\ Given' = Given /\ Cells' = Cells
      /\ (WellFormed' <=> WellFormed) /\ (Bytewise' <=> Bytewise)
  BY <1>1, SameFile
<1>4. Place' = Place /\ Left' = Left
  BY <1>1, <1>2, SamePlace, SameLeft
<1>5. /\ file \in Files /\ Place = offset /\ offset \in Nat
      /\ Len(Content) \in Nat /\ Len(Good) \in Nat /\ Len(Good) <= Len(Content) /\ FirstRow(file) \in {0, 1}
  BY <1>1, RowsAre
<1>6. \A t \in Marks : t <= Place
  <2>1. Marks = FirstRow(file) + 1 .. Len(Good)
    BY <1>1, <1>5, RowMarks
  <2>. QED  BY <1>1, <1>5, <2>1
<1>7. Hand = {} /\ Hand' = {}
  BY <1>1 DEF Hand
<1>8. TypeInv'
  BY <1>1, <1>2, <1>3 DEF IInv, TypeInv, Threads, task
<1>9. ErrorInv'
  BY <1>1, TaskStays
<1>10. PlaceInv'
  BY <1>1, <1>2, <1>3, <1>4 DEF IInv, PlaceInv
<1>11. ThreadInv'
  BY <1>1, <1>2, <1>3 DEF IInv, ThreadInv
<1>12. InOrderInv'
  <2>1. Cardinality(Upto(Marks, Place)) = Len(Values)
    BY <1>5, <1>6, UptoIs
  <2>. QED  BY <1>1, <1>2, <1>3, <1>4, <2>1 DEF IInv, InOrderInv
<1>13. RandomInv'
  <2>. SUFFICES ASSUME file.random PROVE RandomInv'
    BY <1>1 DEF RandomInv
  <2>1. ScannedInv
    BY <1>1 DEF IInv, RandomInv
  <2>2. Left = {} /\ Marks = {}
    BY <1>1, <2>1, EmptySeq DEF ScannedInv, Left
  <2>3. ScannedInv'
    BY <1>1, <1>2, <1>3, <1>4, <1>7, <2>1, <2>2 DEF ScannedInv
  <2>. QED  BY <1>1, <1>2, <1>3, <1>4, <2>3 DEF IInv, RandomInv
<1>14. ListInv'
  BY <1>1 DEF ListInv
<1>. QED  BY <1>8, <1>9, <1>10, <1>11, <1>12, <1>13, <1>14 DEF IInv

-----------------------------------------------------------------------------
(***************************************************************************)
(* Steps of a list or a range.                                             *)
(***************************************************************************)
LEMMA DomainOfSeq ==
  ASSUME NEW T, NEW s \in Seq(T)
  PROVE  Cardinality(DOMAIN s) = Len(s)
<1>. DEFINE n == Len(s)
<1>1. n \in Nat /\ DOMAIN s = 1 .. n
  BY LenProperties
<1>. HIDE DEF n
<1>2. Cardinality(1 .. n) = IF 1 > n THEN 0 ELSE n - 1 + 1
  BY <1>1, FS_Interval
<1>3. Cardinality(1 .. n) = n
  BY <1>1, <1>2
<1>. QED  BY <1>1, <1>3 DEF n

LEMMA SameLength ==
  ASSUME NEW S, NEW T, NEW s \in Seq(S), NEW t \in Seq(T), DOMAIN s = DOMAIN t
  PROVE  Len(s) = Len(t)
<1>1. Cardinality(DOMAIN s) = Len(s)
  BY DomainOfSeq
<1>2. Cardinality(DOMAIN t) = Len(t)
  BY DomainOfSeq
<1>. QED  BY <1>1, <1>2, Zenon

LEMMA ListIs ==
  ASSUME IInv, file.format = "list"
  PROVE  /\ file \in Files /\ ~Bytewise /\ Place = offset /\ WellFormed /\ FirstRow(file) = 0
         /\ file.random \in BOOLEAN /\ file.repeat \in BOOLEAN
         /\ offset \in Nat /\ offset <= Len(Content) /\ Len(Content) \in Nat /\ DOMAIN Content = 1 .. Len(Content)
         /\ Marks = 1 .. Len(Content) /\ Len(buffer) = Len(Content) /\ DOMAIN buffer = DOMAIN Content
         /\ \A i \in 1 .. Len(Content) : Content[i] \in Given /\ Content[i] # Error /\ ValueFrom[i] = Content[i]
         /\ \A p \in Nat : p < Len(Content) =>
              /\ NextMark(Marks, p, p + 1) /\ ValueAt(Good, p + 1) = Content[p + 1]
              /\ Upto(Marks, p + 1) = Upto(Marks, p) \cup {p + 1}
<1>1. file \in Files /\ buffer \in Seq(Cells)
  BY DEF IInv, TypeInv
<1>2. Good = Content /\ WellFormed /\ FirstRow(file) = 0 /\ Len(Content) \in Nat /\ DOMAIN Content = 1 .. Len(Content)
  BY <1>1, MostlyGood, FirstRowIs, ContentType
<1>3. Marks = 1 .. Len(Content)
  BY <1>1, <1>2, RowMarks
<1>4. \A i \in 1 .. Len(Content) : Content[i] \in Given /\ Content[i] # Error /\ ValueFrom[i] = Content[i]
  <2>1. \A i \in 1 .. Len(Content) : Content[i] \in Given
    BY RowsAre
  <2>. QED  BY <1>1, <1>3, <2>1, RowMarks
<1>5. ASSUME NEW p \in Nat, p < Len(Content)
      PROVE  /\ NextMark(Marks, p, p + 1) /\ ValueAt(Good, p + 1) = Content[p + 1]
             /\ Upto(Marks, p + 1) = Upto(Marks, p) \cup {p + 1}
  <2>1. p \in FirstRow(file) .. Len(Good) /\ p < Len(Good)
    BY <1>2, <1>5
  <2>. QED  BY <2>1, RowsAre
<1>6. Len(buffer) = Len(Content) /\ DOMAIN buffer = DOMAIN Content
  <2>1. buffer = Content \/ Mixed(Content, buffer)
    BY DEF IInv, InOrderInv, ListInv
  <2>2. DOMAIN buffer = DOMAIN Content
    BY <2>1 DEF Mixed
  <2>3. Content \in Seq(Cells)
    BY <1>1, ContentType
  <2>4. Len(buffer) = Len(Content)
    BY <1>1, <2>2, <2>3, SameLength
  <2>. QED  BY <2>2, <2>4
<1>. QED  BY <1>1, <1>2, <1>3, <1>4, <1>5, <1>6, RowsAre

LEMMA ListNextStep ==
  ASSUME IInv, ListNext
  PROVE  IInv'
<1>1. /\ file.format = "list" /\ thread = "next" /\ thread' = "yield"
      /\ file' = file /\ buffer' = buffer /\ eof' = eof /\ position' = position /\ again' = again
      /\ positions' = positions /\ random' = random /\ (UNCHANGED task)
  BY DEF ListNext, Yield
<1>2. /\ Content' = Content /\ Good' = Good /\ Marks' = Marks /\ Boundaries' = Boundaries
      /\ ValueFrom' = ValueFrom /\ Values' = Values /\ Given' = Given /\ Cells' = Cells
      /\ (WellFormed' <=> WellFormed) /\ (Bytewise' <=> Bytewise)
  BY <1>1, SameFile
<1>3. /\ file \in Files /\ ~Bytewise /\ Place = offset /\ FirstRow(file) = 0
      /\ file.random \in BOOLEAN /\ file.repeat \in BOOLEAN
      /\ offset \in Nat /\ offset <= Len(Content) /\ Len(Content) \in Nat /\ DOMAIN Content = 1 .. Len(Content)
      /\ Marks = 1 .. Len(Content) /\ Len(buffer) = Len(Content) /\ DOMAIN buffer = DOMAIN Content
      /\ \A i \in 1 .. Len(Content) : Content[i] \in Given /\ Content[i] # Error /\ ValueFrom[i] = Content[i]
  BY <1>1, ListIs
<1>4. Place' = offset'
  BY <1>2, <1>3 DEF Place
<1>5. pass \in Seq(Given)
  BY DEF IInv, TypeInv
<1>6. ThreadInv' /\ RandomInv'
  BY <1>1, <1>2 DEF IInv, ThreadInv, RandomInv
\* What is left to show of a step that gives v and moves to o.
<1>7. ASSUME NEW v \in Given, v # Error, value' = v, NEW o \in Nat, o <= Len(Content), offset' = o,
             pass' \in Seq(Given)
      PROVE  TypeInv' /\ ErrorInv' /\ PlaceInv'
  <2>1. TypeInv'
    BY <1>1, <1>2, <1>7 DEF IInv, TypeInv, Threads, task
  <2>2. ErrorInv'
    BY <1>1, <1>7, TaskStays
  <2>3. PlaceInv'
    <3>1. FirstRow(file) <= offset' /\ offset' <= Len(Content)
      BY <1>3, <1>7
    <3>. QED  BY <1>1, <1>2, <1>3, <3>1 DEF PlaceInv
  <2>. QED  BY <2>1, <2>2, <2>3
<1>8. CASE file.random /\ file.repeat
  <2>1. PICK v \in Range(buffer) : value' = v /\ pass' = <<v>> /\ offset' = offset
    BY <1>1, <1>8 DEF ListNext, Yield
  <2>2. buffer = Content /\ Drawn(Marks, ValueFrom, pass)
    BY <1>1, <1>8 DEF IInv, ListInv
  <2>3. PICK j \in 1 .. Len(Content) : v = Content[j]
    BY <1>3, <2>2 DEF Range
  <2>4. v \in Given /\ v # Error /\ v = ValueFrom[j] /\ <<v>> \in Seq(Given)
    BY <1>3, <2>3
  <2>5. Drawn(Marks, ValueFrom, pass')
    BY <1>3, <2>1, <2>4, DrawnOne
  <2>6. ListInv'
    BY <1>1, <1>2, <1>8, <2>2, <2>5 DEF ListInv
  <2>7. InOrderInv'
    BY <1>1, <1>8 DEF InOrderInv
  <2>. QED  BY <1>3, <1>6, <1>7, <2>1, <2>4, <2>6, <2>7 DEF IInv
<1>9. CASE ~(file.random /\ file.repeat)
  <2>. DEFINE v == buffer[offset + 1]
              o == offset + 1
  <2>1. offset < Len(buffer) /\ value' = v /\ pass' = Append(pass, v) /\ offset' = o
    BY <1>1, <1>9 DEF ListNext, Yield
  <2>2. o \in 1 .. Len(buffer) /\ o \in Nat
    BY <1>3, <2>1
  <2>3. CASE file.random
    <3>1. Mixed(Content, buffer) /\ Len(pass) = offset /\ \A i \in 1 .. offset : pass[i] = buffer[i]
      BY <1>1, <1>9, <2>3 DEF IInv, ListInv
    <3>2. PICK g \in [DOMAIN Content -> DOMAIN Content] : buffer = [i \in DOMAIN Content |-> Content[g[i]]]
      BY <3>1 DEF Mixed
    <3>3. o \in DOMAIN Content
      BY <1>3, <2>2
    <3>4. v = Content[g[o]] /\ g[o] \in 1 .. Len(Content)
      BY <1>3, <3>2, <3>3
    <3>5. v \in Given /\ v # Error
      BY <1>3, <3>4
    <3>. HIDE DEF v
    <3>6. /\ Append(pass, v) \in Seq(Given) /\ Len(Append(pass, v)) = offset + 1
          /\ \A i \in 1 .. offset : Append(pass, v)[i] = pass[i]
          /\ Append(pass, v)[offset + 1] = v
      BY <1>5, <3>1, <3>5, AppendProperties
    <3>7. \A i \in 1 .. o : pass'[i] = buffer[i]
      <4>1. \A i \in 1 .. o : i \in 1 .. offset \/ i = o
        BY <1>3
      <4>. QED  BY <2>1, <3>1, <3>6, <4>1 DEF v
    <3>8. ListInv'
      <4>1. Len(pass') = offset' /\ (\A i \in 1 .. offset' : pass'[i] = buffer'[i]) /\ thread' # "done"
        BY <1>1, <2>1, <3>6, <3>7
      <4>. QED  BY <1>1, <1>2, <1>9, <2>3, <3>1, <4>1 DEF ListInv
    <3>9. InOrderInv'
      BY <1>1, <2>3 DEF InOrderInv
    <3>10. o <= Len(Content) /\ pass' \in Seq(Given)
      BY <1>3, <2>1, <2>2, <3>6
    <3>. HIDE DEF o
    <3>. QED  BY <1>6, <1>7, <2>1, <2>2, <3>5, <3>8, <3>9, <3>10 DEF IInv
  <2>4. CASE ~file.random
    <3>. DEFINE k == Cardinality(Upto(Marks, offset))
    <3>1. buffer = Content /\ Len(pass) = offset /\ InOrder(k, pass, Values)
      BY <1>1, <1>3, <2>4 DEF IInv, InOrderInv
    <3>2. NextMark(Marks, offset, o) /\ Upto(Marks, o) = Upto(Marks, offset) \cup {o} /\ ValueAt(Good, o) = v
      BY <1>1, <1>3, <2>1, <3>1, ListIs
    <3>3. v \in Given /\ v # Error
      BY <1>3, <2>2, <3>1
    <3>. HIDE DEF v, k
    <3>4. Append(pass, v) \in Seq(Given) /\ Len(Append(pass, v)) = offset + 1
      BY <1>5, <3>1, <3>3, AppendProperties
    <3>5. o <= Len(Content) /\ offset' = offset + 1
      BY <1>3, <2>1, <2>2, <3>1
    <3>. HIDE DEF o
    <3>6. k + 1 \in 1 .. Len(Values) /\ Values[k + 1] = v /\ Cardinality(Upto(Marks, o)) = k + 1 /\ k \in Nat
      <4>1. k \in Nat
        BY <1>3, UptoIs DEF k
      <4>2. k + 1 \in 1 .. Len(Values) /\ Values[k + 1] = v /\ Cardinality(Upto(Marks, offset) \cup {o}) = k + 1
        BY <1>3, <3>2, NextValue DEF k
      <4>. QED  BY <3>2, <4>1, <4>2
    <3>7. k < Len(Values) /\ Len(Values) \in Nat
      BY <1>3, <3>6, ValuesType
    <3>8. InOrder(k + 1, Append(pass, v), Values) /\ Len(pass) = k
      BY <1>3, <1>5, <3>1, <3>3, <3>6, <3>7, ValuesType, NextInOrderIs
    <3>9. Len(pass') = k + 1
      BY <2>1, <3>1, <3>4, <3>8
    <3>10. Cardinality(Upto(Marks, Place')) = k + 1
      BY <1>4, <2>1, <3>6
    <3>11. ~(Len(pass') > Cardinality(Upto(Marks, Place')))
      BY <3>6, <3>9, <3>10
    <3>12. InOrder(Cardinality(Upto(Marks, Place')), pass', Values)
      BY <2>1, <3>8, <3>10
    <3>13. Len(pass') = offset'
      BY <2>1, <3>4, <3>5
    <3>14. /\ file.repeat => positions # <<>>
           /\ positions # <<>> => positions[1].at = FirstRow(file)
      BY <1>1, <2>4 DEF IInv, InOrderInv
    <3>15. InOrderInv'
      BY <1>1, <1>2, <3>1, <3>11, <3>12, <3>13, <3>14 DEF InOrderInv
    <3>16. ListInv'
      BY <1>1, <2>4 DEF ListInv
    <3>17. pass' \in Seq(Given)
      BY <2>1, <3>4
    <3>. QED  BY <1>6, <1>7, <2>1, <2>2, <3>3, <3>5, <3>15, <3>16, <3>17 DEF IInv
  <2>. QED  BY <1>3, <2>3, <2>4
<1>. QED  BY <1>8, <1>9

LEMMA ListEndStep ==
  ASSUME IInv, ListEnd
  PROVE  IInv'
<1>1. /\ file.format = "list" /\ thread = "next" /\ offset = Len(buffer) /\ ~(file.random /\ file.repeat)
      /\ IF file.repeat /\ buffer # <<>> THEN offset' = 0 /\ pass' = <<>> /\ thread' = thread
         ELSE thread' = "done" /\ offset' = offset /\ pass' = pass
      /\ file' = file /\ buffer' = buffer /\ eof' = eof /\ position' = position /\ again' = again
      /\ positions' = positions /\ random' = random /\ value' = value /\ (UNCHANGED task)
  BY DEF ListEnd
<1>2. /\ Content' = Content /\ Good' = Good /\ Marks' = Marks /\ Boundaries' = Boundaries
      /\ ValueFrom' = ValueFrom /\ Values' = Values /\ Given' = Given /\ Cells' = Cells
      /\ (WellFormed' <=> WellFormed) /\ (Bytewise' <=> Bytewise)
  BY <1>1, SameFile
<1>3. /\ file \in Files /\ ~Bytewise /\ Place = offset /\ FirstRow(file) = 0
      /\ file.random \in BOOLEAN /\ file.repeat \in BOOLEAN
      /\ offset \in Nat /\ offset <= Len(Content) /\ Len(Content) \in Nat /\ DOMAIN Content = 1 .. Len(Content)
      /\ Marks = 1 .. Len(Content) /\ Len(buffer) = Len(Content) /\ DOMAIN buffer = DOMAIN Content
  BY <1>1, ListIs
<1>4. Place' = offset'
  BY <1>2, <1>3 DEF Place
<1>5. <<>> \in Seq(Given) /\ Len(<<>>) = 0
  BY EmptySeq
<1>6. thread' \in {"next", "done"} /\ offset' \in Nat /\ offset' <= Len(Content)
  BY <1>1, <1>3
<1>7. TypeInv'
  <2>1. pass' \in Seq(Given)
    BY <1>1, <1>5 DEF IInv, TypeInv
  <2>. QED  BY <1>1, <1>2, <1>6, <2>1 DEF IInv, TypeInv, Threads, task
<1>8. ErrorInv'
  BY <1>1, <1>6, TaskStays
<1>9. PlaceInv'
  BY <1>1, <1>2, <1>3, <1>6 DEF PlaceInv
<1>10. ThreadInv' /\ RandomInv'
  BY <1>1, <1>2, <1>6 DEF IInv, ThreadInv, RandomInv
<1>11. CASE file.random
  <2>1. thread' = "done" /\ offset' = offset /\ pass' = pass
    BY <1>1, <1>11
  <2>2. Mixed(Content, buffer) /\ Len(pass) = offset /\ \A i \in 1 .. offset : pass[i] = buffer[i]
    BY <1>1, <1>11 DEF IInv, ListInv
  <2>3. offset = Len(Content)
    BY <1>1, <1>3
  <2>4. ListInv'
    BY <1>1, <1>2, <1>11, <2>1, <2>2, <2>3 DEF ListInv
  <2>5. InOrderInv'
    BY <1>1, <1>11 DEF InOrderInv
  <2>. QED  BY <1>7, <1>8, <1>9, <1>10, <2>4, <2>5 DEF IInv
<1>12. CASE ~file.random
  <2>1. buffer = Content
    BY <1>1, <1>12 DEF IInv, InOrderInv
  <2>2. ListInv'
    BY <1>1, <1>12 DEF ListInv
  <2>3. /\ file.repeat => positions # <<>>
        /\ positions # <<>> => positions[1].at = FirstRow(file)
    BY <1>1, <1>12 DEF IInv, InOrderInv
  <2>4. InOrderInv'
    <3>1. CASE file.repeat /\ buffer # <<>>
      <4>1. offset' = 0 /\ pass' = <<>> /\ thread' = "next"
        BY <1>1, <3>1
      <4>2. Cardinality(Upto(Marks, Place')) = 0
        BY <1>3, <1>4, <4>1, FirstRowIs
      <4>3. InOrder(0, <<>>, Values)
        BY <1>5 DEF InOrder
      <4>. QED  BY <1>1, <1>2, <1>5, <2>1, <2>3, <4>1, <4>2, <4>3 DEF InOrderInv
    <3>2. CASE ~(file.repeat /\ buffer # <<>>)
      <4>1. offset' = offset /\ pass' = pass /\ thread' = "done" /\ Place' = Place
        BY <1>1, <1>3, <1>4, <3>2
      <4>2. file.repeat => Marks = {}
        <5>1. file.repeat => Len(Content) = 0
          BY <2>1, <3>2, EmptySeq
        <5>. QED  BY <1>3, <5>1
      <4>3. Cardinality(Upto(Marks, Place)) = Len(Values)
        <5>1. \A t \in Marks : t <= Place
          BY <1>1, <1>3, <2>1
        <5>. QED  BY <1>3, <5>1, UptoIs
      <4>. QED  BY <1>1, <1>2, <1>12, <2>1, <2>3, <4>1, <4>2, <4>3 DEF IInv, InOrderInv
    <3>. QED  BY <3>1, <3>2
  <2>. QED  BY <1>7, <1>8, <1>9, <1>10, <2>2, <2>4 DEF IInv
<1>. QED  BY <1>3, <1>11, <1>12

LEMMA NextInv ==
  ASSUME NumbersWhole, IInv, [Next]_vars
  PROVE  IInv'
<1>1. CASE UNCHANGED vars
  BY <1>1, StutterStep
<1>2. CASE Ended
  BY <1>2, StutterStep DEF Ended
<1>3. CASE Forward \/ ReceiversGone
  BY <1>3, ForwardStep, ReceiversGoneStep
<1>4. CASE GetValue \/ GetError \/ Refill \/ ReadNothing \/ Scanned \/ Return \/ End
  BY <1>4, GetValueStep, GetErrorStep, RefillStep, ReadNothingStep, ScannedStep, ReturnStep, EndStep
<1>5. CASE NextRandom \/ NextInOrder \/ NoMoreRandom
  BY <1>5, NextRandomStep, NextInOrderStep, NoMoreRandomStep
<1>6. CASE ScanRow \/ RowsScanned \/ NextRandomRow \/ NextRow \/ ReturnToRow \/ EndOfRows
  BY <1>6, ScanRowStep, RowsScannedStep, NextRandomRowStep, NextRowStep, ReturnToRowStep, EndOfRowsStep
<1>7. CASE ListNext \/ ListEnd \/ Send \/ SendRefused
  BY <1>7, ListNextStep, ListEndStep, SendStep, SendRefusedStep
<1>. QED  BY <1>1, <1>2, <1>3, <1>4, <1>5, <1>6, <1>7 DEF Next, Thread

-----------------------------------------------------------------------------
(***************************************************************************)
(* What the invariant says of the values.                                  *)
(***************************************************************************)
LEMMA GivenInOrder ==
  ASSUME NEW T, NEW ps \in Seq(T), NEW vs \in Seq(T), NEW n \in Nat, n <= Len(vs), InOrder(n, ps, vs)
  PROVE  IsPrefix(UpToError(ps), vs)
<1>1. Len(ps) \in Nat /\ DOMAIN ps = 1 .. Len(ps) /\ n <= Len(ps) /\ Len(vs) \in Nat
  BY LenProperties DEF InOrder
<1>. DEFINE errors == {j \in DOMAIN ps : ps[j] = Error}
            ends == {i - 1 : i \in errors} \cup {Len(ps)}
<1>2. ends \in SUBSET Nat
  <2>1. \A i \in errors : i - 1 \in Nat
    BY <1>1
  <2>. QED  BY <1>1, <2>1
<1>3. n \in ends
  <2>1. CASE Len(ps) > n
    <3>1. ps[n + 1] = Error /\ n + 1 \in DOMAIN ps
      BY <1>1, <2>1 DEF InOrder
    <3>2. n + 1 \in errors /\ n = (n + 1) - 1
      BY <3>1
    <3>. QED  BY <3>2
  <2>2. CASE Len(ps) = n
    BY <2>2
  <2>3. Len(ps) > n \/ Len(ps) = n
    <3>1. \A m \in Nat : n <= m => m > n \/ m = n
      OBVIOUS
    <3>. QED  BY <1>1, <3>1
  <2>. HIDE DEF ends
  <2>. QED  BY <2>1, <2>2, <2>3
<1>4. \A e \in ends : n <= e
  <2>1. ASSUME NEW i \in errors PROVE n <= i - 1
    <3>1. i \in Nat /\ 1 <= i /\ ps[i] = Error
      BY <1>1
    <3>2. ~(i <= n)
      BY <3>1 DEF InOrder
    <3>. QED  BY <3>1, <3>2
  <2>. QED  BY <1>1, <2>1
<1>5. UpToError(ps) = SubSeq(ps, 1, n)
  <2>1. UpToError(ps) = SubSeq(ps, 1, Least(ends))
    BY DEF UpToError
  <2>. HIDE DEF ends
  <2>2. Least(ends) = n
    BY <1>2, <1>3, <1>4, LeastUnique
  <2>. QED  BY <2>1, <2>2
<1>. DEFINE a == SubSeq(ps, 1, n)
<1>6. a \in Seq(T) /\ Len(a) = n /\ \A i \in 1 .. n : a[i] = ps[i]
  <2>1. /\ a \in Seq(T) /\ Len(a) = n - 1 + 1
        /\ \A i \in 1 .. n - 1 + 1 : a[i] = ps[1 + i - 1]
    BY <1>1, SubSeqOfInterval
  <2>. HIDE DEF a
  <2>2. n - 1 + 1 = n /\ \A i \in 1 .. n : 1 + i - 1 = i
    OBVIOUS
  <2>. QED  BY <2>1, <2>2
<1>. HIDE DEF a
<1>7. /\ SubSeq(a, 1, n) \in Seq(T) /\ Len(SubSeq(a, 1, n)) = n - 1 + 1
      /\ \A i \in 1 .. n - 1 + 1 : SubSeq(a, 1, n)[i] = a[1 + i - 1]
  BY <1>6, SubSeqOfInterval
<1>8. /\ SubSeq(vs, 1, n) \in Seq(T) /\ Len(SubSeq(vs, 1, n)) = n - 1 + 1
      /\ \A i \in 1 .. n - 1 + 1 : SubSeq(vs, 1, n)[i] = vs[1 + i - 1]
  BY <1>1, SubSeqOfInterval
<1>9. SubSeq(a, 1, n) = SubSeq(vs, 1, n)
  <2>1. n - 1 + 1 = n /\ \A i \in 1 .. n : 1 + i - 1 = i
    OBVIOUS
  <2>2. \A i \in 1 .. n : SubSeq(a, 1, n)[i] = SubSeq(vs, 1, n)[i]
    BY <1>6, <1>7, <1>8, <2>1 DEF InOrder
  <2>. QED  BY <1>7, <1>8, <2>1, <2>2, SeqEqual
<1>. QED  BY <1>5, <1>6, <1>9 DEF IsPrefix, a

\* Values of different marks are not more often the same than the values of the file are.
LEMMA DrawnCounts ==
  ASSUME file \in Files, NEW T, NEW ps \in Seq(T), Drawn(Marks, ValueFrom, ps), NEW v
  PROVE  Count(ps, v) <= Count(Values, v)
<1>1. PICK g \in [DOMAIN ps -> Marks] :
        (\A i, j \in DOMAIN ps : g[i] = g[j] => i = j) /\ \A i \in DOMAIN ps : ps[i] = ValueFrom[g[i]]
  BY DEF Drawn
<1>2. /\ Marks \in SUBSET Nat /\ IsFiniteSet(Marks) /\ Cardinality(Marks) \in Nat
      /\ DOMAIN Values = 1 .. Cardinality(Marks)
      /\ \A n \in 1 .. Cardinality(Marks) : Values[n] = ValueAt(Good, Nth(Marks, n))
  BY MarksAre
<1>. DEFINE rank(s) == Cardinality({t \in Marks : t < s}) + 1
            A == {i \in DOMAIN ps : ps[i] = v}
            B == {n \in DOMAIN Values : Values[n] = v}
            f == [i \in A |-> rank(g[i])]
<1>3. \A s \in Marks : rank(s) \in DOMAIN Values /\ Nth(Marks, rank(s)) = s /\ Values[rank(s)] = ValueFrom[s]
  <2>1. ASSUME NEW s \in Marks PROVE rank(s) \in 1 .. Cardinality(Marks) /\ Nth(Marks, rank(s)) = s
    BY <1>2, NthIs
  <2>. HIDE DEF rank
  <2>2. \A s \in Marks : ValueFrom[s] = ValueAt(Good, s)
    BY DEF ValueFrom
  <2>. QED  BY <1>2, <2>1, <2>2
<1>. HIDE DEF rank
<1>4. \A i \in A : g[i] \in Marks /\ f[i] = rank(g[i]) /\ f[i] \in B
  BY <1>1, <1>3
<1>5. f \in [A -> B]
  BY <1>4
<1>6. \A i, j \in A : f[i] = f[j] => i = j
  <2>. SUFFICES ASSUME NEW i \in A, NEW j \in A, f[i] = f[j] PROVE i = j
    OBVIOUS
  <2>1. Nth(Marks, rank(g[i])) = g[i] /\ Nth(Marks, rank(g[j])) = g[j]
    BY <1>3, <1>4
  <2>2. g[i] = g[j]
    BY <1>4, <2>1
  <2>. QED  BY <1>1, <2>2
<1>. HIDE DEF f
<1>7. f \in Injection(A, B)
  BY <1>5, <1>6 DEF Injection, IsInjective
<1>8. IsFiniteSet(B)
  <2>1. IsFiniteSet(1 .. Cardinality(Marks))
    BY <1>2, FS_Interval
  <2>2. B \in SUBSET (1 .. Cardinality(Marks))
    BY <1>2
  <2>. QED  BY <2>1, <2>2, FS_Subset
<1>. HIDE DEF A, B
<1>9. Cardinality(A) <= Cardinality(B)
  BY <1>7, <1>8, FS_Injection
<1>. QED  BY <1>9 DEF A, B, Count

\* If no mark is left, there is a value for each.
LEMMA DealtCounts ==
  ASSUME file \in Files, NEW T, NEW ps \in Seq(T), Dealt(Marks, ValueFrom, ps, {})
  PROVE  Len(ps) = Len(Values)
<1>1. PICK g \in [DOMAIN ps -> Marks] :
        (\A i, j \in DOMAIN ps : g[i] = g[j] => i = j) /\ \A m \in Marks : \E i \in DOMAIN ps : g[i] = m
  BY DEF Dealt
<1>2. IsFiniteSet(Marks) /\ Len(Values) = Cardinality(Marks)
  BY MarksAre
<1>3. g \in Injection(DOMAIN ps, Marks) /\ g \in Surjection(DOMAIN ps, Marks)
  BY <1>1 DEF Injection, IsInjective, Surjection
<1>4. Cardinality(DOMAIN ps) = Cardinality(Marks)
  BY <1>2, <1>3, FS_Injection
<1>. QED  BY <1>2, <1>4, DomainOfSeq

LEMMA MixedIsDrawn ==
  ASSUME IInv, file.format = "list", file.random, ~file.repeat
  PROVE  Drawn(Marks, ValueFrom, pass) /\ Len(pass) = offset
<1>1. /\ DOMAIN Content = 1 .. Len(Content) /\ Marks = 1 .. Len(Content) /\ offset <= Len(Content)
      /\ offset \in Nat /\ Len(Content) \in Nat
      /\ \A i \in 1 .. Len(Content) : ValueFrom[i] = Content[i]
  BY ListIs
<1>2. Mixed(Content, buffer) /\ Len(pass) = offset /\ \A i \in 1 .. offset : pass[i] = buffer[i]
  BY DEF IInv, ListInv
<1>3. DOMAIN pass = 1 .. offset
  <2>1. pass \in Seq(Given)
    BY DEF IInv, TypeInv
  <2>. QED  BY <1>2, <2>1, LenProperties
<1>4. PICK g \in [DOMAIN Content -> DOMAIN Content] :
        (\A i, j \in DOMAIN Content : g[i] = g[j] => i = j) /\ buffer = [i \in DOMAIN Content |-> Content[g[i]]]
  BY <1>2 DEF Mixed
<1>. DEFINE h == [i \in DOMAIN pass |-> g[i]]
<1>5. \A i \in DOMAIN pass : i \in DOMAIN Content
  BY <1>1, <1>3
<1>6. h \in [DOMAIN pass -> Marks] /\ \A i, j \in DOMAIN pass : h[i] = h[j] => i = j
  BY <1>1, <1>4, <1>5
<1>7. \A i \in DOMAIN pass : pass[i] = ValueFrom[h[i]]
  BY <1>1, <1>2, <1>3, <1>4, <1>5
<1>. HIDE DEF h
<1>. QED  BY <1>2, <1>6, <1>7 DEF Drawn

LEMMA InOrderAsWritten ==
  ASSUME NumbersWhole, IInv, ~file.random
  PROVE  /\ IsPrefix(UpToError(pass), Values)
         /\ AtLast /\ WellFormed => pass = Values
<1>1. file \in Files /\ pass \in Seq(Given)
  BY DEF IInv, TypeInv
<1>2. Len(Values) \in Nat /\ Values \in Seq({Values[i] : i \in DOMAIN Values})
  BY <1>1, ValuesType
<1>. DEFINE T == Given \cup {Values[i] : i \in DOMAIN Values}
<1>3. pass \in Seq(T) /\ Values \in Seq(T)
  BY <1>1, <1>2, SeqMonotonic
<1>. HIDE DEF T
<1>4. CASE thread = "scanning"
  <2>1. pass = <<>>
    BY <1>4 DEF IInv, ThreadInv
  <2>2. InOrder(0, <<>>, Values) /\ 0 <= Len(Values)
    BY <1>2 DEF InOrder
  <2>3. IsPrefix(UpToError(pass), Values)
    BY <1>3, <2>1, <2>2, GivenInOrder
  <2>. QED  BY <1>4, <2>3 DEF AtLast
<1>5. CASE thread # "scanning"
  <2>. DEFINE n == Cardinality(Upto(Marks, Place))
  <2>1. InOrder(n, pass, Values) /\ (Len(pass) > n => ~WellFormed)
    BY <1>5 DEF IInv, InOrderInv
  <2>2. Place \in Nat
    <3>1. Bytewise => Place \in Nat
      BY BytesIs
    <3>2. ~Bytewise => Place \in Nat
      BY DEF Place, IInv, TypeInv
    <3>. QED  BY <3>1, <3>2
  <2>3. n \in Nat /\ n <= Len(Values)
    BY <1>1, <2>2, UptoIs
  <2>4. AtLast => n = Len(Values)
    <3>. SUFFICES ASSUME AtLast PROVE n = Len(Values)
      OBVIOUS
    <3>1. \A t \in Marks : t <= Place
      <4>1. CASE AtTheEnd
        <5>1. Bytewise
          BY <4>1 DEF AtTheEnd, Searching
        <5>. QED  BY <4>1, <5>1, BytesFound DEF IInv
      <4>2. CASE file.format = "csv" /\ ~RowsLeft
        <5>1. /\ Place = offset /\ offset \in Nat /\ Len(Content) \in Nat /\ FirstRow(file) \in {0, 1}
              /\ Len(Good) \in Nat /\ Len(Good) <= Len(Content)
          BY <4>2, RowsAre
        <5>2. offset >= Len(Content)
          BY <4>2, <5>1 DEF RowsLeft, Content
        <5>3. Marks = FirstRow(file) + 1 .. Len(Good)
          BY <1>1, <4>2, RowMarks
        <5>. QED  BY <5>1, <5>2, <5>3
      <4>3. CASE file.format = "list" /\ offset = Len(buffer)
        <5>1. Place = offset /\ Marks = 1 .. Len(Content) /\ Len(buffer) = Len(Content) /\ Len(Content) \in Nat
          BY <4>3, ListIs
        <5>. QED  BY <4>3, <5>1
      <4>. QED  BY <4>1, <4>2, <4>3 DEF AtLast
    <3>. QED  BY <1>1, <2>2, <3>1, UptoIs
  <2>. HIDE DEF n
  <2>5. IsPrefix(UpToError(pass), Values)
    BY <1>3, <2>1, <2>3, GivenInOrder
  <2>6. ASSUME AtLast, WellFormed PROVE pass = Values
    <3>1. Len(pass) \in Nat /\ Len(pass) >= n
      BY <1>1, <2>1, LenProperties DEF InOrder
    <3>2. Len(pass) = Len(Values) /\ n = Len(Values)
      BY <2>1, <2>3, <2>4, <2>6, <3>1
    <3>3. \A i \in 1 .. Len(pass) : pass[i] = Values[i]
      BY <2>1, <3>2 DEF InOrder
    <3>. QED  BY <1>3, <3>2, <3>3, SeqEqual
  <2>. QED  BY <2>5, <2>6
<1>. QED  BY <1>4, <1>5

LEMMA AnyOrderAsWritten ==
  ASSUME IInv, file.random
  PROVE  \A v \in Range(pass) : Count(pass, v) <= Count(Values, v)
<1>1. file \in Files /\ pass \in Seq(Given) /\ file.repeat \in BOOLEAN
  BY ContentType DEF IInv, TypeInv
<1>2. Drawn(Marks, ValueFrom, pass)
  <2>1. CASE thread \in {"scanning", "failed"}
    BY <2>1, DealtNone DEF IInv, ThreadInv
  <2>2. CASE file.format # "list" /\ thread \notin {"scanning", "failed"}
    <3>1. ScannedInv
      BY <2>2 DEF IInv, RandomInv
    <3>2. CASE file.repeat
      BY <3>1, <3>2 DEF ScannedInv
    <3>3. CASE ~file.repeat
      <4>1. Dealt(Marks, ValueFrom, pass, Left \cup Hand)
        BY <3>1, <3>3 DEF ScannedInv
      <4>. QED  BY <4>1, DealtIsDrawn
    <3>. QED  BY <3>2, <3>3
  <2>3. CASE file.format = "list"
    <3>1. CASE file.repeat
      BY <2>3, <3>1 DEF IInv, ListInv
    <3>2. CASE ~file.repeat
      BY <2>3, <3>2, MixedIsDrawn
    <3>. QED  BY <3>1, <3>2
  <2>. QED  BY <2>1, <2>2, <2>3
<1>. QED  BY <1>1, <1>2, DrawnCounts

LEMMA DoneAsWritten ==
  ASSUME IInv, thread = "done", WellFormed
  PROVE  IF file.repeat THEN Values = <<>> ELSE Len(pass) = Len(Values)
<1>1. file \in Files /\ pass \in Seq(Given) /\ file.repeat \in BOOLEAN /\ file.random \in BOOLEAN
  BY ContentType DEF IInv, TypeInv
<1>2. Marks = {} => Values = <<>>
  <2>1. Marks = {} => Cardinality(Marks) = 0
    BY FS_EmptySet
  <2>2. Values \in Seq({Values[i] : i \in DOMAIN Values}) /\ Len(Values) = Cardinality(Marks)
    BY <1>1, ValuesType, MarksAre
  <2>. QED  BY <2>1, <2>2, EmptySeq
<1>3. CASE ~file.random
  <2>. DEFINE n == Cardinality(Upto(Marks, Place))
  <2>1. /\ InOrder(n, pass, Values) /\ ~(Len(pass) > n)
        /\ IF file.repeat THEN Marks = {} ELSE n = Len(Values)
    BY <1>3 DEF IInv, InOrderInv
  <2>. HIDE DEF n
  <2>2. n = Len(Values) => Len(pass) = Len(Values)
    BY <1>1, <2>1, ValuesType, LenProperties DEF InOrder
  <2>. QED  BY <1>2, <2>1, <2>2
<1>4. CASE file.random /\ file.format # "list"
  <2>1. ScannedInv
    BY <1>4 DEF IInv, RandomInv
  <2>2. CASE file.repeat
    BY <1>2, <2>1, <2>2 DEF ScannedInv
  <2>3. CASE ~file.repeat
    <3>1. Left \cup Hand = {} /\ Dealt(Marks, ValueFrom, pass, Left \cup Hand)
      BY <2>1, <2>3 DEF ScannedInv
    <3>2. Dealt(Marks, ValueFrom, pass, {})
      BY <3>1
    <3>. QED  BY <1>1, <2>3, <3>2, DealtCounts
  <2>. QED  BY <2>2, <2>3
<1>5. CASE file.random /\ file.format = "list"
  <2>1. ~file.repeat /\ offset = Len(Content)
    BY <1>5 DEF IInv, ListInv
  <2>2. Len(pass) = offset
    BY <1>5, <2>1, MixedIsDrawn
  <2>3. Len(Values) = Cardinality(Marks) /\ Marks = DOMAIN Content /\ Content \in Seq(Cells)
    BY <1>1, <1>5, MarksAre, ListIs, ContentType
  <2>4. Cardinality(DOMAIN Content) = Len(Content)
    BY <2>3, DomainOfSeq
  <2>. QED  BY <2>1, <2>2, <2>3, <2>4
<1>. QED  BY <1>1, <1>3, <1>4, <1>5

\* Whatever the reads give and whatever place a random provider seeks, the values of a provider are
\* those of its file or list: none is lost, given twice or cut where a read ends.  Only a JSON number
\* may be cut there, with digits on both sides: as long as no read ends inside a number none is.
THEOREM GivesWhatIsWritten == Spec /\ []NumbersWhole => []ValuesAsWritten
<1>1. IInv /\ NumbersWhole /\ [Next]_vars => IInv'
  BY NextInv
<1>2. IInv /\ NumbersWhole => ValuesAsWritten
  <2>. SUFFICES ASSUME IInv, NumbersWhole PROVE ValuesAsWritten
    OBVIOUS
  <2>1. thread = "failed" \/ killed => ~WellFormed
    BY DEF IInv, ErrorInv
  <2>. QED  BY <2>1, InOrderAsWritten, AnyOrderAsWritten, DoneAsWritten DEF ValuesAsWritten
<1>. QED  BY <1>1, <1>2, InitInv, PTL DEF Spec

\* However the reads fall, none ends inside a number of one digit.
COROLLARY GivesOneDigitNumbers ==
  ASSUME \A f \in Files : f.format = "json" =>
           \A i \in 1 .. Len(f.bytes) - 1 : f.bytes[i] \in Apart \/ f.bytes[i + 1] \in Apart
  PROVE  Spec => []ValuesAsWritten
<1>1. file \in Files => NumbersWhole
  BY DEF NumbersWhole, Cut, Content
<1>2. Init => file \in Files
  BY DEF Init
<1>3. IInv => file \in Files
  BY DEF IInv, TypeInv
<1>4. IInv /\ [Next]_vars => IInv'
  BY <1>1, <1>3, NextInv
<1>. QED  BY <1>1, <1>3, <1>4, InitInv, GivesWhatIsWritten, PTL DEF Spec
===============================================================================
