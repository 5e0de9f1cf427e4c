--------------------------- MODULE LoadPatternProofs ---------------------------
(* What holds of LoadPattern for every load pattern, however late it is     *)
(* polled: no load that nobody asked for, and no panic outside a pause.     *)
EXTENDS LoadPattern, NaturalsInduction, WellFoundedInduction, SequenceTheorems, FiniteSetTheorems, TLAPS

-----------------------------------------------------------------------------
(***************************************************************************)
(* Numbers: the least of a set, the root of a square, sums.                *)
(***************************************************************************)
LEMMA LeastOf ==
  ASSUME NEW S \in SUBSET Nat, S # {}
  PROVE  \E i \in S : \A j \in S : i <= j
<1>1. IsWellFoundedOn({ss \in Nat \X Nat : ss[1] < ss[2]}, Nat)
  BY NatLessThanWellFounded DEF OpToRel
<1>2. PICK i \in S : \A j \in S : ~(<<j, i>> \in {ss \in Nat \X Nat : ss[1] < ss[2]})
  BY <1>1, WFMin
<1>3. ASSUME NEW j \in S PROVE i <= j
  <2>1. j \in Nat /\ i \in Nat
    OBVIOUS
  <2>2. j < i => <<j, i>> \in {ss \in Nat \X Nat : ss[1] < ss[2]}
    BY <2>1
  <2>. QED  BY <1>2, <2>1, <2>2
<1>. QED  BY <1>3

\* A statement that holds of 0, and of each number up to m if of the one before, holds of all up to m.
LEMMA UpTo ==
  ASSUME NEW m \in Nat, NEW T \in SUBSET (0 .. m), 0 \in T,
         \A i \in 1 .. m : i - 1 \in T => i \in T
  PROVE  T = 0 .. m
<1>. DEFINE S == (0 .. m) \ T
<1>1. SUFFICES ASSUME S # {} PROVE FALSE
  OBVIOUS
<1>2. S \in SUBSET Nat
  OBVIOUS
<1>3. PICK i \in S : \A j \in S : i <= j
  BY <1>1, <1>2, LeastOf
<1>4. i \in 1 .. m
  BY <1>3
<1>5. i - 1 \in 0 .. m /\ ~(i <= i - 1)
  BY <1>4
<1>6. i - 1 \in T
  BY <1>3, <1>5
<1>. QED  BY <1>3, <1>4, <1>6

LEMMA RootExists ==
  ASSUME NEW q \in Nat
  PROVE  \E w \in 0 .. q : w * w <= q /\ q < (w + 1) * (w + 1)
<1>. DEFINE S == {v \in Nat : q < (v + 1) * (v + 1)}
<1>1. q \in S
  <2>1. q < (q + 1) * (q + 1)
    OBVIOUS
  <2>. QED  BY <2>1
<1>2. PICK w \in S : \A v \in S : w <= v
  BY <1>1, LeastOf
<1>3. w \in 0 .. q
  BY <1>1, <1>2
<1>4. CASE w = 0
  BY <1>2, <1>3, <1>4
<1>5. CASE w # 0
  <2>1. w - 1 \in Nat /\ ~(w <= w - 1) /\ (w - 1) + 1 = w
    BY <1>3, <1>5
  <2>2. ~(q < ((w - 1) + 1) * ((w - 1) + 1))
    BY <1>2, <2>1
  <2>3. w * w <= q
    BY <1>3, <2>1, <2>2
  <2>. QED  BY <1>2, <1>3, <2>3
<1>. QED  BY <1>4, <1>5

\* Sums meets its equation.
LEMMA SumsDef ==
  ASSUME NEW a \in Seq(Int)
  PROVE  /\ Sums(a) \in [0 .. Len(a) -> Int]
         /\ Sums(a)[0] = 0
         /\ \A i \in 1 .. Len(a) : Sums(a)[i] = Sums(a)[i - 1] + a[i]
<1>. DEFINE m == Len(a)
            Is(g, k) == g[0] = 0 /\ \A i \in 1 .. k : g[i] = g[i - 1] + a[i]
            T == {k \in 0 .. m : \E g \in [0 .. k -> Int] : Is(g, k)}
            R(g) == [n \in 0 .. m |-> IF n = 0 THEN 0 ELSE g[n - 1] + a[n]]
<1>1. m \in Nat /\ \A i \in 1 .. m : a[i] \in Int
  BY LenProperties, ElementOfSeq
<1>2. 0 \in T
  <2>1. [n \in 0 .. 0 |-> 0] \in [0 .. 0 -> Int] /\ Is([n \in 0 .. 0 |-> 0], 0)
    OBVIOUS
  <2>2. 0 \in 0 .. m
    BY <1>1
  <2>. QED  BY <2>1, <2>2
<1>3. ASSUME NEW i \in 1 .. m, i - 1 \in T PROVE i \in T
  <2>1. PICK g \in [0 .. i - 1 -> Int] : Is(g, i - 1)
    BY <1>3
  <2>. DEFINE h == [n \in 0 .. i |-> IF n = i THEN g[i - 1] + a[i] ELSE g[n]]
  <2>2. i \in Nat /\ i - 1 \in 0 .. i - 1 /\ a[i] \in Int /\ g[i - 1] \in Int
    BY <1>1, <2>1
  <2>3. h \in [0 .. i -> Int]
    <3>1. ASSUME NEW n \in 0 .. i, n # i PROVE n \in 0 .. i - 1
      BY <2>2, <3>1
    <3>. QED  BY <2>1, <2>2, <3>1
  <2>4. h[0] = 0
    BY <2>1, <2>2
  <2>5. ASSUME NEW n \in 1 .. i PROVE h[n] = h[n - 1] + a[n]
    <3>1. n - 1 \in 0 .. i /\ n \in 0 .. i /\ n - 1 # i
      BY <2>2
    <3>2. CASE n = i
      BY <3>1, <3>2
    <3>3. CASE n # i
      <4>1. n \in 1 .. i - 1
        BY <2>2, <3>3
      <4>. QED  BY <2>1, <3>1, <3>3, <4>1
    <3>. QED  BY <3>2, <3>3
  <2>. HIDE DEF h
  <2>6. Is(h, i)
    BY <2>4, <2>5
  <2>7. i \in 0 .. m
    BY <1>1
  <2>. QED  BY <2>3, <2>6, <2>7
<1>4. T = 0 .. m
  <2>. HIDE DEF T
  <2>1. T \in SUBSET (0 .. m)
    BY DEF T
  <2>. QED  BY <1>1, <1>2, <1>3, <2>1, UpTo
<1>5. PICK g \in [0 .. m -> Int] : Is(g, m)
  <2>1. m \in 0 .. m
    BY <1>1
  <2>2. m \in T
    BY ONLY <1>4, <2>1
  <2>. QED  BY <2>2
<1>6. g = R(g)
  <2>1. ASSUME NEW n \in 0 .. m PROVE g[n] = R(g)[n]
    <3>1. n = 0 \/ n \in 1 .. m
      BY <1>1
    <3>. QED  BY <1>5, <3>1
  <2>. QED  BY <1>5, <2>1
<1>7. Sums(a) = CHOOSE f : f = R(f)
  BY DEF Sums
<1>8. Sums(a) = R(Sums(a))
  <2>1. \E f : f = R(f)
    BY <1>6
  <2>2. (CHOOSE f : f = R(f)) = R(CHOOSE f : f = R(f))
    <3>. HIDE DEF R
    <3>. QED  BY ONLY <2>1, Zenon
  <2>. QED  BY ONLY <1>7, <2>2
<1>. DEFINE f == Sums(a)
<1>9. f[0] = 0 /\ \A i \in 1 .. m : f[i] = f[i - 1] + a[i]
  <2>. HIDE DEF f
  <2>1. f = R(f)
    BY <1>8 DEF f
  <2>2. ASSUME NEW i \in 1 .. m PROVE f[i] = f[i - 1] + a[i]
    <3>1. i \in 0 .. m /\ i # 0
      BY <1>1
    <3>2. R(f)[i] = f[i - 1] + a[i]
      BY <3>1
    <3>. QED  BY <2>1, <3>2
  <2>3. R(f)[0] = 0
    BY <1>1
  <2>. QED  BY <2>1, <2>2, <2>3
<1>. HIDE DEF f
<1>10. \A n \in 0 .. m : f[n] \in Int
  <2>. DEFINE U == {n \in 0 .. m : f[n] \in Int}
  <2>1. 0 \in U
    BY <1>1, <1>9
  <2>2. ASSUME NEW i \in 1 .. m, i - 1 \in U PROVE i \in U
    <3>1. f[i] \in Int
      BY <1>1, <1>9, <2>2
    <3>. QED  BY <1>1, <3>1
  <2>3. U \in SUBSET (0 .. m)
    OBVIOUS
  <2>. HIDE DEF U
  <2>4. U = 0 .. m
    BY <1>1, <2>1, <2>2, <2>3, UpTo
  <2>. QED  BY <2>4 DEF U
<1>11. f \in [0 .. m -> Int]
  <2>1. f = R(f)
    BY <1>8 DEF f
  <2>2. DOMAIN R(f) = 0 .. m /\ R(f) = [n \in 0 .. m |-> R(f)[n]]
    OBVIOUS
  <2>. HIDE DEF R
  <2>. QED  BY <1>10, <2>1, <2>2
<1>. QED  BY <1>9, <1>11 DEF f

\* A sum grows with what it is a sum of.
LEMMA SumsGrow ==
  ASSUME NEW a \in Seq(Int), NEW b \in Seq(Int), Len(a) = Len(b),
         \A i \in 1 .. Len(a) : a[i] <= b[i]
  PROVE  \A n \in 0 .. Len(a) : Sums(a)[n] <= Sums(b)[n]
<1>. DEFINE m == Len(a)
            f == Sums(a)
            g == Sums(b)
            U == {n \in 0 .. m : f[n] <= g[n]}
<1>1. m \in Nat /\ \A i \in 1 .. m : a[i] \in Int /\ b[i] \in Int
  BY LenProperties, ElementOfSeq
<1>2. /\ f \in [0 .. m -> Int] /\ f[0] = 0 /\ \A i \in 1 .. m : f[i] = f[i - 1] + a[i]
      /\ g \in [0 .. m -> Int] /\ g[0] = 0 /\ \A i \in 1 .. m : g[i] = g[i - 1] + b[i]
  BY SumsDef
<1>. HIDE DEF f, g, m
<1>3. 0 \in U
  BY <1>1, <1>2
<1>4. ASSUME NEW i \in 1 .. m, i - 1 \in U PROVE i \in U
  <2>1. i \in 0 .. m /\ i - 1 \in 0 .. m /\ f[i - 1] \in Int /\ g[i - 1] \in Int /\ f[i - 1] <= g[i - 1]
    BY <1>1, <1>2, <1>4
  <2>2. a[i] \in Int /\ b[i] \in Int /\ a[i] <= b[i]
    BY <1>1 DEF m
  <2>3. f[i - 1] + a[i] <= g[i - 1] + b[i]
    BY <2>1, <2>2
  <2>. QED  BY <1>2, <2>1, <2>3
<1>5. U \in SUBSET (0 .. m)
  OBVIOUS
<1>6. U = 0 .. m
  <2>. HIDE DEF U
  <2>. QED  BY <1>1, <1>3, <1>4, <1>5, UpTo
<1>. QED  BY <1>6 DEF f, g, m

\* And by as much as one of its members grows.
LEMMA SumsGrowBy ==
  ASSUME NEW a \in Seq(Int), NEW b \in Seq(Int), Len(a) = Len(b),
         \A i \in 1 .. Len(a) : a[i] <= b[i],
         NEW c \in 1 .. Len(a), NEW d \in Int, a[c] + d <= b[c]
  PROVE  Sums(a)[Len(a)] + d <= Sums(b)[Len(a)]
<1>. DEFINE m == Len(a)
            f == Sums(a)
            g == Sums(b)
            U == {n \in 0 .. m : c <= n => f[n] + d <= g[n]}
<1>1. m \in Nat /\ c \in 1 .. m /\ \A i \in 1 .. m : a[i] \in Int /\ b[i] \in Int
  BY LenProperties, ElementOfSeq
<1>2. /\ f \in [0 .. m -> Int] /\ f[0] = 0 /\ \A i \in 1 .. m : f[i] = f[i - 1] + a[i]
      /\ g \in [0 .. m -> Int] /\ g[0] = 0 /\ \A i \in 1 .. m : g[i] = g[i - 1] + b[i]
  BY SumsDef
<1>3. \A n \in 0 .. m : f[n] <= g[n]
  BY SumsGrow
<1>4. \A i \in 1 .. m : a[i] <= b[i]
  OBVIOUS
<1>. HIDE DEF f, g, m
<1>5. 0 \in U
  BY <1>1
<1>6. ASSUME NEW i \in 1 .. m, i - 1 \in U PROVE i \in U
  <2>1. i \in 0 .. m /\ i - 1 \in 0 .. m /\ c \in Nat
    BY <1>1
  <2>2. f[i - 1] \in Int /\ g[i - 1] \in Int /\ f[i - 1] <= g[i - 1]
    BY <1>2, <1>3, <2>1
  <2>3. c <= i - 1 => f[i - 1] + d <= g[i - 1]
    BY <1>6
  <2>4. a[i] \in Int /\ b[i] \in Int /\ a[i] <= b[i] /\ f[i] = f[i - 1] + a[i] /\ g[i] = g[i - 1] + b[i]
    BY <1>1, <1>2, <1>4
  <2>. DEFINE x == f[i - 1]
              y == g[i - 1]
              v == a[i]
              w == b[i]
  <2>5. c <= i => x + v + d <= y + w
    <3>1. CASE i = c
      <4>1. v + d <= w
        BY <3>1
      <4>. HIDE DEF x, y, v, w
      <4>2. x \in Int /\ y \in Int /\ v \in Int /\ w \in Int /\ x <= y
        BY <2>2, <2>4 DEF x, y, v, w
      <4>. QED  BY <4>1, <4>2
    <3>2. CASE i # c
      <4>1. c <= i => c <= i - 1
        BY <2>1, <3>2
      <4>. HIDE DEF x, y, v, w
      <4>2. /\ x \in Int /\ y \in Int /\ v \in Int /\ w \in Int /\ v <= w
            /\ c <= i => x + d <= y
        BY <2>2, <2>3, <2>4, <4>1 DEF x, y, v, w
      <4>. QED  BY <4>2
    <3>. QED  BY <3>1, <3>2
  <2>. QED  BY <2>1, <2>4, <2>5
<1>7. U \in SUBSET (0 .. m)
  OBVIOUS
<1>8. U = 0 .. m
  <2>. HIDE DEF U
  <2>. QED  BY <1>1, <1>5, <1>6, <1>7, UpTo
<1>9. m \in U /\ c <= m
  BY <1>1, <1>8
<1>. QED  BY <1>9 DEF f, g, m

LEMMA ProductsGrow ==
  ASSUME NEW a \in Nat, NEW b \in Nat, NEW c \in Nat, NEW d \in Nat, a <= b, c <= d
  PROVE  a * c <= b * d
<1>1. PICK e \in Nat : b = a + e
  <2>1. b - a \in Nat
    OBVIOUS
  <2>. QED  BY <2>1
<1>2. PICK f \in Nat : d = c + f
  <2>1. d - c \in Nat
    OBVIOUS
  <2>. QED  BY <2>1
<1>3. b * d = a * c + a * f + e * c + e * f
  BY <1>1, <1>2
<1>4. a * c \in Nat /\ a * f \in Nat /\ e * c \in Nat /\ e * f \in Nat
  BY <1>1, <1>2
<1>. QED  BY <1>3, <1>4

LEMMA FactorsCompare ==
  ASSUME NEW b \in Nat \ {0}, NEW j \in Int, NEW k \in Int, b * j < b * k
  PROVE  j < k
<1>. SUFFICES ASSUME k <= j PROVE FALSE
  OBVIOUS
<1>1. PICK e \in Nat : j = k + e
  <2>1. j - k \in Nat
    OBVIOUS
  <2>. QED  BY <2>1
<1>2. b * j = b * k + b * e /\ b * e >= 0
  BY <1>1
<1>. QED  BY <1>2

LEMMA QuotientIs ==
  ASSUME NEW n \in Int, NEW b \in Nat \ {0}
  PROVE  /\ n \div b \in Int
         /\ b * (n \div b) <= n /\ n < b * (n \div b) + b
         /\ n >= 0 => n \div b >= 0
<1>. DEFINE q == n \div b
            r == n % b
<1>1. q \in Int /\ r \in 0 .. b - 1
  OBVIOUS
<1>2. n = b * q + r
  OBVIOUS
<1>. HIDE DEF q, r
<1>3. b * q <= n /\ n < b * q + b
  BY <1>1, <1>2
<1>4. n >= 0 => q >= 0
  <2>1. SUFFICES ASSUME n >= 0 PROVE -1 < q
    BY <1>1
  <2>2. b * (-1) < b * q
    BY <1>1, <1>3, <2>1
  <2>. QED  BY <1>1, <2>2, FactorsCompare
<1>. QED  BY <1>1, <1>3, <1>4 DEF q

LEMMA QuotientsGrow ==
  ASSUME NEW n \in Int, NEW m \in Int, n <= m, NEW b \in Nat \ {0}
  PROVE  n \div b <= m \div b
<1>. DEFINE q == n \div b
            p == m \div b
<1>1. q \in Int /\ p \in Int /\ b * q <= n /\ m < b * p + b
  BY QuotientIs
<1>. HIDE DEF p, q
<1>2. b * q < b * (p + 1)
  BY <1>1
<1>3. q < p + 1
  BY <1>1, <1>2, FactorsCompare
<1>. QED  BY <1>1, <1>3 DEF p, q

-----------------------------------------------------------------------------
(***************************************************************************)
(* The hits of a segment.                                                  *)
(***************************************************************************)
SegmentType == [start : Nat, end : Nat, duration : Nat]

\* The hits in the first y ticks of a line that does not fall.
Line(s, y) == 2 * s.start * y + ((s.end - s.start) * y * y) \div s.duration

LEMMA LineGrows ==
  ASSUME NEW s \in SegmentType, s.start <= s.end, s.duration # 0,
         NEW y \in Nat, NEW z \in Nat, y <= z
  PROVE  Line(s, y) \in Nat /\ Line(s, y) <= Line(s, z) /\ Line(s, 0) = 0
<1>. DEFINE a == s.start
            b == s.duration
            d == s.end - s.start
<1>1. a \in Nat /\ b \in Nat \ {0} /\ d \in Nat
  BY DEF SegmentType
<1>2. d * y * y \in Nat /\ d * z * z \in Nat /\ d * y * y <= d * z * z
  <2>. HIDE DEF d
  <2>1. y * y \in Nat /\ z * z \in Nat /\ y * y <= z * z
    BY ProductsGrow
  <2>2. d * (y * y) <= d * (z * z)
    BY <1>1, <2>1, ProductsGrow
  <2>. QED  BY <1>1, <2>1, <2>2
<1>3. 2 * a * y \in Nat /\ 2 * a * y <= 2 * a * z
  <2>. HIDE DEF a
  <2>1. (2 * a) * y <= (2 * a) * z
    BY <1>1, ProductsGrow
  <2>. QED  BY <1>1, <2>1
<1>4. /\ (d * y * y) \div b \in Int /\ (d * z * z) \div b \in Int /\ (d * y * y) \div b >= 0
      /\ (d * y * y) \div b <= (d * z * z) \div b
  <2>. HIDE DEF b, d
  <2>. QED  BY <1>1, <1>2, QuotientIs, QuotientsGrow
<1>5. (d * 0 * 0) \div b = 0 /\ 2 * a * 0 = 0
  <2>. HIDE DEF a, b, d
  <2>. DEFINE q == 0 \div b
  <2>1. q \in Int /\ b * q <= 0 /\ q >= 0
    BY <1>1, QuotientIs
  <2>. HIDE DEF q
  <2>2. q = 0
    <3>1. b * q < b * 1
      BY <1>1, <2>1
    <3>. QED  BY <1>1, <2>1, <3>1, FactorsCompare
  <2>3. d * 0 * 0 = 0 /\ 2 * a * 0 = 0
    BY <1>1
  <2>. QED  BY <2>2, <2>3 DEF q
<1>. DEFINE L(v) == 2 * a * v + (d * v * v) \div b
<1>6. L(y) \in Nat /\ L(y) <= L(z) /\ L(0) = 0
  <2>. HIDE DEF a, b, d
  <2>1. z \in Nat /\ 2 * a * z \in Nat
    BY <1>1
  <2>. QED  BY <1>3, <1>4, <1>5, <2>1
<1>. QED  BY <1>6 DEF Line

\* The hits of a segment never go back.
LEMMA HitsInGrow ==
  ASSUME NEW s \in SegmentType, s.start <= s.end, NEW x \in Int, NEW z \in Int, x <= z
  PROVE  HitsIn(s, x) \in Nat /\ HitsIn(s, x) <= HitsIn(s, z)
<1>. DEFINE upto(v) == IF v < s.duration THEN v ELSE s.duration
<1>1. s.duration \in Nat
  BY DEF SegmentType
<1>2. ASSUME NEW v \in Int, ~(v <= 0), s.duration # 0
      PROVE  upto(v) \in Nat /\ HitsIn(s, v) = Line(s, upto(v))
  BY <1>1, <1>2 DEF HitsIn, Line
<1>3. ASSUME NEW v \in Int, v <= 0 \/ s.duration = 0
      PROVE  HitsIn(s, v) = 0
  BY <1>3 DEF HitsIn
<1>4. ASSUME NEW v \in Int PROVE HitsIn(s, v) \in Nat
  <2>1. CASE v <= 0 \/ s.duration = 0
    BY <1>3, <2>1
  <2>2. CASE ~(v <= 0) /\ s.duration # 0
    <3>1. upto(v) \in Nat /\ HitsIn(s, v) = Line(s, upto(v))
      BY <1>2, <2>2
    <3>. HIDE DEF upto
    <3>2. Line(s, upto(v)) \in Nat
      BY <2>2, <3>1, LineGrows
    <3>. QED  BY <3>1, <3>2
  <2>. QED  BY <2>1, <2>2
<1>5. CASE x <= 0 \/ s.duration = 0
  <2>1. HitsIn(s, x) = 0 /\ HitsIn(s, z) \in Nat
    BY <1>3, <1>4, <1>5
  <2>. QED  BY <2>1
<1>6. CASE ~(x <= 0) /\ s.duration # 0
  <2>1. ~(z <= 0)
    BY <1>6
  <2>2. /\ upto(x) \in Nat /\ upto(z) \in Nat
        /\ HitsIn(s, x) = Line(s, upto(x)) /\ HitsIn(s, z) = Line(s, upto(z))
    BY <1>2, <1>6, <2>1
  <2>3. upto(x) <= upto(z)
    BY <1>1
  <2>. HIDE DEF upto
  <2>4. Line(s, upto(x)) <= Line(s, upto(z))
    BY <1>6, <2>2, <2>3, LineGrows
  <2>. QED  BY <1>4, <2>2, <2>4
<1>. QED  BY <1>4, <1>5, <1>6
\* From x on a line gains in w ticks the rate at x, and half of what the slope adds.
LEMMA LineGain ==
  ASSUME NEW a \in Nat, NEW b \in Nat \ {0}, NEW d \in Nat, NEW x \in Nat, NEW w \in Nat, NEW g \in Int,
         b * g <= 2 * (a * b + d * x) * w + d * (w * w) - b
  PROVE  g < (2 * a * (x + w) + (d * (x + w) * (x + w)) \div b) - (2 * a * x + (d * x * x) \div b)
<1>. DEFINE z == x + w
            p == (d * z * z) \div b
            q == (d * x * x) \div b
<1>1. z \in Nat /\ d * z * z \in Int /\ d * x * x \in Int
  OBVIOUS
<1>2. p \in Int /\ d * z * z < b * p + b
  BY <1>1, QuotientIs
<1>3. q \in Int /\ b * q <= d * x * x
  BY <1>1, QuotientIs
<1>4. d * z * z = d * x * x + 2 * (d * x * w) + d * (w * w)
  OBVIOUS
<1>5. 2 * (a * b + d * x) * w = 2 * (a * b * w) + 2 * (d * x * w)
  OBVIOUS
<1>. HIDE DEF p, q
<1>6. b * (2 * a * w + p - q) = 2 * (a * b * w) + b * p - b * q
  BY <1>2, <1>3
<1>7. b * g < b * (2 * a * w + p - q)
  <2>. DEFINE A == d * x * x
              B == d * x * w
              C == d * (w * w)
              E == a * b * w
              Z == d * z * z
              P == b * p
              Q == b * q
              G == b * g
              L == 2 * (a * b + d * x) * w
              V == b * (2 * a * w + p - q)
  <2>1. /\ A \in Int /\ B \in Int /\ C \in Int /\ E \in Int /\ Z \in Int /\ P \in Int /\ Q \in Int /\ G \in Int
        /\ L \in Int /\ V \in Int
    BY <1>2, <1>3
  <2>2. /\ Z < P + b /\ Q <= A /\ Z = A + 2 * B + C /\ L = 2 * E + 2 * B /\ V = 2 * E + P - Q
        /\ G <= L + C - b
    BY <1>2, <1>3, <1>4, <1>5, <1>6
  <2>. HIDE DEF A, B, C, E, Z, P, Q, G, L, V
  <2>3. G < V
    BY <2>1, <2>2
  <2>. QED  BY <2>3 DEF G, V
<1>8. g < 2 * a * w + p - q
  <2>1. 2 * a * w + p - q \in Int
    BY <1>2, <1>3
  <2>. QED  BY <1>7, <2>1, FactorsCompare
<1>9. 2 * a * z = 2 * a * x + 2 * a * w
  OBVIOUS
<1>10. g < (2 * a * z + p) - (2 * a * x + q)
  <2>. DEFINE A == 2 * a * x
              B == 2 * a * w
              C == 2 * a * z
  <2>1. A \in Int /\ B \in Int /\ C \in Int
    OBVIOUS
  <2>2. C = A + B /\ g < B + p - q
    BY <1>8, <1>9
  <2>. HIDE DEF A, B, C
  <2>3. g < (C + p) - (A + q)
    BY <2>1, <2>2, <1>2, <1>3
  <2>. QED  BY <2>3 DEF A, C
<1>. QED  BY <1>10 DEF p, q

\* The wait at a rate of a hit a segment or more is the time of a hit at that rate.
LEMMA GainAtARate ==
  ASSUME NEW a \in Nat, NEW b \in Nat \ {0}, NEW d \in Nat, NEW x \in Nat, NEW w \in Nat, NEW m \in Nat \ {0},
         x <= b, m <= a * b + d * x, w = Rounded(b * m, a * b + d * x)
  PROVE  b * (2 * m - (a + d) - 1) <= 2 * (a * b + d * x) * w + d * (w * w) - b
<1>. DEFINE r == a * b + d * x
            t == b * m
            c == b * (a + d)
<1>1. r \in Nat \ {0} /\ t \in Nat /\ c \in Nat
  <2>1. a * b \in Nat /\ d * x \in Nat /\ b * m \in Nat /\ b * (a + d) \in Nat
    OBVIOUS
  <2>. QED  BY <2>1
<1>2. r <= c
  <2>1. d * x <= d * b
    BY ProductsGrow
  <2>2. c = a * b + d * b
    OBVIOUS
  <2>3. a * b \in Nat /\ d * x \in Nat /\ d * b \in Nat
    OBVIOUS
  <2>. QED  BY <2>1, <2>2, <2>3
<1>3. w = (2 * t + r) \div (2 * r)
  BY DEF Rounded
<1>4. d * (w * w) \in Nat
  OBVIOUS
<1>5. b * (2 * m - (a + d) - 1) = 2 * t - c - b
  OBVIOUS
<1>. HIDE DEF r, t, c
<1>6. 2 * t + r < 2 * r * w + 2 * r
  <2>1. 2 * r \in Nat \ {0} /\ 2 * t + r \in Int
    BY <1>1
  <2>2. 2 * t + r < (2 * r) * w + 2 * r
    BY <1>3, <2>1, QuotientIs
  <2>. QED  BY <2>2
<1>7. 2 * t - c - b <= 2 * r * w + d * (w * w) - b
  <2>. DEFINE v == 2 * r * w
              e == d * (w * w)
  <2>1. v \in Int /\ e \in Nat /\ 2 * t + r < v + 2 * r
    BY <1>1, <1>4, <1>6
  <2>. HIDE DEF v, e
  <2>2. 2 * t - c - b <= v + e - b
    BY <1>1, <1>2, <2>1
  <2>. QED  BY <2>2 DEF v, e
<1>. QED  BY <1>5, <1>7 DEF r

\* And at a lower one the time of a hit on the slope alone.
LEMMA GainOnASlope ==
  ASSUME NEW a \in Nat, NEW b \in Nat \ {0}, NEW d \in Nat \ {0}, NEW x \in Nat, NEW w \in Nat, NEW m \in Nat \ {0},
         w < b, (2 * m * b) \div d < (w + 1) * (w + 1)
  PROVE  b * (2 * m - 2 * d - 1) <= 2 * (a * b + d * x) * w + d * (w * w) - b
<1>. DEFINE s == (2 * m * b) \div d
            k == (w + 1) * (w + 1)
            t == m * b
<1>1. t \in Nat /\ k \in Nat /\ 2 * m * b = 2 * t
  OBVIOUS
<1>2. s \in Int /\ 2 * t < d * s + d
  <2>. HIDE DEF t
  <2>1. 2 * t \in Int
    BY <1>1
  <2>2. s = (2 * t) \div d
    BY <1>1
  <2>. QED  BY <2>1, <2>2, QuotientIs
<1>3. s >= 0
  <2>1. 2 * m * b >= 0 /\ 2 * m * b \in Int
    OBVIOUS
  <2>. QED  BY <2>1, QuotientIs
<1>4. 2 * t < d * k
  <2>. HIDE DEF s, k, t
  <2>1. d * (s + 1) <= d * k
    <3>1. s + 1 \in Nat /\ s + 1 <= k
      BY <1>1, <1>2, <1>3 DEF s, k
    <3>. QED  BY <1>1, <3>1, ProductsGrow
  <2>2. d * (s + 1) = d * s + d
    BY <1>2
  <2>3. d * s \in Int /\ d * k \in Int
    BY <1>1, <1>2
  <2>. QED  BY <1>1, <1>2, <2>1, <2>2, <2>3
<1>5. d * k = d * (w * w) + 2 * (d * w) + d
  OBVIOUS
<1>6. 2 * (d * w) + d <= 2 * (d * b)
  <2>1. d * (w + 1) <= d * b
    BY ProductsGrow
  <2>2. d * (w + 1) = d * w + d /\ d * w \in Nat /\ d * b \in Nat
    OBVIOUS
  <2>. QED  BY <2>1, <2>2
<1>7. 2 * (a * b + d * x) * w \in Nat
  <2>1. a * b + d * x \in Nat
    <3>1. a * b \in Nat /\ d * x \in Nat
      OBVIOUS
    <3>. QED  BY <3>1
  <2>. QED  BY <2>1
<1>8. b * (2 * m - 2 * d - 1) = 2 * t - 2 * (d * b) - b
  OBVIOUS
<1>9. d * (w * w) \in Nat /\ d * w \in Nat /\ d * b \in Nat
  OBVIOUS
<1>. DEFINE A == d * (w * w)
            B == d * w
            C == d * b
            E == 2 * (a * b + d * x) * w
            K == d * k
<1>10. /\ A \in Nat /\ B \in Nat /\ C \in Nat /\ E \in Nat /\ K \in Int
       /\ 2 * t < K /\ K = A + 2 * B + d /\ 2 * B + d <= 2 * C
  BY <1>4, <1>5, <1>6, <1>7, <1>9
<1>11. 2 * t - 2 * C - b <= E + A - b
  <2>. HIDE DEF A, B, C, E, K, t
  <2>. QED  BY <1>1, <1>10
<1>. QED  BY <1>8, <1>11
LEMMA MinuteIs == Minute \in Nat \ {0}
BY TimeAssumption DEF Minute

\* Whatever the segment and wherever in it, or after it, a wait is a time.
LEMMA WaitIs ==
  ASSUME NEW s \in SegmentType, NEW x \in Nat, ~NoHits(s, x)
  PROVE  /\ Wait(s, x) \in Nat
         /\ Rate(s, x) < Minute =>
              (2 * Minute * s.duration) \div Abs(s.end - s.start) < (Wait(s, x) + 1) * (Wait(s, x) + 1)
<1>1. /\ s.start \in Nat /\ s.end \in Nat /\ s.duration \in Nat \ {0}
      /\ ~(Rate(s, x) < Minute) \/ s.start # s.end
  BY DEF SegmentType, NoHits
<1>2. CASE Rate(s, x) < Minute
  <2>. DEFINE q == (2 * Minute * s.duration) \div Abs(s.end - s.start)
  <2>1. Abs(s.end - s.start) \in Nat \ {0}
    BY <1>1, <1>2 DEF Abs
  <2>2. 2 * Minute * s.duration \in Int /\ 2 * Minute * s.duration >= 0
    <3>. DEFINE d == s.duration
    <3>1. d \in Nat
      BY <1>1
    <3>. HIDE DEF d
    <3>2. 2 * Minute * d \in Int /\ 2 * Minute * d >= 0
      BY <3>1, MinuteIs
    <3>. QED  BY <3>2 DEF d
  <2>3. q \in Int /\ q >= 0
    <3>. DEFINE n == 2 * Minute * s.duration
                b == Abs(s.end - s.start)
    <3>1. n \in Int /\ n >= 0 /\ b \in Nat \ {0}
      BY <2>1, <2>2
    <3>. HIDE DEF n, b
    <3>2. n \div b \in Int /\ n \div b >= 0
      BY <3>1, QuotientIs
    <3>. QED  BY <3>2 DEF n, b
  <2>4. q \in Nat
    BY <2>3
  <2>5. Wait(s, x) = CHOOSE w \in 0 .. q : w * w <= q /\ q < (w + 1) * (w + 1)
    BY <1>2 DEF Wait, FromZero
  <2>. HIDE DEF q
  <2>6. \E w \in 0 .. q : w * w <= q /\ q < (w + 1) * (w + 1)
    BY <2>4, RootExists
  <2>7. Wait(s, x) \in 0 .. q /\ q < (Wait(s, x) + 1) * (Wait(s, x) + 1)
    BY <2>5, <2>6
  <2>. QED  BY <2>4, <2>7 DEF q
<1>3. CASE ~(Rate(s, x) < Minute)
  <2>. DEFINE r == Rate(s, x)
              n == s.duration * Minute
  <2>1. r \in Int
    <3>. DEFINE a == s.start
                b == s.duration
                d == s.end - s.start
    <3>1. a \in Int /\ b \in Int /\ d \in Int
      BY <1>1
    <3>. HIDE DEF a, b, d
    <3>2. a * b + d * x \in Int
      BY <3>1
    <3>. QED  BY <3>2 DEF Rate, a, b, d
  <2>2. n \in Nat
    <3>. DEFINE b == s.duration
    <3>1. b \in Nat
      BY <1>1
    <3>. HIDE DEF b
    <3>2. b * Minute \in Nat
      BY <3>1, MinuteIs
    <3>. QED  BY <3>2 DEF b
  <2>3. Wait(s, x) = (2 * n + r) \div (2 * r)
    BY <1>3 DEF Wait, Rounded
  <2>4. ~(r < Minute)
    BY <1>3
  <2>. HIDE DEF n, r
  <2>5. 2 * n + r \in Int /\ 2 * n + r >= 0 /\ 2 * r \in Nat \ {0}
    BY <2>1, <2>2, <2>4, MinuteIs
  <2>6. (2 * n + r) \div (2 * r) \in Int /\ (2 * n + r) \div (2 * r) >= 0
    BY <2>5, QuotientIs
  <2>7. Wait(s, x) \in Nat
    BY <2>3, <2>6
  <2>. QED  BY <1>3, <2>7
<1>. QED  BY <1>2, <1>3

\* In a segment that does not fall each wait gains a hit, but for what the load has in a tick.
LEMMA WaitGains ==
  ASSUME NEW s \in SegmentType, s.start <= s.end, NEW h \in Nat, s.end <= h,
         NEW x \in Nat, ~NoHits(s, x), x + Wait(s, x) < s.duration
  PROVE  HitsIn(s, x) + 2 * Minute - (2 * h + 1) <= HitsIn(s, x + Wait(s, x))
<1>. DEFINE a == s.start
            b == s.duration
            d == s.end - s.start
            w == Wait(s, x)
            m == Minute
<1>1. a \in Nat /\ b \in Nat \ {0} /\ d \in Nat /\ m \in Nat \ {0} /\ a + d <= h
  BY MinuteIs DEF SegmentType, NoHits
<1>2. w \in Nat /\ x + w < b
  BY WaitIs
<1>3. ASSUME NEW v \in Nat, v < b
      PROVE  HitsIn(s, v) = 2 * a * v + (d * v * v) \div b
  <2>1. CASE v = 0
    <3>1. Line(s, 0) = 0
      BY <1>1, LineGrows
    <3>2. Line(s, v) = 0
      BY <2>1, <3>1
    <3>3. HitsIn(s, v) = 0
      BY <2>1 DEF HitsIn
    <3>. QED  BY <3>2, <3>3 DEF Line
  <2>2. CASE v # 0
    <3>1. ~(v <= 0)
      BY <2>2
    <3>. QED  BY <1>1, <1>3, <3>1 DEF HitsIn
  <2>. QED  BY <2>1, <2>2
<1>4. /\ HitsIn(s, x) = 2 * a * x + (d * x * x) \div b
      /\ HitsIn(s, x + w) = 2 * a * (x + w) + (d * (x + w) * (x + w)) \div b
  <2>1. x + w \in Nat /\ x < b
    BY <1>1, <1>2
  <2>. HIDE DEF a, b, d, w
  <2>. QED  BY <1>2, <1>3, <2>1
<1>5. Rate(s, x) = a * b + d * x
  BY DEF Rate
<1>6. CASE m <= Rate(s, x)
  <2>1. ~(Rate(s, x) < Minute)
    <3>1. Rate(s, x) \in Int
      <4>. HIDE DEF a, b, d
      <4>1. a * b + d * x \in Int
        BY <1>1
      <4>. QED  BY <1>5, <4>1
    <3>. QED  BY <1>6, <3>1, MinuteIs
  <2>2. w = Rounded(b * m, a * b + d * x)
    BY <1>5, <2>1 DEF Wait
  <2>. HIDE DEF a, b, d, w, m
  <2>3. x <= b /\ m <= a * b + d * x
    BY <1>1, <1>2, <1>5, <1>6
  <2>4. b * (2 * m - (a + d) - 1) <= 2 * (a * b + d * x) * w + d * (w * w) - b
    BY <1>1, <1>2, <2>2, <2>3, GainAtARate
  <2>5. 2 * m - (a + d) - 1 \in Int
    BY <1>1
  <2>6. 2 * m - (a + d) - 1 < (2 * a * (x + w) + (d * (x + w) * (x + w)) \div b) - (2 * a * x + (d * x * x) \div b)
    BY <1>1, <1>2, <2>4, <2>5, LineGain
  <2>7. 2 * m - (a + d) - 1 < HitsIn(s, x + w) - HitsIn(s, x)
    BY <1>4, <2>6
  <2>8. HitsIn(s, x + w) \in Int /\ HitsIn(s, x) \in Int
    <3>1. x \in Int /\ x + w \in Int
      BY <1>2
    <3>2. \A v \in Int : HitsIn(s, v) \in Nat
      <4>1. ASSUME NEW v \in Int PROVE HitsIn(s, v) \in Nat
        BY <4>1, HitsInGrow
      <4>. QED  BY <4>1
    <3>. QED  BY <3>1, <3>2
  <2>9. HitsIn(s, x) + 2 * m - (2 * h + 1) <= HitsIn(s, x + w)
    BY <1>1, <2>7, <2>8
  <2>. QED  BY <2>9 DEF m, w
<1>7. CASE Rate(s, x) < m
  <2>1. s.start # s.end
    BY <1>7 DEF NoHits
  <2>2. d \in Nat \ {0} /\ Abs(s.end - s.start) = d
    BY <1>1, <2>1 DEF Abs, SegmentType
  <2>3. (2 * m * b) \div d < (w + 1) * (w + 1)
    BY <1>7, <2>2, WaitIs
  <2>. HIDE DEF a, b, d, w, m
  <2>4. w < b
    BY <1>1, <1>2
  <2>5. b * (2 * m - 2 * d - 1) <= 2 * (a * b + d * x) * w + d * (w * w) - b
    BY <1>1, <1>2, <2>2, <2>3, <2>4, GainOnASlope
  <2>6. 2 * m - 2 * d - 1 \in Int
    BY <1>1
  <2>7. 2 * m - 2 * d - 1 < (2 * a * (x + w) + (d * (x + w) * (x + w)) \div b) - (2 * a * x + (d * x * x) \div b)
    BY <1>1, <1>2, <2>5, <2>6, LineGain
  <2>8. HitsIn(s, x + w) \in Int /\ HitsIn(s, x) \in Int
    <3>1. x \in Int /\ x + w \in Int
      BY <1>2
    <3>2. \A v \in Int : HitsIn(s, v) \in Nat
      <4>1. ASSUME NEW v \in Int PROVE HitsIn(s, v) \in Nat
        BY <4>1, HitsInGrow
      <4>. QED  BY <4>1
    <3>. QED  BY <3>1, <3>2
  <2>9. HitsIn(s, x) + 2 * m - (2 * h + 1) <= HitsIn(s, x + w)
    BY <1>1, <1>4, <2>7, <2>8
  <2>. QED  BY <2>9 DEF m, w
<1>8. Rate(s, x) \in Int
  <2>. HIDE DEF a, b, d
  <2>1. a * b + d * x \in Int
    BY <1>1
  <2>. QED  BY <1>5, <2>1
<1>. QED  BY <1>1, <1>6, <1>7, <1>8
-----------------------------------------------------------------------------
(***************************************************************************)
(* The hits of a pattern.                                                  *)
(***************************************************************************)
Segs == Seq(SegmentType)
Rises(p) == \A i \in DOMAIN p : p[i].start <= p[i].end

LEMMA SegsAre ==
  ASSUME NEW p \in Segs
  PROVE  Len(p) \in Nat /\ DOMAIN p = 1 .. Len(p) /\ \A i \in 1 .. Len(p) : p[i] \in SegmentType
BY LenProperties, ElementOfSeq DEF Segs

LEMMA EndOfIs ==
  ASSUME NEW p \in Segs
  PROVE  /\ EndOf(p, 0) = 0
         /\ \A i \in 1 .. Len(p) : EndOf(p, i) = EndOf(p, i - 1) + p[i].duration
         /\ \A i \in 0 .. Len(p) : EndOf(p, i) \in Nat
<1>. DEFINE m == Len(p)
            a == [i \in DOMAIN p |-> p[i].duration]
            f == Sums(a)
            T == {n \in 0 .. m : f[n] \in Nat}
<1>1. m \in Nat /\ DOMAIN p = 1 .. m /\ \A i \in 1 .. m : p[i].duration \in Nat
  BY SegsAre DEF SegmentType
<1>2. a \in Seq(Int) /\ Len(a) = m
  <2>1. a \in [1 .. m -> Int]
    BY <1>1
  <2>2. a \in Seq(Int)
    BY <1>1, <2>1
  <2>3. DOMAIN a = 1 .. m
    BY <1>1
  <2>. QED  BY <1>1, <2>2, <2>3, LenProperties
<1>3. f \in [0 .. m -> Int] /\ f[0] = 0 /\ \A i \in 1 .. m : f[i] = f[i - 1] + a[i]
  BY <1>2, SumsDef
<1>4. \A i \in 1 .. m : a[i] = p[i].duration
  BY <1>1
<1>. HIDE DEF a, f, m
<1>5. \A i \in 1 .. m : f[i] = f[i - 1] + p[i].duration
  BY <1>3, <1>4
<1>6. T = 0 .. m
  <2>1. 0 \in T
    BY <1>1, <1>3
  <2>2. ASSUME NEW i \in 1 .. m, i - 1 \in T PROVE i \in T
    <3>1. i \in 0 .. m /\ f[i - 1] \in Nat /\ p[i].duration \in Nat
      BY <1>1, <2>2
    <3>2. f[i] \in Nat
      BY <1>5, <3>1
    <3>. QED  BY <3>1, <3>2
  <2>3. T \in SUBSET (0 .. m)
    OBVIOUS
  <2>. HIDE DEF T
  <2>. QED  BY <1>1, <2>1, <2>2, <2>3, UpTo
<1>7. \A i \in 0 .. m : f[i] \in Nat
  BY <1>6
<1>8. \A i : EndOf(p, i) = f[i]
  BY DEF EndOf, f, a
<1>. QED  BY <1>3, <1>5, <1>7, <1>8 DEF m

\* The members of the sum that Hits is.
HitsOf(p, t) == [i \in DOMAIN p |-> HitsIn(p[i], t - EndOf(p, i - 1))]

LEMMA HitsOfAre ==
  ASSUME NEW p \in Segs, Rises(p), NEW t \in Int
  PROVE  /\ HitsOf(p, t) \in Seq(Int) /\ Len(HitsOf(p, t)) = Len(p)
         /\ \A u \in Int : t <= u => \A i \in 1 .. Len(p) : HitsOf(p, t)[i] <= HitsOf(p, u)[i]
<1>1. Len(p) \in Nat /\ DOMAIN p = 1 .. Len(p) /\ \A i \in 1 .. Len(p) : p[i] \in SegmentType
  BY SegsAre
<1>2. \A i \in 1 .. Len(p) : EndOf(p, i - 1) \in Nat
  <2>1. \A i \in 1 .. Len(p) : i - 1 \in 0 .. Len(p)
    BY <1>1
  <2>. QED  BY <2>1, EndOfIs
<1>3. ASSUME NEW i \in 1 .. Len(p), NEW u \in Int, t <= u
      PROVE  /\ HitsIn(p[i], t - EndOf(p, i - 1)) \in Int
             /\ HitsIn(p[i], t - EndOf(p, i - 1)) <= HitsIn(p[i], u - EndOf(p, i - 1))
  <2>1. p[i].start <= p[i].end
    BY <1>1 DEF Rises
  <2>2. /\ t - EndOf(p, i - 1) \in Int /\ u - EndOf(p, i - 1) \in Int
        /\ t - EndOf(p, i - 1) <= u - EndOf(p, i - 1)
    BY <1>2, <1>3
  <2>3. /\ HitsIn(p[i], t - EndOf(p, i - 1)) \in Nat
        /\ HitsIn(p[i], t - EndOf(p, i - 1)) <= HitsIn(p[i], u - EndOf(p, i - 1))
    BY <1>1, <2>1, <2>2, HitsInGrow
  <2>. QED  BY <2>3
<1>4. HitsOf(p, t) \in [1 .. Len(p) -> Int]
  BY <1>1, <1>3 DEF HitsOf
<1>5. HitsOf(p, t) \in Seq(Int)
  BY <1>1, <1>4
<1>6. DOMAIN HitsOf(p, t) = 1 .. Len(p)
  BY <1>1 DEF HitsOf
<1>7. Len(HitsOf(p, t)) = Len(p)
  BY <1>1, <1>5, <1>6, LenProperties
<1>8. ASSUME NEW u \in Int, t <= u, NEW i \in 1 .. Len(p) PROVE HitsOf(p, t)[i] <= HitsOf(p, u)[i]
  BY <1>1, <1>3, <1>8 DEF HitsOf
<1>. QED  BY <1>5, <1>7, <1>8

LEMMA HitsGrow ==
  ASSUME NEW p \in Segs, Rises(p), NEW t \in Int, NEW u \in Int, t <= u
  PROVE  Hits(p, t) \in Int /\ Hits(p, t) <= Hits(p, u)
<1>1. Hits(p, t) = Sums(HitsOf(p, t))[Len(p)] /\ Hits(p, u) = Sums(HitsOf(p, u))[Len(p)]
  BY DEF Hits, HitsOf
<1>2. /\ HitsOf(p, t) \in Seq(Int) /\ Len(HitsOf(p, t)) = Len(p)
      /\ HitsOf(p, u) \in Seq(Int) /\ Len(HitsOf(p, u)) = Len(p)
      /\ \A i \in 1 .. Len(p) : HitsOf(p, t)[i] <= HitsOf(p, u)[i]
  BY HitsOfAre
<1>3. Len(p) \in 0 .. Len(p)
  BY SegsAre
<1>4. Sums(HitsOf(p, t)) \in [0 .. Len(p) -> Int]
  BY <1>2, SumsDef
<1>5. Sums(HitsOf(p, t))[Len(p)] <= Sums(HitsOf(p, u))[Len(p)]
  BY <1>2, <1>3, SumsGrow
<1>. QED  BY <1>1, <1>3, <1>4, <1>5

LEMMA HitsGrowBy ==
  ASSUME NEW p \in Segs, Rises(p), NEW t \in Int, NEW u \in Int, t <= u,
         NEW c \in 1 .. Len(p), NEW d \in Int,
         HitsIn(p[c], t - EndOf(p, c - 1)) + d <= HitsIn(p[c], u - EndOf(p, c - 1))
  PROVE  Hits(p, t) + d <= Hits(p, u)
<1>1. Hits(p, t) = Sums(HitsOf(p, t))[Len(p)] /\ Hits(p, u) = Sums(HitsOf(p, u))[Len(p)]
  BY DEF Hits, HitsOf
<1>2. /\ HitsOf(p, t) \in Seq(Int) /\ Len(HitsOf(p, t)) = Len(p)
      /\ HitsOf(p, u) \in Seq(Int) /\ Len(HitsOf(p, u)) = Len(p)
      /\ \A i \in 1 .. Len(p) : HitsOf(p, t)[i] <= HitsOf(p, u)[i]
  BY HitsOfAre
<1>3. HitsOf(p, t)[c] + d <= HitsOf(p, u)[c]
  BY SegsAre DEF HitsOf
<1>. DEFINE a == HitsOf(p, t)
            b == HitsOf(p, u)
<1>. HIDE DEF a, b
<1>4. Sums(a)[Len(a)] + d <= Sums(b)[Len(a)]
  <2>1. /\ a \in Seq(Int) /\ b \in Seq(Int) /\ Len(a) = Len(b) /\ c \in 1 .. Len(a)
        /\ \A i \in 1 .. Len(a) : a[i] <= b[i]
        /\ a[c] + d <= b[c]
    BY <1>2, <1>3 DEF a, b
  <2>. QED  BY <2>1, SumsGrowBy
<1>. QED  BY <1>1, <1>2, <1>4 DEF a, b

LEMMA HighestIs ==
  ASSUME NEW p \in Segs
  PROVE  Highest(p) \in Nat /\ \A i \in 1 .. Len(p) : p[i].start <= Highest(p) /\ p[i].end <= Highest(p)
<1>. DEFINE m == Len(p)
            Q(n) == {p[i].start : i \in 1 .. n} \cup {p[i].end : i \in 1 .. n} \cup {0}
            T == {n \in 0 .. m : \E r \in Q(n) : r \in Nat /\ \A q \in Q(n) : q <= r}
<1>1. m \in Nat /\ DOMAIN p = 1 .. m /\ \A i \in 1 .. m : p[i].start \in Nat /\ p[i].end \in Nat
  BY SegsAre DEF SegmentType
<1>. HIDE DEF m
<1>2. 0 \in T
  <2>1. Q(0) = {0}
    OBVIOUS
  <2>. QED  BY <1>1, <2>1
<1>3. ASSUME NEW i \in 1 .. m, i - 1 \in T PROVE i \in T
  <2>1. PICK r \in Q(i - 1) : r \in Nat /\ \A q \in Q(i - 1) : q <= r
    BY <1>3
  <2>2. i \in Nat /\ 1 .. i = (1 .. i - 1) \cup {i} /\ i \in 0 .. m /\ p[i].start \in Nat /\ p[i].end \in Nat
    BY <1>1
  <2>3. Q(i) = Q(i - 1) \cup {p[i].start, p[i].end}
    BY <2>2
  <2>. HIDE DEF Q
  <2>4. PICK s \in {r, p[i].start, p[i].end} : r <= s /\ p[i].start <= s /\ p[i].end <= s
    BY <2>1, <2>2
  <2>5. s \in Q(i) /\ s \in Nat
    BY <2>1, <2>2, <2>3
  <2>6. ASSUME NEW q \in Q(i) PROVE q <= s
    <3>1. CASE q \in Q(i - 1)
      <4>1. q <= r
        BY <2>1, <3>1
      <4>2. q \in Nat
        <5>1. \A j \in 1 .. i - 1 : p[j].start \in Nat /\ p[j].end \in Nat
          BY <1>1, <2>2
        <5>. QED  BY <3>1, <5>1 DEF Q
      <4>. QED  BY <2>1, <2>4, <2>5, <4>1, <4>2
    <3>2. CASE q \in {p[i].start, p[i].end}
      BY <2>4, <3>2
    <3>. QED  BY <2>3, <3>1, <3>2
  <2>. QED  BY <2>2, <2>5, <2>6
<1>4. T = 0 .. m
  <2>1. T \in SUBSET (0 .. m)
    OBVIOUS
  <2>. HIDE DEF T
  <2>. QED  BY <1>1, <1>2, <1>3, <2>1, UpTo
<1>5. m \in T
  <2>1. m \in 0 .. m
    BY <1>1
  <2>. HIDE DEF T
  <2>. QED  BY <1>4, <2>1
<1>6. Rates(p) = Q(m)
  BY <1>1 DEF Rates
<1>7. \E r \in Rates(p) : \A q \in Rates(p) : q <= r
  BY <1>5, <1>6
<1>8. Highest(p) \in Rates(p) /\ \A q \in Rates(p) : q <= Highest(p)
  BY <1>7 DEF Highest
<1>9. \A i \in 1 .. m : p[i].start \in Rates(p) /\ p[i].end \in Rates(p)
  BY <1>1 DEF Rates
<1>10. Rates(p) \in SUBSET Nat
  BY <1>1 DEF Rates
<1>. QED  BY <1>8, <1>9, <1>10 DEF m
-----------------------------------------------------------------------------
(***************************************************************************)
(* The invariant.                                                          *)
(***************************************************************************)
\* The state of the stream is in segment c.
In(c, current, rest, offset) ==
  /\ c \in 1 .. Len(pattern)
  /\ current = pattern[c] /\ rest = SubSeq(pattern, c + 1, Len(pattern)) /\ offset = EndOf(pattern, c - 1)

\* The first n starts, the last of them at t, are as many as the pattern has hits up to t, but for `extra`.
Slack == 2 * Highest(pattern) + 1
Kept(n, t, extra) == 2 * Minute * n <= Hits(pattern, t) - Hits(pattern, start_at) + 2 * Minute * extra + n * Slack

\* One for each segment that is left; segment c is left from its end on.
LeftBy(c, t) == IF t - EndOf(pattern, c - 1) < pattern[c].duration THEN c - 1 ELSE c

TypeInv ==
  /\ \E p \in Patterns, peak \in PeakLoads : pattern = Segments(p, peak)
  /\ start_at \in Nat /\ now \in Nat /\ hits \in Nat /\ start_at <= now
  /\ stream \in {"new", "idle", "sleeping", "ended", "panicked"}
  /\ stream = "new" => segments = pattern /\ now = start_at /\ hits = 0
  /\ stream \in {"idle", "sleeping"} =>
       /\ next_start \in Nat /\ start_at <= next_start
       /\ following_start = None \/ (following_start \in Nat /\ next_start <= following_start)
  /\ stream = "sleeping" => trigger \in Nat /\ start_at <= trigger
  /\ stream = "panicked" => PauseInside

\* Where the stream is, and that the start that is to come is not too early.
InPlace ==
  stream \in {"idle", "sleeping"} =>
    \E c \in 1 .. Len(pattern) :
      /\ In(c, current_segment, segments, x_offset)
      /\ following_start # None =>
           /\ x_offset <= following_start
           /\ Rises(pattern) => Kept(hits + (IF stream = "idle" THEN 1 ELSE 2), following_start, LeftBy(c, following_start))

InTime ==
  Rises(pattern) =>
    /\ stream = "idle" => Kept(hits, next_start, Len(pattern)) /\ NoExtraLoad
    /\ stream = "sleeping" => Kept(hits, trigger, Len(pattern)) /\ Kept(hits + 1, next_start, Len(pattern))

LoadInv == TypeInv /\ InPlace /\ InTime
-----------------------------------------------------------------------------
(***************************************************************************)
(* The next start.                                                         *)
(***************************************************************************)
StateType == [current : SegmentType, rest : Segs, offset : Nat, following : Nat \cup {None}, panics : BOOLEAN]

\* A start and the next, u: one hit more.
Follows(b, t, u) ==
  /\ u \in Nat /\ t <= u
  /\ Rises(pattern) => \A n \in Nat : Kept(n, t, b - 1) => Kept(n + 1, u, LeftBy(b, u))

LEMMA SlackIs ==
  ASSUME pattern \in Segs
  PROVE  Slack \in Nat
BY HighestIs DEF Slack

\* The next start in segment b, or the first after it, is one hit further.
LEMMA AHitFurther ==
  ASSUME pattern \in Segs, start_at \in Nat, NEW b \in 1 .. Len(pattern), NEW t \in Nat, NEW u \in Nat, t <= u,
         u - EndOf(pattern, b - 1) < pattern[b].duration /\ Rises(pattern) =>
           HitsIn(pattern[b], t - EndOf(pattern, b - 1)) + 2 * Minute - Slack
             <= HitsIn(pattern[b], u - EndOf(pattern, b - 1))
  PROVE  Follows(b, t, u)
<1>. SUFFICES ASSUME Rises(pattern), NEW n \in Nat, Kept(n, t, b - 1)
              PROVE  Kept(n + 1, u, LeftBy(b, u))
  BY DEF Follows
<1>. DEFINE m == Minute
            k == Slack
            x == Hits(pattern, t)
            y == Hits(pattern, u)
            z == Hits(pattern, start_at)
<1>1. m \in Nat /\ k \in Nat /\ b \in Nat
  BY MinuteIs, SlackIs, SegsAre
<1>2. x \in Int /\ y \in Int /\ z \in Int /\ x <= y
  <2>1. t \in Int /\ u \in Int /\ start_at \in Int /\ start_at <= start_at /\ u <= u
    OBVIOUS
  <2>2. x \in Int /\ x <= y
    BY <2>1, HitsGrow
  <2>3. y \in Int
    BY <2>1, HitsGrow
  <2>4. z \in Int
    BY <2>1, HitsGrow
  <2>. QED  BY <2>2, <2>3, <2>4
<1>3. 2 * m * n <= x - z + 2 * m * (b - 1) + n * k
  BY DEF Kept
<1>4. CASE u - EndOf(pattern, b - 1) < pattern[b].duration
  <2>1. HitsIn(pattern[b], t - EndOf(pattern, b - 1)) + (2 * m - k) <= HitsIn(pattern[b], u - EndOf(pattern, b - 1))
    <3>. DEFINE f == HitsIn(pattern[b], t - EndOf(pattern, b - 1))
                g == HitsIn(pattern[b], u - EndOf(pattern, b - 1))
    <3>1. f + 2 * m - k <= g
      BY <1>4
    <3>2. f \in Int
      <4>1. b - 1 \in 0 .. Len(pattern)
        BY SegsAre
      <4>2. EndOf(pattern, b - 1) \in Nat
        BY <4>1, EndOfIs
      <4>3. pattern[b] \in SegmentType /\ pattern[b].start <= pattern[b].end
        BY SegsAre DEF Rises
      <4>4. t - EndOf(pattern, b - 1) \in Int /\ t - EndOf(pattern, b - 1) <= t - EndOf(pattern, b - 1)
        BY <4>2
      <4>. QED  BY <4>3, <4>4, HitsInGrow
    <3>. HIDE DEF f, g, m, k
    <3>3. f + (2 * m - k) <= g
      BY <1>1, <3>1, <3>2
    <3>. QED  BY <3>3 DEF f, g
  <2>. HIDE DEF m, k
  <2>2. 2 * m - k \in Int
    BY <1>1
  <2>3. x + (2 * m - k) <= y
    BY <2>1, <2>2, HitsGrowBy
  <2>. HIDE DEF x, y, z
  <2>4. 2 * m * (n + 1) <= y - z + 2 * m * (b - 1) + (n + 1) * k
    <3>. DEFINE f == m * n
                g == m * (b - 1)
                h == n * k
    <3>1. 2 * m * n = 2 * f /\ 2 * m * (n + 1) = 2 * f + 2 * m /\ 2 * m * (b - 1) = 2 * g /\ (n + 1) * k = h + k
      BY <1>1
    <3>2. f \in Int /\ g \in Int /\ h \in Int
      BY <1>1
    <3>3. 2 * f <= x - z + 2 * g + h
      BY <1>3, <3>1
    <3>. HIDE DEF f, g, h
    <3>4. 2 * f + 2 * m <= y - z + 2 * g + (h + k)
      BY <1>1, <1>2, <2>3, <3>2, <3>3
    <3>. QED  BY <3>1, <3>4
  <2>5. LeftBy(b, u) = b - 1
    BY <1>4 DEF LeftBy
  <2>. QED  BY <2>4, <2>5 DEF Kept, m, k, y, z
<1>5. CASE ~(u - EndOf(pattern, b - 1) < pattern[b].duration)
  <2>. HIDE DEF m, k, x, y, z
  <2>1. 2 * m * (n + 1) <= y - z + 2 * m * b + (n + 1) * k
    <3>. DEFINE f == m * n
                g == m * b
                h == n * k
    <3>1. /\ 2 * m * n = 2 * f /\ 2 * m * (n + 1) = 2 * f + 2 * m /\ 2 * m * (b - 1) = 2 * g - 2 * m
          /\ 2 * m * b = 2 * g /\ (n + 1) * k = h + k
      BY <1>1
    <3>2. f \in Int /\ g \in Int /\ h \in Int
      BY <1>1
    <3>3. 2 * f <= x - z + (2 * g - 2 * m) + h
      BY <1>3, <3>1
    <3>. HIDE DEF f, g, h
    <3>4. 2 * f + 2 * m <= y - z + 2 * g + (h + k)
      BY <1>1, <1>2, <3>2, <3>3
    <3>. QED  BY <3>1, <3>4
  <2>2. LeftBy(b, u) = b
    BY <1>5 DEF LeftBy
  <2>. QED  BY <2>1, <2>2 DEF Kept, m, k, y, z
<1>. QED  BY <1>4, <1>5
LEMMA StartInIs ==
  ASSUME pattern \in Segs, start_at \in Nat, NEW b \in 1 .. Len(pattern),
         NEW st \in StateType, In(b, st.current, st.rest, st.offset), ~st.panics,
         NEW t \in Nat, st.offset <= t, st.current.duration < t - st.offset => 2 <= b
  PROVE  /\ StartIn(st, t) \in StateType
         /\ In(b, StartIn(st, t).current, StartIn(st, t).rest, StartIn(st, t).offset)
         /\ StartIn(st, t).panics => PauseInside
         /\ ~StartIn(st, t).panics =>
              StartIn(st, t).following = None \/ Follows(b, t, StartIn(st, t).following)
<1>. DEFINE s == st.current
            x == t - st.offset
            r == StartIn(st, t)
<1>1. s \in SegmentType /\ x \in Nat /\ s = pattern[b] /\ st.offset = EndOf(pattern, b - 1) /\ s.duration \in Nat
  BY DEF StateType, In, SegmentType
<1>2. \A u \in Nat : By(st, u) \in {[st EXCEPT !.following = u], [st EXCEPT !.following = None]}
  BY DEF By, Ends
<1>3. CASE ~NoHits(s, x)
  <2>. DEFINE u == t + Wait(s, x)
  <2>1. Wait(s, x) \in Nat
    BY <1>1, <1>3, WaitIs
  <2>2. u \in Nat /\ t <= u
    BY <2>1
  <2>3. r = By(st, u)
    BY <1>3 DEF StartIn
  <2>4. r \in {[st EXCEPT !.following = u], [st EXCEPT !.following = None]}
    BY <1>2, <2>2, <2>3
  <2>5. ASSUME u - EndOf(pattern, b - 1) < pattern[b].duration, Rises(pattern)
        PROVE  HitsIn(pattern[b], t - EndOf(pattern, b - 1)) + 2 * Minute - Slack
                 <= HitsIn(pattern[b], u - EndOf(pattern, b - 1))
    <3>1. s.start <= s.end /\ Highest(pattern) \in Nat /\ s.end <= Highest(pattern)
      BY <1>1, <2>5, HighestIs, SegsAre DEF Rises
    <3>2. u - EndOf(pattern, b - 1) = x + Wait(s, x) /\ x + Wait(s, x) < s.duration
      <4>. DEFINE w == Wait(s, x)
                  o == st.offset
      <4>1. w \in Int /\ o \in Int /\ t \in Int
        BY <2>1 DEF StateType
      <4>2. (t + w) - o = (t - o) + w
        <5>. HIDE DEF w, o
        <5>. QED  BY <4>1
      <4>. QED  BY <1>1, <2>5, <4>2
    <3>3. t - EndOf(pattern, b - 1) = x
      BY <1>1
    <3>. HIDE DEF s, x, u
    <3>4. HitsIn(s, x) + 2 * Minute - (2 * Highest(pattern) + 1) <= HitsIn(s, x + Wait(s, x))
      BY <1>1, <1>3, <3>1, <3>2, WaitGains
    <3>. QED  BY <1>1, <3>2, <3>3, <3>4 DEF Slack
  <2>. HIDE DEF u
  <2>6. Follows(b, t, u)
    BY <2>2, <2>5, AHitFurther
  <2>. HIDE DEF r
  <2>7. r \in StateType /\ r.current = st.current /\ r.rest = st.rest /\ r.offset = st.offset /\ ~r.panics
    BY <2>2, <2>4 DEF StateType
  <2>8. r.following \in {u, None}
    BY <2>4 DEF StateType
  <2>. QED  BY <2>6, <2>7, <2>8 DEF r
<1>4. CASE NoHits(s, x) /\ st.rest = <<>>
  <2>1. r = [st EXCEPT !.following = None]
    BY <1>4 DEF StartIn, Ends
  <2>. HIDE DEF r
  <2>2. r \in StateType /\ r.current = st.current /\ r.rest = st.rest /\ r.offset = st.offset /\ ~r.panics
        /\ r.following = None
    BY <2>1 DEF StateType
  <2>. QED  BY <2>2 DEF r
<1>5. CASE NoHits(s, x) /\ st.rest # <<>> /\ x > s.duration
  <2>1. r = [st EXCEPT !.panics = TRUE]
    BY <1>5 DEF StartIn
  <2>2. PauseInside
    <3>1. 2 <= b
      BY <1>1, <1>5
    <3>2. b <= Len(pattern) - 1
      <4>1. st.rest = SubSeq(pattern, b + 1, Len(pattern))
        BY DEF In
      <4>2. b # Len(pattern)
        <5>1. Len(pattern) \in Nat
          BY SegsAre
        <5>2. SubSeq(pattern, Len(pattern) + 1, Len(pattern)) = <<>>
          BY <5>1 DEF Segs
        <5>. QED  BY <1>5, <4>1, <5>2
      <4>. QED  BY <4>2, SegsAre
    <3>3. NoHits(s, 0)
      <4>1. CASE s.duration = 0
        BY <4>1 DEF NoHits
      <4>2. CASE s.start = s.end /\ Rate(s, x) < Minute
        <5>1. s.start \in Int /\ s.end \in Int
          BY <1>1 DEF SegmentType
        <5>2. Rate(s, x) = s.start * s.duration + 0 * x /\ Rate(s, 0) = s.start * s.duration + 0 * 0
          BY <4>2, <5>1 DEF Rate
        <5>3. Rate(s, 0) = Rate(s, x)
          <6>1. 0 * x = 0 /\ 0 * 0 = 0
            BY <1>1
          <6>. QED  BY <5>2, <6>1
        <5>. QED  BY <4>2, <5>3 DEF NoHits
      <4>. QED  BY <1>5, <4>1, <4>2 DEF NoHits
    <3>4. b \in 2 .. Len(pattern) - 1
      BY <3>1, <3>2, SegsAre
    <3>. QED  BY <1>1, <3>3, <3>4 DEF PauseInside
  <2>. HIDE DEF r
  <2>3. r \in StateType /\ r.current = st.current /\ r.rest = st.rest /\ r.offset = st.offset
    BY <2>1 DEF StateType
  <2>. QED  BY <2>1, <2>2, <2>3 DEF r, StateType
<1>6. CASE NoHits(s, x) /\ st.rest # <<>> /\ ~(x > s.duration)
  <2>. DEFINE u == t + s.duration - x
  <2>1. r = By(st, u)
    BY <1>6 DEF StartIn
  <2>2. u \in Nat /\ t <= u /\ u - st.offset = s.duration
    <3>. DEFINE d == s.duration
                o == st.offset
    <3>1. d \in Int /\ o \in Int /\ d >= t - o /\ t - o \in Int
      BY <1>1, <1>6 DEF StateType
    <3>. HIDE DEF d, o
    <3>2. t + d - (t - o) \in Nat /\ t <= t + d - (t - o) /\ (t + d - (t - o)) - o = d
      BY <3>1
    <3>. QED  BY <3>2 DEF d, o
  <2>. HIDE DEF u
  <2>3. r \in {[st EXCEPT !.following = u], [st EXCEPT !.following = None]}
    BY <1>2, <2>1, <2>2
  <2>4. ~(u - EndOf(pattern, b - 1) < pattern[b].duration)
    BY <1>1, <2>2
  <2>5. Follows(b, t, u)
    BY <2>2, <2>4, AHitFurther
  <2>. HIDE DEF r
  <2>6. r \in StateType /\ r.current = st.current /\ r.rest = st.rest /\ r.offset = st.offset /\ ~r.panics
    BY <2>2, <2>3 DEF StateType
  <2>7. r.following \in {u, None}
    BY <2>3 DEF StateType
  <2>. QED  BY <2>5, <2>6, <2>7 DEF r
<1>. QED  BY <1>3, <1>4, <1>5, <1>6
\* The state r comes of one in segment c by a step on from the start at t.
StepsOn(r, c, t) ==
  /\ r \in StateType
  /\ r.panics => PauseInside
  /\ \E b \in 1 .. Len(pattern) :
       /\ In(b, r.current, r.rest, r.offset)
       /\ ~r.panics /\ r.following # None =>
            /\ r.following \in Nat /\ t <= r.following /\ r.offset <= r.following
            /\ Rises(pattern) => \A n \in Nat : Kept(n, t, LeftBy(c, t)) => Kept(n + 1, r.following, LeftBy(b, r.following))

LEMMA NextStartIs ==
  ASSUME pattern \in Segs, start_at \in Nat, NEW c \in 1 .. Len(pattern),
         NEW st \in StateType, In(c, st.current, st.rest, st.offset), ~st.panics,
         NEW t \in Nat, st.offset <= t
  PROVE  StepsOn(NextStart(st, t), c, t)
<1>. DEFINE r == NextStart(st, t)
<1>1. ASSUME NEW b \in 1 .. Len(pattern), NEW sb \in StateType, In(b, sb.current, sb.rest, sb.offset), ~sb.panics,
             sb.offset <= t, sb.current.duration < t - sb.offset => 2 <= b,
             r = StartIn(sb, t), LeftBy(c, t) = b - 1
      PROVE  StepsOn(r, c, t)
  <2>1. /\ r \in StateType /\ In(b, r.current, r.rest, r.offset) /\ (r.panics => PauseInside)
        /\ ~r.panics => r.following = None \/ Follows(b, t, r.following)
    BY <1>1, StartInIs
  <2>2. r.offset = sb.offset
    BY <1>1, <2>1 DEF In
  <2>. HIDE DEF r
  <2>3. ASSUME ~r.panics, r.following # None
        PROVE  /\ r.following \in Nat /\ t <= r.following /\ r.offset <= r.following
               /\ Rises(pattern) =>
                    \A n \in Nat : Kept(n, t, LeftBy(c, t)) => Kept(n + 1, r.following, LeftBy(b, r.following))
    <3>1. Follows(b, t, r.following)
      BY <2>1, <2>3
    <3>2. r.following \in Nat /\ t <= r.following
      BY <3>1 DEF Follows
    <3>3. r.offset \in Nat /\ r.offset <= t
      BY <1>1, <2>1, <2>2 DEF StateType
    <3>4. r.offset <= r.following
      BY <3>2, <3>3
    <3>. QED  BY <1>1, <3>1, <3>2, <3>4 DEF Follows
  <2>. QED  BY <2>1, <2>3 DEF StepsOn
<1>2. /\ st.offset = EndOf(pattern, c - 1) /\ st.current = pattern[c] /\ st.rest = SubSeq(pattern, c + 1, Len(pattern))
      /\ st.offset \in Nat /\ st.current.duration \in Nat /\ Len(pattern) \in Nat
  BY SegsAre DEF In, StateType, SegmentType
<1>3. CASE t - st.offset < st.current.duration
  <2>1. r = StartIn(st, t)
    BY <1>3 DEF NextStart
  <2>2. LeftBy(c, t) = c - 1
    BY <1>2, <1>3 DEF LeftBy
  <2>3. ~(st.current.duration < t - st.offset)
    BY <1>2, <1>3
  <2>. HIDE DEF r
  <2>. QED  BY <1>1, <2>1, <2>2, <2>3 DEF r
<1>4. CASE ~(t - st.offset < st.current.duration) /\ st.rest = <<>>
  <2>1. r = [st EXCEPT !.following = None]
    BY <1>4 DEF NextStart, Ends
  <2>. HIDE DEF r
  <2>2. r \in StateType /\ r.current = st.current /\ r.rest = st.rest /\ r.offset = st.offset /\ ~r.panics
        /\ r.following = None
    BY <2>1 DEF StateType
  <2>. QED  BY <2>2 DEF StepsOn, r
<1>5. CASE ~(t - st.offset < st.current.duration) /\ st.rest # <<>>
  <2>. DEFINE sb == Moved(st)
              b == c + 1
  <2>1. r = StartIn(sb, t)
    BY <1>5 DEF NextStart
  <2>2. b \in 1 .. Len(pattern)
    <3>1. c # Len(pattern)
      <4>1. SubSeq(pattern, Len(pattern) + 1, Len(pattern)) = <<>>
        BY <1>2 DEF Segs
      <4>. QED  BY <1>2, <1>5, <4>1
    <3>. QED  BY <1>2, <3>1
  <2>3. Head(st.rest) = pattern[b] /\ Tail(st.rest) = SubSeq(pattern, b + 1, Len(pattern))
    <3>1. pattern \in Seq(SegmentType) /\ c + 1 \in 1 .. Len(pattern) /\ Len(pattern) \in c + 1 .. Len(pattern)
      BY <1>2, <2>2 DEF Segs
    <3>2. /\ Head(SubSeq(pattern, c + 1, Len(pattern))) = pattern[c + 1]
          /\ Tail(SubSeq(pattern, c + 1, Len(pattern))) = SubSeq(pattern, (c + 1) + 1, Len(pattern))
      BY ONLY <3>1, HeadTailOfSubSeq
    <3>. QED  BY <1>2, <3>2
  <2>4. EndOf(pattern, b - 1) = EndOf(pattern, c - 1) + pattern[c].duration
    BY <1>2, EndOfIs
  <2>5. pattern[b] \in SegmentType /\ SubSeq(pattern, b + 1, Len(pattern)) \in Segs
    BY <1>2, <2>2, SegsAre DEF Segs
  <2>6. sb \in StateType /\ In(b, sb.current, sb.rest, sb.offset) /\ ~sb.panics /\ sb.offset = st.offset + st.current.duration
    <3>1. st.offset + st.current.duration \in Nat
      BY <1>2
    <3>2. sb \in StateType /\ ~sb.panics
      BY <2>3, <2>5, <3>1 DEF Moved, StateType
    <3>3. sb.current = pattern[b] /\ sb.rest = SubSeq(pattern, b + 1, Len(pattern)) /\ sb.offset = st.offset + st.current.duration
      BY <2>3 DEF Moved, StateType
    <3>4. sb.offset = EndOf(pattern, b - 1)
      BY <1>2, <2>4, <3>3
    <3>5. In(b, sb.current, sb.rest, sb.offset)
      BY <2>2, <3>3, <3>4 DEF In
    <3>. QED  BY <3>2, <3>3, <3>5
  <2>7. sb.offset <= t
    BY <1>2, <1>5, <2>6
  <2>8. 2 <= b /\ LeftBy(c, t) = b - 1
    BY <1>2, <1>5 DEF LeftBy
  <2>. HIDE DEF r, sb, b
  <2>. QED  BY <1>1, <2>1, <2>2, <2>6, <2>7, <2>8 DEF r
<1>. QED  BY <1>3, <1>4, <1>5
-----------------------------------------------------------------------------
(***************************************************************************)
(* The steps.                                                              *)
(***************************************************************************)
LEMMA SegmentsAre ==
  ASSUME NEW p \in Patterns, NEW peak \in PeakLoads
  PROVE  Segments(p, peak) \in Segs
<1>1. /\ p \in Seq([from : Nat \cup {None}, to : Nat, over : Nat])
      /\ peak \in [n : Nat, per : {"minute", "second"}]
  BY LoadAssumption
<1>2. Len(p) \in Nat /\ DOMAIN p = 1 .. Len(p)
      /\ \A i \in 1 .. Len(p) : p[i] \in [from : Nat \cup {None}, to : Nat, over : Nat]
  BY <1>1, LenProperties, ElementOfSeq
<1>3. PerMinute(peak) \in Nat
  BY <1>1 DEF PerMinute
<1>4. ASSUME NEW n \in Nat PROVE (n * PerMinute(peak)) \div 100 \in Nat
  <2>. DEFINE k == n * PerMinute(peak)
  <2>1. k \in Nat
    BY <1>3
  <2>. HIDE DEF k
  <2>2. k \div 100 \in Int /\ k \div 100 >= 0
    BY <2>1, QuotientIs
  <2>. QED  BY <2>2 DEF k
<1>5. ASSUME NEW i \in 1 .. Len(p)
      PROVE  Segment((StartPercent(p, i) * PerMinute(peak)) \div 100, (p[i].to * PerMinute(peak)) \div 100, p[i].over)
               \in SegmentType
  <2>1. p[i].from \in Nat \cup {None} /\ p[i].to \in Nat /\ p[i].over \in Nat
    BY <1>2
  <2>2. LastEnd(p, i) \in Nat
    <3>1. CASE i = 1
      BY <3>1 DEF LastEnd
    <3>2. CASE i # 1
      <4>1. i - 1 \in 1 .. Len(p)
        BY <1>2, <3>2
      <4>2. p[i - 1].to \in Nat
        BY <1>2, <4>1
      <4>. QED  BY <3>2, <4>2 DEF LastEnd
    <3>. QED  BY <3>1, <3>2
  <2>3. StartPercent(p, i) \in Nat
    BY <2>1, <2>2 DEF StartPercent
  <2>4. (StartPercent(p, i) * PerMinute(peak)) \div 100 \in Nat /\ (p[i].to * PerMinute(peak)) \div 100 \in Nat
    BY <1>4, <2>1, <2>3
  <2>. QED  BY <2>1, <2>4 DEF Segment, SegmentType
<1>6. Segments(p, peak) \in [1 .. Len(p) -> SegmentType]
  BY <1>2, <1>5 DEF Segments
<1>. QED  BY <1>2, <1>6 DEF Segs

LEMMA KeptGrows ==
  ASSUME pattern \in Segs, start_at \in Nat, Rises(pattern),
         NEW n \in Nat, NEW t \in Nat, NEW u \in Nat, t <= u, NEW e \in Nat, NEW f \in Nat, e <= f, Kept(n, t, e)
  PROVE  Kept(n, u, f)
<1>. DEFINE m == Minute
            k == n * Slack
            x == Hits(pattern, t)
            y == Hits(pattern, u)
            z == Hits(pattern, start_at)
<1>1. m \in Nat /\ k \in Int
  BY MinuteIs, SlackIs
<1>2. x \in Int /\ x <= y
  BY HitsGrow
<1>3. y \in Int /\ z \in Int
  <2>1. u <= u /\ start_at <= start_at /\ u \in Int /\ start_at \in Int
    OBVIOUS
  <2>. QED  BY <2>1, HitsGrow
<1>4. m * e <= m * f /\ m * e \in Int /\ m * f \in Int /\ m * n \in Int
  BY <1>1, ProductsGrow
<1>5. 2 * m * n = 2 * (m * n) /\ 2 * m * e = 2 * (m * e) /\ 2 * m * f = 2 * (m * f)
  BY <1>1
<1>6. 2 * m * n <= x - z + 2 * m * e + k
  BY DEF Kept
<1>. DEFINE a == m * n
            b == m * e
            c == m * f
<1>. HIDE DEF k, x, y, z
<1>7. a \in Int /\ b \in Int /\ c \in Int /\ b <= c /\ 2 * a <= x - z + 2 * b + k
  BY <1>4, <1>5, <1>6
<1>8. 2 * a <= y - z + 2 * c + k
  <2>. HIDE DEF a, b, c
  <2>. QED  BY <1>1, <1>2, <1>3, <1>7
<1>9. 2 * m * n <= y - z + 2 * m * f + k
  BY <1>5, <1>8
<1>. QED  BY <1>9 DEF Kept, k, y, z

\* What is kept with one more start is kept without it.
LEMMA KeptWithout ==
  ASSUME pattern \in Segs, start_at \in Nat, Rises(pattern),
         NEW n \in Nat, NEW t \in Nat, start_at <= t, NEW e \in Nat, Kept(n + 1, t, e)
  PROVE  Kept(n, t, e)
<1>. DEFINE m == Minute
            k == Slack
            x == Hits(pattern, t)
            z == Hits(pattern, start_at)
            g == x - z + 2 * m * e
            d == 2 * m - k
<1>1. m \in Nat /\ k \in Nat
  BY MinuteIs, SlackIs
<1>2. x \in Int /\ z \in Int /\ z <= x
  <2>1. t <= t /\ t \in Int /\ start_at \in Int
    OBVIOUS
  <2>. QED  BY <2>1, HitsGrow
<1>3. 2 * m * (n + 1) <= g + (n + 1) * k
  BY DEF Kept
<1>. HIDE DEF m, k, x, z
<1>4. m * e \in Nat /\ 2 * m * e = 2 * (m * e)
  BY <1>1
<1>5. g \in Int /\ g >= 0 /\ d \in Int
  BY <1>1, <1>2, <1>4
<1>6. d * (n + 1) = 2 * m * (n + 1) - (n + 1) * k /\ d * n = 2 * m * n - n * k
  BY <1>1
<1>7. 2 * m * (n + 1) \in Int /\ (n + 1) * k \in Int /\ 2 * m * n \in Int /\ n * k \in Int
  BY <1>1
<1>. HIDE DEF g, d
<1>8. d * (n + 1) <= g
  BY <1>3, <1>5, <1>6, <1>7
<1>9. d * n <= g
  <2>1. CASE d >= 0
    <3>1. d * (n + 1) = d * n + d /\ d * n \in Int
      BY <1>5
    <3>. QED  BY <1>5, <1>8, <2>1, <3>1
  <2>2. CASE d < 0
    <3>1. PICK h \in Nat : d = -h
      <4>1. -d \in Nat /\ d = -(-d)
        BY <1>5, <2>2
      <4>. QED  BY <4>1
    <3>2. d * n = -(h * n) /\ h * n \in Nat
      BY <3>1
    <3>. QED  BY <1>5, <3>2
  <2>. QED  BY <1>5, <2>1, <2>2
<1>10. 2 * m * n <= g + n * k
  BY <1>5, <1>6, <1>7, <1>9
<1>. QED  BY <1>10 DEF Kept, g, m, k, x, z

LEMMA LeftByIs ==
  ASSUME pattern \in Segs, NEW c \in 1 .. Len(pattern), NEW t \in Nat
  PROVE  LeftBy(c, t) \in 0 .. Len(pattern)
BY SegsAre DEF LeftBy
\* The state st, whose following start is the n-th and not before `last`.
Ready(st, n, last) ==
  /\ st \in StateType /\ (st.panics => PauseInside)
  /\ \E c \in 1 .. Len(pattern) :
       /\ In(c, st.current, st.rest, st.offset)
       /\ ~st.panics /\ st.following # None =>
            /\ st.following \in Nat /\ last <= st.following /\ st.offset <= st.following
            /\ Rises(pattern) => Kept(n, st.following, LeftBy(c, st.following))

LEMMA GiveKeeps ==
  ASSUME TypeInv, pattern \in Segs, stream \in {"new", "idle"},
         NEW st, NEW last \in Nat, last = (IF stream = "new" THEN now ELSE next_start), start_at <= last,
         Ready(st, hits + 1, last), Rises(pattern) => Kept(hits, last, Len(pattern)),
         NEW polled \in Nat, start_at <= polled, now' = polled,
         Give(st, polled), UNCHANGED <<hits, pattern, start_at>>
  PROVE  LoadInv'
<1>1. /\ \E p \in Patterns, peak \in PeakLoads : pattern = Segments(p, peak)
      /\ start_at \in Nat /\ hits \in Nat
  BY DEF TypeInv
<1>2. /\ pattern' = pattern /\ start_at' = start_at /\ hits' = hits
      /\ PauseInside' = PauseInside
  BY DEF PauseInside
<1>3. st \in StateType /\ (st.panics => PauseInside)
  BY DEF Ready
<1>4. CASE st.panics
  <2>1. stream' = "panicked" /\ PauseInside
    BY <1>3, <1>4 DEF Give
  <2>2. TypeInv'
    BY <1>1, <1>2, <2>1 DEF TypeInv
  <2>3. InPlace' /\ InTime'
    BY <2>1 DEF InPlace, InTime
  <2>. QED  BY <2>2, <2>3 DEF LoadInv
<1>5. CASE ~st.panics /\ st.following = None
  <2>1. stream' = "ended"
    BY <1>5 DEF Give
  <2>2. TypeInv'
    BY <1>1, <1>2, <2>1 DEF TypeInv
  <2>3. InPlace' /\ InTime'
    BY <2>1 DEF InPlace, InTime
  <2>. QED  BY <2>2, <2>3 DEF LoadInv
<1>6. CASE ~st.panics /\ st.following # None
  <2>. DEFINE f == st.following
              next == NextStart(st, f)
  <2>1. PICK c \in 1 .. Len(pattern) :
          /\ In(c, st.current, st.rest, st.offset) /\ f \in Nat /\ last <= f /\ st.offset <= f
          /\ Rises(pattern) => Kept(hits + 1, f, LeftBy(c, f))
    BY <1>6 DEF Ready
  <2>2. StepsOn(next, c, f)
    BY <1>1, <1>3, <1>6, <2>1, NextStartIs
  <2>3. IF next.panics THEN stream' = "panicked" /\ Keep(next) ELSE Emit(st, polled) /\ Keep(next)
    BY <1>6 DEF Give
  <2>. HIDE DEF next
  <2>4. CASE next.panics
    <3>1. stream' = "panicked" /\ PauseInside
      BY <2>2, <2>3, <2>4 DEF StepsOn
    <3>2. TypeInv'
      BY <1>1, <1>2, <3>1 DEF TypeInv
    <3>3. InPlace' /\ InTime'
      BY <3>1 DEF InPlace, InTime
    <3>. QED  BY <3>2, <3>3 DEF LoadInv
  <2>5. CASE ~next.panics
    <3>1. stream' = "sleeping" /\ next_start' = f
      BY <2>3, <2>5 DEF Emit
    <3>2. /\ current_segment' = next.current /\ segments' = next.rest /\ x_offset' = next.offset
          /\ following_start' = next.following
      BY <2>3, <2>5 DEF Keep
    <3>3. trigger' \in Nat /\ last <= trigger' /\ polled <= trigger'
      <4>. DEFINE latency == IF polled > last THEN polled - last ELSE 0
      <4>1. trigger' = IF f - latency > polled THEN f - latency ELSE polled
        BY <2>3, <2>5 DEF Emit
      <4>2. CASE polled > last
        BY <2>1, <4>1, <4>2
      <4>3. CASE ~(polled > last)
        BY <2>1, <4>1, <4>3
      <4>. QED  BY <4>2, <4>3
    <3>4. PICK b \in 1 .. Len(pattern) :
            /\ In(b, next.current, next.rest, next.offset)
            /\ next.following # None =>
                 /\ next.following \in Nat /\ f <= next.following /\ next.offset <= next.following
                 /\ Rises(pattern) => \A n \in Nat : Kept(n, f, LeftBy(c, f)) => Kept(n + 1, next.following, LeftBy(b, next.following))
      BY <2>2, <2>5 DEF StepsOn
    <3>5. next.following \in Nat \cup {None}
      BY <2>2 DEF StepsOn, StateType
    <3>6. TypeInv'
      <4>1. next_start' \in Nat /\ start_at' <= next_start'
        BY <1>1, <1>2, <2>1, <3>1
      <4>2. following_start' = None \/ (following_start' \in Nat /\ next_start' <= following_start')
        BY <3>1, <3>2, <3>4, <3>5
      <4>3. trigger' \in Nat /\ start_at' <= trigger'
        BY <1>1, <1>2, <3>3
      <4>. QED  BY <1>1, <1>2, <3>1, <4>1, <4>2, <4>3 DEF TypeInv
    <3>7. InPlace'
      <4>1. In(b, current_segment, segments, x_offset)'
        BY <1>2, <3>2, <3>4 DEF In
      <4>2. ASSUME following_start' # None
            PROVE  /\ x_offset' <= following_start'
                   /\ Rises(pattern') => Kept(hits + 2, following_start, LeftBy(b, following_start))'
        <5>1. /\ next.following \in Nat /\ next.offset <= next.following
              /\ Rises(pattern) => \A n \in Nat : Kept(n, f, LeftBy(c, f)) => Kept(n + 1, next.following, LeftBy(b, next.following))
          BY <3>2, <3>4, <4>2
        <5>2. Rises(pattern) => Kept(hits + 2, next.following, LeftBy(b, next.following))
          <6>1. hits + 1 \in Nat /\ (hits + 1) + 1 = hits + 2
            BY <1>1
          <6>. QED  BY <2>1, <5>1, <6>1
        <5>3. LeftBy(b, following_start)' = LeftBy(b, next.following)
          BY <1>2, <3>2 DEF LeftBy
        <5>. HIDE DEF next
        <5>4. Kept(hits + 2, following_start, LeftBy(b, following_start))' = Kept(hits + 2, next.following, LeftBy(b, next.following))
          BY <1>2, <3>2, <5>3 DEF Kept, Slack
        <5>. QED  BY <1>2, <3>2, <5>1, <5>2, <5>4
      <4>. QED  BY <1>2, <3>1, <4>1, <4>2 DEF InPlace
    <3>8. InTime'
      <4>1. SUFFICES ASSUME Rises(pattern)
                     PROVE  Kept(hits, trigger, Len(pattern))' /\ Kept(hits + 1, next_start, Len(pattern))'
        BY <1>2, <3>1 DEF InTime
      <4>2. Len(pattern) \in Nat /\ Len(pattern) <= Len(pattern)
        BY SegsAre
      <4>3. Kept(hits, trigger', Len(pattern))
        BY <1>1, <3>3, <4>1, <4>2, KeptGrows
      <4>4. LeftBy(c, f) \in Nat /\ LeftBy(c, f) <= Len(pattern)
        <5>1. f \in Nat
          BY <2>1
        <5>. HIDE DEF f
        <5>2. LeftBy(c, f) \in 0 .. Len(pattern)
          BY <5>1, LeftByIs
        <5>. QED  BY <4>2, <5>2
      <4>5. hits + 1 \in Nat /\ f <= f
        BY <1>1, <2>1
      <4>. HIDE DEF f
      <4>6. Kept(hits + 1, f, Len(pattern))
        BY <1>1, <2>1, <4>1, <4>2, <4>4, <4>5, KeptGrows
      <4>7. Kept(hits, trigger, Len(pattern))' = Kept(hits, trigger', Len(pattern))
        BY <1>2 DEF Kept, Slack
      <4>8. Kept(hits + 1, next_start, Len(pattern))' = Kept(hits + 1, f, Len(pattern))
        BY <1>2, <3>1 DEF Kept, Slack
      <4>. QED  BY <4>3, <4>6, <4>7, <4>8
    <3>. QED  BY <3>6, <3>7, <3>8 DEF LoadInv
  <2>. QED  BY <2>4, <2>5
<1>. QED  BY <1>4, <1>5, <1>6
LEMMA PatternIs ==
  ASSUME TypeInv
  PROVE  pattern \in Segs
BY SegmentsAre DEF TypeInv

LEMMA InitIs == Init => LoadInv
<1>. SUFFICES ASSUME Init PROVE LoadInv
  OBVIOUS
<1>1. /\ \E p \in Patterns, peak \in PeakLoads : pattern = Segments(p, peak)
      /\ start_at \in Nat /\ now = start_at /\ stream = "new" /\ hits = 0 /\ segments = pattern
  BY TimeAssumption DEF Init
<1>2. TypeInv
  BY <1>1 DEF TypeInv
<1>3. InPlace /\ InTime
  BY <1>1 DEF InPlace, InTime
<1>. QED  BY <1>2, <1>3 DEF LoadInv

LEMMA FirstPollKeeps == LoadInv /\ FirstPoll => LoadInv'
<1>. SUFFICES ASSUME LoadInv, FirstPoll PROVE LoadInv'
  OBVIOUS
<1>1. TypeInv /\ pattern \in Segs
  BY PatternIs DEF LoadInv
<1>2. stream = "new" /\ segments = pattern /\ now = start_at /\ hits = 0 /\ start_at \in Nat
  BY <1>1 DEF TypeInv, FirstPoll
<1>3. UNCHANGED <<now, hits, pattern, start_at>>
  BY DEF FirstPoll
<1>4. CASE segments = <<>>
  <2>1. stream' = "ended"
    BY <1>4 DEF FirstPoll
  <2>2. TypeInv'
    BY <1>1, <1>2, <1>3, <2>1 DEF TypeInv
  <2>3. InPlace' /\ InTime'
    BY <2>1 DEF InPlace, InTime
  <2>. QED  BY <2>2, <2>3 DEF LoadInv
<1>5. CASE segments # <<>>
  <2>. DEFINE s0 == [current |-> Head(segments), rest |-> Tail(segments), offset |-> 0, following |-> None, panics |-> FALSE]
  <2>1. 1 \in 1 .. Len(pattern) /\ Len(pattern) \in 1 .. Len(pattern)
    <3>1. Len(pattern) # 0
      BY <1>1, <1>2, <1>5, EmptySeq DEF Segs
    <3>. QED  BY <1>1, <3>1, SegsAre
  <2>2. Head(pattern) = pattern[1] /\ Tail(pattern) = SubSeq(pattern, 1 + 1, Len(pattern))
    <3>1. pattern \in Seq(SegmentType)
      BY <1>1 DEF Segs
    <3>2. SubSeq(pattern, 1, Len(pattern)) = pattern
      BY <3>1, SubSeqFull
    <3>3. /\ Head(SubSeq(pattern, 1, Len(pattern))) = pattern[1]
          /\ Tail(SubSeq(pattern, 1, Len(pattern))) = SubSeq(pattern, 1 + 1, Len(pattern))
      BY ONLY <2>1, <3>1, HeadTailOfSubSeq
    <3>. QED  BY <3>2, <3>3
  <2>3. EndOf(pattern, 1 - 1) = 0
    BY <1>1, EndOfIs
  <2>4. s0 \in StateType /\ In(1, s0.current, s0.rest, s0.offset) /\ ~s0.panics /\ s0.offset <= start_at
    <3>1. pattern[1] \in SegmentType
      BY <1>1, <2>1, SegsAre
    <3>2. SubSeq(pattern, 1 + 1, Len(pattern)) \in Segs
      BY <1>1, <2>1, SegsAre DEF Segs
    <3>3. s0 \in StateType
      BY <1>2, <2>2, <3>1, <3>2 DEF StateType
    <3>4. In(1, s0.current, s0.rest, s0.offset)
      BY <1>2, <2>1, <2>2, <2>3 DEF In
    <3>. QED  BY <1>2, <3>3, <3>4
  <2>5. SetUp = NextStart(s0, start_at)
    BY <1>2 DEF SetUp
  <2>. HIDE DEF s0
  <2>6. StepsOn(SetUp, 1, start_at)
    BY <1>1, <1>2, <2>1, <2>4, <2>5, NextStartIs
  <2>7. ASSUME Rises(pattern), NEW e \in Nat PROVE Kept(0, start_at, e)
    <3>. DEFINE m == Minute
                z == Hits(pattern, start_at)
    <3>1. m * e \in Nat /\ 2 * m * e = 2 * (m * e) /\ 2 * m * 0 = 0
      BY MinuteIs
    <3>2. 0 * Slack = 0
      BY <1>1, SlackIs
    <3>3. z \in Int
      <4>1. start_at \in Int /\ start_at <= start_at
        BY <1>2
      <4>. QED  BY <1>1, <2>7, <4>1, HitsGrow
    <3>. HIDE DEF m, z
    <3>4. 2 * m * 0 <= z - z + 2 * m * e + 0 * Slack
      BY <3>1, <3>2, <3>3
    <3>. QED  BY <3>4 DEF Kept, m, z
  <2>8. Rises(pattern) => Kept(0, start_at, Len(pattern)) /\ Kept(0, start_at, LeftBy(1, start_at))
    <3>1. Len(pattern) \in Nat /\ LeftBy(1, start_at) \in Nat
      BY <1>1, <1>2, <2>1, SegsAre, LeftByIs
    <3>. QED  BY <2>7, <3>1
  <2>9. Ready(SetUp, hits + 1, start_at)
    <3>1. hits + 1 = 0 + 1
      BY <1>2
    <3>. QED  BY <2>6, <2>8, <3>1 DEF StepsOn, Ready
  <2>10. Give(SetUp, start_at)
    BY <1>2, <1>5 DEF FirstPoll
  <2>. DEFINE st == SetUp
  <2>. HIDE DEF st
  <2>11. Ready(st, hits + 1, start_at) /\ Give(st, start_at)
    BY <2>9, <2>10 DEF st
  <2>12. /\ stream \in {"new", "idle"} /\ start_at = (IF stream = "new" THEN now ELSE next_start) /\ start_at <= start_at
         /\ Rises(pattern) => Kept(hits, start_at, Len(pattern))
         /\ now' = start_at /\ UNCHANGED <<hits, pattern, start_at>>
    BY <1>2, <1>3, <2>8
  <2>. QED  BY <1>1, <1>2, <2>11, <2>12, GiveKeeps
<1>. QED  BY <1>4, <1>5

LEMMA PollKeeps ==
  ASSUME LoadInv, NEW late \in Delays, Poll(late)
  PROVE  LoadInv'
<1>1. TypeInv /\ pattern \in Segs /\ InPlace /\ InTime
  BY PatternIs DEF LoadInv
<1>2. /\ stream = "idle" /\ now' = now + late /\ Give(Current, now + late) /\ UNCHANGED <<hits, pattern, start_at>>
      /\ late \in Nat
  BY TimeAssumption DEF Poll
<1>3. /\ start_at \in Nat /\ now \in Nat /\ hits \in Nat /\ start_at <= now
      /\ next_start \in Nat /\ start_at <= next_start
      /\ following_start = None \/ (following_start \in Nat /\ next_start <= following_start)
  BY <1>1, <1>2 DEF TypeInv
<1>4. now + late \in Nat /\ start_at <= now + late
  BY <1>2, <1>3
<1>5. PICK c \in 1 .. Len(pattern) :
        /\ In(c, current_segment, segments, x_offset)
        /\ following_start # None =>
             /\ x_offset <= following_start
             /\ Rises(pattern) => Kept(hits + 1, following_start, LeftBy(c, following_start))
  BY <1>1, <1>2 DEF InPlace
<1>6. current_segment \in SegmentType /\ segments \in Segs /\ x_offset \in Nat
  <2>1. Len(pattern) \in Nat /\ pattern[c] \in SegmentType
    BY <1>1, SegsAre
  <2>2. SubSeq(pattern, c + 1, Len(pattern)) \in Seq(SegmentType)
    <3>1. c + 1 \in Int /\ \A i \in c + 1 .. Len(pattern) : pattern[i] \in SegmentType
      BY <1>1, <2>1, SegsAre
    <3>. QED  BY <2>1, <3>1, SubSeqProperties
  <2>3. EndOf(pattern, c - 1) \in Nat
    <3>1. c - 1 \in 0 .. Len(pattern)
      BY <2>1
    <3>. QED  BY <1>1, <3>1, EndOfIs
  <2>. QED  BY <1>5, <2>1, <2>2, <2>3 DEF In, Segs
<1>7. Ready(Current, hits + 1, next_start)
  BY <1>3, <1>5, <1>6 DEF Ready, StateType, Current
<1>8. Rises(pattern) => Kept(hits, next_start, Len(pattern))
  BY <1>1, <1>2 DEF InTime
<1>. DEFINE st == Current
            polled == now + late
<1>9. Ready(st, hits + 1, next_start) /\ Give(st, polled) /\ polled \in Nat /\ start_at <= polled /\ now' = polled
  BY <1>2, <1>4, <1>7
<1>. HIDE DEF st, polled
<1>. QED  BY <1>1, <1>2, <1>3, <1>8, <1>9, GiveKeeps

LEMMA FireKeeps ==
  ASSUME LoadInv, NEW late \in Delays, Fire(late)
  PROVE  LoadInv'
<1>1. TypeInv /\ pattern \in Segs /\ InPlace /\ InTime
  BY PatternIs DEF LoadInv
<1>2. /\ stream = "sleeping" /\ stream' = "idle" /\ now' = trigger + late
      /\ hits' = (IF hits < MaxHits THEN hits + 1 ELSE hits)
      /\ UNCHANGED <<state, pattern, start_at>> /\ late \in Nat
  BY TimeAssumption DEF Fire
<1>3. /\ start_at \in Nat /\ hits \in Nat /\ trigger \in Nat /\ start_at <= trigger
      /\ next_start \in Nat /\ start_at <= next_start
      /\ following_start = None \/ (following_start \in Nat /\ next_start <= following_start)
  BY <1>1, <1>2 DEF TypeInv
<1>4. now' \in Nat /\ start_at <= now' /\ trigger <= now'
  BY <1>2, <1>3
<1>5. hits' \in {hits, hits + 1}
  BY <1>2
<1>6. \E p \in Patterns, peak \in PeakLoads : pattern = Segments(p, peak)
  BY <1>1 DEF TypeInv
<1>7. TypeInv'
  BY <1>2, <1>3, <1>4, <1>5, <1>6 DEF TypeInv, state
<1>8. ASSUME Rises(pattern), NEW t \in Nat, start_at <= t, NEW e \in Nat, NEW n \in Nat, Kept(n + hits + 1, t, e)
      PROVE  Kept(n + hits', t, e)
  <2>1. CASE hits' = hits + 1
    <3>1. n + hits' = n + hits + 1
      BY <1>3, <2>1
    <3>. QED  BY <1>8, <3>1
  <2>2. CASE hits' = hits
    <3>. DEFINE k == n + hits
    <3>1. k \in Nat /\ Kept(k + 1, t, e)
      BY <1>3, <1>8
    <3>. HIDE DEF k
    <3>2. Kept(k, t, e)
      BY <1>1, <1>3, <1>8, <3>1, KeptWithout
    <3>. QED  BY <2>2, <3>2 DEF k
  <2>. QED  BY <1>5, <2>1, <2>2
<1>9. InPlace'
  <2>1. PICK c \in 1 .. Len(pattern) :
          /\ In(c, current_segment, segments, x_offset)
          /\ following_start # None =>
               /\ x_offset <= following_start
               /\ Rises(pattern) => Kept(hits + 2, following_start, LeftBy(c, following_start))
    BY <1>1, <1>2 DEF InPlace
  <2>2. In(c, current_segment, segments, x_offset)'
    BY <1>2, <2>1 DEF In, state
  <2>3. ASSUME following_start # None, Rises(pattern)
        PROVE  Kept(hits + 1, following_start, LeftBy(c, following_start))'
    <3>1. following_start \in Nat /\ start_at <= following_start
      BY <1>3, <2>3
    <3>2. LeftBy(c, following_start) \in Nat
      BY <1>1, <3>1, LeftByIs, SegsAre
    <3>3. Kept(1 + hits + 1, following_start, LeftBy(c, following_start))
      <4>1. 1 + hits + 1 = hits + 2
        BY <1>3
      <4>. QED  BY <2>1, <2>3, <4>1
    <3>4. Kept(1 + hits', following_start, LeftBy(c, following_start))
      BY <1>8, <2>3, <3>1, <3>2, <3>3
    <3>5. 1 + hits' = hits' + 1
      BY <1>3, <1>5
    <3>6. Kept(hits' + 1, following_start, LeftBy(c, following_start))
      BY <3>4, <3>5
    <3>7. LeftBy(c, following_start)' = LeftBy(c, following_start)
      BY <1>2 DEF LeftBy, state
    <3>. DEFINE e == LeftBy(c, following_start)
    <3>8. e' = e /\ Kept(hits' + 1, following_start, e)
      BY <3>6, <3>7
    <3>. HIDE DEF e
    <3>9. Kept(hits + 1, following_start, e)'
      BY <1>2, <3>8 DEF Kept, Slack, state
    <3>. QED  BY <3>9 DEF e
  <2>. QED  BY <1>2, <2>1, <2>2, <2>3 DEF InPlace, state
<1>10. InTime'
  <2>1. SUFFICES ASSUME Rises(pattern) PROVE Kept(hits, next_start, Len(pattern))' /\ NoExtraLoad'
    BY <1>2 DEF InTime
  <2>2. Len(pattern) \in Nat /\ Len(pattern) <= Len(pattern)
    BY <1>1, SegsAre
  <2>3. Kept(hits, trigger, Len(pattern)) /\ Kept(hits + 1, next_start, Len(pattern))
    BY <1>1, <1>2, <2>1 DEF InTime
  <2>4. Kept(hits, next_start, Len(pattern))'
    <3>1. 0 + hits + 1 = hits + 1 /\ 0 + hits' = hits'
      <4>1. \A i \in Nat : 0 + i + 1 = i + 1 /\ 0 + i = i
        OBVIOUS
      <4>2. hits \in Nat /\ hits' \in Nat
        BY <1>3, <1>5
      <4>. QED  BY <4>1, <4>2
    <3>2. Kept(0 + hits + 1, next_start, Len(pattern))
      BY <2>3, <3>1
    <3>3. Kept(0 + hits', next_start, Len(pattern))
      BY <1>3, <1>8, <2>1, <2>2, <3>2
    <3>4. Kept(hits', next_start, Len(pattern))
      BY <3>1, <3>3
    <3>. QED  BY <1>2, <3>4 DEF Kept, Slack, state
  <2>5. NoExtraLoad'
    <3>. DEFINE m == Minute
                k == Slack
                l == Len(pattern)
                x == Hits(pattern, now')
                z == Hits(pattern, start_at)
    <3>1. Kept(hits, now', l)
      BY <1>1, <1>3, <1>4, <2>1, <2>2, <2>3, KeptGrows
    <3>2. 2 * m * hits <= x - z + 2 * m * l + hits * k
      BY <3>1 DEF Kept
    <3>3. m \in Nat /\ k \in Nat /\ l \in Nat
      BY <1>1, <2>2, MinuteIs, SlackIs
    <3>4. x \in Int /\ z \in Int
      <4>1. now' \in Int /\ start_at \in Int /\ now' <= now' /\ start_at <= start_at
        BY <1>3, <1>4
      <4>. QED  BY <1>1, <2>1, <4>1, HitsGrow
    <3>. HIDE DEF m, k, l, x, z
    <3>5. m * hits \in Int /\ m * l \in Int /\ hits * k \in Int
      BY <1>3, <3>3
    <3>6. /\ 2 * m * hits = 2 * (m * hits) /\ 2 * m * l = 2 * (m * l) /\ 2 * m * (hits + 1) = 2 * (m * hits) + 2 * m
          /\ 2 * m * (l + 1) = 2 * (m * l) + 2 * m /\ (hits + 1) * k = hits * k + k
      BY <1>3, <3>3
    <3>7. 2 * m * hits' <= x - z + 2 * m * (l + 1) + hits' * k
      <4>. DEFINE a == m * hits
                  b == m * l
                  c == hits * k
      <4>1. a \in Int /\ b \in Int /\ c \in Int /\ 2 * a <= x - z + 2 * b + c
        BY <3>2, <3>5, <3>6
      <4>2. 2 * a + 2 * m <= x - z + (2 * b + 2 * m) + (c + k) /\ 2 * a <= x - z + (2 * b + 2 * m) + c
        <5>. HIDE DEF a, b, c
        <5>. QED  BY <3>3, <3>4, <4>1
      <4>3. CASE hits' = hits + 1
        BY <3>6, <4>2, <4>3
      <4>4. CASE hits' = hits
        BY <3>6, <4>2, <4>4
      <4>. QED  BY <1>5, <4>3, <4>4
    <3>. QED  BY <1>2, <3>7 DEF NoExtraLoad, m, k, l, x, z, Slack
  <2>. QED  BY <2>4, <2>5
<1>. QED  BY <1>7, <1>9, <1>10 DEF LoadInv

LEMMA NextKeeps == LoadInv /\ [Next]_vars => LoadInv'
<1>. SUFFICES ASSUME LoadInv, [Next]_vars PROVE LoadInv'
  OBVIOUS
<1>1. CASE FirstPoll
  BY <1>1, FirstPollKeeps
<1>2. ASSUME NEW late \in Delays, Poll(late) \/ Fire(late) PROVE LoadInv'
  BY <1>2, PollKeeps, FireKeeps
<1>3. CASE UNCHANGED vars
  <2>1. TypeInv'
    BY <1>3 DEF LoadInv, TypeInv, PauseInside, vars, state
  <2>2. InPlace'
    BY <1>3 DEF LoadInv, InPlace, In, Kept, Slack, LeftBy, vars, state
  <2>3. InTime'
    BY <1>3 DEF LoadInv, InTime, Kept, Slack, NoExtraLoad, vars, state
  <2>. QED  BY <2>1, <2>2, <2>3 DEF LoadInv
<1>. QED  BY <1>1, <1>2, <1>3 DEF Next

LEMMA LoadInvHolds == Spec => []LoadInv
<1>1. Init => LoadInv
  BY InitIs
<1>2. LoadInv /\ [Next]_vars => LoadInv'
  BY NextKeeps
<1>. QED  BY <1>1, <1>2, PTL DEF Spec

\* No segment that falls: then there are never more requests than the load pattern has hits, but for one and
\* one for each of its segments and the rounding of the waits to ticks, however late the endpoint polls
\* and the timer fires and however many hits there are (calculate_next_start and the poll of ModInterval's
\* stream, which takes from a sleep what the poll was late).
THEOREM NeverExtraLoad == Spec => [](Rises(pattern) => NoExtraLoad)
<1>1. LoadInv => (Rises(pattern) => NoExtraLoad)
  BY DEF LoadInv, InTime, NoExtraLoad
<1>. QED  BY <1>1, LoadInvHolds, PTL

\* Any pattern, falling segments too: the subtraction of what is left of a segment underflows only where
\* a segment without hits lies between two others.
THEOREM PanicsOnlyInPauses == Spec => [](stream = "panicked" => PauseInside)
<1>1. LoadInv => (stream = "panicked" => PauseInside)
  BY DEF LoadInv, TypeInv
<1>. QED  BY <1>1, LoadInvHolds, PTL
===============================================================================
