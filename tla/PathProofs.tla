----------------------------- MODULE PathProofs -----------------------------
(***************************************************************************)
(* What becomes of a path of the configuration file, for every path, every *)
(* environment and every home directory.                                   *)
(*                                                                         *)
(* expand_path goes from dollar sign to dollar sign and Meant from         *)
(* character to character; after each round of the loop what is put out is *)
(* what the characters before its rest contribute.                         *)
(***************************************************************************)
EXTENDS TextProofs

(***************************************************************************)
(* The parts of a path                                                     *)
(***************************************************************************)
LEMMA RestIs ==
    ASSUME NEW C, NEW s \in Seq(C), NEW j \in 1..(Len(s) + 1)
    PROVE  /\ Path!From(s, j) \in Seq(C) /\ Len(Path!From(s, j)) = Len(s) - j + 1
           /\ \A n \in 1..(Len(s) - j + 1) : Path!From(s, j)[n] = s[j + n - 1]
<1>1. j \in Nat \ {0} /\ Len(s) \in (j - 1)..Len(s)
  BY LenProperties
<1> QED BY <1>1, PartOf DEF Path!From

LEMMA Associative ==
    ASSUME NEW C, NEW x \in Seq(C), NEW y \in Seq(C), NEW z \in Seq(C),
           NEW v, v = x \o y, NEW w, w = y \o z
    PROVE  v \o z = x \o w
BY ConcatAssociative, SMTT(30)

\* Find finds the first one.
LEMMA FindIs ==
    ASSUME NEW C, NEW s \in Seq(C), NEW c
    PROVE  \/ Path!Find(s, c) = 0 /\ \A j \in 1..Len(s) : s[j] # c
           \/ /\ Path!Find(s, c) \in 1..Len(s) /\ s[Path!Find(s, c)] = c
              /\ \A k \in 1..(Path!Find(s, c) - 1) : s[k] # c
<1> DEFINE T == {j \in 1..Len(s) : s[j] = c}
<1>1. Len(s) \in Nat /\ DOMAIN s = 1..Len(s)
  BY LenProperties
<1>2. CASE T = {}
  BY <1>1, <1>2 DEF Path!Find
<1>3. CASE T # {}
  <2>1. T \in SUBSET Nat
    BY <1>1
  <2>2. PICK j \in T : \A k \in T : j <= k
    <3> HIDE DEF T
    <3> QED BY <1>3, <2>1, LeastNat
  <2>3. j \in 1..Len(s) /\ s[j] = c /\ \A k \in 1..(j - 1) : s[k] # c
    BY <1>1, <2>2
  <2>4. \E x \in DOMAIN s : s[x] = c /\ \A k \in 1..(x - 1) : s[k] # c
    BY <1>1, <2>3
  <2>5. \E x \in DOMAIN s : s[x] = c
    BY <2>4
  <2>6. Path!Find(s, c) = CHOOSE x \in DOMAIN s : s[x] = c /\ \A k \in 1..(x - 1) : s[k] # c
    BY <2>5 DEF Path!Find
  <2> QED BY <1>1, <2>4, <2>6
<1> QED BY <1>2, <1>3

\* NameLength is the length of the longest name at the start.
LEMMA NameLengthIs ==
    ASSUME NEW C, NEW s \in Seq(C)
    PROVE  /\ Path!NameLength(s) \in 0..Len(s)
           /\ \A j \in 1..Path!NameLength(s) : s[j] \in NameChars
           /\ Path!NameLength(s) < Len(s) => s[Path!NameLength(s) + 1] \notin NameChars
<1> DEFINE T == {n \in 0..Len(s) : n < Len(s) => s[n + 1] \notin NameChars}
<1>1. Len(s) \in Nat
  BY LenProperties
<1>2. Len(s) \in T /\ T \in SUBSET Nat
  BY <1>1
<1>3. PICK n \in T : \A k \in T : n <= k
  <2> HIDE DEF T
  <2> QED BY <1>2, LeastNat
<1>4. n \in 0..Len(s) /\ (n < Len(s) => s[n + 1] \notin NameChars)
  BY <1>3
<1>5. ASSUME NEW j \in 1..n PROVE s[j] \in NameChars
  <2>1. j - 1 \in 0..Len(s) /\ j - 1 < n /\ (j - 1) + 1 = j
    BY <1>1, <1>4
  <2>2. j - 1 \notin T
    <3> HIDE DEF T
    <3> QED BY <1>3, <1>4, <2>1
  <2> QED BY <2>1, <2>2
<1> HIDE DEF T
<1> QED BY <1>4, <1>5 DEF Path!NameLength

\* Without backslashes before it nothing is escaped.
LEMMA NotEscaped ==
    ASSUME NEW C, NEW s \in Seq(C), \A j \in 1..Len(s) : s[j] # Path!Backslash
    PROVE  ~Path!IsCharEscaped(s)
<1>1. Len(s) \in Nat
  BY LenProperties
<1>2. Path!Backslashes(s) = 0
  <2> DEFINE P(n) == /\ \A j \in (Len(s) - n + 1)..Len(s) : s[j] = Path!Backslash
                     /\ n < Len(s) => s[Len(s) - n] # Path!Backslash
  <2>1. 0 \in 0..Len(s) /\ P(0)
    BY <1>1
  <2>2. ASSUME NEW n \in 0..Len(s), P(n) PROVE n = 0
    <3>1. n > 0 => Len(s) \in (Len(s) - n + 1)..Len(s) /\ Len(s) \in 1..Len(s)
      BY <1>1
    <3> QED BY <2>2, <3>1
  <2>3. Path!Backslashes(s) = CHOOSE n \in 0..Len(s) : P(n)
    BY DEF Path!Backslashes
  <2> HIDE DEF P
  <2> QED BY <2>1, <2>2, <2>3
<1> QED BY <1>2 DEF Path!IsCharEscaped

(***************************************************************************)
(* The two ways through it                                                 *)
(***************************************************************************)
\* What the characters up to each one contribute.
Contributes(s, g) ==
    g = [j \in 0..Len(s) |-> IF j = 0 THEN <<>> ELSE g[j - 1] \o Path!Contribution(s, j, 2)]

\* The rounds of the loop.
Rounds(s, f) ==
    f = [n \in 0..Len(s) |-> IF n = 0 THEN Path!Start(s) ELSE Path!Step(s, f[n - 1])]

LEMMA MeantRuns ==
    ASSUME NEW s, Len(s) \in Nat
    PROVE  \E g : Contributes(s, g) /\ Path!Meant(s, 2) = g[Len(s)]
<1> DEFINE Part(m, g) ==
        g = [j \in 0..m |-> IF j = 0 THEN <<>> ELSE g[j - 1] \o Path!Contribution(s, j, 2)]
           S == {m \in 0..Len(s) : \E g : Part(m, g)}
<1>1. 0 \in S
  <2> DEFINE g == [j \in 0..0 |-> <<>>]
  <2>1. Part(0, g)
    OBVIOUS
  <2> HIDE DEF Part, g
  <2> QED BY <2>1
<1>2. ASSUME NEW m \in 1..Len(s), m - 1 \in S PROVE m \in S
  <2>1. PICK g : Part(m - 1, g)
    BY <1>2
  <2> DEFINE h == [j \in 0..m |-> IF j < m THEN g[j] ELSE g[m - 1] \o Path!Contribution(s, m, 2)]
  <2>2. ASSUME NEW j \in 0..m
        PROVE  h[j] = IF j = 0 THEN <<>> ELSE h[j - 1] \o Path!Contribution(s, j, 2)
    <3>1. CASE j = 0
      BY <2>1, <3>1
    <3>2. CASE j \in 1..(m - 1)
      <4>1. j - 1 \in 0..(m - 1) /\ j \in 0..(m - 1) /\ j # 0
        BY <3>2
      <4>2. g[j] = g[j - 1] \o Path!Contribution(s, j, 2)
        BY <2>1, <4>1, Zenon
      <4>3. h[j] = g[j] /\ h[j - 1] = g[j - 1]
        BY <3>2
      <4> QED BY <4>1, <4>2, <4>3
    <3>3. CASE j = m
      BY <2>1, <3>3
    <3> QED BY <3>1, <3>2, <3>3
  <2>3. Part(m, h)
    BY <2>2
  <2> HIDE DEF Part, h
  <2> QED BY <2>3
<1>3. Len(s) \in S
  <2>1. \A m \in 1..Len(s) : m - 1 \in S => m \in S
    BY <1>2
  <2>2. Len(s) \in 0..Len(s)
    OBVIOUS
  <2> HIDE DEF S
  <2> QED BY <1>1, <2>1, <2>2, Induction
<1>4. \E g : Contributes(s, g)
  BY <1>3 DEF Contributes
<1> DEFINE run == CHOOSE g : Contributes(s, g)
<1>5. Contributes(s, run)
  BY <1>4
<1>6. Path!Meant(s, 2) = run[Len(s)]
  BY DEF Path!Meant, Contributes
<1> QED BY <1>5, <1>6

LEMMA ExpansionRuns ==
    ASSUME NEW s, Len(s) \in Nat
    PROVE  \E f : /\ Rounds(s, f)
                  /\ Path!Expansion(s) = f[Len(s)].out \o Path!From(s, f[Len(s)].from)
<1> DEFINE Part(m, f) ==
        f = [n \in 0..m |-> IF n = 0 THEN Path!Start(s) ELSE Path!Step(s, f[n - 1])]
           S == {m \in 0..Len(s) : \E f : Part(m, f)}
<1>1. 0 \in S
  <2> DEFINE f == [n \in 0..0 |-> Path!Start(s)]
  <2>1. Part(0, f)
    OBVIOUS
  <2> HIDE DEF Part, f
  <2> QED BY <2>1
<1>2. ASSUME NEW m \in 1..Len(s), m - 1 \in S PROVE m \in S
  <2>1. PICK f : Part(m - 1, f)
    BY <1>2
  <2> DEFINE h == [n \in 0..m |-> IF n < m THEN f[n] ELSE Path!Step(s, f[m - 1])]
  <2>2. ASSUME NEW n \in 0..m
        PROVE  h[n] = IF n = 0 THEN Path!Start(s) ELSE Path!Step(s, h[n - 1])
    <3>1. CASE n = 0
      BY <2>1, <3>1
    <3>2. CASE n \in 1..(m - 1)
      BY <2>1, <3>2
    <3>3. CASE n = m
      BY <2>1, <3>3
    <3> QED BY <3>1, <3>2, <3>3
  <2>3. Part(m, h)
    BY <2>2
  <2> HIDE DEF Part, h
  <2> QED BY <2>3
<1>3. Len(s) \in S
  <2>1. \A m \in 1..Len(s) : m - 1 \in S => m \in S
    BY <1>2
  <2>2. Len(s) \in 0..Len(s)
    OBVIOUS
  <2> HIDE DEF S
  <2> QED BY <1>1, <2>1, <2>2, Induction
<1>4. \E f : Rounds(s, f)
  BY <1>3 DEF Rounds
<1> DEFINE run == CHOOSE f : Rounds(s, f)
<1>5. Rounds(s, run)
  BY <1>4
<1>6. Path!Expansion(s) = run[Len(s)].out \o Path!From(s, run[Len(s)].from)
  BY DEF Path!Expansion, Rounds
<1> QED BY <1>5, <1>6

\* A part of the rest is one of the path.
LEMMA PartOfRest ==
    ASSUME NEW C, NEW s \in Seq(C), NEW from \in 1..(Len(s) + 1),
           NEW a \in Nat \ {0}, NEW b \in (a - 1)..(Len(s) - from + 1)
    PROVE  SubSeq(Path!From(s, from), a, b) = SubSeq(s, from + a - 1, from + b - 1)
<1>1. Len(s) \in Nat
  BY LenProperties
<1>0. PICK r, i, j : r = Path!From(s, from) /\ i = from + a - 1 /\ j = from + b - 1
  OBVIOUS
<1>2. r \in Seq(C) /\ Len(r) = Len(s) - from + 1 /\ \A n \in 1..Len(r) : r[n] = s[from + n - 1]
  BY <1>0, RestIs, ZenonT(30)
<1>3. PICK x : x = SubSeq(r, a, b)
  OBVIOUS
<1>4. x \in Seq(C) /\ Len(x) = b - a + 1 /\ \A n \in 1..(b - a + 1) : x[n] = r[a + n - 1]
  <2>1. b \in (a - 1)..Len(r)
    BY <1>2
  <2> QED BY <1>2, <1>3, <2>1, PartOf
<1>5. PICK y : y = SubSeq(s, i, j)
  OBVIOUS
<1>6. i \in Nat \ {0} /\ j \in (i - 1)..Len(s) /\ j - i = b - a
  BY <1>0, <1>1
<1>7. y \in Seq(C) /\ Len(y) = j - i + 1 /\ \A n \in 1..(j - i + 1) : y[n] = s[i + n - 1]
  <2>1. /\ SubSeq(s, i, j) \in Seq(C) /\ Len(SubSeq(s, i, j)) = j - i + 1
        /\ \A n \in 1..(j - i + 1) : SubSeq(s, i, j)[n] = s[i + n - 1]
    BY <1>6, PartOf, ZenonT(30)
  <2> QED BY <1>5, <2>1
<1>8. Len(x) = Len(y)
  BY <1>4, <1>6, <1>7
<1>9. ASSUME NEW n \in 1..Len(x) PROVE x[n] = y[n]
  <2>1. n \in 1..(b - a + 1) /\ n \in 1..(j - i + 1) /\ a + n - 1 \in 1..Len(r)
    BY <1>1, <1>2, <1>4, <1>6
  <2>2. x[n] = r[a + n - 1] /\ r[a + n - 1] = s[from + (a + n - 1) - 1]
    BY <1>2, <1>4, <2>1
  <2>3. from + (a + n - 1) - 1 = i + n - 1
    BY <1>0, <1>1
  <2> QED BY <1>7, <2>1, <2>2, <2>3
<1>10. x = y
  BY <1>4, <1>7, <1>8, <1>9, SeqEqual
<1> QED BY <1>0, <1>3, <1>5, <1>10

\* The name after a dollar sign at d.
LEMMA NameAtIs ==
    ASSUME NEW C, NEW s \in Seq(C), NEW d \in 1..Len(s)
    PROVE  /\ Path!NameLength(Path!From(s, d + 1)) \in 0..(Len(s) - d)
           /\ Path!NameAt(s, d) = SubSeq(s, d + 1, d + Path!NameLength(Path!From(s, d + 1)))
           /\ Path!NameAt(s, d) \in Seq(C)
           /\ \A j \in (d + 1)..(d + Path!NameLength(Path!From(s, d + 1))) : s[j] \in NameChars
<1>1. Len(s) \in Nat /\ d + 1 \in 1..(Len(s) + 1)
  BY LenProperties
<1>2. PICK r, n : r = Path!From(s, d + 1) /\ n = Path!NameLength(r)
  OBVIOUS
<1>3. r \in Seq(C) /\ Len(r) = Len(s) - d /\ \A k \in 1..(Len(s) - d) : r[k] = s[d + k]
  <2>1. /\ r \in Seq(C) /\ Len(r) = Len(s) - (d + 1) + 1
        /\ \A k \in 1..(Len(s) - (d + 1) + 1) : r[k] = s[(d + 1) + k - 1]
    BY <1>1, <1>2, RestIs
  <2> QED BY ONLY <1>1, <2>1, d \in 1..Len(s)
<1>4. n \in 0..(Len(s) - d) /\ \A k \in 1..n : r[k] \in NameChars
  BY <1>2, <1>3, NameLengthIs
<1>5. SubSeq(r, 1, n) = SubSeq(s, d + 1, d + n)
  <2>1. n \in (1 - 1)..(Len(s) - (d + 1) + 1)
    BY <1>1, <1>4
  <2>2. 1 \in Nat \ {0} /\ d + 1 = (d + 1) + 1 - 1 /\ d + n = (d + 1) + n - 1
    BY <1>4
  <2>3. \A b \in (1 - 1)..(Len(s) - (d + 1) + 1) :
           SubSeq(r, 1, b) = SubSeq(s, (d + 1) + 1 - 1, (d + 1) + b - 1)
    <3>1. ASSUME NEW b \in (1 - 1)..(Len(s) - (d + 1) + 1)
          PROVE  SubSeq(Path!From(s, d + 1), 1, b) = SubSeq(s, (d + 1) + 1 - 1, (d + 1) + b - 1)
      BY ONLY s \in Seq(C), <1>1, <2>2, b \in (1 - 1)..(Len(s) - (d + 1) + 1),
              PartOfRest, ZenonT(40)
    <3> QED BY <1>2, <3>1
  <2> QED BY ONLY <2>1, <2>2, <2>3, Zenon
<1>6. SubSeq(r, 1, n) \in Seq(C)
  BY <1>3, <1>4, StartOf
<1>7. ASSUME NEW j \in (d + 1)..(d + n) PROVE s[j] \in NameChars
  <2>1. j - d \in 1..n /\ j - d \in 1..(Len(s) - d) /\ d + (j - d) = j
    BY <1>1, <1>4
  <2> QED BY <1>3, <1>4, <2>1
<1> QED BY <1>2, <1>4, <1>5, <1>6, <1>7 DEF Path!NameAt, Path!Upto

(***************************************************************************)
(* What the characters contribute                                          *)
(***************************************************************************)
\* What can be put out is text over C.
TextOver(C) == /\ Home \in Seq(C) /\ Path!Dollar \in C
               /\ \A name \in DOMAIN Variables : Variables[name] \in Seq(C)

LEMMA ContributionType ==
    ASSUME NEW C, TextOver(C), NEW s \in Seq(C), NEW j \in 1..Len(s)
    PROVE  Path!Contribution(s, j, 2) \in Seq(C)
<1>1. Path!NameAt(s, j) \in Seq(C)
  BY NameAtIs
<1>2. Path!Value(Path!NameAt(s, j)) \in Seq(C)
  <2>1. <<Path!Dollar>> \in Seq(C)
    BY DEF TextOver
  <2>2. <<Path!Dollar>> \o Path!NameAt(s, j) \in Seq(C)
    BY <1>1, <2>1, ConcatProperties
  <2> QED BY <2>2 DEF TextOver, Path!Value
<1>3. <<>> \in Seq(C) /\ <<s[j]>> \in Seq(C) /\ Home \in Seq(C)
  BY ElementOfSeq DEF TextOver
<1> QED BY <1>2, <1>3 DEF Path!Contribution

LEMMA ContributesType ==
    ASSUME NEW C, TextOver(C), NEW s \in Seq(C), NEW g, Contributes(s, g)
    PROVE  /\ g[0] = <<>> /\ \A j \in 0..Len(s) : g[j] \in Seq(C)
           /\ \A j \in 1..Len(s) : g[j] = g[j - 1] \o Path!Contribution(s, j, 2)
<1>1. Len(s) \in Nat
  BY LenProperties
<1>2. g[0] = <<>>
  BY <1>1 DEF Contributes
<1>3. ASSUME NEW j \in 1..Len(s) PROVE g[j] = g[j - 1] \o Path!Contribution(s, j, 2)
  <2>1. j \in 0..Len(s) /\ j # 0
    BY <1>1
  <2> QED BY <2>1, Zenon DEF Contributes
<1> DEFINE S == {j \in 0..Len(s) : g[j] \in Seq(C)}
<1>4. 0 \in S
  <2>1. 0 \in 0..Len(s)
    BY <1>1
  <2>2. g[0] \in Seq(C)
    BY <1>2, EmptySeq
  <2> QED BY <2>1, <2>2
<1>5. ASSUME NEW j \in 1..Len(s), j - 1 \in S PROVE j \in S
  <2>1. g[j - 1] \in Seq(C) /\ Path!Contribution(s, j, 2) \in Seq(C)
    BY <1>5, ContributionType
  <2>2. g[j] \in Seq(C)
    BY <1>3, <2>1, ConcatProperties
  <2>3. j \in 0..Len(s)
    BY <1>1
  <2> QED BY <2>2, <2>3
<1>6. \A j \in 0..Len(s) : j \in S
  <2> HIDE DEF S
  <2> QED BY <1>1, <1>4, <1>5, Induction
<1> QED BY <1>2, <1>3, <1>6

\* Characters that stand for themselves are copied.
LEMMA Copied ==
    ASSUME NEW C, TextOver(C), NEW s \in Seq(C), NEW g, Contributes(s, g),
           NEW a \in 1..(Len(s) + 1), NEW b \in (a - 1)..Len(s),
           \A j \in a..b : Path!Contribution(s, j, 2) = <<s[j]>>
    PROVE  g[b] = g[a - 1] \o SubSeq(s, a, b)
<1>1. Len(s) \in Nat
  BY LenProperties
<1>2. /\ \A j \in 0..Len(s) : g[j] \in Seq(C)
      /\ \A j \in 1..Len(s) : g[j] = g[j - 1] \o Path!Contribution(s, j, 2)
  BY ContributesType
<1> DEFINE S == {k \in 0..(b - a + 1) : g[a - 1 + k] = g[a - 1] \o SubSeq(s, a, a - 1 + k)}
<1>3. 0 \in S
  <2>1. SubSeq(s, a, a - 1) = <<>> /\ a - 1 \in 0..Len(s)
    BY <1>1, SubSeqEmpty
  <2>2. a - 1 + 0 = a - 1 /\ 0 \in 0..(b - a + 1)
    BY <1>1
  <2>3. g[a - 1] = g[a - 1] \o SubSeq(s, a, a - 1)
    BY <1>2, <2>1, ConcatEmptySeq
  <2>4. g[a - 1 + 0] = g[a - 1] \o SubSeq(s, a, a - 1 + 0)
    BY <2>2, <2>3, Zenon
  <2> QED BY <2>2, <2>4, Zenon
<1>4. ASSUME NEW k \in 1..(b - a + 1), k - 1 \in S PROVE k \in S
  <2>1. PICK n : n = a - 1 + k
    OBVIOUS
  <2>2. /\ n \in a..b /\ n \in 1..Len(s) /\ n - 1 = a - 1 + (k - 1)
        /\ a \in 1..Len(s) /\ n \in a..Len(s)
        /\ n - 1 \in (a - 1)..Len(s) /\ a \in Nat \ {0} /\ a - 1 \in 0..Len(s)
    BY <1>1, <2>1
  <2>3. PICK x, y, z : x = g[a - 1] /\ y = SubSeq(s, a, n - 1) /\ z = <<s[n]>>
    OBVIOUS
  <2>4. g[n - 1] = x \o y
    BY <1>4, <2>2, <2>3
  <2>5. g[n] = (x \o y) \o z
    BY <1>2, <2>2, <2>3, <2>4
  <2>6. SubSeq(s, a, n) = y \o z
    BY <2>2, <2>3, SubSeqRecursiveSecond
  <2>7. x \in Seq(C) /\ y \in Seq(C) /\ z \in Seq(C)
    <3>1. y \in Seq(C)
      BY <2>2, <2>3, PartOf
    <3>2. s[n] \in C
      BY <2>2, ElementOfSeq
    <3> QED BY <1>2, <2>2, <2>3, <3>1, <3>2
  <2>8. g[n] = x \o SubSeq(s, a, n)
    <3>1. PICK v, w : v = x \o y /\ w = y \o z
      OBVIOUS
    <3>2. v \o z = x \o w
      BY <2>7, <3>1, Associative, SMTT(30)
    <3> QED BY <2>5, <2>6, <3>1, <3>2, Zenon
  <2>9. k \in 0..(b - a + 1)
    BY <1>1
  <2> QED BY <2>1, <2>3, <2>8, <2>9
<1>5. \A k \in 0..(b - a + 1) : k \in S
  <2>1. b - a + 1 \in Nat
    BY <1>1
  <2> HIDE DEF S
  <2> QED BY <1>3, <1>4, <2>1, Induction
<1>6. b - a + 1 \in 0..(b - a + 1) /\ a - 1 + (b - a + 1) = b
  BY <1>1
<1>7. b - a + 1 \in S
  BY <1>5, <1>6
<1>8. PICK k : k = b - a + 1
  OBVIOUS
<1>9. g[a - 1 + k] = g[a - 1] \o SubSeq(s, a, a - 1 + k)
  BY <1>7, <1>8
<1> QED BY <1>6, <1>8, <1>9

\* Characters of a name are left out.
LEMMA Skipped ==
    ASSUME NEW C, TextOver(C), NEW s \in Seq(C), NEW g, Contributes(s, g),
           NEW a \in 0..Len(s), NEW b \in a..Len(s),
           \A j \in (a + 1)..b : Path!Contribution(s, j, 2) = <<>>
    PROVE  g[b] = g[a]
<1>1. Len(s) \in Nat
  BY LenProperties
<1>2. /\ \A j \in 0..Len(s) : g[j] \in Seq(C)
      /\ \A j \in 1..Len(s) : g[j] = g[j - 1] \o Path!Contribution(s, j, 2)
  BY ContributesType
<1> DEFINE S == {k \in 0..(b - a) : g[a + k] = g[a]}
<1>3. 0 \in S
  BY <1>1
<1>4. ASSUME NEW k \in 1..(b - a), k - 1 \in S PROVE k \in S
  <2>1. PICK n : n = a + k
    OBVIOUS
  <2>2. n \in (a + 1)..b /\ n \in 1..Len(s) /\ n - 1 = a + (k - 1) /\ k \in 0..(b - a)
    BY <1>1, <2>1
  <2>3. g[n - 1] = g[a]
    BY <1>4, <2>2
  <2>4. g[n] = g[a] \o <<>>
    BY <1>2, <2>2, <2>3
  <2>5. g[n] = g[a]
    BY <1>2, <2>4, ConcatEmptySeq
  <2> QED BY <2>1, <2>2, <2>5
<1>5. \A k \in 0..(b - a) : k \in S
  <2>1. b - a \in Nat
    BY <1>1
  <2> HIDE DEF S
  <2> QED BY <1>3, <1>4, <2>1, Induction
<1>6. PICK k : k = b - a
  OBVIOUS
<1>7. k \in 0..(b - a) /\ a + k = b
  BY <1>1, <1>6
<1>8. g[a + k] = g[a]
  BY <1>5, <1>7
<1> QED BY <1>7, <1>8
(***************************************************************************)
(* The rounds                                                              *)
(***************************************************************************)
\* The length of the name after the character at d.
NameLen(s, d) == Path!NameLength(Path!From(s, d + 1))

\* What a round does at the dollar sign at p, if the test for an escape is right.
LEMMA RoundIs ==
    ASSUME NEW C, NEW s \in Seq(C), NEW l, l.from \in 1..(Len(s) + 1),
           NEW k \in 1..(Len(s) - l.from + 1), NEW p, p = l.from + k - 1,
           s[p] = Path!Dollar,
           Path!IsCharEscaped(Path!Upto(s, k - 1)) <=> Path!IsCharEscaped(Path!Upto(s, p - 1))
    PROVE  Path!Round(s, l, Path!From(s, l.from), k) =
              IF Path!Named(s, p, 2)
              THEN Path!Loop(p + NameLen(s, p) + 1,
                             l.out \o SubSeq(s, l.from, p - 1) \o Path!Value(Path!NameAt(s, p)))
              ELSE Path!Loop(p + 1, l.out \o SubSeq(s, l.from, p))
<1>1. PICK from, rest, n : from = l.from /\ rest = Path!From(s, from) /\ n = NameLen(s, p)
  OBVIOUS
<1>2. /\ Len(s) \in Nat /\ from \in 1..(Len(s) + 1) /\ k \in 1..(Len(s) - from + 1)
      /\ p = from + k - 1 /\ p \in 1..Len(s) /\ p + 1 \in 1..(Len(s) + 1)
  <2>1. Len(s) \in Nat
    BY LenProperties
  <2>2. from \in 1..(Len(s) + 1) /\ k \in 1..(Len(s) - from + 1) /\ p = from + k - 1
    BY <1>1
  <2> QED BY <2>1, <2>2
<1>3. rest \in Seq(C) /\ Len(rest) = Len(s) - from + 1
  BY <1>1, <1>2, RestIs
<1>4. n \in 0..(Len(s) - p) /\ Path!NameAt(s, p) = SubSeq(s, p + 1, p + n)
  BY <1>1, <1>2, NameAtIs DEF NameLen
<1>0. n \in Nat /\ p + n <= Len(s) /\ p \in Nat /\ k \in Nat /\ from \in Nat
  <2>1. p \in Nat /\ k \in Nat /\ from \in Nat
    BY ONLY <1>2
  <2>2. n \in 0..(Len(s) - p)
    BY <1>4
  <2>3. n \in Nat /\ p + n <= Len(s)
    BY ONLY <1>2, <2>1, <2>2
  <2> QED BY <2>1, <2>3
<1> DEFINE Covered(a) == \A b \in (a - 1)..(Len(s) - from + 1) :
                         SubSeq(rest, a, b) = SubSeq(s, from + a - 1, from + b - 1)
<1>15. ASSUME NEW a \in Nat \ {0} PROVE Covered(a)
  <2>1. ASSUME NEW b \in (a - 1)..(Len(s) - from + 1)
        PROVE  SubSeq(Path!From(s, from), a, b) = SubSeq(s, from + a - 1, from + b - 1)
    BY ONLY s \in Seq(C), <1>2, a \in Nat \ {0},
            b \in (a - 1)..(Len(s) - from + 1), PartOfRest, Zenon
  <2> QED BY <1>1, <2>1
<1>5. Path!From(rest, k + 1) = Path!From(s, p + 1)
  <2>1. k + 1 \in Nat \ {0} /\ Len(rest) \in ((k + 1) - 1)..(Len(s) - from + 1)
    BY <1>2, <1>3
  <2>2. p + 1 = from + (k + 1) - 1 /\ Len(s) = from + Len(rest) - 1
    BY <1>2, <1>3
  <2>3. SubSeq(rest, k + 1, Len(rest)) = SubSeq(s, p + 1, Len(s))
    BY <1>15, <2>1, <2>2, Zenon
  <2> QED BY <2>3 DEF Path!From
<1>6. Path!Upto(rest, k) = SubSeq(s, from, p) /\ Path!Upto(rest, k - 1) = SubSeq(s, from, p - 1)
  <2>1. /\ 1 \in Nat \ {0} /\ k \in (1 - 1)..(Len(s) - from + 1)
        /\ k - 1 \in (1 - 1)..(Len(s) - from + 1)
    BY <1>2
  <2>2. from = from + 1 - 1 /\ p = from + k - 1 /\ p - 1 = from + (k - 1) - 1
    BY ONLY <1>2
  <2>3. SubSeq(rest, 1, k) = SubSeq(s, from, p)
    BY <1>15, <2>1, <2>2, Zenon
  <2>4. SubSeq(rest, 1, k - 1) = SubSeq(s, from, p - 1)
    BY <1>15, <2>1, <2>2, Zenon
  <2> QED BY <2>3, <2>4 DEF Path!Upto
<1>7. SubSeq(rest, k + 1, k + n) = SubSeq(s, p + 1, p + n)
  <2>1. k + 1 \in Nat \ {0} /\ k + n \in ((k + 1) - 1)..(Len(s) - from + 1)
    BY ONLY <1>0, <1>2
  <2>2. p + 1 = from + (k + 1) - 1 /\ p + n = from + (k + n) - 1
    BY ONLY <1>0, <1>2
  <2> QED BY <1>15, <2>1, <2>2, Zenon
<1>8. PICK after : after = Path!From(s, p + 1)
  OBVIOUS
<1>9. after \in Seq(C) /\ Len(after) = Len(s) - p /\ n = Path!NameLength(after)
  <2>1. Len(after) = Len(s) - (p + 1) + 1
    BY <1>2, <1>8, RestIs
  <2>2. after \in Seq(C)
    BY <1>2, <1>8, RestIs
  <2>3. Len(s) - (p + 1) + 1 = Len(s) - p
    BY ONLY <1>0, <1>2
  <2> QED BY <1>1, <1>8, <2>1, <2>2, <2>3 DEF NameLen
<1>10. Len(after) > 1 => (after[1] \in NameChars <=> n >= 1)
  <2>1. /\ \A j \in 1..n : after[j] \in NameChars
        /\ n < Len(after) => after[n + 1] \notin NameChars
    BY <1>9, NameLengthIs
  <2>2. n \in Nat /\ Len(after) \in Nat
    BY <1>2, <1>4, <1>9
  <2>3. CASE n >= 1
    BY <2>1, <2>2, <2>3
  <2>4. CASE n = 0
    BY <2>1, <2>2, <2>4
  <2> QED BY <2>2, <2>3, <2>4
<1>11. (Len(after) <= 1 \/ after[1] \notin NameChars \/ Path!IsCharEscaped(Path!Upto(s, k - 1)))
          <=> ~Path!Named(s, p, 2)
  <2>1. Path!Named(s, p, 2) <=>
           n >= 1 /\ Len(s) - p >= 2 /\ ~Path!IsCharEscaped(Path!Upto(s, p - 1))
    BY <1>8, <1>9 DEF Path!Named
  <2>2. Len(after) <= 1 <=> ~(Len(s) - p >= 2)
    BY ONLY <1>0, <1>2, <1>9
  <2>3. Len(s) - p >= 2 => Len(after) > 1
    BY ONLY <1>2, <1>9
  <2> QED BY <1>10, <2>1, <2>2, <2>3
<1>12. from + k = p + 1 /\ from + k + n = p + n + 1
  BY ONLY <1>0, <1>2
<1>13. Path!Round(s, l, rest, k) =
         IF ~Path!Named(s, p, 2) THEN Path!Loop(from + k, l.out \o Path!Upto(rest, k))
         ELSE Path!Substituted(l, rest, k, n)
  BY <1>1, <1>5, <1>8, <1>9, <1>11, Zenon DEF Path!Round
<1>14. Path!Substituted(l, rest, k, n) =
         Path!Loop(p + n + 1, l.out \o SubSeq(s, from, p - 1) \o Path!Value(Path!NameAt(s, p)))
  BY <1>1, <1>4, <1>6, <1>7, <1>12, Zenon DEF Path!Substituted
<1> QED BY <1>1, <1>6, <1>12, <1>13, <1>14, Zenon

\* A step of the loop takes a round at the next dollar sign, if there is one.
LEMMA StepIs ==
    ASSUME NEW C, NEW s \in Seq(C), NEW l, l.from \in 1..(Len(s) + 1)
    PROVE  \/ Path!Step(s, l) = l /\ \A j \in l.from..Len(s) : s[j] # Path!Dollar
           \/ \E k \in 1..(Len(s) - l.from + 1) :
                 /\ Path!Step(s, l) = Path!Round(s, l, Path!From(s, l.from), k)
                 /\ s[l.from + k - 1] = Path!Dollar
                 /\ \A j \in l.from..(l.from + k - 2) : s[j] # Path!Dollar
<1>1. PICK from, rest, k :
         from = l.from /\ rest = Path!From(s, from) /\ k = Path!Find(rest, Path!Dollar)
  OBVIOUS
<1>2. Len(s) \in Nat /\ from \in 1..(Len(s) + 1)
  BY <1>1, LenProperties
<1>3. /\ rest \in Seq(C) /\ Len(rest) = Len(s) - from + 1
      /\ \A n \in 1..(Len(s) - from + 1) : rest[n] = s[from + n - 1]
  BY <1>1, <1>2, RestIs, ZenonT(40)
<1>4. CASE k = 0 /\ \A j \in 1..Len(rest) : rest[j] # Path!Dollar
  <2>1. Path!Step(s, l) = l
    BY <1>1, <1>4 DEF Path!Step
  <2>2. ASSUME NEW j \in from..Len(s) PROVE s[j] # Path!Dollar
    <3>1. j - from + 1 \in 1..(Len(s) - from + 1) /\ from + (j - from + 1) - 1 = j
      BY <1>2
    <3>2. rest[j - from + 1] = s[from + (j - from + 1) - 1] /\ rest[j - from + 1] # Path!Dollar
      BY <1>3, <1>4, <3>1
    <3> QED BY <3>1, <3>2
  <2> QED BY <1>1, <2>1, <2>2
<1>5. CASE /\ k \in 1..Len(rest) /\ rest[k] = Path!Dollar
           /\ \A j \in 1..(k - 1) : rest[j] # Path!Dollar
  <2>1. Path!Step(s, l) = Path!Round(s, l, rest, k)
    BY <1>1, <1>5, <1>3, <1>2 DEF Path!Step
  <2>2. k \in 1..(Len(s) - from + 1) /\ s[from + k - 1] = Path!Dollar
    BY <1>3, <1>5
  <2>3. ASSUME NEW j \in from..(from + k - 2) PROVE s[j] # Path!Dollar
    <3>1. /\ j - from + 1 \in 1..(Len(s) - from + 1) /\ from + (j - from + 1) - 1 = j
          /\ j - from + 1 \in 1..(k - 1)
      BY <1>2, <2>2
    <3>2. rest[j - from + 1] = s[from + (j - from + 1) - 1] /\ rest[j - from + 1] # Path!Dollar
      BY <1>3, <1>5, <3>1
    <3> QED BY <3>1, <3>2
  <2> QED BY <1>1, <2>1, <2>2, <2>3
<1>6. \/ k = 0 /\ \A j \in 1..Len(rest) : rest[j] # Path!Dollar
      \/ /\ k \in 1..Len(rest) /\ rest[k] = Path!Dollar
         /\ \A j \in 1..(k - 1) : rest[j] # Path!Dollar
  BY <1>1, <1>3, FindIs, SMTT(30)
<1> QED BY <1>4, <1>5, <1>6
\* What has been put out is what the characters before the rest contribute; no name
\* goes on into the rest.
At(s, g, l) ==
    /\ l.from \in 1..(Len(s) + 1) /\ l.out = g[l.from - 1]
    /\ \A d \in 1..(l.from - 1) : Path!Named(s, d, 2) => d + NameLen(s, d) < l.from
    /\ l.from = 1 => ~Path!Tilde(s)

NoneLeft(s, l) == \A j \in l.from..Len(s) : s[j] # Path!Dollar

\* There are no backslashes, or one dollar sign and no home directory before it: the
\* paths whose escapes expand_path recognises.
Unescaped(s) == \A j \in 1..Len(s) : s[j] # Path!Backslash
OneDollar(s) == \A j, k \in 1..Len(s) : s[j] = Path!Dollar /\ s[k] = Path!Dollar => j = k
Simple(s, l) == Unescaped(s) \/ (OneDollar(s) /\ l.from = 1) \/ NoneLeft(s, l)

\* A character of the rest that is in no name and starts none is copied.
LEMMA Literal ==
    ASSUME NEW C, NEW s \in Seq(C), s # <<"~">>, NEW g, NEW l, At(s, g, l),
           NEW j \in l.from..Len(s), \A d \in l.from..j : ~Path!Named(s, d, 2)
    PROVE  Path!Contribution(s, j, 2) = <<s[j]>>
<1>1. PICK from : from = l.from
  OBVIOUS
<1>2. /\ from \in 1..(Len(s) + 1) /\ j \in from..Len(s) /\ \A d \in from..j : ~Path!Named(s, d, 2)
      /\ \A d \in 1..(from - 1) : Path!Named(s, d, 2) => d + NameLen(s, d) < from
      /\ from = 1 => ~Path!Tilde(s)
  BY <1>1 DEF At
<1>0. Len(s) \in Nat
  BY LenProperties
<1>3. from \in Nat /\ j \in Nat /\ from <= j /\ from >= 1 /\ j <= Len(s)
  BY ONLY <1>0, <1>2
<1>4. ~Path!InName(s, j, 2)
  <2> SUFFICES ASSUME NEW d \in 1..(j - 1), Path!Named(s, d, 2), d + NameLen(s, d) >= j PROVE FALSE
    BY DEF Path!InName, NameLen
  <2>1. d \in from..j \/ d \in 1..(from - 1)
    BY ONLY <1>3, d \in 1..(j - 1)
  <2>2. d \in 1..(from - 1)
    BY <1>2, <2>1
  <2>3. d + NameLen(s, d) < from
    BY <1>2, <2>2
  <2>4. d \in 1..Len(s)
    BY ONLY <1>0, <1>3, <2>2
  <2>5. NameLen(s, d) \in 0..(Len(s) - d)
    BY <2>4, NameAtIs DEF NameLen
  <2> QED BY ONLY <1>0, <1>3, <2>3, <2>4, <2>5, d + NameLen(s, d) >= j
<1>5. ~Path!Named(s, j, 2)
  BY <1>2, <1>3
<1>6. ~(j = 1 /\ (s = <<"~">> \/ Path!Tilde(s)))
  BY <1>2, <1>3
<1> QED BY <1>4, <1>5, <1>6, Zenon DEF Path!Contribution

\* At the start they hold.
LEMMA StartAt ==
    ASSUME NEW C, TextOver(C), NEW s \in Seq(C), Len(s) >= 1, NEW g, Contributes(s, g),
           Home = <<>> => ~Path!Tilde(s),
           Unescaped(s) \/ (OneDollar(s) /\ ~Path!Tilde(s))
    PROVE  At(s, g, Path!Start(s)) /\ Simple(s, Path!Start(s))
<1>1. Len(s) \in Nat
  BY LenProperties
<1>2. g[0] = <<>> /\ \A j \in 1..Len(s) : g[j] = g[j - 1] \o Path!Contribution(s, j, 2)
  BY ContributesType
<1>3. CASE ~Path!Tilde(s)
  <2>1. PICK l : l = Path!Start(s) /\ l.from = 1 /\ l.out = <<>>
    <3>1. Path!Start(s) = [from |-> 1, out |-> <<>>]
      BY <1>3, Zenon DEF Path!Start, Path!Loop
    <3> QED BY <3>1
  <2>2. l.from \in 1..(Len(s) + 1) /\ l.from - 1 = 0 /\ ~\E d \in 1..(l.from - 1) : TRUE
    BY <1>1, <2>1
  <2>3. At(s, g, l)
    BY <1>2, <1>3, <2>1, <2>2 DEF At
  <2> QED BY <2>1, <2>3 DEF Simple
<1>4. CASE Path!Tilde(s)
  <2>1. PICK l : l = Path!Start(s) /\ l.from = 2 /\ l.out = Home
    <3>1. Path!Start(s) = [from |-> 2, out |-> Home]
      BY <1>4, Zenon DEF Path!Start, Path!Loop
    <3> QED BY <3>1
  <2>2. s[1] # Path!Dollar
    BY <1>4 DEF Path!Tilde, Path!Dollar
  <2>3. ~Path!Named(s, 1, 2)
    BY <2>2 DEF Path!Named
  <2>4. ~Path!InName(s, 1, 2)
    BY DEF Path!InName
  <2>5. Path!Contribution(s, 1, 2) = Home
    BY <1>4, <2>3, <2>4 DEF Path!Contribution
  <2>6. g[1] = Home
    <3>1. 1 \in 1..Len(s) /\ 1 - 1 = 0
      BY <1>1
    <3>2. g[1] = <<>> \o Home
      BY <1>2, <2>5, <3>1
    <3> QED BY <3>2, ConcatEmptySeq DEF TextOver
  <2>7. l.from \in 1..(Len(s) + 1) /\ l.from - 1 = 1 /\ \A d \in 1..(l.from - 1) : d = 1
    BY <1>1, <2>1
  <2>8. At(s, g, l)
    BY <2>1, <2>3, <2>6, <2>7 DEF At
  <2> QED BY <1>4, <2>1, <2>8 DEF Simple
<1> QED BY <1>3, <1>4

\* A step keeps both, and comes further as long as a dollar sign is left.
LEMMA StepKeeps ==
    ASSUME NEW C, TextOver(C), Path!Dollar \notin NameChars, NEW s \in Seq(C), s # <<"~">>,
           NEW g, Contributes(s, g), NEW l, At(s, g, l), Simple(s, l)
    PROVE  /\ At(s, g, Path!Step(s, l)) /\ Simple(s, Path!Step(s, l))
           /\ \/ Path!Step(s, l).from > l.from
              \/ Path!Step(s, l) = l /\ NoneLeft(s, l)
<1>0. Len(s) \in Nat
  BY LenProperties
<1>1. PICK from, m : from = l.from /\ m = Path!Step(s, l)
  OBVIOUS
<1>2. /\ from \in 1..(Len(s) + 1) /\ l.out = g[from - 1]
      /\ \A d \in 1..(from - 1) : Path!Named(s, d, 2) => d + NameLen(s, d) < from
      /\ from = 1 => ~Path!Tilde(s)
  BY <1>1 DEF At
<1>3. CASE m = l /\ NoneLeft(s, l)
  BY <1>1, <1>3
<1>4. ASSUME NEW k \in 1..(Len(s) - from + 1), m = Path!Round(s, l, Path!From(s, from), k),
             s[from + k - 1] = Path!Dollar, \A j \in from..(from + k - 2) : s[j] # Path!Dollar
      PROVE  At(s, g, m) /\ Simple(s, m) /\ m.from > from
  <2>1. PICK p : p = from + k - 1
    OBVIOUS
  <2>2. /\ from \in Nat /\ from >= 1 /\ p \in Nat /\ p >= from /\ p <= Len(s) /\ p \in 1..Len(s)
        /\ p - 1 = from + k - 2 /\ p - 1 \in (from - 1)..Len(s) /\ p \in (from - 1)..Len(s)
    BY ONLY <1>0, <1>2, k \in 1..(Len(s) - from + 1), <2>1
  <2>3. s[p] = Path!Dollar /\ \A j \in from..(p - 1) : s[j] # Path!Dollar /\ ~Path!Named(s, j, 2)
    BY <1>4, <2>1, <2>2 DEF Path!Named
  <2>4. ~NoneLeft(s, l)
    <3>1. p \in from..Len(s)
      BY ONLY <1>0, <2>2
    <3> QED BY <1>1, <2>3, <3>1 DEF NoneLeft
  <2>5. Unescaped(s) \/ (OneDollar(s) /\ from = 1)
    BY <1>1, <2>4 DEF Simple
  <2>6. Path!IsCharEscaped(Path!Upto(s, k - 1)) <=> Path!IsCharEscaped(Path!Upto(s, p - 1))
    <3>1. CASE from = 1
      <4>1. k - 1 = p - 1
        BY ONLY <2>1, <3>1, k \in 1..(Len(s) - from + 1), <1>0
      <4> QED BY <4>1
    <3>2. CASE Unescaped(s)
      <4>1. ASSUME NEW n \in 0..Len(s) PROVE ~Path!IsCharEscaped(Path!Upto(s, n))
        <5>1. PICK r : r = Path!Upto(s, n)
          OBVIOUS
        <5>2. r \in Seq(C) /\ Len(r) = n /\ \A j \in 1..n : r[j] = s[j]
          BY <5>1, StartOf DEF Path!Upto
        <5>3. \A j \in 1..Len(r) : r[j] # Path!Backslash
          <6>1. \A j \in 1..n : j \in 1..Len(s)
            BY <1>0
          <6> QED BY <3>2, <5>2, <6>1 DEF Unescaped
        <5> QED BY <5>1, <5>2, <5>3, NotEscaped
      <4>2. k - 1 \in 0..Len(s) /\ p - 1 \in 0..Len(s)
        BY ONLY <1>0, <1>2, <2>2, k \in 1..(Len(s) - from + 1)
      <4> QED BY <4>1, <4>2
    <3> QED BY <2>5, <3>1, <3>2
  <2>7. m = IF Path!Named(s, p, 2)
            THEN Path!Loop(p + NameLen(s, p) + 1,
                           l.out \o SubSeq(s, from, p - 1) \o Path!Value(Path!NameAt(s, p)))
            ELSE Path!Loop(p + 1, l.out \o SubSeq(s, from, p))
    BY <1>1, <1>2, <1>4, <2>1, <2>3, <2>6, RoundIs, ZenonT(40)
  <2>8. ASSUME NEW j \in from..(p - 1) PROVE Path!Contribution(s, j, 2) = <<s[j]>>
    <3>1. j \in l.from..Len(s) /\ \A d \in l.from..j : d \in from..(p - 1)
      BY <1>0, <1>1, <2>2
    <3>2. \A d \in l.from..j : ~Path!Named(s, d, 2)
      BY <2>3, <3>1
    <3> QED BY <3>1, <3>2, Literal
  <2>9. OneDollar(s) => \A j \in 1..Len(s) : j > p => s[j] # Path!Dollar
    BY <2>2, <2>3 DEF OneDollar
  <2>10. ASSUME m.from \in 1..(Len(s) + 1), m.from > p PROVE Simple(s, m)
    <3>1. \A j \in m.from..Len(s) : j \in 1..Len(s) /\ j > p
      BY ONLY <1>0, <2>2, <2>10
    <3> QED BY <2>5, <2>9, <3>1 DEF Simple, NoneLeft
  <2>11. CASE ~Path!Named(s, p, 2)
    <3>1. m.from = p + 1 /\ m.out = g[from - 1] \o SubSeq(s, from, p)
      BY <1>2, <2>7, <2>11 DEF Path!Loop
    <3>2. Path!Contribution(s, p, 2) = <<s[p]>>
      <4>1. p \in l.from..Len(s) /\ \A d \in l.from..p : d \in from..(p - 1) \/ d = p
        BY <1>0, <1>1, <2>2
      <4>2. \A d \in l.from..p : ~Path!Named(s, d, 2)
        BY <2>3, <2>11, <4>1
      <4> QED BY <4>1, <4>2, Literal
    <3>3. \A j \in from..p : Path!Contribution(s, j, 2) = <<s[j]>>
      <4>1. \A j \in from..p : j \in from..(p - 1) \/ j = p
        BY ONLY <2>2
      <4> QED BY <2>8, <3>2, <4>1
    <3>4. g[p] = g[from - 1] \o SubSeq(s, from, p)
      BY <1>2, <2>2, <3>3, Copied
    <3>5. m.from \in 1..(Len(s) + 1) /\ m.from - 1 = p /\ m.from > p /\ m.from > from /\ m.from # 1
      BY ONLY <1>0, <2>2, <3>1
    <3>6. ASSUME NEW d \in 1..p, Path!Named(s, d, 2) PROVE d + NameLen(s, d) < p + 1
      <4>1. d \in 1..(from - 1)
        <5>1. d \in 1..(from - 1) \/ d \in from..(p - 1) \/ d = p
          BY ONLY <2>2, d \in 1..p
        <5> QED BY <2>3, <2>11, <3>6, <5>1
      <4>2. d + NameLen(s, d) < from
        BY <1>2, <3>6, <4>1
      <4>3. NameLen(s, d) \in 0..(Len(s) - d)
        <5>1. d \in 1..Len(s)
          BY ONLY <1>0, <2>2, d \in 1..p
        <5> QED BY <5>1, NameAtIs DEF NameLen
      <4> QED BY ONLY <1>0, <2>2, <4>1, <4>2, <4>3
    <3>7. At(s, g, m)
      <4>1. m.from = p + 1 /\ m.from - 1 = p
        BY <3>1, <3>5
      <4>2. m.out = g[m.from - 1]
        BY <3>1, <3>4, <4>1
      <4>3. \A d \in 1..(m.from - 1) : Path!Named(s, d, 2) => d + NameLen(s, d) < m.from
        BY <3>6, <4>1
      <4> QED BY <3>5, <4>2, <4>3 DEF At
    <3> QED BY <2>10, <3>5, <3>7
  <2>12. CASE Path!Named(s, p, 2)
    <3>1. PICK n : n = NameLen(s, p)
      OBVIOUS
    <3>2. n \in 0..(Len(s) - p) /\ \A j \in (p + 1)..(p + n) : s[j] \in NameChars
      BY <2>2, <3>1, NameAtIs DEF NameLen
    <3>3. n \in Nat /\ p + n <= Len(s)
      BY ONLY <1>0, <2>2, <3>2
    <3>4. m.from = p + n + 1
          /\ m.out = (g[from - 1] \o SubSeq(s, from, p - 1)) \o Path!Value(Path!NameAt(s, p))
      BY <1>2, <2>7, <2>12, <3>1 DEF Path!Loop
    <3>5. g[p - 1] = g[from - 1] \o SubSeq(s, from, p - 1)
      BY <1>2, <2>2, <2>8, Copied
    <3>6. ~Path!InName(s, p, 2)
      <4> SUFFICES ASSUME NEW d \in 1..(p - 1), Path!Named(s, d, 2), d + NameLen(s, d) >= p
                   PROVE  FALSE
        BY DEF Path!InName, NameLen
      <4>1. d \in 1..(from - 1)
        <5>1. d \in 1..(from - 1) \/ d \in from..(p - 1)
          BY ONLY <2>2, d \in 1..(p - 1)
        <5> QED BY <2>3, <5>1
      <4>2. d + NameLen(s, d) < from
        BY <1>2, <4>1
      <4>3. NameLen(s, d) \in 0..(Len(s) - d)
        <5>1. d \in 1..Len(s)
          BY ONLY <1>0, <2>2, d \in 1..(p - 1)
        <5> QED BY <5>1, NameAtIs DEF NameLen
      <4> QED BY ONLY <1>0, <2>2, <4>1, <4>2, <4>3, d + NameLen(s, d) >= p
    <3>7. g[p] = m.out
      <4>1. Path!Contribution(s, p, 2) = Path!Value(Path!NameAt(s, p))
        BY <2>12, <3>6 DEF Path!Contribution
      <4>2. g[p] = g[p - 1] \o Path!Contribution(s, p, 2)
        BY <2>2, ContributesType
      <4> QED BY <3>4, <3>5, <4>1, <4>2
    <3>8. ASSUME NEW j \in (p + 1)..(p + n) PROVE Path!Contribution(s, j, 2) = <<>>
      <4>1. p \in 1..(j - 1) /\ p + n >= j
        BY ONLY <2>2, <3>3, j \in (p + 1)..(p + n)
      <4>2. Path!InName(s, j, 2)
        BY <2>12, <3>1, <4>1 DEF Path!InName, NameLen
      <4> QED BY <4>2 DEF Path!Contribution
    <3>9. g[p + n] = g[p]
      <4>1. p \in 0..Len(s) /\ p + n \in p..Len(s)
        BY ONLY <1>0, <2>2, <3>3
      <4> QED BY <3>8, <4>1, Skipped
    <3>10. /\ m.from \in 1..(Len(s) + 1) /\ m.from - 1 = p + n /\ m.from > p /\ m.from > from
           /\ m.from # 1
      BY ONLY <1>0, <2>2, <3>3, <3>4
    <3>11. ASSUME NEW d \in 1..(p + n), Path!Named(s, d, 2) PROVE d + NameLen(s, d) < p + n + 1
      <4>1. CASE d \in 1..(from - 1)
        <5>1. d + NameLen(s, d) < from
          BY <1>2, <3>11, <4>1
        <5>2. NameLen(s, d) \in 0..(Len(s) - d)
          <6>1. d \in 1..Len(s)
            BY ONLY <1>0, <2>2, <4>1
          <6> QED BY <6>1, NameAtIs DEF NameLen
        <5> QED BY ONLY <1>0, <2>2, <3>3, <4>1, <5>1, <5>2
      <4>2. CASE d = p
        BY ONLY <2>2, <3>1, <3>3, <4>2
      <4>3. CASE d \in (p + 1)..(p + n)
        <5>1. s[d] = Path!Dollar
          BY <3>11 DEF Path!Named
        <5> QED BY <3>2, <4>3, <5>1
      <4>4. d \in 1..(from - 1) \/ d \in from..(p - 1) \/ d = p \/ d \in (p + 1)..(p + n)
        BY ONLY <2>2, <3>3, d \in 1..(p + n)
      <4> QED BY <2>3, <3>11, <4>1, <4>2, <4>3, <4>4
    <3>12. At(s, g, m)
      <4>1. m.from = p + n + 1 /\ m.from - 1 = p + n
        BY <3>4, <3>10
      <4>2. m.out = g[m.from - 1]
        BY <3>7, <3>9, <4>1
      <4>3. \A d \in 1..(m.from - 1) : Path!Named(s, d, 2) => d + NameLen(s, d) < m.from
        BY <3>11, <4>1
      <4> QED BY <3>10, <4>2, <4>3 DEF At
    <3> QED BY <2>10, <3>10, <3>12
  <2> QED BY <2>11, <2>12
<1> QED BY <1>1, <1>2, <1>3, <1>4, StepIs DEF NoneLeft
(***************************************************************************)
(* Paths                                                                   *)
(***************************************************************************)
\* Without a name to replace, and without a home directory to put first, a path is
\* meant as it is.
LEMMA MeantAsIs ==
    ASSUME NEW C, TextOver(C), NEW s \in Seq(C), s # <<"~">>, ~Path!Tilde(s),
           \A d \in 1..Len(s) : ~Path!Named(s, d, 2)
    PROVE  Path!Meant(s, 2) = s
<1>1. Len(s) \in Nat
  BY LenProperties
<1>2. PICK g : Contributes(s, g) /\ Path!Meant(s, 2) = g[Len(s)]
  BY <1>1, MeantRuns
<1>3. ASSUME NEW j \in 1..Len(s) PROVE Path!Contribution(s, j, 2) = <<s[j]>>
  <2>1. \A d \in 1..(j - 1) : d \in 1..Len(s)
    BY <1>1
  <2>2. ~Path!InName(s, j, 2)
    BY <2>1 DEF Path!InName
  <2> QED BY <2>2 DEF Path!Contribution
<1>4. g[Len(s)] = <<>> \o SubSeq(s, 1, Len(s))
  <2>1. 1 \in 1..(Len(s) + 1) /\ Len(s) \in (1 - 1)..Len(s) /\ 1 - 1 = 0
    BY <1>1
  <2>2. g[Len(s)] = g[1 - 1] \o SubSeq(s, 1, Len(s))
    BY <1>2, <1>3, <2>1, Copied, ZenonT(40)
  <2>3. g[0] = <<>>
    BY <1>2, ContributesType, SMTT(30)
  <2> QED BY <2>1, <2>2, <2>3
<1> QED BY <1>2, <1>4, SubSeqFull, ConcatEmptySeq

\* The loop ends with what the whole path contributes.
LEMMA LoopEnds ==
    ASSUME NEW C, TextOver(C), Path!Dollar \notin NameChars,
           NEW s \in Seq(C), s # <<"~">>, Len(s) >= 1, Home = <<>> => ~Path!Tilde(s),
           Unescaped(s) \/ (OneDollar(s) /\ ~Path!Tilde(s))
    PROVE  Path!Expansion(s) = Path!Meant(s, 2)
<1>1. PICK n : n = Len(s) /\ n \in Nat
  BY LenProperties
<1>2. PICK g : Contributes(s, g) /\ Path!Meant(s, 2) = g[n]
  BY <1>1, MeantRuns
<1>3. PICK f : Rounds(s, f) /\ Path!Expansion(s) = f[n].out \o Path!From(s, f[n].from)
  BY <1>1, ExpansionRuns
<1>4. f[0] = Path!Start(s) /\ \A k \in 1..n : f[k] = Path!Step(s, f[k - 1])
  <2>1. f[0] = Path!Start(s)
    BY <1>1, <1>3 DEF Rounds
  <2>2. ASSUME NEW k \in 1..n PROVE f[k] = Path!Step(s, f[k - 1])
    <3>1. k \in 0..Len(s) /\ k # 0
      BY <1>1
    <3> QED BY <1>3, <3>1, Zenon DEF Rounds
  <2> QED BY <2>1, <2>2
<1> DEFINE Goes(k) == At(s, g, f[k]) /\ Simple(s, f[k]) /\ (f[k].from > k \/ NoneLeft(s, f[k]))
           S == {k \in 0..n : Goes(k)}
<1>5. 0 \in S
  <2>1. At(s, g, f[0]) /\ Simple(s, f[0])
    BY <1>2, <1>4, StartAt
  <2>2. f[0].from > 0 /\ 0 \in 0..n
    BY <1>1, <2>1 DEF At
  <2> QED BY <2>1, <2>2
<1>6. ASSUME NEW k \in 1..n, k - 1 \in S PROVE k \in S
  <2>1. PICK l, m : l = f[k - 1] /\ m = f[k]
    OBVIOUS
  <2>2. At(s, g, l) /\ Simple(s, l) /\ (l.from > k - 1 \/ NoneLeft(s, l)) /\ m = Path!Step(s, l)
    BY <1>4, <1>6, <2>1
  <2>3. At(s, g, m) /\ Simple(s, m) /\ (m.from > l.from \/ (m = l /\ NoneLeft(s, l)))
    BY <1>2, <2>2, StepKeeps
  <2>4. l.from \in 1..(n + 1) /\ m.from \in 1..(n + 1)
    BY <1>1, <2>2, <2>3 DEF At
  <2>5. m.from > k \/ NoneLeft(s, m)
    <3>1. CASE m = l /\ NoneLeft(s, l)
      BY <3>1
    <3>2. CASE m.from > l.from /\ l.from > k - 1
      BY ONLY <1>1, <2>4, <3>2, k \in 1..n
    <3>3. CASE m.from > l.from /\ NoneLeft(s, l)
      <4>1. \A j \in m.from..n : j \in l.from..n
        BY ONLY <1>1, <2>4, <3>3
      <4> QED BY <1>1, <3>3, <4>1 DEF NoneLeft
    <3> QED BY <2>2, <2>3, <3>1, <3>2, <3>3
  <2>6. k \in 0..n
    BY <1>1
  <2> QED BY <2>1, <2>3, <2>5, <2>6
<1>7. n \in S
  <2>1. \A k \in 0..n : k \in S
    <3> HIDE DEF S
    <3> QED BY <1>1, <1>5, <1>6, Induction
  <2> QED BY <1>1, <2>1
<1>8. PICK l : l = f[n]
  OBVIOUS
<1>9. At(s, g, l) /\ (l.from > n \/ NoneLeft(s, l))
  BY <1>7, <1>8
<1>10. l.from \in 1..(Len(s) + 1) /\ l.out = g[l.from - 1]
  BY <1>9 DEF At
<1>11. \A j \in l.from..Len(s) : ~Path!Named(s, j, 2)
  <2>1. CASE NoneLeft(s, l)
    BY <2>1 DEF NoneLeft, Path!Named
  <2>2. CASE l.from > n
    BY <1>1, <1>10, <2>2
  <2> QED BY <1>9, <2>1, <2>2
<1>12. ASSUME NEW j \in l.from..Len(s) PROVE Path!Contribution(s, j, 2) = <<s[j]>>
  <2>1. \A d \in l.from..j : ~Path!Named(s, d, 2)
    BY <1>1, <1>10, <1>11
  <2> QED BY <1>9, <2>1, Literal
<1>13. g[n] = g[l.from - 1] \o SubSeq(s, l.from, n)
  <2>1. n \in (l.from - 1)..Len(s)
    BY <1>1, <1>10
  <2> QED BY <1>1, <1>2, <1>10, <1>12, <2>1, Copied
<1> QED BY <1>1, <1>2, <1>3, <1>8, <1>10, <1>13, Zenon DEF Path!From

LEMMA ExpandsAsMeant ==
    ASSUME NEW C, TextOver(C), Path!Dollar \notin NameChars, NEW s \in Seq(C),
           Home = <<>> => ~Path!Tilde(s),
           Unescaped(s) \/ (OneDollar(s) /\ ~Path!Tilde(s))
    PROVE  Path!ExpandPath(s) = Path!Meant(s, 2)
<1>1. Len(s) \in Nat /\ DOMAIN s = 1..Len(s)
  BY LenProperties
<1>2. CASE s = <<"~">>
  <2>1. Len(s) = 1
    BY <1>2
  <2>2. PICK g : Contributes(s, g) /\ Path!Meant(s, 2) = g[1]
    BY <1>1, <2>1, MeantRuns
  <2>3. Path!Contribution(s, 1, 2) = Home
    <3>1. ~Path!InName(s, 1, 2)
      BY DEF Path!InName
    <3>2. ~Path!Named(s, 1, 2)
      BY <2>1 DEF Path!Named
    <3> QED BY <1>2, <3>1, <3>2 DEF Path!Contribution
  <2>4. g[1] = <<>> \o Home
    <3>1. 1 \in 1..Len(s) /\ 1 - 1 = 0
      BY <2>1
    <3>2. g[0] = <<>> /\ \A j \in 1..Len(s) : g[j] = g[j - 1] \o Path!Contribution(s, j, 2)
      BY <2>2, ContributesType
    <3> QED BY <2>3, <3>1, <3>2
  <2>5. <<>> \o Home = Home
    BY ConcatEmptySeq DEF TextOver
  <2> QED BY <1>2, <2>2, <2>4, <2>5 DEF Path!ExpandPath
<1>3. CASE s # <<"~">> /\ ((\A j \in DOMAIN s : s[j] \notin {Path!Dollar, "~"}) \/ Len(s) < 2)
  <2>1. ~Path!Tilde(s)
    BY <1>1, <1>3 DEF Path!Tilde
  <2>2. ASSUME NEW d \in 1..Len(s) PROVE ~Path!Named(s, d, 2)
    BY <1>1, <1>3 DEF Path!Named
  <2>3. Path!Meant(s, 2) = s
    BY <1>3, <2>1, <2>2, MeantAsIs
  <2> QED BY <1>3, <2>3 DEF Path!ExpandPath
<1>4. CASE s # <<"~">> /\ ~((\A j \in DOMAIN s : s[j] \notin {Path!Dollar, "~"}) \/ Len(s) < 2)
  <2>1. Path!ExpandPath(s) = Path!Expansion(s)
    BY <1>4, Zenon DEF Path!ExpandPath
  <2>2. Len(s) >= 1
    BY <1>1, <1>4
  <2> QED BY <1>4, <2>1, <2>2, LoopEnds
<1> QED BY <1>2, <1>3, <1>4

\* A path of any length is expanded as the comments of expand_path say, whatever the
\* environment and the home directory: when there are no backslashes in it, or one
\* dollar sign at most and no "~/" at the start, but for a name of one character at
\* the end and for "~/" with a home directory without a name.
THEOREM TextPathExpanded == Spec => []PathExpanded
<1>1. Inputs => PathExpanded
  <2> SUFFICES ASSUME job = "path", Inputs,
                      LET dollars == {j \in DOMAIN input : input[j] = Path!Dollar}
                      IN \/ \A j \in DOMAIN input : input[j] # Path!Backslash
                         \/ (\A j, k \in dollars : j = k) /\ ~Path!Tilde(input),
                      Home = <<>> => ~Path!Tilde(input)
               PROVE  Path!ExpandPath(input) = Path!Meant(input, 2)
    BY DEF PathExpanded
  <2>1. PICK s, C : s = input /\ C = Alphabet["path"] \cup STRING \cup {Path!Dollar}
    OBVIOUS
  <2>2. s \in Seq(C)
    <3>1. s \in Seq(Alphabet["path"]) /\ Alphabet["path"] \subseteq C
      BY <2>1 DEF Inputs
    <3> QED BY <3>1, SeqMonotonic
  <2>3. TextOver(C)
    <3>1. STRING \subseteq C /\ Path!Dollar \in C
      BY <2>1
    <3>2. Home \in Seq(C)
      BY <3>1, TextAssumption, SeqMonotonic
    <3>3. ASSUME NEW name \in DOMAIN Variables PROVE Variables[name] \in Seq(C)
      <4>1. Variables[name] \in Seq(STRING)
        BY TextAssumption
      <4> QED BY <3>1, <4>1, SeqMonotonic
    <3> QED BY <3>1, <3>2, <3>3 DEF TextOver
  <2>4. DOMAIN s = 1..Len(s)
    BY <2>2, LenProperties
  <2>5. Unescaped(s) \/ (OneDollar(s) /\ ~Path!Tilde(s))
    BY <2>1, <2>4 DEF Unescaped, OneDollar
  <2>6. Path!Dollar \notin NameChars /\ (Home = <<>> => ~Path!Tilde(s))
    BY <2>1, TextAssumption
  <2> QED BY <2>1, <2>2, <2>3, <2>5, <2>6, ExpandsAsMeant
<1> QED BY <1>1, InputsHold, PTL
=============================================================================
