----------------------------- MODULE TextProofs -----------------------------
(***************************************************************************)
(* What is read from text, for every input of any length.                  *)
(***************************************************************************)
EXTENDS Text, SequenceTheorems, WellFoundedInduction, TLAPS

(***************************************************************************)
(* Induction                                                               *)
(***************************************************************************)
\* A set of natural numbers has a least one.
LEMMA LeastNat ==
    ASSUME NEW T \in SUBSET Nat, T # {} PROVE \E x \in T : \A y \in T : x <= y
<1> DEFINE R == OpToRel(<, Nat)
<1>1. IsWellFoundedOn(R, Nat)
  BY NatLessThanWellFounded
<1>2. \A x, y \in Nat : x < y => <<x, y>> \in R
  BY DEF OpToRel
<1> HIDE DEF R
<1>3. PICK x \in T : \A y \in T : ~(<<y, x>> \in R)
  BY <1>1, WFMin
<1>4. ASSUME NEW y \in T PROVE x <= y
  <2>1. ~(y < x)
    BY <1>2, <1>3
  <2> QED BY <2>1
<1> QED BY <1>4

\* A set with 0 and the successor of each of its members has all numbers up to n.
LEMMA Induction ==
    ASSUME NEW n \in Nat, NEW S, 0 \in S, \A k \in 1..n : k - 1 \in S => k \in S
    PROVE  \A k \in 0..n : k \in S
<1> DEFINE T == {k \in 0..n : k \notin S}
<1> SUFFICES ASSUME T # {} PROVE FALSE
  OBVIOUS
<1>0. T \in SUBSET Nat
  OBVIOUS
<1>1. PICK k \in T : \A j \in T : k <= j
  <2> HIDE DEF T
  <2> QED BY <1>0, LeastNat
<1>2. k \in 1..n /\ k - 1 \in 0..n
  BY <1>1
<1>3. k - 1 \in S
  BY <1>1, <1>2
<1> QED BY <1>1, <1>2, <1>3

(***************************************************************************)
(* Parts of sequences                                                      *)
(***************************************************************************)
LEMMA PartOf ==
    ASSUME NEW S, NEW s \in Seq(S), NEW i \in Nat \ {0}, NEW j \in (i - 1)..Len(s)
    PROVE  /\ SubSeq(s, i, j) \in Seq(S) /\ Len(SubSeq(s, i, j)) = j - i + 1
           /\ \A n \in 1..(j - i + 1) : SubSeq(s, i, j)[n] = s[i + n - 1]
<1>1. Len(s) \in Nat /\ i \in Int /\ j \in Int
  BY LenProperties
<1>2. \A n \in i..j : s[n] \in S
  <2>1. \A n \in i..j : n \in 1..Len(s)
    BY <1>1
  <2> QED BY <2>1, ElementOfSeq
<1>3. /\ SubSeq(s, i, j) \in Seq(S)
      /\ Len(SubSeq(s, i, j)) = IF i <= j THEN j - i + 1 ELSE 0
      /\ \A n \in 1..(j - i + 1) : SubSeq(s, i, j)[n] = s[i + n - 1]
  BY <1>1, <1>2, SubSeqProperties
<1> QED BY <1>1, <1>3

LEMMA StartOf ==
    ASSUME NEW S, NEW s \in Seq(S), NEW j \in 0..Len(s)
    PROVE  /\ SubSeq(s, 1, j) \in Seq(S) /\ Len(SubSeq(s, 1, j)) = j
           /\ \A n \in 1..j : SubSeq(s, 1, j)[n] = s[n]
<1>1. PICK t : t = SubSeq(s, 1, j)
  OBVIOUS
<1>2. j \in (1 - 1)..Len(s) /\ j \in Nat
  BY LenProperties
<1>3. /\ t \in Seq(S) /\ Len(t) = j - 1 + 1
      /\ \A n \in 1..(j - 1 + 1) : t[n] = s[1 + n - 1]
  BY <1>1, <1>2, PartOf
<1>4. Len(t) = j
  BY <1>2, <1>3
<1>5. ASSUME NEW n \in 1..j PROVE t[n] = s[n]
  <2>1. n \in 1..(j - 1 + 1) /\ 1 + n - 1 = n
    BY <1>2
  <2> QED BY <1>3, <2>1
<1> QED BY <1>1, <1>3, <1>4, <1>5

LEMMA Joined ==
    ASSUME NEW x, NEW y, NEW z, NEW w
    PROVE  /\ <<x>> \o <<y>> \o <<z, w>> = <<x, y, z, w>>
           /\ <<x>> \o <<>> \o <<z, w>> = <<x, z, w>>
<1> DEFINE S == {x, y, z, w}
<1>1. /\ <<x>> \in Seq(S) /\ Len(<<x>>) = 1 /\ <<y>> \in Seq(S) /\ Len(<<y>>) = 1
      /\ <<z, w>> \in Seq(S) /\ Len(<<z, w>>) = 2
      /\ <<x, y, z, w>> \in Seq(S) /\ <<x, z, w>> \in Seq(S)
  OBVIOUS
<1> HIDE DEF S
<1>2. PICK a : a = <<x>> \o <<y>>
  OBVIOUS
<1>3. a \in Seq(S) /\ Len(a) = 2 /\ a[1] = x /\ a[2] = y
  BY <1>1, <1>2, ConcatProperties
<1>4. PICK b, e : e = <<z, w>> /\ b = a \o e
  OBVIOUS
<1>5. b \in Seq(S) /\ Len(b) = 4 /\ b[1] = x /\ b[2] = y /\ b[3] = z /\ b[4] = w
  <2>1. e \in Seq(S) /\ Len(e) = 2 /\ e[1] = z /\ e[2] = w
    BY <1>1, <1>4
  <2>2. /\ b \in Seq(S) /\ Len(b) = Len(a) + Len(e)
        /\ \A n \in 1..(Len(a) + Len(e)) : b[n] = IF n <= Len(a) THEN a[n] ELSE e[n - Len(a)]
    BY <1>3, <1>4, <2>1, ConcatProperties, ZenonT(40)
  <2>3. \A n \in 1..4 : b[n] = IF n <= 2 THEN a[n] ELSE e[n - 2]
    BY <1>3, <2>1, <2>2
  <2>4. b[1] = a[1] /\ b[2] = a[2] /\ b[3] = e[1] /\ b[4] = e[2]
    BY <2>3
  <2> QED BY <1>3, <2>1, <2>2, <2>4
<1>6. b = <<x, y, z, w>>
  <2>1. PICK c : c = <<x, y, z, w>>
    OBVIOUS
  <2>2. Len(c) = 4 /\ c[1] = x /\ c[2] = y /\ c[3] = z /\ c[4] = w
    BY <2>1
  <2> QED BY <1>1, <1>5, <2>1, <2>2, SeqEqual
<1>7. <<x>> \o <<>> = <<x>>
  BY <1>1, ConcatEmptySeq
<1>8. PICK d : d = <<x>> \o <<z, w>>
  OBVIOUS
<1>9. d \in Seq(S) /\ Len(d) = 3 /\ d[1] = x /\ d[2] = z /\ d[3] = w
  BY <1>1, <1>8, ConcatProperties
<1>10. d = <<x, z, w>>
  <2>1. PICK c : c = <<x, z, w>>
    OBVIOUS
  <2>2. Len(c) = 3 /\ c[1] = x /\ c[2] = z /\ c[3] = w
    BY <2>1
  <2> QED BY <1>1, <1>9, <2>1, <2>2, SeqEqual
<1> QED BY <1>2, <1>4, <1>6, <1>7, <1>8, <1>10

(***************************************************************************)
(* The automaton that reads a refusal                                      *)
(***************************************************************************)
\* The step of its loop that reads character n.
Round(s, p, n) == IF p.error # <<>> THEN p ELSE Reads(s, p, n - 1)

\* The states it goes through.
Passes(s, f) ==
    f = [n \in 0..Len(s) |-> IF n = 0 THEN Start ELSE Round(s, f[n - 1], n)]

\* It ends in the last of them.
LEMMA AutomatonRuns ==
    ASSUME NEW s, Len(s) \in Nat PROVE \E f : Passes(s, f) /\ Automaton(s) = f[Len(s)]
<1> DEFINE Part(m, f) == f = [n \in 0..m |-> IF n = 0 THEN Start ELSE Round(s, f[n - 1], n)]
           S == {m \in 0..Len(s) : \E f : Part(m, f)}
<1>1. 0 \in S
  <2> DEFINE f == [n \in 0..0 |-> Start]
  <2>1. Part(0, f)
    OBVIOUS
  <2> HIDE DEF Part, f
  <2> QED BY <2>1
<1>2. ASSUME NEW m \in 1..Len(s), m - 1 \in S PROVE m \in S
  <2>1. PICK f : Part(m - 1, f)
    BY <1>2
  <2> DEFINE g == [n \in 0..m |-> IF n < m THEN f[n] ELSE Round(s, f[m - 1], m)]
  <2>2. ASSUME NEW n \in 0..m PROVE g[n] = IF n = 0 THEN Start ELSE Round(s, g[n - 1], n)
    <3>1. CASE n = 0
      BY <2>1, <3>1
    <3>2. CASE n \in 1..(m - 1)
      BY <2>1, <3>2
    <3>3. CASE n = m
      BY <2>1, <3>3
    <3> QED BY <3>1, <3>2, <3>3
  <2>3. Part(m, g)
    BY <2>2
  <2> HIDE DEF Part, g
  <2> QED BY <2>3
<1>3. Len(s) \in S
  <2>1. \A m \in 1..Len(s) : m - 1 \in S => m \in S
    BY <1>2
  <2>2. Len(s) \in 0..Len(s)
    OBVIOUS
  <2> HIDE DEF S
  <2> QED BY <1>1, <2>1, <2>2, Induction
<1>4. \E f : Passes(s, f)
  BY <1>3 DEF Passes
<1> DEFINE run == CHOOSE f : Passes(s, f)
<1>5. Passes(s, run)
  BY <1>4
<1>6. Automaton(s) = run[Len(s)]
  BY DEF Automaton, Round, Passes
<1> QED BY <1>5, <1>6
(***************************************************************************)
(* Refusals                                                                *)
(***************************************************************************)
\* The line starts with "ACK" and another character.
Greets(s) == Len(s) > 3 /\ s[1] = "A" /\ s[2] = "C" /\ s[3] = "K"
DigitsIn(s, i, j) == \A n \in i..j : s[n] \in Digits

\* The brackets of a refusal are at i, j, k, l and m, as far as they are given.
At1(s, i) ==
    /\ Greets(s) /\ i \in 5..Len(s) /\ s[i] = "[" /\ Spaces(s, 5, i - 1)
At2(s, i, j, codes) ==
    /\ At1(s, i) /\ j \in (i + 1)..Len(s) /\ s[j] = "@" /\ IsNumber(s, i + 1, j - 1, codes)
At3(s, i, j, k, codes, lists) ==
    /\ At2(s, i, j, codes)
    /\ k \in (j + 1)..Len(s) /\ s[k] = "]" /\ IsNumber(s, j + 1, k - 1, lists)
At4(s, i, j, k, l, codes, lists) ==
    /\ At3(s, i, j, k, codes, lists)
    /\ l \in (k + 1)..Len(s) /\ s[l] = LeftBrace /\ Spaces(s, k + 1, l - 1)
At5(s, i, j, k, l, m, codes, lists) ==
    /\ At4(s, i, j, k, l, codes, lists)
    /\ m \in (l + 1)..Len(s) /\ s[m] = RightBrace /\ \A n \in (l + 1)..(m - 1) : s[n] # RightBrace

\* A space and a digit are none of the brackets.
LEMMA Distinct ==
    /\ "@" \notin Digits /\ "[" \notin Digits /\ "]" \notin Digits /\ Space \notin Digits
    /\ Space # "[" /\ Space # "@" /\ Space # "]" /\ Space # LeftBrace /\ Space # RightBrace
BY DEF Digits, Space, LeftBrace, RightBrace

\* So there is one place for each of them.
LEMMA Same1 == ASSUME NEW s, Len(s) \in Nat, NEW i, NEW j, At1(s, i), At1(s, j) PROVE i = j
<1>1. /\ i \in 5..Len(s) /\ s[i] = "[" /\ \A k \in 5..(i - 1) : s[k] = Space
      /\ j \in 5..Len(s) /\ s[j] = "[" /\ \A k \in 5..(j - 1) : s[k] = Space
  BY DEF At1, Spaces
<1>2. CASE i < j
  BY <1>1, <1>2, Distinct
<1>3. CASE j < i
  BY <1>1, <1>3, Distinct
<1> QED BY <1>1, <1>2, <1>3

LEMMA Same2 ==
    ASSUME NEW s, Len(s) \in Nat, NEW codes, NEW i, NEW j, NEW n, At2(s, i, j, codes),
           At1(s, n)
    PROVE  /\ i = n
           /\ \A x : At2(s, n, x, codes) => x = j
<1>1. i = n
  BY Same1 DEF At2
<1>2. ASSUME NEW x, At2(s, n, x, codes) PROVE x = j
  <2>1. x \in Nat /\ j \in Nat /\ n \in Nat /\ n < x /\ n < j
    BY <1>1, <1>2 DEF At1, At2
  <2>2. /\ s[x] = "@" /\ \A k \in (n + 1)..(x - 1) : s[k] \in Digits
        /\ s[j] = "@" /\ \A k \in (n + 1)..(j - 1) : s[k] \in Digits
    BY <1>1, <1>2 DEF At2, IsNumber
  <2>4. CASE x < j
    BY <2>1, <2>2, <2>4, Distinct
  <2>5. CASE j < x
    BY <2>1, <2>2, <2>5, Distinct
  <2> QED BY <2>1, <2>4, <2>5
<1> QED BY <1>1, <1>2

\* The first c of s from a place on is at j.
LEMMA PlaceIs ==
    ASSUME NEW s, Len(s) \in Nat, NEW c, NEW from \in Nat, NEW j \in from..Len(s),
           s[j] = c, \A k \in from..(j - 1) : s[k] # c
    PROVE  Place(s, c, from) = j
<1>1. \A x \in from..Len(s) : (s[x] = c /\ \A k \in from..(x - 1) : s[k] # c) => x = j
  <2> TAKE x \in from..Len(s)
  <2>1. CASE x < j
    BY <2>1
  <2>2. CASE j < x
    BY <2>2
  <2> QED BY <2>1, <2>2
<1> QED BY <1>1 DEF Place

\* Place finds the first one.
LEMMA PlaceFound ==
    ASSUME NEW s, Len(s) \in Nat, NEW c, NEW from \in Nat \ {0}, Place(s, c, from) # 0
    PROVE  /\ Place(s, c, from) \in from..Len(s) /\ s[Place(s, c, from)] = c
           /\ \A k \in from..(Place(s, c, from) - 1) : s[k] # c
<1> DEFINE T == {j \in from..Len(s) : s[j] = c}
<1>1. T # {}
  BY DEF Place
<1>2. T \in SUBSET Nat
  OBVIOUS
<1>3. PICK j \in T : \A k \in T : j <= k
  <2> HIDE DEF T
  <2> QED BY <1>1, <1>2, LeastNat
<1>4. j \in from..Len(s) /\ s[j] = c /\ \A k \in from..(j - 1) : s[k] # c
  BY <1>3
<1> QED BY <1>4, PlaceIs
\* Greetings are read off the start of the line.
LEMMA GreetsStart ==
    ASSUME NEW C, NEW s \in Seq(C)
    PROVE  Greets(s) <=> Len(s) > 3 /\ SubSeq(s, 1, 3) = <<"A", "C", "K">>
<1>1. ASSUME Len(s) > 3
      PROVE  SubSeq(s, 1, 3) = <<"A", "C", "K">> <=> s[1] = "A" /\ s[2] = "C" /\ s[3] = "K"
  <2> DEFINE t == SubSeq(s, 1, 3)
  <2>1. t \in Seq(C) /\ Len(t) = 3 /\ t[1] = s[1] /\ t[2] = s[2] /\ t[3] = s[3]
    BY <1>1
  <2> HIDE DEF t
  <2>2. ASSUME t = <<"A", "C", "K">> PROVE t[1] = "A" /\ t[2] = "C" /\ t[3] = "K"
    BY <2>2
  <2>3. ASSUME t[1] = "A", t[2] = "C", t[3] = "K" PROVE t = <<"A", "C", "K">>
    BY <2>1, <2>3
  <2> QED BY <2>1, <2>2, <2>3 DEF t
<1> QED BY <1>1 DEF Greets

\* A line conforms when its brackets are in place and something follows.
LEMMA ConformsForm ==
    ASSUME NEW C, NEW s \in Seq(C), NEW codes, NEW lists
    PROVE  /\ Conforms(s, codes, lists) => \E i, j, k, l, m :
                At5(s, i, j, k, l, m, codes, lists) /\ ~Blank(SubSeq(s, m + 1, Len(s)))
           /\ \A i, j, k, l, m :
                At5(s, i, j, k, l, m, codes, lists) =>
                  /\ Brackets(s) = <<i, j, k, l, m>>
                  /\ ~Blank(SubSeq(s, m + 1, Len(s))) => Conforms(s, codes, lists)
<1>1. ASSUME Conforms(s, codes, lists)
      PROVE  \E i, j, k, l, m :
                At5(s, i, j, k, l, m, codes, lists) /\ ~Blank(SubSeq(s, m + 1, Len(s)))
  <2> DEFINE i == Place(s, "[", 5)
             j == Place(s, "@", i + 1)
             k == Place(s, "]", j + 1)
             l == Place(s, LeftBrace, k + 1)
             m == Place(s, RightBrace, l + 1)
  <2>1. /\ Greets(s)
        /\ i > 4 /\ Spaces(s, 5, i - 1)
        /\ j > i /\ IsNumber(s, i + 1, j - 1, codes)
        /\ k > j /\ IsNumber(s, j + 1, k - 1, lists)
        /\ l > k /\ Spaces(s, k + 1, l - 1)
        /\ m > l /\ ~Blank(SubSeq(s, m + 1, Len(s)))
    <3>1. Brackets(s) = <<i, j, k, l, m>>
      BY DEF Brackets
    <3> HIDE DEF i, j, k, l, m
    <3> QED BY <1>1, <3>1, GreetsStart DEF Conforms
  <2>2. i \in 5..Len(s) /\ s[i] = "["
    <3>0. i # 0
      BY <2>1
    <3> QED BY <2>1, <3>0, PlaceFound
  <2> HIDE DEF i
  <2>3. j \in (i + 1)..Len(s) /\ s[j] = "@"
    <3>0. j # 0 /\ i + 1 \in Nat \ {0}
      BY <2>1, <2>2
    <3> QED BY <2>1, <2>2, <3>0, PlaceFound
  <2> HIDE DEF j
  <2>4. k \in (j + 1)..Len(s) /\ s[k] = "]"
    <3>0. k # 0 /\ j + 1 \in Nat \ {0}
      BY <2>1, <2>2, <2>3
    <3> QED BY <2>1, <2>2, <2>3, <3>0, PlaceFound
  <2> HIDE DEF k
  <2>5. l \in (k + 1)..Len(s) /\ s[l] = LeftBrace
    <3>0. l # 0 /\ k + 1 \in Nat \ {0}
      BY <2>1, <2>2, <2>3, <2>4
    <3> QED BY <2>1, <2>2, <2>3, <2>4, <3>0, PlaceFound
  <2> HIDE DEF l
  <2>6. m \in (l + 1)..Len(s) /\ s[m] = RightBrace
        /\ \A n \in (l + 1)..(m - 1) : s[n] # RightBrace
    <3>0. m # 0 /\ l + 1 \in Nat \ {0}
      BY <2>1, <2>2, <2>3, <2>4, <2>5
    <3> QED BY <2>1, <2>2, <2>3, <2>4, <2>5, <3>0, PlaceFound, SMTT(30)
  <2> HIDE DEF m
  <2>7. At5(s, i, j, k, l, m, codes, lists)
    BY <2>1, <2>2, <2>3, <2>4, <2>5, <2>6 DEF At1, At2, At3, At4, At5
  <2> QED BY <2>1, <2>7
<1>2. ASSUME NEW i, NEW j, NEW k, NEW l, NEW m, At5(s, i, j, k, l, m, codes, lists)
      PROVE  /\ Brackets(s) = <<i, j, k, l, m>>
             /\ ~Blank(SubSeq(s, m + 1, Len(s))) => Conforms(s, codes, lists)
  <2>1. /\ Greets(s) /\ Len(s) \in Nat
        /\ i \in 5..Len(s) /\ s[i] = "[" /\ Spaces(s, 5, i - 1)
        /\ j \in (i + 1)..Len(s) /\ s[j] = "@" /\ IsNumber(s, i + 1, j - 1, codes)
        /\ k \in (j + 1)..Len(s) /\ s[k] = "]" /\ IsNumber(s, j + 1, k - 1, lists)
        /\ l \in (k + 1)..Len(s) /\ s[l] = LeftBrace /\ Spaces(s, k + 1, l - 1)
        /\ m \in (l + 1)..Len(s) /\ s[m] = RightBrace
        /\ \A n \in (l + 1)..(m - 1) : s[n] # RightBrace
    BY <1>2 DEF At1, At2, At3, At4, At5
  <2>2. Place(s, "[", 5) = i
    <3>1. \A n \in 5..(i - 1) : s[n] # "["
      BY <2>1, Distinct DEF Spaces
    <3> QED BY <2>1, <3>1, PlaceIs, SMTT(30)
  <2>3. Place(s, "@", i + 1) = j
    <3>1. \A n \in (i + 1)..(j - 1) : s[n] # "@"
      BY <2>1, Distinct DEF IsNumber
    <3> QED BY <2>1, <3>1, PlaceIs, SMTT(30)
  <2>4. Place(s, "]", j + 1) = k
    <3>1. \A n \in (j + 1)..(k - 1) : s[n] # "]"
      BY <2>1, Distinct DEF IsNumber
    <3> QED BY <2>1, <3>1, PlaceIs, SMTT(30)
  <2>5. Place(s, LeftBrace, k + 1) = l
    <3>1. \A n \in (k + 1)..(l - 1) : s[n] # LeftBrace
      BY <2>1, Distinct DEF Spaces
    <3> QED BY <2>1, <3>1, PlaceIs, SMTT(30)
  <2>6. Place(s, RightBrace, l + 1) = m
    BY <2>1, PlaceIs, SMTT(30)
  <2>7. Brackets(s) = <<i, j, k, l, m>>
    BY <2>2, <2>3, <2>4, <2>5, <2>6 DEF Brackets
  <2>8. i > 4 /\ j > i /\ k > j /\ l > k /\ m > l
    BY <2>1
  <2> QED BY <2>1, <2>7, <2>8, GreetsStart DEF Conforms
<1> QED BY <1>1, <1>2
(***************************************************************************)
(* The state of the automaton after n characters                           *)
(***************************************************************************)
Lists == 0..MaxU8
Greeting == <<"A", "C", "K">>

InGreeting(s, p, n) ==
    /\ p = Start /\ n <= 3 /\ \A x \in 1..n : s[x] = Greeting[x]
BeforeCode(s, p, n) ==
    /\ p = [state |-> "FindLeftBracket", begin |-> 0, code |-> None, list |-> None,
            command |-> <<>>, error |-> <<>>]
    /\ n >= 4 /\ Greets(s) /\ Spaces(s, 5, n)
InCode(s, p, n) ==
    /\ p = [state |-> "GetErrorType", begin |-> p.begin, code |-> None, list |-> None,
            command |-> <<>>, error |-> <<>>]
    /\ At1(s, p.begin) /\ p.begin <= n /\ DigitsIn(s, p.begin + 1, n)
InList(s, p, n) == \E i :
    /\ p = [state |-> "GetListNum", begin |-> p.begin,
            code |-> Number(s, i + 1, p.begin - 1), list |-> None,
            command |-> <<>>, error |-> <<>>]
    /\ At2(s, i, p.begin, Codes) /\ p.begin <= n /\ DigitsIn(s, p.begin + 1, n)
BeforeCommand(s, p, n) == \E i, k :
    /\ p = [state |-> "FindLeftBrace", begin |-> p.begin,
            code |-> Number(s, i + 1, p.begin - 1), list |-> Number(s, p.begin + 1, k - 1),
            command |-> <<>>, error |-> <<>>]
    /\ At3(s, i, p.begin, k, Codes, Lists) /\ k <= n /\ Spaces(s, k + 1, n)
InCommand(s, p, n) == \E i, j, k :
    /\ p = [state |-> "GetFailedCommand", begin |-> p.begin,
            code |-> Number(s, i + 1, j - 1), list |-> Number(s, j + 1, k - 1),
            command |-> <<>>, error |-> <<>>]
    /\ At4(s, i, j, k, p.begin, Codes, Lists) /\ p.begin <= n
    /\ \A x \in (p.begin + 1)..n : s[x] # RightBrace
InMessage(s, p, n) == \E i, j, k, l :
    /\ p = [state |-> "Done", begin |-> p.begin,
            code |-> Number(s, i + 1, j - 1), list |-> Number(s, j + 1, k - 1),
            command |-> <<SubSeq(s, l + 1, p.begin - 1)>>, error |-> <<>>]
    /\ At5(s, i, j, k, l, p.begin, Codes, Lists) /\ p.begin <= n

Reached(s, p, n) ==
    \/ InGreeting(s, p, n) \/ BeforeCode(s, p, n) \/ InCode(s, p, n) \/ InList(s, p, n)
    \/ BeforeCommand(s, p, n) \/ InCommand(s, p, n) \/ InMessage(s, p, n)

\* The automaton fails at character n + 1, which no refusal has there, or at the
\* end of a code that is no code.
Refuses(s, p, q, n) ==
    /\ \E kind, pos :
          /\ q.error = <<Failure(kind, pos)>>
          /\ \/ kind # "InvalidCode" /\ pos = n
             \/ kind = "InvalidCode" /\ pos = p.begin /\ InCode(s, p, n)
    /\ ~\E i, j, k, l, m : At5(s, i, j, k, l, m, Codes, Lists)

\* While "ACK" and the character after it are read.
LEMMA ReadGreeting ==
    ASSUME NEW C, NEW s \in Seq(C), NEW n \in 0..(Len(s) - 1), NEW p, InGreeting(s, p, n),
           NEW q, q = Reads(s, p, n)
    PROVE  \/ InGreeting(s, q, n + 1) \/ BeforeCode(s, q, n + 1) \/ Refuses(s, p, q, n)
<1>1. p = Start /\ n <= 3 /\ p.state = "FindACK"
  BY DEF InGreeting, Start
<1>2. q = IF n >= 3 THEN Moves(p, "FindLeftBracket")
          ELSE IF s[n + 1] = Greeting[n + 1] THEN p ELSE Fails(p, "UnexpectedSymbol", n)
  BY <1>1 DEF Reads, Greeting
<1>3. CASE n = 3
  <2>1. q = [state |-> "FindLeftBracket", begin |-> 0, code |-> None, list |-> None,
             command |-> <<>>, error |-> <<>>]
    BY <1>1, <1>2, <1>3 DEF Moves, Start
  <2>2. s[1] = "A" /\ s[2] = "C" /\ s[3] = "K"
    BY <1>3 DEF InGreeting, Greeting
  <2>3. BeforeCode(s, q, n + 1)
    BY <1>3, <2>1, <2>2 DEF BeforeCode, Greets, Spaces
  <2> QED BY <2>3
<1>4. CASE n < 3 /\ s[n + 1] = Greeting[n + 1]
  <2>1. InGreeting(s, q, n + 1)
    BY <1>1, <1>2, <1>4 DEF InGreeting
  <2> QED BY <2>1
<1>5. CASE n < 3 /\ s[n + 1] # Greeting[n + 1]
  <2>1. q = Fails(p, "UnexpectedSymbol", n)
    BY <1>2, <1>5
  <2>2. q.error = <<Failure("UnexpectedSymbol", n)>>
    BY <1>1, <2>1 DEF Fails, Start
  <2>3. ~Greets(s)
    <3>1. n = 0 \/ n = 1 \/ n = 2
      BY <1>5
    <3> QED BY <1>5, <3>1 DEF Greets, Greeting
  <2>4. Refuses(s, p, q, n)
    BY <2>2, <2>3 DEF Refuses, At5, At4, At3, At2, At1
  <2> QED BY <2>4
<1> QED BY <1>1, <1>3, <1>4, <1>5

\* While "[" is looked for.
LEMMA ReadBeforeCode ==
    ASSUME NEW C, NEW s \in Seq(C), NEW n \in 0..(Len(s) - 1), NEW p, BeforeCode(s, p, n),
           NEW q, q = Reads(s, p, n)
    PROVE  \/ BeforeCode(s, q, n + 1) \/ InCode(s, q, n + 1) \/ Refuses(s, p, q, n)
<1>1. /\ p = [state |-> "FindLeftBracket", begin |-> 0, code |-> None, list |-> None,
              command |-> <<>>, error |-> <<>>]
      /\ n >= 4 /\ Greets(s) /\ \A x \in 5..n : s[x] = Space
  BY DEF BeforeCode, Spaces
<1>2. q = IF s[n + 1] = "[" THEN [p EXCEPT !.begin = n + 1, !.state = "GetErrorType"]
          ELSE IF s[n + 1] = Space THEN p ELSE Fails(p, "UnexpectedSymbol", n)
  BY <1>1 DEF Reads
<1>3. CASE s[n + 1] = "["
  <2>1. q = [state |-> "GetErrorType", begin |-> n + 1, code |-> None, list |-> None,
             command |-> <<>>, error |-> <<>>]
    BY <1>1, <1>2, <1>3
  <2>2. At1(s, n + 1)
    BY <1>1, <1>3 DEF At1, Spaces
  <2>3. InCode(s, q, n + 1)
    BY <2>1, <2>2 DEF InCode, DigitsIn
  <2> QED BY <2>3
<1>4. CASE s[n + 1] = Space
  <2>1. q = p
    BY <1>2, <1>4, Distinct
  <2>2. \A x \in 5..(n + 1) : s[x] = Space
    BY <1>1, <1>4
  <2>3. BeforeCode(s, q, n + 1)
    BY <1>1, <2>1, <2>2 DEF BeforeCode, Spaces
  <2> QED BY <2>3
<1>5. CASE s[n + 1] # "[" /\ s[n + 1] # Space
  <2>1. q = Fails(p, "UnexpectedSymbol", n)
    BY <1>2, <1>5
  <2>2. q.error = <<Failure("UnexpectedSymbol", n)>>
    BY <1>1, <2>1 DEF Fails
  <2>3. ASSUME NEW i, At1(s, i) PROVE FALSE
    <3>1. i \in 5..Len(s) /\ s[i] = "[" /\ \A x \in 5..(i - 1) : s[x] = Space
      BY <2>3 DEF At1, Spaces
    <3>2. CASE i <= n
      BY <1>1, <3>1, <3>2, Distinct
    <3>3. CASE i = n + 1
      BY <1>5, <3>1, <3>3
    <3>4. CASE i > n + 1
      BY <1>1, <1>5, <3>1, <3>4
    <3> QED BY <3>1, <3>2, <3>3, <3>4
  <2>4. Refuses(s, p, q, n)
    BY <2>2, <2>3 DEF Refuses, At5, At4, At3, At2
  <2> QED BY <2>4
<1> QED BY <1>3, <1>4, <1>5
\* While the code is read.
LEMMA ReadCode ==
    ASSUME NEW C, NEW s \in Seq(C), NEW n \in 0..(Len(s) - 1), NEW p, InCode(s, p, n),
           NEW q, q = Reads(s, p, n)
    PROVE  \/ InCode(s, q, n + 1) \/ InList(s, q, n + 1) \/ Refuses(s, p, q, n)
<1>1. /\ p = [state |-> "GetErrorType", begin |-> p.begin, code |-> None, list |-> None,
              command |-> <<>>, error |-> <<>>]
      /\ At1(s, p.begin) /\ p.begin \in 5..n /\ \A x \in (p.begin + 1)..n : s[x] \in Digits
  BY DEF InCode, DigitsIn, At1
<1> DEFINE number == Number(s, p.begin + 1, n)
<1>2. q = IF s[n + 1] = "@"
          THEN IF Parsed(s, p, n) \in Codes
               THEN [p EXCEPT !.code = Parsed(s, p, n), !.begin = n + 1, !.state = "GetListNum"]
               ELSE Fails(p, "InvalidCode", p.begin)
          ELSE IF s[n + 1] \in Digits THEN p ELSE Fails(p, "ExpectedNumber", n)
  <2>1. p.state = "GetErrorType"
    BY <1>1
  <2> QED BY <2>1 DEF Reads, EndOfCode
<1>3. Parsed(s, p, n) \in Codes <=> p.begin < n /\ number \in Codes
  <2>1. None \notin Codes
    BY DEF None, Codes
  <2>2. p.begin = n \/ p.begin < n
    BY <1>1
  <2> QED BY <1>1, <2>1, <2>2 DEF Parsed
<1>4. ASSUME NEW y, At2(s, p.begin, y, Codes)
      PROVE  /\ y > n
             /\ y = n + 1 => p.begin < n /\ number \in Codes
             /\ y > n + 1 => s[n + 1] \in Digits
  <2>1. /\ y \in (p.begin + 1)..Len(s) /\ s[y] = "@"
        /\ p.begin + 1 <= y - 1 /\ \A x \in (p.begin + 1)..(y - 1) : s[x] \in Digits
        /\ Number(s, p.begin + 1, y - 1) \in Codes
    BY <1>4 DEF At2, IsNumber
  <2>2. y > n
    BY <1>1, <2>1, Distinct
  <2>3. ASSUME y = n + 1 PROVE p.begin < n /\ number \in Codes
    <3>1. y - 1 = n
      BY <2>3
    <3> QED BY <1>1, <2>1, <3>1
  <2>4. ASSUME y > n + 1 PROVE s[n + 1] \in Digits
    BY <1>1, <2>1, <2>4
  <2> QED BY <2>2, <2>3, <2>4
<1>5. ASSUME s[n + 1] # "@" \/ ~(Parsed(s, p, n) \in Codes),
             s[n + 1] = "@" \/ s[n + 1] \notin Digits
      PROVE  ~\E i, j, k, l, m : At5(s, i, j, k, l, m, Codes, Lists)
  <2>1. ASSUME NEW i, NEW y, At2(s, i, y, Codes) PROVE FALSE
    <3>1. At1(s, i)
      BY <2>1 DEF At2
    <3>2. i = p.begin
      BY <1>1, <3>1, Same1
    <3>3. y \in Nat /\ s[y] = "@" /\ At2(s, p.begin, y, Codes)
      BY <2>1, <3>2 DEF At2, At1
    <3>4. CASE y = n + 1
      BY <1>3, <1>4, <1>5, <3>3, <3>4
    <3>5. CASE y > n + 1
      BY <1>4, <1>5, <3>3, <3>5, Distinct
    <3> QED BY <1>4, <3>3, <3>4, <3>5
  <2> QED BY <2>1 DEF At5, At4, At3
<1>6. CASE s[n + 1] = "@" /\ Parsed(s, p, n) \in Codes
  <2>1. p.begin < n /\ number \in Codes /\ Parsed(s, p, n) = number
    BY <1>1, <1>3, <1>6 DEF Parsed
  <2>2. q = [state |-> "GetListNum", begin |-> n + 1, code |-> number, list |-> None,
             command |-> <<>>, error |-> <<>>]
    <3>1. q = [p EXCEPT !.code = number, !.begin = n + 1, !.state = "GetListNum"]
      BY <1>2, <1>6, <2>1
    <3>2. PICK b : p = [state |-> "GetErrorType", begin |-> b, code |-> None, list |-> None,
                        command |-> <<>>, error |-> <<>>]
      BY <1>1
    <3> HIDE DEF number
    <3> QED BY <3>1, <3>2
  <2>3. At2(s, p.begin, n + 1, Codes)
    <3>1. (n + 1) - 1 = n
      OBVIOUS
    <3> QED BY <1>1, <1>6, <2>1, <3>1 DEF At2, IsNumber
  <2>4. InList(s, q, n + 1)
    <3>1. (n + 1) - 1 = n /\ q.begin = n + 1
      BY <2>2
    <3> QED BY <2>2, <2>3, <3>1 DEF InList, DigitsIn
  <2> QED BY <2>4
<1>7. CASE s[n + 1] = "@" /\ ~(Parsed(s, p, n) \in Codes)
  <2>1. q = Fails(p, "InvalidCode", p.begin)
    BY <1>2, <1>7
  <2>2. q.error = <<Failure("InvalidCode", p.begin)>>
    BY <1>1, <2>1 DEF Fails
  <2> QED BY <1>5, <1>7, <2>2 DEF Refuses
<1>8. CASE s[n + 1] # "@" /\ s[n + 1] \in Digits
  <2>1. q = p /\ \A x \in (p.begin + 1)..(n + 1) : s[x] \in Digits
    BY <1>1, <1>2, <1>8
  <2>2. InCode(s, q, n + 1)
    BY <1>1, <2>1 DEF InCode, DigitsIn
  <2> QED BY <2>2
<1>9. CASE s[n + 1] # "@" /\ s[n + 1] \notin Digits
  <2>1. q = Fails(p, "ExpectedNumber", n)
    BY <1>2, <1>9
  <2>2. q.error = <<Failure("ExpectedNumber", n)>>
    BY <1>1, <2>1 DEF Fails
  <2> QED BY <1>5, <1>9, <2>2 DEF Refuses
<1> QED BY <1>6, <1>7, <1>8, <1>9
\* While the list number is read.
LEMMA ReadList ==
    ASSUME NEW C, NEW s \in Seq(C), NEW n \in 0..(Len(s) - 1), NEW p, InList(s, p, n),
           NEW q, q = Reads(s, p, n)
    PROVE  \/ InList(s, q, n + 1) \/ BeforeCommand(s, q, n + 1) \/ Refuses(s, p, q, n)
<1>0. PICK i, b, code :
          /\ p = [state |-> "GetListNum", begin |-> b, code |-> code, list |-> None,
                  command |-> <<>>, error |-> <<>>]
          /\ code = Number(s, i + 1, b - 1)
          /\ At2(s, i, b, Codes) /\ b <= n /\ \A x \in (b + 1)..n : s[x] \in Digits
  BY DEF InList, DigitsIn
<1>1. /\ p.begin = b /\ p.state = "GetListNum" /\ b \in Nat /\ i \in Nat
      /\ At2(s, i, b, Codes) /\ b <= n /\ \A x \in (b + 1)..n : s[x] \in Digits
  BY <1>0 DEF At2, At1
<1> DEFINE number == Number(s, b + 1, n)
<1>2. q = IF s[n + 1] = "]"
          THEN IF Parsed(s, p, n) \in Lists
               THEN [p EXCEPT !.list = Parsed(s, p, n), !.state = "FindLeftBrace"]
               ELSE Fails(p, "ExpectedNumber", n)
          ELSE IF s[n + 1] \in Digits THEN p ELSE Fails(p, "ExpectedNumber", n)
  BY <1>1 DEF Reads, EndOfList, Lists
<1>3. Parsed(s, p, n) \in Lists <=> b < n /\ number \in Lists
  <2>1. None \notin Lists
    BY DEF None, Lists, MaxU8
  <2>2. b = n \/ b < n
    BY <1>1
  <2> QED BY <1>1, <2>1, <2>2 DEF Parsed
<1>4. ASSUME NEW y, At3(s, i, b, y, Codes, Lists)
      PROVE  /\ y \in Nat /\ y > n
             /\ y = n + 1 => s[n + 1] = "]" /\ b < n /\ number \in Lists
             /\ y > n + 1 => s[n + 1] \in Digits
  <2>1. /\ y \in (b + 1)..Len(s) /\ s[y] = "]"
        /\ b + 1 <= y - 1 /\ \A x \in (b + 1)..(y - 1) : s[x] \in Digits
        /\ Number(s, b + 1, y - 1) \in Lists
    BY <1>4 DEF At3, IsNumber
  <2>2. y \in Nat /\ y > n
    BY <1>1, <2>1, Distinct
  <2>3. ASSUME y = n + 1 PROVE s[n + 1] = "]" /\ b < n /\ number \in Lists
    <3>1. y - 1 = n
      BY <2>3
    <3> QED BY <1>1, <2>1, <2>3, <3>1
  <2>4. ASSUME y > n + 1 PROVE s[n + 1] \in Digits
    BY <1>1, <2>1, <2>4
  <2> QED BY <2>2, <2>3, <2>4
<1>5. ASSUME s[n + 1] # "]" \/ ~(Parsed(s, p, n) \in Lists),
             s[n + 1] = "]" \/ s[n + 1] \notin Digits
      PROVE  ~\E ii, j, k, l, m : At5(s, ii, j, k, l, m, Codes, Lists)
  <2>1. ASSUME NEW ii, NEW j, NEW y, At3(s, ii, j, y, Codes, Lists) PROVE FALSE
    <3>1. At2(s, ii, j, Codes) /\ At1(s, ii)
      BY <2>1 DEF At3, At2
    <3>2. ii = i /\ j = b
      BY <1>1, <3>1, Same2
    <3>3. At3(s, i, b, y, Codes, Lists)
      BY <2>1, <3>2
    <3>4. CASE y = n + 1
      BY <1>3, <1>4, <1>5, <3>3, <3>4
    <3>5. CASE y > n + 1
      BY <1>4, <1>5, <3>3, <3>5, Distinct
    <3> QED BY <1>4, <3>3, <3>4, <3>5
  <2> QED BY <2>1 DEF At5, At4
<1>6. CASE s[n + 1] = "]" /\ Parsed(s, p, n) \in Lists
  <2>1. b < n /\ number \in Lists /\ Parsed(s, p, n) = number
    BY <1>1, <1>3, <1>6 DEF Parsed
  <2>2. q = [state |-> "FindLeftBrace", begin |-> b, code |-> code, list |-> number,
             command |-> <<>>, error |-> <<>>]
    <3>1. q = [p EXCEPT !.list = number, !.state = "FindLeftBrace"]
      BY <1>2, <1>6, <2>1
    <3> HIDE DEF number
    <3> QED BY <1>0, <3>1
  <2>3. At3(s, i, b, n + 1, Codes, Lists)
    <3>1. (n + 1) - 1 = n
      OBVIOUS
    <3> QED BY <1>1, <1>6, <2>1, <3>1 DEF At3, IsNumber
  <2>4. BeforeCommand(s, q, n + 1)
    <3>1. (n + 1) - 1 = n /\ q.begin = b
      BY <2>2
    <3> QED BY <1>0, <2>2, <2>3, <3>1 DEF BeforeCommand, Spaces
  <2> QED BY <2>4
<1>7. CASE s[n + 1] = "]" /\ ~(Parsed(s, p, n) \in Lists)
  <2>1. q = Fails(p, "ExpectedNumber", n)
    BY <1>2, <1>7
  <2>2. q.error = <<Failure("ExpectedNumber", n)>>
    BY <1>0, <2>1 DEF Fails
  <2> QED BY <1>5, <1>7, <2>2 DEF Refuses
<1>8. CASE s[n + 1] # "]" /\ s[n + 1] \in Digits
  <2>1. q = p /\ \A x \in (b + 1)..(n + 1) : s[x] \in Digits
    BY <1>1, <1>2, <1>8
  <2>2. InList(s, q, n + 1)
    BY <1>0, <1>1, <2>1 DEF InList, DigitsIn
  <2> QED BY <2>2
<1>9. CASE s[n + 1] # "]" /\ s[n + 1] \notin Digits
  <2>1. q = Fails(p, "ExpectedNumber", n)
    BY <1>2, <1>9
  <2>2. q.error = <<Failure("ExpectedNumber", n)>>
    BY <1>0, <2>1 DEF Fails
  <2> QED BY <1>5, <1>9, <2>2 DEF Refuses
<1> QED BY <1>6, <1>7, <1>8, <1>9

\* The list number ends at one place.
LEMMA Same3 ==
    ASSUME NEW s, Len(s) \in Nat, NEW codes, NEW lists, NEW i, NEW j, NEW k,
           At3(s, i, j, k, codes, lists), NEW ii, NEW jj, NEW kk,
           At3(s, ii, jj, kk, codes, lists)
    PROVE  ii = i /\ jj = j /\ kk = k
<1>1. ii = i /\ jj = j
  <2>1. At2(s, i, j, codes) /\ At2(s, ii, jj, codes) /\ At1(s, ii)
    BY DEF At3, At2
  <2> QED BY <2>1, Same2
<1>2. /\ k \in (j + 1)..Len(s) /\ s[k] = "]" /\ \A x \in (j + 1)..(k - 1) : s[x] \in Digits
      /\ kk \in (j + 1)..Len(s) /\ s[kk] = "]" /\ \A x \in (j + 1)..(kk - 1) : s[x] \in Digits
      /\ j \in Nat
  BY <1>1 DEF At3, IsNumber, At2, At1
<1>3. CASE k < kk
  BY <1>2, <1>3, Distinct
<1>4. CASE kk < k
  BY <1>2, <1>4, Distinct
<1> QED BY <1>1, <1>2, <1>3, <1>4

\* While the brace that opens the command is looked for.
LEMMA ReadBeforeCommand ==
    ASSUME NEW C, NEW s \in Seq(C), NEW n \in 0..(Len(s) - 1), NEW p,
           BeforeCommand(s, p, n), NEW q, q = Reads(s, p, n)
    PROVE  \/ BeforeCommand(s, q, n + 1) \/ InCommand(s, q, n + 1) \/ Refuses(s, p, q, n)
<1>0. PICK i, k, b, code, list :
          /\ p = [state |-> "FindLeftBrace", begin |-> b, code |-> code, list |-> list,
                  command |-> <<>>, error |-> <<>>]
          /\ code = Number(s, i + 1, b - 1) /\ list = Number(s, b + 1, k - 1)
          /\ At3(s, i, b, k, Codes, Lists) /\ k <= n /\ \A x \in (k + 1)..n : s[x] = Space
  BY DEF BeforeCommand, Spaces
<1>1. /\ p.begin = b /\ p.state = "FindLeftBrace" /\ k \in Nat /\ b \in Nat /\ i \in Nat
  BY <1>0 DEF At3, At2, At1
<1>2. q = IF s[n + 1] = LeftBrace THEN [p EXCEPT !.begin = n + 1, !.state = "GetFailedCommand"]
          ELSE IF s[n + 1] = Space THEN p ELSE Fails(p, "UnexpectedSymbol", n)
  BY <1>1 DEF Reads
<1>3. CASE s[n + 1] = LeftBrace
  <2>1. q = [state |-> "GetFailedCommand", begin |-> n + 1, code |-> code, list |-> list,
             command |-> <<>>, error |-> <<>>]
    BY <1>0, <1>2, <1>3
  <2>2. At4(s, i, b, k, n + 1, Codes, Lists)
    BY <1>0, <1>1, <1>3 DEF At4, Spaces
  <2>3. InCommand(s, q, n + 1)
    <3>1. q.begin = n + 1
      BY <2>1
    <3> QED BY <1>0, <2>1, <2>2, <3>1 DEF InCommand
  <2> QED BY <2>3
<1>4. CASE s[n + 1] = Space
  <2>1. q = p
    BY <1>2, <1>4, Distinct
  <2>2. \A x \in (k + 1)..(n + 1) : s[x] = Space
    BY <1>0, <1>1, <1>4
  <2>3. BeforeCommand(s, q, n + 1)
    BY <1>0, <1>1, <2>1, <2>2 DEF BeforeCommand, Spaces
  <2> QED BY <2>3
<1>5. CASE s[n + 1] # LeftBrace /\ s[n + 1] # Space
  <2>1. q = Fails(p, "UnexpectedSymbol", n)
    BY <1>2, <1>5
  <2>2. q.error = <<Failure("UnexpectedSymbol", n)>>
    BY <1>0, <2>1 DEF Fails
  <2>3. ASSUME NEW ii, NEW jj, NEW kk, NEW l, At4(s, ii, jj, kk, l, Codes, Lists) PROVE FALSE
    <3>1. kk = k
      BY <1>0, <2>3, Same3 DEF At4
    <3>2. l \in (k + 1)..Len(s) /\ s[l] = LeftBrace /\ \A x \in (k + 1)..(l - 1) : s[x] = Space
      BY <2>3, <3>1 DEF At4, Spaces
    <3>3. CASE l <= n
      BY <1>0, <1>1, <3>2, <3>3, Distinct
    <3>4. CASE l = n + 1
      BY <1>5, <3>2, <3>4
    <3>5. CASE l > n + 1
      BY <1>0, <1>1, <1>5, <3>2, <3>5
    <3> QED BY <1>1, <3>2, <3>3, <3>4, <3>5
  <2>4. Refuses(s, p, q, n)
    BY <2>2, <2>3 DEF Refuses, At5
  <2> QED BY <2>4
<1> QED BY <1>3, <1>4, <1>5

\* While the command is read, which may be anything but the brace.
LEMMA ReadCommand ==
    ASSUME NEW C, NEW s \in Seq(C), NEW n \in 0..(Len(s) - 1), NEW p,
           InCommand(s, p, n), NEW q, q = Reads(s, p, n)
    PROVE  InCommand(s, q, n + 1) \/ InMessage(s, q, n + 1)
<1>0. PICK i, j, k, b, code, list :
          /\ p = [state |-> "GetFailedCommand", begin |-> b, code |-> code, list |-> list,
                  command |-> <<>>, error |-> <<>>]
          /\ code = Number(s, i + 1, j - 1) /\ list = Number(s, j + 1, k - 1)
          /\ At4(s, i, j, k, b, Codes, Lists) /\ b <= n
          /\ \A x \in (b + 1)..n : s[x] # RightBrace
  BY DEF InCommand
<1>1. p.begin = b /\ p.state = "GetFailedCommand" /\ b \in Nat
  BY <1>0 DEF At4, At3, At2, At1
<1>2. q = IF s[n + 1] = RightBrace
          THEN [p EXCEPT !.command = <<Before(s, p, n)>>, !.begin = n + 1, !.state = "Done"]
          ELSE p
  BY <1>1 DEF Reads
<1>3. CASE s[n + 1] = RightBrace
  <2>1. Before(s, p, n) = SubSeq(s, b + 1, (n + 1) - 1)
    BY <1>1 DEF Before
  <2>2. PICK command : command = <<SubSeq(s, b + 1, (n + 1) - 1)>>
    OBVIOUS
  <2>3. q = [p EXCEPT !.command = command, !.begin = n + 1, !.state = "Done"]
    BY <1>2, <1>3, <2>1, <2>2
  <2>4. q = [state |-> "Done", begin |-> n + 1, code |-> code, list |-> list,
             command |-> command, error |-> <<>>]
    BY <1>0, <2>3
  <2>5. At5(s, i, j, k, b, n + 1, Codes, Lists)
    BY <1>0, <1>1, <1>3 DEF At5
  <2>6. q.begin = n + 1
    BY <2>4
  <2>7. /\ q = [state |-> "Done", begin |-> q.begin, code |-> Number(s, i + 1, j - 1),
               list |-> Number(s, j + 1, k - 1),
               command |-> <<SubSeq(s, b + 1, q.begin - 1)>>, error |-> <<>>]
        /\ At5(s, i, j, k, b, q.begin, Codes, Lists)
    BY <1>0, <2>2, <2>4, <2>5, <2>6
  <2>8. InMessage(s, q, n + 1)
    BY <2>6, <2>7 DEF InMessage
  <2> QED BY <2>8
<1>4. CASE s[n + 1] # RightBrace
  <2>1. q = p /\ \A x \in (b + 1)..(n + 1) : s[x] # RightBrace
    BY <1>0, <1>1, <1>2, <1>4
  <2>2. InCommand(s, q, n + 1)
    BY <1>0, <1>1, <2>1 DEF InCommand
  <2> QED BY <2>2
<1> QED BY <1>3, <1>4

\* The rest is the message.
LEMMA ReadMessage ==
    ASSUME NEW C, NEW s \in Seq(C), NEW n \in 0..(Len(s) - 1), NEW p,
           InMessage(s, p, n), NEW q, q = Reads(s, p, n)
    PROVE  InMessage(s, q, n + 1)
<1>1. PICK i, j, k, l, b, code, list, command :
          /\ p = [state |-> "Done", begin |-> b, code |-> code, list |-> list,
                  command |-> command, error |-> <<>>]
          /\ code = Number(s, i + 1, j - 1) /\ list = Number(s, j + 1, k - 1)
          /\ command = <<SubSeq(s, l + 1, b - 1)>>
          /\ At5(s, i, j, k, l, b, Codes, Lists) /\ b <= n
  BY DEF InMessage
<1>2. p.state = "Done" /\ p.begin = b /\ b \in Nat
  BY <1>1 DEF At5, At4, At3, At2, At1
<1>3. q = p /\ b <= n + 1
  BY <1>1, <1>2 DEF Reads
<1> QED BY <1>1, <1>2, <1>3 DEF InMessage

\* So a character either takes the automaton on or makes it fail.
LEMMA ReadsOn ==
    ASSUME NEW C, NEW s \in Seq(C), NEW n \in 0..(Len(s) - 1), NEW p, Reached(s, p, n),
           NEW q, q = Reads(s, p, n)
    PROVE  Reached(s, q, n + 1) \/ Refuses(s, p, q, n)
BY ReadGreeting, ReadBeforeCode, ReadCode, ReadList, ReadBeforeCommand, ReadCommand,
   ReadMessage DEF Reached
\* Where it has read on, it has not failed.
LEMMA NotFailed == ASSUME NEW s, NEW n, NEW p, Reached(s, p, n) PROVE p.error = <<>>
<1>1. CASE InGreeting(s, p, n)
  BY <1>1 DEF InGreeting, Start
<1>2. CASE BeforeCode(s, p, n)
  BY <1>2 DEF BeforeCode
<1>3. CASE InCode(s, p, n)
  BY <1>3 DEF InCode
<1>4. CASE \E state, b, code, list, command :
               p = [state |-> state, begin |-> b, code |-> code, list |-> list,
                    command |-> command, error |-> <<>>]
  BY <1>4
<1>5. InList(s, p, n) \/ BeforeCommand(s, p, n) \/ InCommand(s, p, n) \/ InMessage(s, p, n)
      => \E state, b, code, list, command :
            p = [state |-> state, begin |-> b, code |-> code, list |-> list,
                 command |-> command, error |-> <<>>]
  BY Zenon DEF InList, BeforeCommand, InCommand, InMessage
<1> QED BY <1>1, <1>2, <1>3, <1>4, <1>5 DEF Reached

\* At the end the automaton has read all of the line or failed at a character.
LEMMA AutomatonEnds ==
    ASSUME NEW C, NEW s \in Seq(C), NEW f, Passes(s, f)
    PROVE  \A n \in 0..Len(s) :
              \/ Reached(s, f[n], n)
              \/ \E m \in 0..(n - 1) : Reached(s, f[m], m) /\ Refuses(s, f[m], f[n], m)
<1> DEFINE Good(n) == \/ Reached(s, f[n], n)
                      \/ \E m \in 0..(n - 1) : Reached(s, f[m], m) /\ Refuses(s, f[m], f[n], m)
           S == {n \in 0..Len(s) : Good(n)}
<1>0. /\ f[0] = Start
      /\ \A n \in 1..Len(s) : f[n] = Round(s, f[n - 1], n)
  BY DEF Passes
<1>1. 0 \in S
  <2>1. InGreeting(s, f[0], 0)
    BY <1>0 DEF InGreeting
  <2> QED BY <2>1 DEF Reached
<1>2. ASSUME NEW n \in 1..Len(s), n - 1 \in S PROVE n \in S
  <2>0. n - 1 \in 0..(Len(s) - 1) /\ (n - 1) + 1 = n
    OBVIOUS
  <2>1. CASE Reached(s, f[n - 1], n - 1)
    <3>1. f[n - 1].error = <<>>
      BY <2>1, NotFailed
    <3>2. f[n] = Reads(s, f[n - 1], n - 1)
      BY <1>0, <3>1 DEF Round
    <3>3. Reached(s, f[n], n) \/ Refuses(s, f[n - 1], f[n], n - 1)
      BY <2>0, <2>1, <3>2, ReadsOn
    <3>4. Good(n)
      BY <2>0, <2>1, <3>3
    <3> QED BY <3>4
  <2>2. CASE \E m \in 0..(n - 2) : Reached(s, f[m], m) /\ Refuses(s, f[m], f[n - 1], m)
    <3>1. PICK m \in 0..(n - 2) : Reached(s, f[m], m) /\ Refuses(s, f[m], f[n - 1], m)
      BY <2>2
    <3>2. f[n - 1].error # <<>>
      BY <3>1 DEF Refuses
    <3>3. f[n] = f[n - 1]
      BY <1>0, <3>2 DEF Round
    <3>4. m \in 0..(n - 1) /\ Refuses(s, f[m], f[n], m)
      BY <3>1, <3>3
    <3>5. Good(n)
      BY <3>1, <3>4
    <3> QED BY <3>5
  <2> QED BY <1>2, <2>1, <2>2
<1>3. \A n \in 1..Len(s) : n - 1 \in S => n \in S
  BY <1>2
<1>4. Len(s) \in Nat
  OBVIOUS
<1>5. \A n \in 0..Len(s) : n \in S
  <2> HIDE DEF S
  <2> QED BY <1>1, <1>3, <1>4, Induction
<1> QED BY <1>5

\* A line that ends before its message is no refusal.
LEMMA Unfinished ==
    ASSUME NEW C, NEW s \in Seq(C), NEW p, Reached(s, p, Len(s)), ~InMessage(s, p, Len(s))
    PROVE  /\ ~\E i, j, k, l, m : At5(s, i, j, k, l, m, Codes, Lists)
           /\ p.error = <<>> /\ (p.code = None \/ p.list = None \/ p.command = <<>>)
<1>1. CASE InGreeting(s, p, Len(s))
  BY <1>1 DEF InGreeting, Start, At5, At4, At3, At2, At1, Greets
<1>2. CASE BeforeCode(s, p, Len(s))
  <2>1. ASSUME NEW i, At1(s, i) PROVE FALSE
    BY <1>2, <2>1, Distinct DEF BeforeCode, At1, Spaces
  <2> QED BY <1>2, <2>1 DEF BeforeCode, At5, At4, At3, At2
<1>3. CASE InCode(s, p, Len(s))
  <2>1. ASSUME NEW i, NEW j, At2(s, i, j, Codes) PROVE FALSE
    <3>1. i = p.begin
      BY <1>3, <2>1, Same1 DEF InCode, At2
    <3> QED BY <1>3, <2>1, <3>1, Distinct DEF InCode, DigitsIn, At2, At1
  <2> QED BY <1>3, <2>1 DEF InCode, At5, At4, At3
<1>4. CASE InList(s, p, Len(s))
  <2>1. PICK i : At2(s, i, p.begin, Codes) /\ DigitsIn(s, p.begin + 1, Len(s))
    BY <1>4 DEF InList
  <2>2. ASSUME NEW ii, NEW j, NEW k, At3(s, ii, j, k, Codes, Lists) PROVE FALSE
    <3>1. At2(s, ii, j, Codes) /\ At1(s, ii)
      BY <2>2 DEF At3, At2
    <3>2. j = p.begin
      BY <2>1, <3>1, Same2
    <3> QED BY <2>1, <2>2, <3>2, Distinct DEF DigitsIn, At3, At2, At1
  <2> QED BY <1>4, <2>2 DEF InList, At5, At4
<1>5. CASE BeforeCommand(s, p, Len(s))
  <2>1. PICK i, k : At3(s, i, p.begin, k, Codes, Lists) /\ Spaces(s, k + 1, Len(s))
    BY <1>5 DEF BeforeCommand
  <2>2. ASSUME NEW ii, NEW j, NEW kk, NEW l, At4(s, ii, j, kk, l, Codes, Lists) PROVE FALSE
    <3>1. kk = k
      BY <2>1, <2>2, Same3 DEF At4
    <3>2. l \in (k + 1)..Len(s) /\ s[l] = LeftBrace
      BY <2>2, <3>1 DEF At4
    <3> QED BY <2>1, <3>2, Distinct DEF Spaces
  <2> QED BY <1>5, <2>2 DEF BeforeCommand, At5
<1>6. CASE InCommand(s, p, Len(s))
  <2>1. PICK i, j, k : /\ At4(s, i, j, k, p.begin, Codes, Lists)
                       /\ \A x \in (p.begin + 1)..Len(s) : s[x] # RightBrace
    BY <1>6 DEF InCommand
  <2>2. ASSUME NEW ii, NEW jj, NEW kk, NEW l, NEW m, At5(s, ii, jj, kk, l, m, Codes, Lists)
        PROVE  FALSE
    <3>1. kk = k
      BY <2>1, <2>2, Same3 DEF At5, At4
    <3>3. PICK b : b = p.begin
      OBVIOUS
    <3>5. l \in (k + 1)..Len(s) /\ s[l] = LeftBrace /\ \A x \in (k + 1)..(l - 1) : s[x] = Space
      BY <2>2, <3>1 DEF At5, At4, Spaces
    <3>6. b \in (k + 1)..Len(s) /\ s[b] = LeftBrace /\ \A x \in (k + 1)..(b - 1) : s[x] = Space
      BY <2>1, <3>3 DEF At4, Spaces
    <3>7. m \in (l + 1)..Len(s) /\ s[m] = RightBrace
      BY <2>2 DEF At5
    <3>8. k \in Nat
      BY <2>1 DEF At4, At3, At2, At1
    <3>2. /\ l \in (k + 1)..Len(s) /\ s[l] = LeftBrace /\ \A x \in (k + 1)..(l - 1) : s[x] = Space
          /\ b \in (k + 1)..Len(s) /\ s[b] = LeftBrace
          /\ \A x \in (k + 1)..(b - 1) : s[x] = Space
          /\ m \in (l + 1)..Len(s) /\ s[m] = RightBrace /\ k \in Nat
      BY <3>5, <3>6, <3>7, <3>8
    <3>4. l = b
      <4>1. ~(l < b)
        BY <3>2, <3>3, Distinct
      <4>2. ~(b < l)
        BY <3>2, <3>3, Distinct
      <4> QED BY <3>2, <3>3, <4>1, <4>2
    <3> QED BY <2>1, <3>2, <3>3, <3>4
  <2> QED BY <1>6, <2>2 DEF InCommand
<1> QED BY <1>1, <1>2, <1>3, <1>4, <1>5, <1>6 DEF Reached

\* try_from_mpd accepts exactly the lines that conform and takes them apart at
\* their brackets.
LEMMA AcceptsRefusals ==
    ASSUME NEW C, NEW s \in Seq(C)
    PROVE  /\ TryFromMpd(s).ok <=> Conforms(s, Codes, 0..MaxU8)
           /\ TryFromMpd(s).ok => TryFromMpd(s) = Meaning(s)
<1>1. PICK f : Passes(s, f) /\ Automaton(s) = f[Len(s)]
  BY AutomatonRuns
<1>2. PICK p : p = Automaton(s)
  OBVIOUS
<1> DEFINE message == SubSeq(s, p.begin + 1, Len(s))
<1>3. TryFromMpd(s) =
          IF s = <<>> THEN Failure("EmptyString", 0)
          ELSE IF p.error # <<>> THEN p.error[1]
          ELSE IF p.code = None \/ p.list = None \/ p.command = <<>> \/ Blank(message)
          THEN Failure("UnexpectedSymbol", Len(s) - 1)
          ELSE Success(p.code, p.list, p.command[1], Trimmed(message))
  BY <1>2 DEF TryFromMpd
<1>4. \A kind, pos : Failure(kind, pos).ok = FALSE
  BY DEF Failure
<1>5. ASSUME ~TryFromMpd(s).ok, ~Conforms(s, Codes, Lists)
      PROVE  /\ TryFromMpd(s).ok <=> Conforms(s, Codes, 0..MaxU8)
             /\ TryFromMpd(s).ok => TryFromMpd(s) = Meaning(s)
  BY <1>5 DEF Lists
<1>6. CASE s = <<>>
  <2>1. ~Conforms(s, Codes, Lists)
    BY <1>6 DEF Conforms
  <2>2. ~TryFromMpd(s).ok
    BY <1>3, <1>4, <1>6
  <2> QED BY <1>5, <2>1, <2>2
<1>7. CASE s # <<>> /\ \E m \in 0..(Len(s) - 1) : Refuses(s, f[m], p, m)
  <2>1. PICK kind, pos : p.error = <<Failure(kind, pos)>>
    BY <1>7 DEF Refuses
  <2>2. p.error # <<>> /\ p.error[1] = Failure(kind, pos)
    BY <2>1
  <2>3. ~TryFromMpd(s).ok
    BY <1>3, <1>4, <1>7, <2>2
  <2>4. ~Conforms(s, Codes, Lists)
    BY <1>7, ConformsForm DEF Refuses
  <2> QED BY <1>5, <2>3, <2>4
<1>8. CASE s # <<>> /\ Reached(s, p, Len(s)) /\ ~InMessage(s, p, Len(s))
  <2>1. ~TryFromMpd(s).ok
    BY <1>3, <1>4, <1>8, Unfinished
  <2>2. ~Conforms(s, Codes, Lists)
    BY <1>8, Unfinished, ConformsForm
  <2> QED BY <1>5, <2>1, <2>2
<1>9. CASE s # <<>> /\ InMessage(s, p, Len(s))
  <2>1. PICK i, j, k, l :
            /\ p = [state |-> "Done", begin |-> p.begin,
                    code |-> Number(s, i + 1, j - 1), list |-> Number(s, j + 1, k - 1),
                    command |-> <<SubSeq(s, l + 1, p.begin - 1)>>, error |-> <<>>]
            /\ At5(s, i, j, k, l, p.begin, Codes, Lists)
    BY <1>9 DEF InMessage
  <2>2. p.error = <<>> /\ p.command # <<>> /\ p.command[1] = SubSeq(s, l + 1, p.begin - 1)
    BY <2>1
  <2>3. p.code # None /\ p.list # None
    <3>0. p.code = Number(s, i + 1, j - 1) /\ p.list = Number(s, j + 1, k - 1)
      BY <2>1
    <3>1. p.code \in Codes
      BY <2>1, <3>0 DEF At5, At4, At3, At2, IsNumber
    <3>2. p.list \in Lists
      BY <2>1, <3>0 DEF At5, At4, At3, IsNumber
    <3>3. p.code # None
      BY <3>1 DEF Codes, None
    <3>4. p.list # None
      <4>1. \A x \in Lists : x # None
        BY DEF Lists, None, MaxU8
      <4> QED BY <3>2, <4>1
    <3> QED BY <3>3, <3>4
  <2>4. TryFromMpd(s) = IF Blank(message) THEN Failure("UnexpectedSymbol", Len(s) - 1)
                        ELSE Success(p.code, p.list, p.command[1], Trimmed(message))
    BY <1>3, <1>9, <2>2, <2>3
  <2>5. Brackets(s) = <<i, j, k, l, p.begin>>
    BY <2>1, ConformsForm
  <2>6. CASE Blank(message)
    <3>1. ~TryFromMpd(s).ok
      BY <1>4, <2>4, <2>6
    <3>2. ASSUME Conforms(s, Codes, Lists) PROVE FALSE
      <4>1. PICK ii, jj, kk, ll, m :
                /\ At5(s, ii, jj, kk, ll, m, Codes, Lists)
                /\ ~Blank(SubSeq(s, m + 1, Len(s)))
        BY <3>2, ConformsForm
      <4>2. Brackets(s) = <<ii, jj, kk, ll, m>>
        BY <4>1, ConformsForm
      <4>3. m = p.begin
        BY <2>5, <4>2
      <4> QED BY <2>6, <4>1, <4>3
    <3> QED BY <1>5, <3>1, <3>2
  <2>7. CASE ~Blank(message)
    <3>1. TryFromMpd(s) = Success(p.code, p.list, p.command[1], Trimmed(message))
      BY <2>4, <2>7
    <3>2. TryFromMpd(s).ok
      BY <3>1 DEF Success
    <3>3. Conforms(s, Codes, Lists)
      BY <2>1, <2>7, ConformsForm
    <3>4. p.code = Number(s, i + 1, j - 1) /\ p.list = Number(s, j + 1, k - 1)
      BY <2>1
    <3>5. Meaning(s) = Success(p.code, p.list, p.command[1], Trimmed(message))
      <4>1. PICK b : b = Brackets(s)
        OBVIOUS
      <4>2. b[1] = i /\ b[2] = j /\ b[3] = k /\ b[4] = l /\ b[5] = p.begin
        BY <2>5, <4>1
      <4>3. Meaning(s) = Success(Number(s, b[1] + 1, b[2] - 1), Number(s, b[2] + 1, b[3] - 1),
                                 SubSeq(s, b[4] + 1, b[5] - 1),
                                 Trimmed(SubSeq(s, b[5] + 1, Len(s))))
        BY <4>1 DEF Meaning
      <4> QED BY <2>2, <3>4, <4>2, <4>3
    <3> QED BY <3>1, <3>2, <3>3, <3>5 DEF Lists
  <2> QED BY <2>6, <2>7
<1>10. Reached(s, p, Len(s)) \/ \E m \in 0..(Len(s) - 1) : Refuses(s, f[m], p, m)
  <2>1. Len(s) \in 0..Len(s)
    OBVIOUS
  <2> QED BY <1>1, <1>2, <2>1, AutomatonEnds
<1> QED BY <1>6, <1>7, <1>8, <1>9, <1>10
(***************************************************************************)
(* The inputs                                                              *)
(***************************************************************************)
\* The input of a job is text over its characters, or one of the songs.
Inputs ==
    /\ job \in Jobs
    /\ job # "cover" => input \in Seq(Alphabet[job])
    /\ job = "cover" => input \in Songs

LEMMA InputsHold == Spec => []Inputs
<1>1. Init => Inputs
  <2> SUFFICES ASSUME Init PROVE Inputs
    OBVIOUS
  <2>1. CASE job = "cover"
    BY <2>1 DEF Init, Inputs
  <2>2. CASE job # "cover"
    BY <2>2 DEF Init, Inputs
  <2> QED BY <2>1, <2>2
<1>2. Inputs /\ [Next]_vars => Inputs'
  <2> SUFFICES ASSUME Inputs, [Next]_vars PROVE Inputs'
    OBVIOUS
  <2>1. ASSUME NEW c \in Alphabet[job], Type(c) PROVE Inputs'
    BY <2>1 DEF Type, Inputs
  <2>2. ASSUME NEW f, Create(f) PROVE Inputs'
    BY <2>2 DEF Create, Inputs
  <2>3. CASE UNCHANGED vars
    BY <2>3 DEF vars, Inputs
  <2> QED BY <2>1, <2>2, <2>3 DEF Next
<1> QED BY <1>1, <1>2, PTL DEF Spec

(***************************************************************************)
(* The cover of a song                                                     *)
(***************************************************************************)
\* The last part of a concatenation is the last of its second part.
LEMMA EndOfConcat ==
    ASSUME NEW S, NEW d \in Seq(S), NEW t \in Seq(S), t # <<>>
    PROVE  /\ Covers!Front(d \o t) = d \o Covers!Front(t)
           /\ Covers!Last(d \o t) = Covers!Last(t)
<1>1. Len(t) \in Nat \ {0} /\ Len(d) \in Nat
  BY EmptySeq, LenProperties
<1>2. PICK w : w = d \o t
  OBVIOUS
<1>3. /\ w \in Seq(S) /\ Len(w) = Len(d) + Len(t)
      /\ \A n \in 1..(Len(d) + Len(t)) : w[n] = IF n <= Len(d) THEN d[n] ELSE t[n - Len(d)]
  BY <1>2, ConcatProperties
<1>4. PICK a, b : a = SubSeq(w, 1, Len(w) - 1) /\ b = SubSeq(t, 1, Len(t) - 1)
  OBVIOUS
<1>5. /\ a \in Seq(S) /\ Len(a) = Len(d) + Len(t) - 1
      /\ \A n \in 1..Len(a) : a[n] = w[n]
  BY <1>1, <1>3, <1>4, StartOf
<1>6. b \in Seq(S) /\ Len(b) = Len(t) - 1 /\ \A n \in 1..Len(b) : b[n] = t[n]
  <2>1. PICK m : m = Len(t) - 1
    OBVIOUS
  <2>2. m \in 0..Len(t) /\ b = SubSeq(t, 1, m)
    BY <1>1, <1>4, <2>1
  <2> QED BY <2>1, <2>2, StartOf
<1>7. PICK c : c = d \o b
  OBVIOUS
<1>8. /\ c \in Seq(S) /\ Len(c) = Len(d) + Len(b)
      /\ \A n \in 1..(Len(d) + Len(b)) : c[n] = IF n <= Len(d) THEN d[n] ELSE b[n - Len(d)]
  BY <1>6, <1>7, ConcatProperties
<1>9. ASSUME NEW n \in 1..Len(a) PROVE a[n] = c[n]
  <2>1. n \in 1..(Len(d) + Len(t)) /\ n \in 1..(Len(d) + Len(b)) /\ a[n] = w[n]
    BY <1>1, <1>5, <1>6
  <2>2. CASE n <= Len(d)
    BY <1>3, <1>8, <2>1, <2>2
  <2>3. CASE n > Len(d)
    <3>1. n - Len(d) \in 1..Len(b)
      BY <1>1, <2>1, <2>3
    <3>2. w[n] = t[n - Len(d)]
      BY <1>1, <1>3, <2>1, <2>3
    <3>3. c[n] = b[n - Len(d)]
      BY <1>1, <1>8, <2>1, <2>3
    <3> QED BY <1>6, <2>1, <3>1, <3>2, <3>3
  <2> QED BY <1>1, <2>1, <2>2, <2>3
<1>10. Len(a) = Len(c)
  BY <1>1, <1>5, <1>6, <1>8
<1>11. a = c
  BY <1>5, <1>8, <1>9, <1>10, SeqEqual
<1>12. Covers!Front(d \o t) = d \o Covers!Front(t)
  BY <1>2, <1>4, <1>7, <1>11 DEF Covers!Front
<1>13. w[Len(w)] = t[Len(t)]
  BY <1>1, <1>3
<1> QED BY <1>2, <1>12, <1>13 DEF Covers!Last

\* When the directory of a song has no dot in its name, the paths tried are the
\* documented ones, in their order.
LEMMA TriedIsDocumented ==
    ASSUME NEW Names, NEW uri \in Seq(Names), uri # <<>>,
           cover_directory \in Seq(Names), music_directory \in Seq(Names),
           <<"cover">> \in Names, Covers!Stem(Covers!Last(uri)) \in Names,
           Len(uri) > 1 => ~Covers!HasExtension(uri[Len(uri) - 1])
    PROVE  Covers!Tried(uri) = Covers!Documented(uri)
<1> DEFINE path == Covers!Front(uri)
           filename == Covers!Stem(Covers!Last(uri))
           places == << cover_directory \o path \o <<filename>> >>
                     \o (IF path = <<>> THEN <<>> ELSE << cover_directory \o path >>)
                     \o << music_directory \o path \o <<filename>>,
                           music_directory \o path \o << <<"cover">> >> >>
           candidates == Covers!Candidates(uri)
           ends(a, b) == \A ext : Covers!SetExtension(a, ext)
                                  = Covers!Front(b) \o << Covers!Last(b) \o <<ext>> >>
<1>0. /\ path \in Seq(Names) /\ Len(path) = Len(uri) - 1 /\ Len(uri) \in Nat \ {0}
      /\ \A n \in 1..(Len(uri) - 1) : path[n] = uri[n]
      /\ Covers!Last(uri) = uri[Len(uri)]
  BY DEF Covers!Front, Covers!Last
<1>1. ASSUME NEW d \in Seq(Names)
      PROVE  /\ Covers!Front(d \o uri) = d \o path /\ Covers!Last(d \o uri) = Covers!Last(uri)
             /\ \A name \in Names : /\ Covers!Front(d \o path \o <<name>>) = d \o path
                                    /\ Covers!Last(d \o path \o <<name>>) = name
  <2>1. Covers!Front(d \o uri) = d \o path /\ Covers!Last(d \o uri) = Covers!Last(uri)
    BY EndOfConcat
  <2>3. ASSUME NEW name \in Names
        PROVE  /\ Covers!Front(d \o path \o <<name>>) = d \o path
               /\ Covers!Last(d \o path \o <<name>>) = name
    <3>1. d \o path \in Seq(Names) /\ <<name>> \in Seq(Names) /\ <<name>> # <<>>
      BY <1>0
    <3>2. /\ Covers!Front(d \o path \o <<name>>) = d \o path \o Covers!Front(<<name>>)
          /\ Covers!Last(d \o path \o <<name>>) = Covers!Last(<<name>>)
      BY <3>1, EndOfConcat
    <3>3. Covers!Front(<<name>>) = <<>> /\ Covers!Last(<<name>>) = name
      BY DEF Covers!Front, Covers!Last
    <3>4. \A w \in Seq(Names) : w \o <<>> = w
      OBVIOUS
    <3> QED BY <3>1, <3>2, <3>3, <3>4
  <2> QED BY <2>1, <2>3
<1>2. ASSUME NEW d \in Seq(Names) PROVE ends(d \o uri, d \o path \o <<filename>>)
  BY <1>1 DEF Covers!SetExtension
<1>3. ASSUME Len(uri) > 1 PROVE ends(cover_directory \o path, cover_directory \o path)
  <2>1. Covers!Last(cover_directory \o path) = uri[Len(uri) - 1]
    BY <1>0, <1>3 DEF Covers!Last
  <2> QED BY <1>3, <2>1 DEF Covers!SetExtension, Covers!Stem
<1>4. ends(Covers!WithFileName(music_directory \o uri, <<"cover">>),
           music_directory \o path \o << <<"cover">> >>)
  <2>1. Covers!WithFileName(music_directory \o uri, <<"cover">>)
        = music_directory \o path \o << <<"cover">> >>
    BY <1>1 DEF Covers!WithFileName
  <2>2. Covers!Stem(<<"cover">>) = <<"cover">>
    <3>1. PICK name : name = <<"cover">>
      OBVIOUS
    <3>2. Covers!HasExtension(name) => Len(name) > 2 \/ Len(name) = 2
      BY Zenon DEF Covers!HasExtension
    <3>3. Len(name) = 1
      BY <3>1
    <3> QED BY <3>1, <3>2, <3>3 DEF Covers!Stem
  <2> QED BY <1>1, <2>1, <2>2 DEF Covers!SetExtension
<1>5. /\ Len(uri) > 1 => path # <<>>
      /\ ~(Len(uri) > 1) => path = <<>>
  BY <1>0
<1>6. PICK c1, c2, c3, c4, p1, p3, p4 :
          /\ c1 = cover_directory \o uri /\ c2 = cover_directory \o path
          /\ c3 = music_directory \o uri
          /\ c4 = Covers!WithFileName(music_directory \o uri, <<"cover">>)
          /\ p1 = cover_directory \o path \o <<filename>>
          /\ p3 = music_directory \o path \o <<filename>>
          /\ p4 = music_directory \o path \o << <<"cover">> >>
  OBVIOUS
<1>7. ends(c1, p1) /\ ends(c3, p3) /\ ends(c4, p4)
  BY <1>2, <1>4, <1>6
<1>8. Len(uri) > 1 => ends(c2, c2)
  BY <1>3, <1>6
<1>9. candidates = <<c1>> \o (IF Len(uri) > 1 THEN <<c2>> ELSE <<>>) \o <<c3, c4>>
  BY <1>6 DEF Covers!Candidates
<1>10. places = <<p1>> \o (IF Len(uri) > 1 THEN <<c2>> ELSE <<>>) \o <<p3, p4>>
  BY <1>5, <1>6
<1>11. DOMAIN candidates = DOMAIN places
       /\ \A c \in DOMAIN candidates : ends(candidates[c], places[c])
  <2> HIDE DEF ends, candidates, places
  <2>1. CASE Len(uri) > 1
    <3>1. candidates = <<c1, c2, c3, c4>> /\ places = <<p1, c2, p3, p4>>
      BY <1>9, <1>10, <2>1, Joined, ZenonT(40)
    <3> QED BY <1>7, <1>8, <2>1, <3>1
  <2>2. CASE ~(Len(uri) > 1)
    <3>1. candidates = <<c1, c3, c4>> /\ places = <<p1, p3, p4>>
      BY <1>9, <1>10, <2>2, Joined
    <3> QED BY <1>7, <3>1
  <2> QED BY <2>1, <2>2
<1>12. PICK tried, documented :
           /\ tried = [c \in DOMAIN candidates |->
                 [e \in DOMAIN IMG_EXTS |-> Covers!SetExtension(candidates[c], IMG_EXTS[e])]]
           /\ documented = [c \in DOMAIN places |->
                 [e \in DOMAIN IMG_EXTS |->
                    Covers!Front(places[c]) \o << Covers!Last(places[c]) \o << IMG_EXTS[e] >> >>]]
  BY Zenon
<1>13. tried = documented
  <2> HIDE DEF candidates, places
  <2> QED BY <1>11, <1>12, ZenonT(20)
<1>14. Covers!Tried(uri) = Covers!FlattenSeq(tried)
  BY <1>12, Zenon DEF Covers!Tried
<1>15. Covers!Documented(uri) = Covers!FlattenSeq(documented)
  BY <1>12, Zenon DEF Covers!Documented
<1> QED BY <1>13, <1>14, <1>15

(***************************************************************************)
(* Results                                                                 *)
(***************************************************************************)
\* try_from_mpd accepts exactly the refusals MPD documents, apart from spaces,
\* and takes each apart as MPD put it together, whatever the line and however
\* long its numbers, its command and its message are.
THEOREM TextAckParsed == Spec => []AckParsed
<1>1. Inputs => AckParsed
  <2> SUFFICES ASSUME Inputs, job = "ack"
               PROVE  /\ TryFromMpd(input).ok <=> Conforms(input, Codes, 0..MaxU8)
                      /\ TryFromMpd(input).ok => TryFromMpd(input) = Meaning(input)
    BY DEF AckParsed
  <2>1. input \in Seq(Alphabet["ack"])
    BY DEF Inputs
  <2> QED BY <2>1, AcceptsRefusals
<1> QED BY <1>1, InputsHold, PTL

\* The cover of a song is the first file in the documented order, for all songs
\* whose directory has no dot in its name, whatever extensions are configured,
\* wherever the covers and the music are, and whatever files there are.
THEOREM TextCoverFound == Spec => []CoverFound
<1>1. Inputs => CoverFound
  <2> SUFFICES ASSUME Inputs, job = "cover",
                      Len(input) > 1 => ~Covers!HasExtension(input[Len(input) - 1])
               PROVE  Covers!Cover(input, files)
                      = Covers!Found(Covers!Documented(input), files)
    BY DEF CoverFound
  <2> DEFINE Parts == STRING \cup {"cover"}
             Names == Seq(Parts)
  <2>0. \A path \in Seq(Seq(STRING)) : path \in Seq(Names)
    <3>1. Seq(STRING) \subseteq Names
      BY SeqMonotonic
    <3> HIDE DEF Names
    <3> QED BY <3>1, SeqMonotonic
  <2>1. PICK uri : uri = input
    OBVIOUS
  <2>2. uri \in Seq(Names) /\ uri # <<>>
    BY <2>0, <2>1, TextAssumption DEF Inputs
  <2>3. cover_directory \in Seq(Names) /\ music_directory \in Seq(Names)
    BY <2>0, TextAssumption
  <2>4. <<"cover">> \in Names
    OBVIOUS
  <2>5. Covers!Stem(Covers!Last(uri)) \in Names
    <3>1. PICK name : name = Covers!Last(uri)
      OBVIOUS
    <3>2. name \in Names
      <4>1. Len(uri) \in 1..Len(uri)
        BY <2>2, EmptySeq
      <4> QED BY <2>2, <3>1, <4>1, ElementOfSeq DEF Covers!Last
    <3>3. Covers!HasExtension(name) => Len(name) > 2 \/ Len(name) = 2
      BY Zenon DEF Covers!HasExtension
    <3>4. CASE Covers!HasExtension(name)
      <4>1. PICK m : m = Len(name) - 1
        OBVIOUS
      <4>2. m \in 0..Len(name)
        BY <3>2, <3>3, <3>4, <4>1, LenProperties
      <4>3. Covers!Front(name) \in Names
        BY <3>2, <4>1, <4>2, StartOf DEF Covers!Front
      <4> QED BY <3>1, <3>4, <4>3 DEF Covers!Stem
    <3>5. CASE ~Covers!HasExtension(name)
      BY <3>1, <3>2, <3>5 DEF Covers!Stem
    <3> QED BY <3>4, <3>5
  <2>6. Covers!Tried(uri) = Covers!Documented(uri)
    <3> HIDE DEF Names
    <3> QED BY <2>1, <2>2, <2>3, <2>4, <2>5, TriedIsDocumented
  <2> QED BY <2>1, <2>6 DEF Covers!Cover
<1> QED BY <1>1, InputsHold, PTL

(***************************************************************************)
(* The value of digits                                                     *)
(***************************************************************************)
\* The values of the digits from i on, up to each of those before j.
Counts(s, i, j, val) ==
    val = [n \in (i - 1)..j |-> IF n < i THEN 0 ELSE val[n - 1] * 10 + Digit[s[n]]]

LEMMA NumberRuns ==
    ASSUME NEW s, NEW i \in Nat, NEW j \in Nat, i <= j
    PROVE  \E val : Counts(s, i, j, val) /\ Number(s, i, j) = val[j]
<1> DEFINE S == {m \in 0..(j - i + 1) : \E val : Counts(s, i, i - 1 + m, val)}
<1>1. 0 \in S
  <2> DEFINE val == [n \in (i - 1)..(i - 1 + 0) |-> 0]
  <2>1. Counts(s, i, i - 1 + 0, val)
    BY DEF Counts
  <2> HIDE DEF val
  <2> QED BY <2>1
<1>2. ASSUME NEW m \in 1..(j - i + 1), m - 1 \in S PROVE m \in S
  <2>1. PICK val : Counts(s, i, i - 1 + (m - 1), val)
    BY <1>2
  <2>2. PICK top : top = i - 1 + m
    OBVIOUS
  <2>3. top \in Nat /\ i <= top /\ i - 1 + (m - 1) = top - 1
    BY <2>2
  <2>4. val = [n \in (i - 1)..(top - 1) |->
                  IF n < i THEN 0 ELSE val[n - 1] * 10 + Digit[s[n]]]
    BY <2>1, <2>3 DEF Counts
  <2> DEFINE new == [n \in (i - 1)..top |->
                        IF n < top THEN val[n] ELSE val[top - 1] * 10 + Digit[s[top]]]
  <2>5. ASSUME NEW n \in (i - 1)..top
        PROVE  new[n] = IF n < i THEN 0 ELSE new[n - 1] * 10 + Digit[s[n]]
    <3>1. CASE n < i
      BY <2>3, <2>4, <3>1
    <3>2. CASE n \in i..(top - 1)
      <4>1. n \in (i - 1)..(top - 1) /\ n - 1 \in (i - 1)..top /\ n - 1 < top /\ ~(n < i)
        BY <2>3, <3>2
      <4>2. new[n] = val[n] /\ new[n - 1] = val[n - 1]
        BY <2>3, <3>2, <4>1
      <4>3. val[n] = val[n - 1] * 10 + Digit[s[n]]
        BY <2>4, <4>1
      <4> QED BY <4>1, <4>2, <4>3
    <3>3. CASE n = top
      <4>1. new[n] = val[n - 1] * 10 + Digit[s[n]] /\ ~(n < i)
        BY <2>3, <3>3
      <4>2. new[n - 1] = val[n - 1]
        BY <2>3, <3>3
      <4> QED BY <4>1, <4>2
    <3> QED BY <2>3, <3>1, <3>2, <3>3
  <2>6. Counts(s, i, i - 1 + m, new)
    BY <2>2, <2>5 DEF Counts
  <2> HIDE DEF new
  <2> QED BY <2>6
<1>3. \E val : Counts(s, i, j, val)
  <2>1. PICK len : len = j - i + 1
    OBVIOUS
  <2>2. len \in Nat /\ len \in 0..len /\ i - 1 + len = j
    BY <2>1
  <2>3. \A m \in 1..len : m - 1 \in S => m \in S
    BY <1>2, <2>1
  <2>4. len \in S
    <3> HIDE DEF S
    <3> QED BY <1>1, <2>2, <2>3, Induction
  <2> QED BY <2>2, <2>4
<1> DEFINE val == CHOOSE v : Counts(s, i, j, v)
<1>4. Counts(s, i, j, val)
  BY <1>3
<1>5. Number(s, i, j) = val[j]
  BY DEF Number, Counts
<1> QED BY <1>4, <1>5

LEMMA DigitIsNat == \A c \in Digits : Digit[c] \in Nat
<1>1. ASSUME NEW c \in Digits PROVE Digit[c] \in Nat
  BY DEF Digit, Digits
<1> QED BY <1>1

\* Digits make a number.
LEMMA NumberIsNat ==
    ASSUME NEW s, NEW i \in Nat, NEW j \in Nat, i <= j, \A n \in i..j : s[n] \in Digits
    PROVE  Number(s, i, j) \in Nat
<1>1. PICK val : Counts(s, i, j, val) /\ Number(s, i, j) = val[j]
  BY NumberRuns
<1>2. \A n \in (i - 1)..j : val[n] = IF n < i THEN 0 ELSE val[n - 1] * 10 + Digit[s[n]]
  BY <1>1 DEF Counts
<1> DEFINE S == {m \in 0..(j - i + 1) : val[i - 1 + m] \in Nat}
<1>3. 0 \in S
  <2>1. i - 1 + 0 \in (i - 1)..j /\ i - 1 + 0 < i
    OBVIOUS
  <2>2. val[i - 1 + 0] = 0
    BY <1>2, <2>1
  <2> QED BY <2>2
<1>4. ASSUME NEW m \in 1..(j - i + 1), m - 1 \in S PROVE m \in S
  <2>1. PICK n : n = i - 1 + m
    OBVIOUS
  <2>2. n \in i..j /\ n \in (i - 1)..j /\ ~(n < i) /\ n - 1 = i - 1 + (m - 1)
    BY <2>1
  <2>3. val[n - 1] \in Nat
    BY <1>4, <2>2
  <2>4. Digit[s[n]] \in Nat
    BY <2>2, DigitIsNat
  <2>5. val[n] = val[n - 1] * 10 + Digit[s[n]]
    BY <1>2, <2>2
  <2>6. val[n] \in Nat
    BY <2>3, <2>4, <2>5
  <2> QED BY <2>1, <2>6
<1>5. PICK len : len = j - i + 1
  OBVIOUS
<1>6. len \in Nat /\ len \in 0..len /\ i - 1 + len = j
  BY <1>5
<1>7. len \in S
  <2>1. \A m \in 1..len : m - 1 \in S => m \in S
    BY <1>4, <1>5
  <2> HIDE DEF S
  <2> QED BY <1>3, <1>6, <2>1, Induction
<1> QED BY <1>1, <1>6, <1>7

\* The number depends on its digits only.
LEMMA NumberSame ==
    ASSUME NEW s, NEW t, NEW i \in Nat, NEW j \in Nat, i <= j, \A n \in i..j : s[n] = t[n]
    PROVE  Number(s, i, j) = Number(t, i, j)
<1>1. PICK v : Counts(s, i, j, v) /\ Number(s, i, j) = v[j]
  BY NumberRuns
<1>2. PICK w : Counts(t, i, j, w) /\ Number(t, i, j) = w[j]
  BY NumberRuns
<1>3. \A n \in (i - 1)..j : v[n] = IF n < i THEN 0 ELSE v[n - 1] * 10 + Digit[s[n]]
  BY <1>1 DEF Counts
<1>4. \A n \in (i - 1)..j : w[n] = IF n < i THEN 0 ELSE w[n - 1] * 10 + Digit[t[n]]
  BY <1>2 DEF Counts
<1> DEFINE S == {m \in 0..(j - i + 1) : v[i - 1 + m] = w[i - 1 + m]}
<1>5. 0 \in S
  <2>1. i - 1 + 0 \in (i - 1)..j /\ i - 1 + 0 < i
    OBVIOUS
  <2>2. v[i - 1 + 0] = 0 /\ w[i - 1 + 0] = 0
    BY <1>3, <1>4, <2>1
  <2> QED BY <2>2
<1>6. ASSUME NEW m \in 1..(j - i + 1), m - 1 \in S PROVE m \in S
  <2>1. PICK n : n = i - 1 + m
    OBVIOUS
  <2>2. n \in i..j /\ n \in (i - 1)..j /\ ~(n < i) /\ n - 1 = i - 1 + (m - 1)
    BY <2>1
  <2>3. v[n - 1] = w[n - 1] /\ s[n] = t[n]
    BY <1>6, <2>2
  <2>4. v[n] = v[n - 1] * 10 + Digit[s[n]] /\ w[n] = w[n - 1] * 10 + Digit[t[n]]
    BY <1>3, <1>4, <2>2
  <2>5. v[n] = w[n]
    BY <2>3, <2>4
  <2> QED BY <2>1, <2>5
<1>7. PICK len : len = j - i + 1
  OBVIOUS
<1>8. len \in Nat /\ len \in 0..len /\ i - 1 + len = j
  BY <1>7
<1>9. len \in S
  <2>1. \A m \in 1..len : m - 1 \in S => m \in S
    BY <1>6, <1>7
  <2> HIDE DEF S
  <2> QED BY <1>5, <1>8, <2>1, Induction
<1> QED BY <1>1, <1>2, <1>8, <1>9

(***************************************************************************)
(* The automaton on two lines that start alike                             *)
(***************************************************************************)
\* The brackets are in the line, one after the other.
LEMMA Order ==
    ASSUME NEW s, Len(s) \in Nat, NEW codes, NEW lists, NEW i, NEW j, NEW k, NEW l, NEW m
    PROVE  /\ At1(s, i) => i \in 5..Len(s)
           /\ At2(s, i, j, codes) => i \in 5..Len(s) /\ j \in (i + 1)..Len(s)
           /\ At3(s, i, j, k, codes, lists) =>
                 i \in 5..Len(s) /\ j \in (i + 1)..Len(s) /\ k \in (j + 1)..Len(s)
           /\ At4(s, i, j, k, l, codes, lists) =>
                 /\ i \in 5..Len(s) /\ j \in (i + 1)..Len(s) /\ k \in (j + 1)..Len(s)
                 /\ l \in (k + 1)..Len(s)
           /\ At5(s, i, j, k, l, m, codes, lists) =>
                 /\ i \in 5..Len(s) /\ j \in (i + 1)..Len(s) /\ k \in (j + 1)..Len(s)
                 /\ l \in (k + 1)..Len(s) /\ m \in (l + 1)..Len(s)
<1>1. At1(s, i) => i \in 5..Len(s)
  BY DEF At1
<1>2. At2(s, i, j, codes) => At1(s, i) /\ j \in (i + 1)..Len(s)
  BY DEF At2
<1>3. At3(s, i, j, k, codes, lists) => At2(s, i, j, codes) /\ k \in (j + 1)..Len(s)
  BY DEF At3
<1>4. At4(s, i, j, k, l, codes, lists) =>
         At3(s, i, j, k, codes, lists) /\ l \in (k + 1)..Len(s)
  BY DEF At4
<1>5. At5(s, i, j, k, l, m, codes, lists) =>
         At4(s, i, j, k, l, codes, lists) /\ m \in (l + 1)..Len(s)
  BY DEF At5
<1> QED BY <1>1, <1>2, <1>3, <1>4, <1>5

\* What it reads lies within what has been read.
LEMMA BeginWithin ==
    ASSUME NEW s, Len(s) \in Nat, NEW n \in Nat, NEW p, Reached(s, p, n)
    PROVE  p.begin \in 0..n
<1>1. CASE InGreeting(s, p, n)
  BY <1>1 DEF InGreeting, Start
<1>2. CASE BeforeCode(s, p, n)
  BY <1>2 DEF BeforeCode
<1>3. CASE InCode(s, p, n)
  BY <1>3 DEF InCode, At1
<1>4. CASE InList(s, p, n)
  <2>1. PICK i : At2(s, i, p.begin, Codes) /\ p.begin <= n
    BY <1>4 DEF InList
  <2> QED BY <2>1 DEF At2, At1
<1>5. CASE BeforeCommand(s, p, n)
  <2>1. PICK i, k : At3(s, i, p.begin, k, Codes, Lists) /\ k <= n
    BY <1>5 DEF BeforeCommand
  <2>2. PICK b : b = p.begin /\ At3(s, i, b, k, Codes, Lists)
    BY <2>1
  <2>3. i \in 5..Len(s) /\ b \in (i + 1)..Len(s) /\ k \in (b + 1)..Len(s)
    BY <2>2, Order, Zenon
  <2>4. b \in Nat /\ k \in Nat /\ b < k
    BY <2>3
  <2> QED BY <2>1, <2>2, <2>4
<1>6. CASE InCommand(s, p, n)
  <2>1. PICK i, j, k : At4(s, i, j, k, p.begin, Codes, Lists) /\ p.begin <= n
    BY <1>6 DEF InCommand
  <2>2. PICK b : b = p.begin /\ At4(s, i, j, k, b, Codes, Lists)
    BY <2>1
  <2>3. /\ i \in 5..Len(s) /\ j \in (i + 1)..Len(s) /\ k \in (j + 1)..Len(s)
        /\ b \in (k + 1)..Len(s)
    BY <2>2, Order, Zenon
  <2>4. b \in Nat
    BY <2>3
  <2> QED BY <2>1, <2>2, <2>4
<1>7. CASE InMessage(s, p, n)
  <2>1. PICK i, j, k, l : At5(s, i, j, k, l, p.begin, Codes, Lists) /\ p.begin <= n
    BY <1>7 DEF InMessage
  <2>2. PICK b : b = p.begin /\ At5(s, i, j, k, l, b, Codes, Lists)
    BY <2>1
  <2>3. /\ i \in 5..Len(s) /\ j \in (i + 1)..Len(s) /\ k \in (j + 1)..Len(s)
        /\ l \in (k + 1)..Len(s) /\ b \in (l + 1)..Len(s)
    BY <2>2, Order, Zenon
  <2>4. b \in Nat
    BY <2>3
  <2> QED BY <2>1, <2>2, <2>4
<1> QED BY <1>1, <1>2, <1>3, <1>4, <1>5, <1>6, <1>7 DEF Reached

\* A round depends on the characters read so far only.
LEMMA ReadsSame ==
    ASSUME NEW C, NEW s \in Seq(C), NEW t \in Seq(C), NEW n \in Nat, n < Len(s), n < Len(t),
           \A x \in 1..(n + 1) : s[x] = t[x], NEW p, p.begin \in 0..n
    PROVE  Reads(s, p, n) = Reads(t, p, n)
<1>1. s[n + 1] = t[n + 1]
  OBVIOUS
<1>2. Len(s) \in Nat /\ Len(t) \in Nat
  BY LenProperties
<1>3. PICK b : b = p.begin
  OBVIOUS
<1>4. Parsed(s, p, n) = Parsed(t, p, n)
  <2>1. CASE b = n
    BY <1>3, <2>1 DEF Parsed
  <2>2. CASE b # n
    <3>1. b + 1 \in Nat /\ b + 1 <= n /\ \A x \in (b + 1)..n : s[x] = t[x]
      BY <1>3, <2>2
    <3>2. Number(s, b + 1, n) = Number(t, b + 1, n)
      BY <3>1, NumberSame
    <3> QED BY <1>3, <3>2 DEF Parsed
  <2> QED BY <2>1, <2>2
<1>5. Before(s, p, n) = Before(t, p, n)
  <2>1. PICK i, u, v : i = b + 1 /\ u = SubSeq(s, i, n) /\ v = SubSeq(t, i, n)
    OBVIOUS
  <2>2. i \in Nat \ {0} /\ n \in (i - 1)..Len(s) /\ n \in (i - 1)..Len(t)
    <3>1. b \in 0..n /\ i = b + 1
      BY <1>3, <2>1
    <3> QED BY <1>2, <3>1
  <2>3. u \in Seq(C) /\ Len(u) = n - i + 1 /\ \A x \in 1..(n - i + 1) : u[x] = s[i + x - 1]
    BY <2>1, <2>2, PartOf, SMTT(30)
  <2>4. v \in Seq(C) /\ Len(v) = n - i + 1 /\ \A x \in 1..(n - i + 1) : v[x] = t[i + x - 1]
    <3>1. \A w \in Seq(C) : n \in (i - 1)..Len(w) =>
              /\ SubSeq(w, i, n) \in Seq(C) /\ Len(SubSeq(w, i, n)) = n - i + 1
              /\ \A x \in 1..(n - i + 1) : SubSeq(w, i, n)[x] = w[i + x - 1]
      BY <2>2, PartOf
    <3> QED BY <2>1, <2>2, <3>1
  <2>5. \A x \in 1..(n - i + 1) : u[x] = v[x]
    <3> TAKE x \in 1..(n - i + 1)
    <3>1. i + x - 1 \in 1..(n + 1)
      BY <2>2
    <3>2. s[i + x - 1] = t[i + x - 1]
      BY <3>1
    <3> QED BY <2>3, <2>4, <3>2
  <2>6. u = v
    BY <2>3, <2>4, <2>5, SeqEqual
  <2> QED BY <1>3, <2>1, <2>6 DEF Before
<1>6. EndOfCode(s, p, n) = EndOfCode(t, p, n) /\ EndOfList(s, p, n) = EndOfList(t, p, n)
  BY <1>4, Zenon DEF EndOfCode, EndOfList
<1> QED BY <1>1, <1>5, <1>6, Zenon DEF Reads

\* So as long as two lines are alike, so are its states.
LEMMA RunsTogether ==
    ASSUME NEW C, NEW s \in Seq(C), NEW t \in Seq(C), NEW m \in Nat, m <= Len(s), m <= Len(t),
           \A x \in 1..m : s[x] = t[x], NEW f, Passes(s, f), NEW g, Passes(t, g)
    PROVE  \A n \in 0..m : f[n] = g[n]
<1> DEFINE S == {n \in 0..m : f[n] = g[n]}
<1>0. Len(s) \in Nat /\ Len(t) \in Nat
  BY LenProperties
<1>1. f[0] = Start /\ \A n \in 1..m : f[n] = Round(s, f[n - 1], n)
  <2>1. f[0] = Start /\ \A n \in 1..Len(s) : f[n] = Round(s, f[n - 1], n)
    BY SMTT(30) DEF Passes
  <2> QED BY <1>0, <2>1
<1>2. g[0] = Start /\ \A n \in 1..m : g[n] = Round(t, g[n - 1], n)
  <2>1. g[0] = Start /\ \A n \in 1..Len(t) : g[n] = Round(t, g[n - 1], n)
    BY SMTT(30) DEF Passes
  <2> QED BY <1>0, <2>1
<1>3. 0 \in S
  BY <1>1, <1>2
<1>4. ASSUME NEW n \in 1..m, n - 1 \in S PROVE n \in S
  <2>1. PICK p : p = f[n - 1]
    OBVIOUS
  <2>2. f[n] = Round(s, p, n) /\ g[n] = Round(t, p, n)
    BY <1>1, <1>2, <1>4, <2>1
  <2>3. CASE p.error # <<>>
    BY <2>2, <2>3 DEF Round
  <2>4. CASE p.error = <<>>
    <3>1. n - 1 \in 0..Len(s) /\ n - 1 \in Nat /\ n - 1 < Len(s) /\ n - 1 < Len(t)
          /\ (n - 1) + 1 = n
      BY <1>0
    <3>2. ~\E k \in 0..(n - 2) : Refuses(s, f[k], p, k)
      BY <2>4 DEF Refuses
    <3>3. Reached(s, p, n - 1)
      BY <2>1, <3>1, <3>2, AutomatonEnds
    <3>4. p.begin \in 0..(n - 1)
      BY <1>0, <3>1, <3>3, BeginWithin
    <3>5. \A x \in 1..n : s[x] = t[x]
      BY <3>1
    <3>6. Reads(s, p, n - 1) = Reads(t, p, n - 1)
      <4>1. PICK k : k = n - 1
        OBVIOUS
      <4>2. k \in Nat /\ k < Len(s) /\ k < Len(t) /\ k + 1 = n /\ p.begin \in 0..k
        BY <3>1, <3>4, <4>1
      <4>3. \A x \in 1..(k + 1) : s[x] = t[x]
        BY <3>5, <4>2
      <4>4. Reads(s, p, k) = Reads(t, p, k)
        BY <4>2, <4>3, ReadsSame
      <4> QED BY <4>1, <4>4
    <3> QED BY <2>2, <2>4, <3>6 DEF Round
  <2> QED BY <2>3, <2>4
<1>5. \A n \in 1..m : n - 1 \in S => n \in S
  BY <1>4
<1> HIDE DEF S
<1>6. \A n \in 0..m : n \in S
  BY <1>3, <1>5, Induction
<1> QED BY <1>6 DEF S

(***************************************************************************)
(* What can still become a refusal                                         *)
(***************************************************************************)
\* The line t ends with the example from its character m on, which is at x.
Follows(t, x, m) == Len(t) = x + 15 - m /\ \A y \in m..15 : t[x + y - m] = Example[y]

LEMMA ExampleIs ==
    /\ Example[1] = "A" /\ Example[2] = "C" /\ Example[3] = "K" /\ Example[4] = Space
    /\ Example[5] = "[" /\ Example[6] = "5" /\ Example[7] = "@" /\ Example[8] = "2"
    /\ Example[9] = "]" /\ Example[10] = Space /\ Example[11] = LeftBrace
    /\ Example[12] = "x" /\ Example[13] = RightBrace /\ Example[14] = Space
    /\ Example[15] = "x" /\ Len(Example) = 15
BY DEF Example

LEMMA FollowsOn ==
    ASSUME NEW t, NEW x \in Nat, NEW m \in 1..15, Follows(t, x, m)
    PROVE  /\ t[x] = Example[m] /\ Len(t) = x + 15 - m
           /\ m < 14 => t[x + 1] = Example[m + 1] /\ Follows(t, x + 2, m + 2)
<1>1. t[x] = Example[m]
  <2>1. m \in m..15 /\ x + m - m = x
    OBVIOUS
  <2> QED BY <2>1 DEF Follows
<1>2. ASSUME m < 14 PROVE t[x + 1] = Example[m + 1]
  <2>1. m + 1 \in m..15 /\ x + (m + 1) - m = x + 1
    BY <1>2
  <2> QED BY <2>1 DEF Follows
<1>3. ASSUME m < 14 PROVE Follows(t, x + 2, m + 2)
  <2>1. Len(t) = (x + 2) + 15 - (m + 2)
    BY DEF Follows
  <2>2. ASSUME NEW y \in (m + 2)..15 PROVE t[(x + 2) + y - (m + 2)] = Example[y]
    <3>1. y \in m..15 /\ (x + 2) + y - (m + 2) = x + y - m
      OBVIOUS
    <3> QED BY <3>1 DEF Follows
  <2> QED BY <2>1, <2>2 DEF Follows
<1> QED BY <1>1, <1>2, <1>3 DEF Follows

LEMMA NoSpace == "x" # Space /\ "x" # RightBrace /\ LeftBrace # RightBrace
BY DEF Space, LeftBrace, RightBrace

\* The message, the end of the command, and so on to the start of the code.
LEMMA Rest5 ==
    ASSUME NEW C, NEW t \in Seq(C), NEW i, NEW j, NEW k, NEW l, NEW m \in Nat, NEW x \in Nat,
           At5(t, i, j, k, l, m, Nat, Nat), m < x, Follows(t, x, 15)
    PROVE  Conforms(t, Nat, Nat)
<1>1. t[x] = "x" /\ Len(t) = x
  BY FollowsOn, ExampleIs, SMTT(30)
<1>2. PICK a, u : a = m + 1 /\ u = SubSeq(t, a, x)
  OBVIOUS
<1>3. a \in Nat \ {0} /\ x \in (a - 1)..Len(t)
  BY <1>1, <1>2
<1>4. u \in Seq(C) /\ Len(u) = x - a + 1 /\ \A n \in 1..(x - a + 1) : u[n] = t[a + n - 1]
  BY <1>2, <1>3, PartOf
<1>5. PICK n : n = x - a + 1
  OBVIOUS
<1>6. n \in 1..(x - a + 1) /\ a + n - 1 = x
  BY <1>2, <1>5
<1>7. u[n] = "x" /\ n \in DOMAIN u
  BY <1>1, <1>4, <1>5, <1>6, LenProperties
<1>8. ~Blank(u)
  BY <1>7, NoSpace DEF Blank
<1>9. ~Blank(SubSeq(t, m + 1, Len(t)))
  BY <1>1, <1>2, <1>8
<1> QED BY <1>9, ConformsForm

LEMMA Rest4 ==
    ASSUME NEW C, NEW t \in Seq(C), NEW i, NEW j, NEW k, NEW l \in Nat, NEW x \in Nat,
           At4(t, i, j, k, l, Nat, Nat), l < x, \A n \in (l + 1)..(x - 1) : t[n] # RightBrace,
           Follows(t, x, 13)
    PROVE  Conforms(t, Nat, Nat)
<1>0. PICK m : m = 13
  OBVIOUS
<1>1. t[x] = Example[m] /\ Len(t) = x + 15 - m /\ Follows(t, x + 2, m + 2)
  BY <1>0, FollowsOn
<1>2. t[x] = RightBrace /\ Len(t) = x + 2 /\ Follows(t, x + 2, 15)
  BY <1>0, <1>1, ExampleIs
<1>3. At5(t, i, j, k, l, x, Nat, Nat)
  BY <1>2 DEF At5
<1>4. x + 2 \in Nat /\ x < x + 2
  OBVIOUS
<1> QED BY <1>2, <1>3, <1>4, Rest5

LEMMA Rest3 ==
    ASSUME NEW C, NEW t \in Seq(C), NEW i, NEW j, NEW k \in Nat, NEW x \in Nat,
           At3(t, i, j, k, Nat, Nat), k < x, \A n \in (k + 1)..(x - 1) : t[n] = Space,
           Follows(t, x, 11)
    PROVE  Conforms(t, Nat, Nat)
<1>0. PICK m : m = 11
  OBVIOUS
<1>1. /\ t[x] = Example[m] /\ Len(t) = x + 15 - m
      /\ t[x + 1] = Example[m + 1] /\ Follows(t, x + 2, m + 2)
  BY <1>0, FollowsOn
<1>2. /\ t[x] = LeftBrace /\ Len(t) = x + 4
      /\ t[x + 1] = "x" /\ Follows(t, x + 2, 13)
  BY <1>0, <1>1, ExampleIs
<1>3. At4(t, i, j, k, x, Nat, Nat)
  BY <1>2 DEF At4, Spaces
<1>4. x + 2 \in Nat /\ x < x + 2 /\ \A n \in (x + 1)..((x + 2) - 1) : n = x + 1
  OBVIOUS
<1>5. \A n \in (x + 1)..((x + 2) - 1) : t[n] # RightBrace
  BY <1>2, <1>4, NoSpace
<1> QED BY <1>2, <1>3, <1>4, <1>5, Rest4

\* A number ends at its bracket.
LEMMA NumberEnds ==
    ASSUME NEW t, NEW i \in Nat, NEW j \in Nat, i + 1 < j, DigitsIn(t, i + 1, j - 1)
    PROVE  IsNumber(t, i + 1, j - 1, Nat)
<1>1. PICK a, b : a = i + 1 /\ b = j - 1
  OBVIOUS
<1>2. a \in Nat /\ b \in Nat /\ a <= b /\ \A n \in a..b : t[n] \in Digits
  BY <1>1 DEF DigitsIn
<1>3. Number(t, a, b) \in Nat
  BY <1>2, NumberIsNat
<1> QED BY <1>1, <1>2, <1>3 DEF IsNumber

LEMMA Rest2 ==
    ASSUME NEW C, NEW t \in Seq(C), NEW i, NEW j \in Nat, NEW x \in Nat,
           At2(t, i, j, Nat), j + 1 < x, DigitsIn(t, j + 1, x - 1), Follows(t, x, 9)
    PROVE  Conforms(t, Nat, Nat)
<1>0. PICK m : m = 9
  OBVIOUS
<1>1. /\ t[x] = Example[m] /\ Len(t) = x + 15 - m
      /\ t[x + 1] = Example[m + 1] /\ Follows(t, x + 2, m + 2)
  BY <1>0, FollowsOn
<1>2. /\ t[x] = "]" /\ Len(t) = x + 6
      /\ t[x + 1] = Space /\ Follows(t, x + 2, 11)
  BY <1>0, <1>1, ExampleIs
<1>3. At3(t, i, j, x, Nat, Nat)
  <2>1. x \in (j + 1)..Len(t)
    BY <1>2
  <2> QED BY <1>2, <2>1, NumberEnds DEF At3
<1>4. x + 2 \in Nat /\ x < x + 2 /\ \A n \in (x + 1)..((x + 2) - 1) : n = x + 1
  OBVIOUS
<1>5. \A n \in (x + 1)..((x + 2) - 1) : t[n] = Space
  BY <1>2, <1>4
<1> QED BY <1>2, <1>3, <1>4, <1>5, Rest3

LEMMA Rest1 ==
    ASSUME NEW C, NEW t \in Seq(C), NEW i \in Nat, NEW x \in Nat,
           At1(t, i), i + 1 < x, DigitsIn(t, i + 1, x - 1), Follows(t, x, 7)
    PROVE  Conforms(t, Nat, Nat)
<1>0. PICK m : m = 7
  OBVIOUS
<1>1. /\ t[x] = Example[m] /\ Len(t) = x + 15 - m
      /\ t[x + 1] = Example[m + 1] /\ Follows(t, x + 2, m + 2)
  BY <1>0, FollowsOn
<1>2. /\ t[x] = "@" /\ Len(t) = x + 8
      /\ t[x + 1] = "2" /\ Follows(t, x + 2, 9)
  BY <1>0, <1>1, ExampleIs
<1>3. At2(t, i, x, Nat)
  <2>1. x \in (i + 1)..Len(t)
    BY <1>2
  <2> QED BY <1>2, <2>1, NumberEnds DEF At2
<1>4. x + 2 \in Nat /\ x + 1 < x + 2 /\ \A n \in (x + 1)..((x + 2) - 1) : n = x + 1
  OBVIOUS
<1>5. DigitsIn(t, x + 1, (x + 2) - 1)
  BY <1>2, <1>4 DEF DigitsIn, Digits
<1> QED BY <1>2, <1>3, <1>4, <1>5, Rest2

LEMMA Rest0 ==
    ASSUME NEW C, NEW t \in Seq(C), NEW x \in Nat,
           Greets(t), x >= 5, Spaces(t, 5, x - 1), Follows(t, x, 5)
    PROVE  Conforms(t, Nat, Nat)
<1>0. PICK m : m = 5
  OBVIOUS
<1>1. /\ t[x] = Example[m] /\ Len(t) = x + 15 - m
      /\ t[x + 1] = Example[m + 1] /\ Follows(t, x + 2, m + 2)
  BY <1>0, FollowsOn
<1>2. /\ t[x] = "[" /\ Len(t) = x + 10
      /\ t[x + 1] = "5" /\ Follows(t, x + 2, 7)
  BY <1>0, <1>1, ExampleIs
<1>3. At1(t, x)
  BY <1>2 DEF At1
<1>4. x + 2 \in Nat /\ x + 1 < x + 2 /\ \A n \in (x + 1)..((x + 2) - 1) : n = x + 1
  OBVIOUS
<1>5. DigitsIn(t, x + 1, (x + 2) - 1)
  BY <1>2, <1>4 DEF DigitsIn, Digits
<1> QED BY <1>2, <1>3, <1>4, <1>5, Rest1

\* What has been read stays in its place when the rest of the line changes.
Alike(s, t, n) == /\ Len(s) \in Nat /\ Len(t) \in Nat /\ n \in 0..Len(s) /\ n <= Len(t)
                  /\ \A x \in 1..n : t[x] = s[x]

LEMMA Carry1 == ASSUME NEW s, NEW t, NEW n, Alike(s, t, n), NEW i, At1(s, i), i <= n
                PROVE  At1(t, i)
<1>1. /\ i \in 5..Len(s) /\ s[i] = "[" /\ \A x \in 5..(i - 1) : s[x] = Space
      /\ s[1] = "A" /\ s[2] = "C" /\ s[3] = "K"
  BY DEF At1, Greets, Spaces
<1>2. \A x \in 1..i : t[x] = s[x]
  BY <1>1 DEF Alike
<1>3. i \in 5..Len(t) /\ Len(t) > 3
  BY <1>1 DEF Alike
<1>4. t[1] = "A" /\ t[2] = "C" /\ t[3] = "K" /\ t[i] = "["
  BY <1>1, <1>2
<1>5. \A x \in 5..(i - 1) : t[x] = Space
  BY <1>1, <1>2
<1> QED BY <1>3, <1>4, <1>5 DEF At1, Greets, Spaces

LEMMA CarryNumber ==
    ASSUME NEW s, NEW t, NEW n, Alike(s, t, n), NEW set, NEW i \in Nat, NEW j \in Nat,
           0 < i, j <= n, IsNumber(s, i, j, set)
    PROVE  IsNumber(t, i, j, Nat)
<1>1. i <= j /\ \A x \in i..j : s[x] \in Digits
  BY DEF IsNumber
<1>2. \A x \in i..j : t[x] \in Digits
  BY <1>1 DEF Alike
<1>3. Number(t, i, j) \in Nat
  BY <1>1, <1>2, NumberIsNat
<1> QED BY <1>1, <1>2, <1>3 DEF IsNumber

LEMMA Carry2 ==
    ASSUME NEW s, NEW t, NEW n, Alike(s, t, n), NEW i, NEW j, NEW codes,
           At2(s, i, j, codes), j <= n
    PROVE  At2(t, i, j, Nat)
<1>0. Len(s) \in Nat /\ Len(t) \in Nat /\ n \in 0..Len(s) /\ n <= Len(t)
  BY DEF Alike
<1>1. i \in 5..Len(s) /\ j \in (i + 1)..Len(s)
  BY <1>0, Order, Zenon
<1>2. At1(s, i) /\ s[j] = "@" /\ IsNumber(s, i + 1, j - 1, codes)
  BY DEF At2
<1>3. At1(t, i)
  BY <1>0, <1>1, <1>2, Carry1
<1>4. IsNumber(t, i + 1, j - 1, Nat)
  <2>1. PICK a, b : a = i + 1 /\ b = j - 1
    OBVIOUS
  <2>2. a \in Nat /\ b \in Nat /\ 0 < a /\ b <= n /\ IsNumber(s, a, b, codes)
    BY <1>0, <1>1, <1>2, <2>1
  <2>3. IsNumber(t, a, b, Nat)
    BY <2>2, CarryNumber
  <2> QED BY <2>1, <2>3
<1>5. j \in (i + 1)..Len(t) /\ t[j] = "@"
  BY <1>0, <1>1, <1>2 DEF Alike
<1> QED BY <1>3, <1>4, <1>5 DEF At2

LEMMA Carry3 ==
    ASSUME NEW s, NEW t, NEW n, Alike(s, t, n), NEW i, NEW j, NEW k, NEW codes, NEW lists,
           At3(s, i, j, k, codes, lists), k <= n
    PROVE  At3(t, i, j, k, Nat, Nat)
<1>0. Len(s) \in Nat /\ Len(t) \in Nat /\ n \in 0..Len(s) /\ n <= Len(t)
  BY DEF Alike
<1>1. i \in 5..Len(s) /\ j \in (i + 1)..Len(s) /\ k \in (j + 1)..Len(s)
  BY <1>0, Order, Zenon
<1>2. At2(s, i, j, codes) /\ s[k] = "]" /\ IsNumber(s, j + 1, k - 1, lists)
  BY DEF At3
<1>3. At2(t, i, j, Nat)
  BY <1>0, <1>1, <1>2, Carry2
<1>4. IsNumber(t, j + 1, k - 1, Nat)
  <2>1. PICK a, b : a = j + 1 /\ b = k - 1
    OBVIOUS
  <2>2. a \in Nat /\ b \in Nat /\ 0 < a /\ b <= n /\ IsNumber(s, a, b, lists)
    BY <1>0, <1>1, <1>2, <2>1
  <2>3. IsNumber(t, a, b, Nat)
    BY <2>2, CarryNumber
  <2> QED BY <2>1, <2>3
<1>5. k \in (j + 1)..Len(t) /\ t[k] = "]"
  BY <1>0, <1>1, <1>2 DEF Alike
<1> QED BY <1>3, <1>4, <1>5 DEF At3

LEMMA Carry4 ==
    ASSUME NEW s, NEW t, NEW n, Alike(s, t, n), NEW i, NEW j, NEW k, NEW l, NEW codes, NEW lists,
           At4(s, i, j, k, l, codes, lists), l <= n
    PROVE  At4(t, i, j, k, l, Nat, Nat)
<1>0. Len(s) \in Nat /\ Len(t) \in Nat /\ n \in 0..Len(s) /\ n <= Len(t)
  BY DEF Alike
<1>1. /\ i \in 5..Len(s) /\ j \in (i + 1)..Len(s) /\ k \in (j + 1)..Len(s)
      /\ l \in (k + 1)..Len(s)
  BY <1>0, Order, Zenon
<1>2. /\ At3(s, i, j, k, codes, lists) /\ s[l] = LeftBrace
      /\ \A x \in (k + 1)..(l - 1) : s[x] = Space
  BY DEF At4, Spaces
<1>3. At3(t, i, j, k, Nat, Nat)
  BY <1>0, <1>1, <1>2, Carry3
<1>4. \A x \in (k + 1)..(l - 1) : t[x] = Space
  BY <1>0, <1>1, <1>2 DEF Alike
<1>5. l \in (k + 1)..Len(t) /\ t[l] = LeftBrace
  BY <1>0, <1>1, <1>2 DEF Alike
<1> QED BY <1>3, <1>4, <1>5 DEF At4, Spaces

LEMMA Carry5 ==
    ASSUME NEW s, NEW t, NEW n, Alike(s, t, n), NEW i, NEW j, NEW k, NEW l, NEW m,
           NEW codes, NEW lists, At5(s, i, j, k, l, m, codes, lists), m <= n
    PROVE  At5(t, i, j, k, l, m, Nat, Nat)
<1>0. Len(s) \in Nat /\ Len(t) \in Nat /\ n \in 0..Len(s) /\ n <= Len(t)
  BY DEF Alike
<1>1. /\ i \in 5..Len(s) /\ j \in (i + 1)..Len(s) /\ k \in (j + 1)..Len(s)
      /\ l \in (k + 1)..Len(s) /\ m \in (l + 1)..Len(s)
  BY <1>0, Order, Zenon
<1>2. /\ At4(s, i, j, k, l, codes, lists) /\ s[m] = RightBrace
      /\ \A x \in (l + 1)..(m - 1) : s[x] # RightBrace
  BY DEF At5
<1>3. At4(t, i, j, k, l, Nat, Nat)
  BY <1>0, <1>1, <1>2, Carry4
<1>6. l \in Nat /\ m \in Nat /\ l < m /\ \A x \in 1..n : t[x] = s[x]
  BY <1>0, <1>1 DEF Alike
<1>4. \A x \in (l + 1)..(m - 1) : t[x] # RightBrace
  BY <1>0, <1>2, <1>6
<1>5. m \in (l + 1)..Len(t) /\ t[m] = RightBrace
  BY <1>0, <1>2, <1>6
<1> QED BY <1>3, <1>4, <1>5 DEF At5

\* A part of the line with an end of the example after it.
Characters == {"A", "C", "K", Space, "[", "5", "@", "2", "]", LeftBrace, "x", RightBrace}

IsStart(u, s, n) == Len(u) = n /\ \A x \in 1..n : u[x] = s[x]
IsEnd(w, e, m, d) == Len(w) = d - m + 1 /\ \A x \in 1..(d - m + 1) : w[x] = e[m + x - 1]
IsJoin(t, u, w) ==
    /\ Len(t) = Len(u) + Len(w)
    /\ \A x \in 1..(Len(u) + Len(w)) : t[x] = IF x <= Len(u) THEN u[x] ELSE w[x - Len(u)]

LEMMA ExtendedParts ==
    ASSUME NEW s, Len(s) \in Nat, NEW n \in 0..Len(s), NEW m \in 1..15,
           NEW u, IsStart(u, s, n), NEW w, IsEnd(w, Example, m, 15), NEW t, IsJoin(t, u, w)
    PROVE  /\ Alike(s, t, n) /\ Follows(t, n + 1, m)
           /\ n + 1 \in Nat /\ Len(t) = n + 16 - m
<1>1. \A x \in 1..Len(t) : t[x] = IF x <= n THEN u[x] ELSE w[x - n]
  BY DEF IsStart, IsJoin
<1>2. Len(t) = n + 16 - m /\ n \in Nat
  BY DEF IsStart, IsEnd, IsJoin
<1>3. Alike(s, t, n)
  <2>1. \A x \in 1..n : x \in 1..Len(t) /\ x <= n
    BY <1>2
  <2>2. \A x \in 1..n : t[x] = s[x]
    BY <1>1, <2>1 DEF IsStart
  <2> QED BY <1>2, <2>2 DEF Alike
<1>4. ASSUME NEW y \in m..15 PROVE t[(n + 1) + y - m] = Example[y]
  <2>1. PICK x, z : x = (n + 1) + y - m /\ z = y - m + 1
    OBVIOUS
  <2>2. /\ x \in 1..Len(t) /\ ~(x <= n) /\ x - n = z
        /\ z \in 1..(15 - m + 1) /\ m + z - 1 = y
    BY <1>2, <2>1
  <2>3. t[x] = w[z]
    BY <1>1, <2>2
  <2>4. w[z] = Example[y]
    BY <2>2 DEF IsEnd
  <2> QED BY <2>1, <2>3, <2>4
<1>5. Follows(t, n + 1, m)
  BY <1>2, <1>4 DEF Follows
<1> QED BY <1>2, <1>3, <1>5

LEMMA Extended ==
    ASSUME NEW C, NEW s \in Seq(C), NEW n \in 0..Len(s), NEW m \in 1..15
    PROVE  \E t : /\ t = SubSeq(s, 1, n) \o SubSeq(Example, m, Len(Example))
                  /\ t \in Seq(C \cup Characters) /\ Alike(s, t, n) /\ Follows(t, n + 1, m)
                  /\ n + 1 \in Nat /\ Len(t) = n + 16 - m
<1>1. PICK D : D = C \cup Characters
  OBVIOUS
<1>2. Len(s) \in Nat
  BY LenProperties
<1>3. PICK e : e = Example
  OBVIOUS
<1>4. e \in Seq(D) /\ Len(e) = 15
  <2>1. e \in Seq(Characters)
    BY <1>3 DEF Example, Characters
  <2> QED BY <1>1, <1>3, <2>1, SeqMonotonic, ExampleIs
<1>5. s \in Seq(D)
  BY <1>1, SeqMonotonic
<1>6. PICK u : u = SubSeq(s, 1, n)
  OBVIOUS
<1>7. u \in Seq(D) /\ Len(u) = n /\ \A x \in 1..n : u[x] = s[x]
  BY <1>5, <1>6, StartOf
<1>8. PICK w, d : d = 15 /\ w = SubSeq(e, m, d)
  OBVIOUS
<1>9. w \in Seq(D) /\ Len(w) = d - m + 1 /\ \A x \in 1..(d - m + 1) : w[x] = e[m + x - 1]
  <2>1. m \in Nat \ {0} /\ d \in (m - 1)..Len(e)
    BY <1>4, <1>8
  <2>2. e \in Seq(D) /\ w = SubSeq(e, m, d)
    BY <1>4, <1>8
  <2> QED BY ONLY <2>1, <2>2, PartOf
<1>10. PICK t : t = u \o w
  OBVIOUS
<1>11. u \in Seq(D) /\ w \in Seq(D)
  BY <1>7, <1>9
<1>12. /\ t \in Seq(D) /\ Len(t) = Len(u) + Len(w)
       /\ \A x \in 1..(Len(u) + Len(w)) : t[x] = IF x <= Len(u) THEN u[x] ELSE w[x - Len(u)]
  BY ONLY <1>10, <1>11, ConcatProperties
<1>13. /\ Alike(s, t, n) /\ Follows(t, n + 1, m) /\ n + 1 \in Nat /\ Len(t) = n + 16 - m
  <2>1. IsStart(u, s, n) /\ IsEnd(w, Example, m, 15) /\ IsJoin(t, u, w)
    BY <1>3, <1>7, <1>8, <1>9, <1>12, Zenon DEF IsStart, IsEnd, IsJoin
  <2> QED BY ONLY <1>2, <2>1, n \in 0..Len(s), m \in 1..15, ExtendedParts
<1>14. t = SubSeq(s, 1, n) \o SubSeq(Example, m, Len(Example))
  BY <1>3, <1>4, <1>6, <1>8, <1>10
<1> QED BY <1>1, <1>12, <1>13, <1>14

LEMMA FollowsNext ==
    ASSUME NEW t, NEW x \in Nat, NEW m \in 1..14, Follows(t, x, m)
    PROVE  t[x] = Example[m] /\ Follows(t, x + 1, m + 1)
<1>1. t[x] = Example[m]
  <2>1. m \in m..15 /\ x + m - m = x
    OBVIOUS
  <2> QED BY <2>1 DEF Follows
<1>2. Len(t) = (x + 1) + 15 - (m + 1)
  BY DEF Follows
<1>3. ASSUME NEW y \in (m + 1)..15 PROVE t[(x + 1) + y - (m + 1)] = Example[y]
  <2>1. y \in m..15 /\ (x + 1) + y - (m + 1) = x + y - m
    OBVIOUS
  <2> QED BY <2>1 DEF Follows
<1> QED BY <1>1, <1>2, <1>3 DEF Follows

\* After what is read in each state, the end of the example makes a refusal.
LEMMA FinishInGreeting ==
    ASSUME NEW s, NEW n, NEW p, InGreeting(s, p, n), NEW D, NEW t \in Seq(D), Alike(s, t, n),
           Follows(t, n + 1, n + 1)
    PROVE  Conforms(t, Nat, Nat)
<1>0. /\ Len(s) \in Nat /\ Len(t) \in Nat /\ n \in 0..Len(s) /\ n <= Len(t)
      /\ \A y \in 1..n : t[y] = s[y]
  BY DEF Alike
<1>1. n \in 0..3 /\ \A x \in 1..n : s[x] = Greeting[x]
  BY <1>0 DEF InGreeting
<1>2. Len(t) = 15
  BY <1>1 DEF Follows
<1>3. \A y \in (n + 1)..15 : t[y] = Example[y]
  <2>1. PICK m : m = n + 1
    OBVIOUS
  <2>2. \A y \in m..15 : t[m + y - m] = Example[y]
    BY <2>1 DEF Follows
  <2>3. \A y \in m..15 : m + y - m = y
    BY <1>1, <2>1
  <2> QED BY <2>1, <2>2, <2>3
<1>4. Greeting[1] = "A" /\ Greeting[2] = "C" /\ Greeting[3] = "K"
  BY DEF Greeting
<1>5. t[1] = "A" /\ t[2] = "C" /\ t[3] = "K"
  <2>1. \A y \in 1..3 : t[y] = IF y <= n THEN Greeting[y] ELSE Example[y]
    BY <1>0, <1>1, <1>3
  <2>2. t[1] = IF 1 <= n THEN Greeting[1] ELSE Example[1]
    BY <2>1
  <2>3. t[2] = IF 2 <= n THEN Greeting[2] ELSE Example[2]
    BY <2>1
  <2>4. t[3] = IF 3 <= n THEN Greeting[3] ELSE Example[3]
    BY <2>1
  <2> QED BY <1>4, <2>2, <2>3, <2>4, ExampleIs
<1>6. PICK x : x = 5
  OBVIOUS
<1>7. Greets(t) /\ Spaces(t, 5, x - 1)
  BY <1>2, <1>5, <1>6 DEF Greets, Spaces
<1>8. Follows(t, x, 5)
  <2>1. ASSUME NEW y \in 5..15 PROVE t[x + y - 5] = Example[y]
    <3>1. PICK m : m = n
      OBVIOUS
    <3>2. m \in 0..3
      BY <1>1, <3>1
    <3>3. y \in (m + 1)..15
      BY <3>2
    <3>4. x + y - 5 = y
      BY <1>6
    <3> QED BY <1>3, <3>1, <3>3, <3>4
  <2>2. Len(t) = x + 15 - 5
    BY <1>2, <1>6
  <2> QED BY <2>1, <2>2 DEF Follows
<1>9. x \in Nat /\ x >= 5
  BY <1>6
<1> QED BY ONLY t \in Seq(D), <1>7, <1>8, <1>9, Rest0

LEMMA FinishBeforeCode ==
    ASSUME NEW s, NEW n, NEW p, BeforeCode(s, p, n), NEW D, NEW t \in Seq(D), Alike(s, t, n),
           Follows(t, n + 1, 5)
    PROVE  Conforms(t, Nat, Nat)
<1>0. /\ Len(s) \in Nat /\ Len(t) \in Nat /\ n \in 0..Len(s) /\ n <= Len(t)
      /\ \A y \in 1..n : t[y] = s[y]
  BY DEF Alike
<1>1. n >= 4 /\ Greets(s) /\ \A x \in 5..n : s[x] = Space
  BY DEF BeforeCode, Spaces
<1>2. PICK x : x = n + 1
  OBVIOUS
<1>3. x \in Nat /\ x >= 5 /\ Follows(t, x, 5) /\ x - 1 = n
  BY <1>0, <1>1, <1>2
<1>4. Greets(t)
  BY <1>0, <1>1 DEF Greets
<1>5. Spaces(t, 5, x - 1)
  BY <1>0, <1>1, <1>3 DEF Spaces
<1> QED BY ONLY t \in Seq(D), <1>3, <1>4, <1>5, Rest0

LEMMA FinishInCode ==
    ASSUME NEW s, NEW n, NEW p, InCode(s, p, n), NEW D, NEW t \in Seq(D), Alike(s, t, n),
           Follows(t, n + 1, 6)
    PROVE  Conforms(t, Nat, Nat)
<1>0. /\ Len(s) \in Nat /\ Len(t) \in Nat /\ n \in 0..Len(s) /\ n <= Len(t)
      /\ \A y \in 1..n : t[y] = s[y]
  BY DEF Alike
<1>1. PICK b : At1(s, b) /\ b <= n /\ DigitsIn(s, b + 1, n)
  BY DEF InCode
<1>2. b \in 5..Len(s)
  BY <1>1 DEF At1
<1>3. At1(t, b)
  BY <1>1, Carry1
<1>4. PICK x, m : x = n + 1 /\ m = 6
  OBVIOUS
<1>5. x \in Nat /\ Follows(t, x, m)
  BY <1>0, <1>4
<1>6. t[x] = Example[m] /\ Follows(t, x + 1, m + 1)
  BY <1>4, <1>5, FollowsNext
<1>7. t[x] \in Digits /\ Follows(t, x + 1, 7)
  BY <1>4, <1>6, ExampleIs DEF Digits
<1>8. DigitsIn(t, b + 1, (x + 1) - 1)
  <2>1. \A y \in (b + 1)..n : s[y] \in Digits
    BY <1>1 DEF DigitsIn
  <2>2. \A y \in (b + 1)..n : y \in 1..n
    BY <1>0, <1>2
  <2>3. \A y \in (b + 1)..n : t[y] \in Digits
    BY <1>0, <2>1, <2>2
  <2>4. \A y \in (b + 1)..((x + 1) - 1) : y \in (b + 1)..n \/ y = x
    BY <1>0, <1>2, <1>4
  <2> QED BY <1>7, <2>3, <2>4 DEF DigitsIn
<1>9. b \in Nat /\ x + 1 \in Nat /\ b + 1 < x + 1
  BY <1>0, <1>1, <1>2, <1>4
<1> QED BY ONLY t \in Seq(D), <1>3, <1>7, <1>8, <1>9, Rest1

LEMMA FinishInList ==
    ASSUME NEW s, NEW n, NEW p, InList(s, p, n), NEW D, NEW t \in Seq(D), Alike(s, t, n),
           Follows(t, n + 1, 8)
    PROVE  Conforms(t, Nat, Nat)
<1>0. /\ Len(s) \in Nat /\ Len(t) \in Nat /\ n \in 0..Len(s) /\ n <= Len(t)
      /\ \A y \in 1..n : t[y] = s[y]
  BY DEF Alike
<1>1. PICK i, b : At2(s, i, b, Codes) /\ b <= n /\ DigitsIn(s, b + 1, n)
  BY DEF InList
<1>2. i \in 5..Len(s) /\ b \in (i + 1)..Len(s)
  BY <1>0, <1>1, Order, Zenon
<1>3. At2(t, i, b, Nat)
  BY <1>1, Carry2
<1>4. PICK x, m : x = n + 1 /\ m = 8
  OBVIOUS
<1>5. x \in Nat /\ Follows(t, x, m)
  BY <1>0, <1>4
<1>6. t[x] = Example[m] /\ Follows(t, x + 1, m + 1)
  BY <1>4, <1>5, FollowsNext
<1>7. t[x] \in Digits /\ Follows(t, x + 1, 9)
  BY <1>4, <1>6, ExampleIs DEF Digits
<1>8. DigitsIn(t, b + 1, (x + 1) - 1)
  <2>1. \A y \in (b + 1)..n : s[y] \in Digits
    BY <1>1 DEF DigitsIn
  <2>2. \A y \in (b + 1)..n : y \in 1..n
    BY <1>0, <1>2
  <2>3. \A y \in (b + 1)..n : t[y] \in Digits
    BY <1>0, <2>1, <2>2
  <2>4. \A y \in (b + 1)..((x + 1) - 1) : y \in (b + 1)..n \/ y = x
    BY <1>0, <1>2, <1>4
  <2> QED BY <1>7, <2>3, <2>4 DEF DigitsIn
<1>9. b \in Nat /\ x + 1 \in Nat /\ b + 1 < x + 1
  BY <1>0, <1>1, <1>2, <1>4
<1> QED BY ONLY t \in Seq(D), <1>3, <1>7, <1>8, <1>9, Rest2

LEMMA FinishBeforeCommand ==
    ASSUME NEW s, NEW n, NEW p, BeforeCommand(s, p, n), NEW D, NEW t \in Seq(D), Alike(s, t, n),
           Follows(t, n + 1, 11)
    PROVE  Conforms(t, Nat, Nat)
<1>0. /\ Len(s) \in Nat /\ Len(t) \in Nat /\ n \in 0..Len(s) /\ n <= Len(t)
      /\ \A y \in 1..n : t[y] = s[y]
  BY DEF Alike
<1>1. PICK i, b, k : /\ At3(s, i, b, k, Codes, Lists) /\ k <= n
                     /\ \A y \in (k + 1)..n : s[y] = Space
  BY DEF BeforeCommand, Spaces
<1>2. i \in 5..Len(s) /\ b \in (i + 1)..Len(s) /\ k \in (b + 1)..Len(s)
  BY <1>0, <1>1, Order, Zenon
<1>3. At3(t, i, b, k, Nat, Nat)
  BY <1>1, Carry3
<1>4. PICK x : x = n + 1
  OBVIOUS
<1>5. k \in Nat
  BY <1>2
<1>6. x \in Nat /\ k < x /\ Follows(t, x, 11) /\ x - 1 = n
  BY <1>0, <1>1, <1>4, <1>5
<1>7. \A y \in (k + 1)..(x - 1) : t[y] = Space
  BY <1>0, <1>1, <1>5, <1>6
<1> QED BY ONLY t \in Seq(D), <1>3, <1>5, <1>6, <1>7, Rest3

LEMMA FinishInCommand ==
    ASSUME NEW s, NEW n, NEW p, InCommand(s, p, n), NEW D, NEW t \in Seq(D), Alike(s, t, n),
           Follows(t, n + 1, 13)
    PROVE  Conforms(t, Nat, Nat)
<1>0. /\ Len(s) \in Nat /\ Len(t) \in Nat /\ n \in 0..Len(s) /\ n <= Len(t)
      /\ \A y \in 1..n : t[y] = s[y]
  BY DEF Alike
<1>1. PICK i, j, k, b : /\ At4(s, i, j, k, b, Codes, Lists) /\ b <= n
                        /\ \A y \in (b + 1)..n : s[y] # RightBrace
  BY DEF InCommand
<1>2. /\ i \in 5..Len(s) /\ j \in (i + 1)..Len(s) /\ k \in (j + 1)..Len(s)
      /\ b \in (k + 1)..Len(s)
  BY <1>0, <1>1, Order, Zenon
<1>3. At4(t, i, j, k, b, Nat, Nat)
  BY <1>1, Carry4
<1>4. PICK x : x = n + 1
  OBVIOUS
<1>5. b \in Nat
  BY <1>2
<1>6. x \in Nat /\ b < x /\ Follows(t, x, 13) /\ x - 1 = n
  BY <1>0, <1>1, <1>4, <1>5
<1>7. \A y \in (b + 1)..(x - 1) : t[y] # RightBrace
  BY <1>0, <1>1, <1>5, <1>6
<1> QED BY ONLY t \in Seq(D), <1>3, <1>5, <1>6, <1>7, Rest4

LEMMA FinishInMessage ==
    ASSUME NEW s, NEW n, NEW p, InMessage(s, p, n), NEW D, NEW t \in Seq(D), Alike(s, t, n),
           Follows(t, n + 1, 15)
    PROVE  Conforms(t, Nat, Nat)
<1>0. /\ Len(s) \in Nat /\ Len(t) \in Nat /\ n \in 0..Len(s) /\ n <= Len(t)
      /\ \A y \in 1..n : t[y] = s[y]
  BY DEF Alike
<1>1. PICK i, j, k, l, b : At5(s, i, j, k, l, b, Codes, Lists) /\ b <= n
  BY DEF InMessage
<1>2. /\ i \in 5..Len(s) /\ j \in (i + 1)..Len(s) /\ k \in (j + 1)..Len(s)
      /\ l \in (k + 1)..Len(s) /\ b \in (l + 1)..Len(s)
  BY <1>0, <1>1, Order, Zenon
<1>3. At5(t, i, j, k, l, b, Nat, Nat)
  BY <1>1, Carry5
<1>4. PICK x : x = n + 1
  OBVIOUS
<1>5. b \in Nat
  BY <1>2
<1>6. x \in Nat /\ b < x /\ Follows(t, x, 15) /\ x - 1 = n
  BY <1>0, <1>1, <1>4, <1>5
<1> QED BY ONLY t \in Seq(D), <1>3, <1>5, <1>6, Rest5

LEMMA ContinuesWith ==
    ASSUME NEW C, NEW s \in Seq(C), NEW n \in 0..Len(s), NEW m \in 1..15,
           \A t \in Seq(C \cup Characters) :
              Alike(s, t, n) /\ Follows(t, n + 1, m) => Conforms(t, Nat, Nat)
    PROVE  Continues(SubSeq(s, 1, n))
<1>1. PICK t : /\ t = SubSeq(s, 1, n) \o SubSeq(Example, m, Len(Example))
               /\ t \in Seq(C \cup Characters) /\ Alike(s, t, n) /\ Follows(t, n + 1, m)
  BY Extended
<1>2. Conforms(t, Nat, Nat)
  BY <1>1, Zenon
<1>3. m \in 1..(Len(Example) + 1)
  BY ExampleIs
<1> QED BY <1>1, <1>2, <1>3, Zenon DEF Continues

\* What the automaton has read without failing can become a refusal.
LEMMA Continuable ==
    ASSUME NEW C, NEW s \in Seq(C), NEW n \in 0..Len(s), NEW p, Reached(s, p, n)
    PROVE  Continues(SubSeq(s, 1, n))
<1> DEFINE D == C \cup Characters
           Finishes(m) == \A t \in Seq(D) :
                             Alike(s, t, n) /\ Follows(t, n + 1, m) => Conforms(t, Nat, Nat)
<1> SUFFICES \E m \in 1..15 : Finishes(m)
  BY ContinuesWith
<1>0. 5 \in 1..15 /\ 6 \in 1..15 /\ 8 \in 1..15 /\ 11 \in 1..15 /\ 13 \in 1..15 /\ 15 \in 1..15
  OBVIOUS
<1>1. CASE InGreeting(s, p, n)
  <2>1. n + 1 \in 1..15
    BY <1>1, LenProperties DEF InGreeting
  <2>2. Finishes(n + 1)
    BY <1>1, FinishInGreeting, Zenon
  <2> QED BY <2>1, <2>2, Zenon
<1>2. CASE BeforeCode(s, p, n)
  <2>1. Finishes(5)
    BY <1>2, FinishBeforeCode, Zenon
  <2> QED BY <1>0, <2>1, Zenon
<1>3. CASE InCode(s, p, n)
  <2>1. Finishes(6)
    BY <1>3, FinishInCode, Zenon
  <2> QED BY <1>0, <2>1, Zenon
<1>4. CASE InList(s, p, n)
  <2>1. Finishes(8)
    BY <1>4, FinishInList, Zenon
  <2> QED BY <1>0, <2>1, Zenon
<1>5. CASE BeforeCommand(s, p, n)
  <2>1. Finishes(11)
    BY <1>5, FinishBeforeCommand, Zenon
  <2> QED BY <1>0, <2>1, Zenon
<1>6. CASE InCommand(s, p, n)
  <2>1. Finishes(13)
    BY <1>6, FinishInCommand, Zenon
  <2> QED BY <1>0, <2>1, Zenon
<1>7. CASE InMessage(s, p, n)
  <2>1. Finishes(15)
    BY <1>7, FinishInMessage, Zenon
  <2> QED BY <1>0, <2>1, Zenon
<1> QED BY <1>1, <1>2, <1>3, <1>4, <1>5, <1>6, <1>7 DEF Reached
(***************************************************************************)
(* Where it fails                                                          *)
(***************************************************************************)
\* Of a line it has read without failing up to the last character, try_from_mpd
\* refuses that character, the end, or the code as a whole.
LEMMA FailsInPlace ==
    ASSUME NEW C, NEW s \in Seq(C), s # <<>>, NEW f, Passes(s, f), f[Len(s) - 1].error = <<>>,
           ~TryFromMpd(s).ok
    PROVE  /\ Continues(SubSeq(s, 1, TryFromMpd(s).pos))
           /\ TryFromMpd(s).kind # "InvalidCode" => TryFromMpd(s).pos = Len(s) - 1
           /\ TryFromMpd(s).kind = "InvalidCode" => s[TryFromMpd(s).pos] = "["
<1>0. PICK n : n = Len(s) - 1 /\ n \in Nat /\ n + 1 = Len(s) /\ n \in 0..(Len(s) - 1)
  BY LenProperties, EmptySeq
<1>1. PICK p, q : p = f[n] /\ q = f[n + 1] /\ p.error = <<>>
  BY <1>0
<1>2. Reached(s, p, n)
  <2>1. ~\E k \in 0..(n - 1) : Refuses(s, f[k], p, k)
    BY <1>1 DEF Refuses
  <2>2. n \in 0..Len(s)
    BY <1>0
  <2> QED BY <1>1, <2>1, <2>2, AutomatonEnds
<1>3. Automaton(s) = q
  <2>1. PICK g : Passes(s, g) /\ Automaton(s) = g[Len(s)]
    BY <1>0, AutomatonRuns
  <2>2. PICK m : m = Len(s)
    OBVIOUS
  <2>3. m \in Nat /\ m <= Len(s) /\ m \in 0..m
    BY <2>2, <1>0
  <2>4. f[m] = g[m]
    BY <2>1, <2>3, RunsTogether
  <2> QED BY <1>0, <1>1, <2>1, <2>2, <2>4
<1>4. q = Reads(s, p, n)
  <2>1. \A k \in 1..Len(s) : f[k] = Round(s, f[k - 1], k)
    BY DEF Passes
  <2>2. n + 1 \in 1..Len(s) /\ (n + 1) - 1 = n
    BY <1>0
  <2>3. f[n + 1] = Round(s, f[n], n + 1)
    BY <2>1, <2>2
  <2> QED BY <1>1, <2>2, <2>3 DEF Round
<1>5. Reached(s, q, n + 1) \/ Refuses(s, p, q, n)
  BY <1>0, <1>2, <1>4, ReadsOn
<1>6. Continues(SubSeq(s, 1, n))
  <2>1. n \in 0..Len(s)
    BY <1>0
  <2> QED BY <1>2, <2>1, Continuable
<1>7. CASE Reached(s, q, n + 1)
  <2>1. q.error = <<>>
    BY <1>7, NotFailed
  <2>2. TryFromMpd(s) = Failure("UnexpectedSymbol", Len(s) - 1)
    BY <1>3, <2>1 DEF TryFromMpd, Success
  <2>3. TryFromMpd(s).pos = n /\ TryFromMpd(s).kind # "InvalidCode"
    BY <1>0, <2>2 DEF Failure
  <2> QED BY <1>0, <1>6, <2>3
<1>8. CASE Refuses(s, p, q, n)
  <2>1. PICK kind, pos :
            /\ q.error = <<Failure(kind, pos)>>
            /\ \/ kind # "InvalidCode" /\ pos = n
               \/ kind = "InvalidCode" /\ pos = p.begin /\ InCode(s, p, n)
    BY <1>8 DEF Refuses
  <2>2. TryFromMpd(s) = Failure(kind, pos)
    BY <1>3, <2>1 DEF TryFromMpd
  <2>3. TryFromMpd(s).kind = kind /\ TryFromMpd(s).pos = pos
    BY <2>2 DEF Failure
  <2>4. CASE kind # "InvalidCode" /\ pos = n
    BY <1>0, <1>6, <2>3, <2>4
  <2>5. CASE kind = "InvalidCode" /\ pos = p.begin /\ InCode(s, p, n)
    <3>1. At1(s, pos) /\ InCode(s, p, pos)
      <4>1. At1(s, pos)
        BY <2>5 DEF InCode
      <4>2. pos \in Nat
        BY <4>1 DEF At1
      <4> QED BY <2>5, <4>1, <4>2 DEF InCode, DigitsIn
    <3>2. pos \in 0..Len(s) /\ s[pos] = "["
      BY <3>1 DEF At1
    <3>3. Continues(SubSeq(s, 1, pos))
      BY <3>1, <3>2, Continuable DEF Reached
    <3> QED BY <2>3, <2>5, <3>2, <3>3
  <2> QED BY <2>1, <2>4, <2>5
<1> QED BY <1>5, <1>7, <1>8

\* A line is typed on only as long as it has not been refused.
Typed ==
    (job = "ack" /\ input # <<>>) =>
        \A f : Passes(input, f) => f[Len(input) - 1].error = <<>>

LEMMA TypedHolds == Spec => []Typed
<1>1. Init => Typed
  BY DEF Init, Typed
<1>2. Inputs /\ Typed /\ [Next]_vars => Typed'
  <2> SUFFICES ASSUME Inputs, Typed, [Next]_vars PROVE Typed'
    OBVIOUS
  <2>1. ASSUME NEW c \in Alphabet[job], Type(c) PROVE Typed'
    <3> SUFFICES ASSUME job = "ack", NEW g, Passes(input', g)
                 PROVE  g[Len(input') - 1].error = <<>>
      BY <2>1 DEF Type, Typed
    <3>1. PICK C, s, t : /\ C = Alphabet["ack"] /\ s = input /\ t = input'
                         /\ s \in Seq(C) /\ c \in C /\ t = Append(s, c)
      BY <2>1 DEF Inputs, Type
    <3>2. PICK m : m = Len(s)
      OBVIOUS
    <3>3. /\ m \in Nat /\ s \in Seq(C) /\ t \in Seq(C) /\ Len(t) = m + 1
          /\ \A x \in 1..m : s[x] = t[x]
      BY <3>1, <3>2, AppendProperties, LenProperties
    <3>4. PICK f : Passes(s, f) /\ Automaton(s) = f[m]
      BY <3>2, <3>3, AutomatonRuns
    <3>5. Automaton(s).error = <<>>
      BY <2>1, <3>1 DEF Type, Matters
    <3>6. Passes(t, g) /\ m <= Len(s) /\ m <= Len(t) /\ m \in 0..m
      BY <3>1, <3>2, <3>3
    <3>7. f[m] = g[m]
      BY ONLY <3>3, <3>4, <3>6, RunsTogether
    <3> QED BY <3>1, <3>3, <3>4, <3>5, <3>7
  <2>2. ASSUME NEW f, Create(f) PROVE Typed'
    BY <2>2 DEF Create, Typed
  <2>3. CASE UNCHANGED vars
    BY <2>3 DEF vars, Typed
  <2> QED BY <2>1, <2>2, <2>3 DEF Next
<1> QED BY <1>1, <1>2, InputsHold, PTL DEF Spec

\* Where try_from_mpd says that a line stops being a refusal, what comes before
\* that place can still become one, and that place is the last character read, or
\* the "[" before a code that is none: for every line of every length.
THEOREM TextAckErrorPlaced == Spec => []AckErrorPlaced
<1>1. Inputs /\ Typed => AckErrorPlaced
  <2> SUFFICES ASSUME Inputs, Typed, job = "ack", input # <<>>, ~TryFromMpd(input).ok
               PROVE  /\ Continues(SubSeq(input, 1, TryFromMpd(input).pos))
                      /\ TryFromMpd(input).kind # "InvalidCode" =>
                            TryFromMpd(input).pos = Len(input) - 1
                      /\ TryFromMpd(input).kind = "InvalidCode" =>
                            input[TryFromMpd(input).pos] = "["
    BY DEF AckErrorPlaced
  <2>1. input \in Seq(Alphabet["ack"])
    BY DEF Inputs
  <2>2. PICK s : s = input
    OBVIOUS
  <2>3. PICK f : Passes(s, f)
    BY <2>1, <2>2, LenProperties, AutomatonRuns
  <2>4. f[Len(s) - 1].error = <<>>
    BY <2>2, <2>3 DEF Typed
  <2> QED BY <2>1, <2>2, <2>3, <2>4, FailsInPlace
<1> QED BY <1>1, InputsHold, TypedHolds, PTL
=============================================================================
