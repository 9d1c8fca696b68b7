--------------------------- MODULE CclJsonLexProof ---------------------------
(***************************************************************************)
(* Proofs about CclJsonLex and CclJsonTerminals for texts of any shape and *)
(* length.  The first part is about the scanner: for every label it says   *)
(* which texts lead to it, and that no other does.  The second part is     *)
(* about the decoder, which is another program: what ties it to the        *)
(* scanner is the run of labels that took the scanner through the text.    *)
(***************************************************************************)
EXTENDS CclJsonTerminals, SequenceTheorems, WellFoundedInduction, TLAPS

(* Induction, without an operator for a parameter: a set of numbers that   *)
(* has 0 and the successor of each of its numbers up to n has all of them. *)
Less == {p \in Nat \X Nat : p[1] < p[2]}

LEMMA Least ==
  ASSUME NEW T, T \subseteq Nat, T # {}
  PROVE  \E x \in T : \A y \in T : x <= y
<1>1. IsWellFoundedOn(Less, Nat)
  BY NatLessThanWellFounded DEF OpToRel, Less
<1>2. PICK x \in T : \A y \in T : ~(<<y, x>> \in Less)
  BY <1>1, WFMin
<1>3. \A y \in T : ~(y < x)
  BY <1>2 DEF Less
<1>4. QED  BY <1>3

LEMMA UpTo ==
  ASSUME NEW n \in Nat, NEW S, 0 \in S, \A i \in 0 .. n - 1 : i \in S => i + 1 \in S
  PROVE  0 .. n \subseteq S
<1> DEFINE T == (0 .. n) \ S
<1>1. SUFFICES ASSUME T # {}
               PROVE  FALSE
  OBVIOUS
<1>2. PICK x \in T : \A y \in T : x <= y
  <2>1. T \subseteq Nat
    OBVIOUS
  <2> HIDE DEF T
  <2>2. QED  BY <1>1, <2>1, Least
<1>3. x # 0 /\ x - 1 \in 0 .. n - 1 /\ x - 1 \notin T
  BY <1>2
<1>4. x - 1 \in S
  BY <1>3
<1>5. (x - 1) + 1 \in S
  BY <1>3, <1>4
<1>6. QED  BY <1>2, <1>5

-----------------------------------------------------------------------------
(* Behind which characters a character of a string begins *)

Beyond(b, w, i) ==
  \/ i = 1 /\ w[1] = Quote
  \/ i >= 2 /\ b[i - 1] /\ w[i] \notin {0, Quote, Backslash}
  \/ i >= 3 /\ b[i - 2] /\ w[i - 1] = Backslash /\ w[i] \in Simple
  \/ /\ i >= 7 /\ b[i - 6] /\ w[i - 5] = Backslash /\ w[i - 4] = Letter_u
     /\ AllIn(w, i - 3, i, Hex)

LEMMA BetweenExists ==
  ASSUME NEW w, NEW n \in Nat
  PROVE  \E f : f = [i \in 1 .. n |-> Beyond(f, w, i)]
<1> DEFINE Places == 1 .. n
           In(S) == [i \in Places |-> i \in S]
           Safe(S) == \A i \in S : Beyond(In(S), w, i)
           g == [i \in Places |-> \E S \in SUBSET Places : i \in S /\ Safe(S)]
<1>2. ASSUME NEW i \in Places, NEW f, NEW h, Beyond(f, w, i),
             \A k \in Places : f[k] => h[k]
      PROVE  Beyond(h, w, i)
  <2>1. /\ i >= 2 => i - 1 \in Places
        /\ i >= 3 => i - 2 \in Places
        /\ i >= 7 => i - 6 \in Places
    OBVIOUS
  <2>2. QED  BY <1>2, <2>1 DEF Beyond
<1>3. ASSUME NEW i \in Places, g[i]
      PROVE  Beyond(g, w, i)
  <2>1. PICK S \in SUBSET Places : i \in S /\ Safe(S)
    BY <1>3
  <2>2. \A k \in Places : In(S)[k] => g[k]
    BY <2>1
  <2>3. Beyond(In(S), w, i)
    BY <2>1
  <2> HIDE DEF In, g
  <2>4. QED  BY <1>2, <2>2, <2>3
<1>4. ASSUME NEW i \in Places, Beyond(g, w, i)
      PROVE  g[i]
  <2> DEFINE G == {k \in Places : g[k]}
             S == G \cup {i}
  <2>1. \A k \in Places : g[k] => In(S)[k]
    BY DEF In
  <2>2. ASSUME NEW k \in S
        PROVE  Beyond(In(S), w, k)
    <3>1. k \in Places /\ Beyond(g, w, k)
      BY <1>3, <1>4, <2>2
    <3> HIDE DEF In, g, S
    <3>2. QED  BY <1>2, <2>1, <3>1
  <2>3. S \in SUBSET Places /\ i \in S /\ Safe(S)
    BY <2>2
  <2> HIDE DEF S, Safe
  <2>4. QED  BY <2>3
<1>5. \A i \in Places : g[i] = Beyond(g, w, i)
  <2>1. \A i \in Places : g[i] \in BOOLEAN /\ Beyond(g, w, i) \in BOOLEAN
    BY DEF Beyond
  <2> HIDE DEF g
  <2>2. QED  BY <1>3, <1>4, <2>1
<1>6. g = [i \in Places |-> Beyond(g, w, i)]
  <2>1. g = [i \in Places |-> g[i]]
    OBVIOUS
  <2> HIDE DEF g
  <2>2. QED  BY <1>5, <2>1
<1>7. QED  BY <1>6

LEMMA BetweenIs ==
  ASSUME NEW w, Len(w) \in Nat, NEW i \in 1 .. Len(w)
  PROVE  Between(w)[i] <=> Beyond(Between(w), w, i)
<1>1. Between(w) = [k \in 1 .. Len(w) |-> Beyond(Between(w), w, k)]
  <2>1. \E f : f = [k \in 1 .. Len(w) |-> Beyond(f, w, k)]
    BY BetweenExists
  <2>2. Between(w) = CHOOSE f : f = [k \in 1 .. Len(w) |-> Beyond(f, w, k)]
    BY Zenon DEF Between, Beyond
  <2>3. QED  BY <2>1, <2>2, Zenon
<1>2. QED  BY <1>1

-----------------------------------------------------------------------------
(* The rows of the gotos, one disjunct each *)

StartRow(s, c, t) ==
  \/ /\ s = 0
     /\ \/ (c = 0 /\ t = 1) \/ (c \in White /\ t = 15) \/ (c = 34 /\ t = 2)
        \/ (c = 44 /\ t = 3) \/ (c = 45 /\ t = 4) \/ (c = 48 /\ t = 5)
        \/ (c \in NonZero /\ t = 6)
        \/ (c = 58 /\ t = 7) \/ (c = 91 /\ t = 8) \/ (c = 93 /\ t = 9)
        \/ (c = 102 /\ t = 10) \/ (c = 110 /\ t = 11) \/ (c = 116 /\ t = 12)
        \/ (c = 123 /\ t = 13) \/ (c = 125 /\ t = 14)
  \/ s = 15 /\ c \in White /\ t = 15

StringRow(s, c, t) ==
  \/ /\ s = 2
     /\ \/ c \in 0 .. 255 /\ c # Quote /\ c # Backslash /\ t = 2
        \/ c = Quote /\ t = 16
        \/ c = Backslash /\ t = 17
  \/ s = 17 /\ ((c \in Simple /\ t = 2) \/ (c = Letter_u /\ t = 23))
  \/ /\ c \in Hex
     /\ \/ (s = 23 /\ t = 29) \/ (s = 29 /\ t = 33)
        \/ (s = 33 /\ t = 35) \/ (s = 35 /\ t = 2)

NumberRow(s, c, t) ==
  \/ s = 4 /\ ((c = 48 /\ t = 5) \/ (c \in NonZero /\ t = 6))
  \/ s = 5 /\ ((c = 46 /\ t = 18) \/ (c \in Exponent /\ t = 19))
  \/ s = 6 /\ ((c = 46 /\ t = 18) \/ (c \in Digit /\ t = 6) \/ (c \in Exponent /\ t = 19))
  \/ s = 18 /\ ((c \in Digit /\ t = 18) \/ (c \in Exponent /\ t = 19))
  \/ s = 19 /\ ((c \in {43, 45} /\ t = 24) \/ (c \in Digit /\ t = 25))
  \/ s = 24 /\ c \in Digit /\ t = 25
  \/ s = 25 /\ c \in Digit /\ t = 25

WordRow(s, c, t) ==
  \/ (s = 10 /\ c = 97 /\ t = 20) \/ (s = 20 /\ c = 108 /\ t = 26)
  \/ (s = 26 /\ c = 115 /\ t = 30) \/ (s = 30 /\ c = 101 /\ t = 34)
  \/ (s = 11 /\ c = 117 /\ t = 21) \/ (s = 21 /\ c = 108 /\ t = 27)
  \/ (s = 27 /\ c = 108 /\ t = 31)
  \/ (s = 12 /\ c = 114 /\ t = 22) \/ (s = 22 /\ c = 117 /\ t = 28)
  \/ (s = 28 /\ c = 101 /\ t = 32)

LEMMA Taken ==
  ASSUME NEW s, NEW c, NEW t
  PROVE  t \in Targets(s, c) <=>
           StartRow(s, c, t) \/ StringRow(s, c, t) \/ NumberRow(s, c, t) \/ WordRow(s, c, t)
<1>1. ASSUME t \in Targets(s, c)
      PROVE  StartRow(s, c, t) \/ StringRow(s, c, t) \/ NumberRow(s, c, t) \/ WordRow(s, c, t)
  <2>1. PICK g \in Gotos : g[1] = s /\ c \in g[2] /\ g[3] = t
    BY <1>1 DEF Targets
  <2>2. CASE g \in StartGotos
    BY <2>1, <2>2 DEF StartGotos, StartRow, Quote
  <2>3. CASE g \in StringGotos
    BY <2>1, <2>3 DEF StringGotos, StringRow
  <2>4. CASE g \in NumberGotos
    BY <2>1, <2>4 DEF NumberGotos, NumberRows, NumberRow
  <2>5. CASE g \in WordGotos
    BY <2>1, <2>5 DEF WordGotos, WordRow
  <2>6. QED  BY <2>1, <2>2, <2>3, <2>4, <2>5 DEF Gotos
<1> DEFINE On(a, C, b) == <<a, C, b>> \in Gotos
<1>2. \A a, C, b : On(a, C, b) => (\A x \in C : b \in Targets(a, x))
  BY DEF Targets
<1>3. ASSUME StartRow(s, c, t)
      PROVE  t \in Targets(s, c)
  <2>1. /\ On(0, {0}, 1) /\ On(0, White, 15) /\ On(0, {Quote}, 2) /\ On(0, {44}, 3)
        /\ On(0, {45}, 4) /\ On(0, {48}, 5) /\ On(0, NonZero, 6) /\ On(0, {58}, 7)
        /\ On(0, {91}, 8) /\ On(0, {93}, 9) /\ On(0, {102}, 10) /\ On(0, {110}, 11)
        /\ On(0, {116}, 12) /\ On(0, {123}, 13) /\ On(0, {125}, 14) /\ On(15, White, 15)
    BY DEF StartGotos, Gotos
  <2> HIDE DEF On
  <2>2. QED  BY <1>2, <1>3, <2>1 DEF StartRow, Quote
<1>4. ASSUME StringRow(s, c, t)
      PROVE  t \in Targets(s, c)
  <2>1. /\ On(2, 0 .. 255 \ {Quote, Backslash}, 2) /\ On(2, {Quote}, 16)
        /\ On(2, {Backslash}, 17) /\ On(17, Simple, 2) /\ On(17, {Letter_u}, 23)
        /\ On(23, Hex, 29) /\ On(29, Hex, 33) /\ On(33, Hex, 35) /\ On(35, Hex, 2)
    BY DEF StringGotos, Gotos
  <2> HIDE DEF On
  <2>2. QED  BY <1>2, <1>4, <2>1 DEF StringRow
<1>5. ASSUME NumberRow(s, c, t)
      PROVE  t \in Targets(s, c)
  <2>1. /\ On(4, {48}, 5) /\ On(4, NonZero, 6) /\ On(5, {46}, 18) /\ On(5, Exponent, 19)
        /\ On(6, {46}, 18) /\ On(6, Digit, 6) /\ On(6, Exponent, 19) /\ On(18, Digit, 18)
        /\ On(18, Exponent, 19) /\ On(19, {43, 45}, 24) /\ On(19, Digit, 25)
        /\ On(24, Digit, 25) /\ On(25, Digit, 25)
    BY DEF NumberGotos, NumberRows, Gotos
  <2> HIDE DEF On
  <2>2. QED  BY <1>2, <1>5, <2>1 DEF NumberRow
<1>6. ASSUME WordRow(s, c, t)
      PROVE  t \in Targets(s, c)
  <2>1. /\ On(10, {97}, 20) /\ On(20, {108}, 26) /\ On(26, {115}, 30) /\ On(30, {101}, 34)
        /\ On(11, {117}, 21) /\ On(21, {108}, 27) /\ On(27, {108}, 31)
        /\ On(12, {114}, 22) /\ On(22, {117}, 28) /\ On(28, {101}, 32)
    BY DEF WordGotos, Gotos
  <2> HIDE DEF On
  <2>2. QED  BY <1>2, <1>6, <2>1 DEF WordRow
<1>7. QED  BY <1>1, <1>3, <1>4, <1>5, <1>6

(* No two gotos of a label take the same character. *)
LEMMA OneWay ==
  ASSUME NEW s, NEW c, NEW t \in Targets(s, c), NEW u \in Targets(s, c)
  PROVE  t = u
<1>1. ASSUME NEW a, StartRow(s, c, a)
      PROVE  s \in {0, 15}
  BY <1>1 DEF StartRow
<1>2. ASSUME NEW a, StringRow(s, c, a)
      PROVE  s \in {2, 17, 23, 29, 33, 35}
  BY <1>2 DEF StringRow
<1>3. ASSUME NEW a, NumberRow(s, c, a)
      PROVE  s \in {4, 5, 6, 18, 19, 24, 25}
  BY <1>3 DEF NumberRow
<1>4. ASSUME NEW a, WordRow(s, c, a)
      PROVE  s \in {10, 11, 12, 20, 21, 22, 26, 27, 28, 30}
  BY <1>4 DEF WordRow
<1>5. CASE StartRow(s, c, t)
  <2>1. StartRow(s, c, u)
    BY <1>1, <1>2, <1>3, <1>4, <1>5, Taken
  <2>2. QED  BY <1>5, <2>1, SMT DEF StartRow, White, NonZero
<1>6. CASE StringRow(s, c, t)
  <2>1. StringRow(s, c, u)
    BY <1>1, <1>2, <1>3, <1>4, <1>6, Taken
  <2>2. QED  BY <1>6, <2>1, SMT DEF StringRow, Simple, Letter_u, Quote, Backslash
<1>7. CASE NumberRow(s, c, t)
  <2>1. NumberRow(s, c, u)
    BY <1>1, <1>2, <1>3, <1>4, <1>7, Taken
  <2>2. QED  BY <1>7, <2>1, SMT DEF NumberRow, NonZero, Exponent, Digit
<1>8. CASE WordRow(s, c, t)
  <2>1. WordRow(s, c, u)
    BY <1>1, <1>2, <1>3, <1>4, <1>8, Taken
  <2>2. QED  BY <1>8, <2>1, SMT DEF WordRow
<1>9. QED  BY <1>5, <1>6, <1>7, <1>8, Taken

-----------------------------------------------------------------------------
(* What a label stands for: the first i characters of w, for any i.        *)

WholeTo(w, i) == Whole(w, Unsigned(w), i)

FractionTo(w, i) ==
  \E a \in 1 .. i - 1 : WholeTo(w, a) /\ w[a + 1] = 46 /\ AllIn(w, a + 2, i, Digit)

PowerTo(w, i) == i >= 2 /\ w[i] \in Exponent /\ (WholeTo(w, i - 1) \/ FractionTo(w, i - 1))

SignTo(w, i) == i >= 2 /\ w[i] \in {43, 45} /\ PowerTo(w, i - 1)

FloatTo(w, i) ==
  \E a \in 1 .. i - 1 : (PowerTo(w, a) \/ SignTo(w, a)) /\ AllIn(w, a + 1, i, Digit)

NumberAt(w, i, s) ==
  \/ s = 4 /\ i = 1 /\ w[1] = 45
  \/ s = 5 /\ WholeTo(w, i) /\ w[Unsigned(w)] = 48
  \/ s = 6 /\ WholeTo(w, i) /\ w[Unsigned(w)] # 48
  \/ s = 18 /\ FractionTo(w, i)
  \/ s = 19 /\ PowerTo(w, i)
  \/ s = 24 /\ SignTo(w, i)
  \/ s = 25 /\ FloatTo(w, i)

(* k digits of an escape by number. *)
DigitsTo(w, i, k) ==
  /\ i >= k + 3 /\ Between(w)[i - k - 2] /\ w[i - k - 1] = Backslash /\ w[i - k] = Letter_u
  /\ AllIn(w, i - k + 1, i, Hex)

StringAt(w, i, s) ==
  \/ s = 2 /\ Between(w)[i]
  \/ s = 16 /\ i >= 2 /\ Between(w)[i - 1] /\ w[i] = Quote
  \/ s = 17 /\ i >= 2 /\ Between(w)[i - 1] /\ w[i] = Backslash
  \/ s = 23 /\ DigitsTo(w, i, 0)
  \/ s = 29 /\ DigitsTo(w, i, 1)
  \/ s = 33 /\ DigitsTo(w, i, 2)
  \/ s = 35 /\ DigitsTo(w, i, 3)

WordAt(w, i, s) ==
  \/ s = 10 /\ i = 1 /\ w[1] = 102
  \/ s = 20 /\ i = 2 /\ w[1] = 102 /\ w[2] = 97
  \/ s = 26 /\ i = 3 /\ w[1] = 102 /\ w[2] = 97 /\ w[3] = 108
  \/ s = 30 /\ i = 4 /\ w[1] = 102 /\ w[2] = 97 /\ w[3] = 108 /\ w[4] = 115
  \/ s = 34 /\ i = 5 /\ w[1] = 102 /\ w[2] = 97 /\ w[3] = 108 /\ w[4] = 115 /\ w[5] = 101
  \/ s = 11 /\ i = 1 /\ w[1] = 110
  \/ s = 21 /\ i = 2 /\ w[1] = 110 /\ w[2] = 117
  \/ s = 27 /\ i = 3 /\ w[1] = 110 /\ w[2] = 117 /\ w[3] = 108
  \/ s = 31 /\ i = 4 /\ w[1] = 110 /\ w[2] = 117 /\ w[3] = 108 /\ w[4] = 108
  \/ s = 12 /\ i = 1 /\ w[1] = 116
  \/ s = 22 /\ i = 2 /\ w[1] = 116 /\ w[2] = 114
  \/ s = 28 /\ i = 3 /\ w[1] = 116 /\ w[2] = 114 /\ w[3] = 117
  \/ s = 32 /\ i = 4 /\ w[1] = 116 /\ w[2] = 114 /\ w[3] = 117 /\ w[4] = 101

OtherAt(w, i, s) ==
  \/ s = 15 /\ AllIn(w, 1, i, White)
  \/ i = 1 /\ \/ (s = 3 /\ w[1] = 44) \/ (s = 7 /\ w[1] = 58)
              \/ (s = 8 /\ w[1] = 91) \/ (s = 9 /\ w[1] = 93)
              \/ (s = 13 /\ w[1] = 123) \/ (s = 14 /\ w[1] = 125)

Lang(w, i, s) ==
  IF i = 0 THEN s = 0
  ELSE NumberAt(w, i, s) \/ StringAt(w, i, s) \/ WordAt(w, i, s) \/ OtherAt(w, i, s)

(* Numbers *)

LEMMA AllMore ==
  ASSUME NEW w, NEW a \in Nat, NEW i \in Nat, a <= i + 1, NEW S
  PROVE  AllIn(w, a, i + 1, S) <=> AllIn(w, a, i, S) /\ w[i + 1] \in S
<1>1. \A k : k \in a .. i + 1 <=> k \in a .. i \/ k = i + 1
  OBVIOUS
<1>2. QED  BY <1>1 DEF AllIn

LEMMA UnsignedIs ==
  ASSUME NEW w, w # <<>>
  PROVE  /\ Unsigned(w) \in {1, 2}
         /\ Unsigned(w) = 2 <=> w[1] = 45
BY DEF Unsigned

LEMMA WholeFirst ==
  ASSUME NEW w, w # <<>>
  PROVE  WholeTo(w, 1) <=> w[1] \in Digit
<1>1. CASE w[1] = 45
  BY <1>1, UnsignedIs DEF WholeTo, Whole, Digit
<1>2. CASE w[1] # 45
  BY <1>2, UnsignedIs DEF WholeTo, Whole, AllIn, Digit
<1>3. QED  BY <1>1, <1>2

LEMMA WholeMore ==
  ASSUME NEW w, w # <<>>, NEW i \in Nat \ {0}
  PROVE  WholeTo(w, i + 1) <=>
           /\ w[i + 1] \in Digit
           /\ (i = 1 /\ w[1] = 45) \/ (WholeTo(w, i) /\ w[Unsigned(w)] # 48)
<1> DEFINE u == Unsigned(w)
<1>1. u \in {1, 2} /\ (u = 2 <=> w[1] = 45)
  BY UnsignedIs
<1>2. WholeTo(w, i) <=> u <= i /\ AllIn(w, u, i, Digit) /\ (w[u] = 48 => u = i)
  BY DEF WholeTo, Whole
<1>3. WholeTo(w, i + 1) <=>
        u <= i + 1 /\ AllIn(w, u, i + 1, Digit) /\ (w[u] = 48 => u = i + 1)
  BY DEF WholeTo, Whole
<1> HIDE DEF u
<1>4. AllIn(w, u, i + 1, Digit) <=> AllIn(w, u, i, Digit) /\ w[i + 1] \in Digit
  BY <1>1, AllMore
<1>5. CASE u = i + 1
  <2>1. AllIn(w, u, i, Digit) /\ i = 1 /\ w[1] = 45 /\ ~(u <= i)
    BY <1>1, <1>5 DEF AllIn
  <2>2. QED  BY <1>2, <1>3, <1>4, <1>5, <2>1
<1>6. CASE u <= i
  <2>1. ~(i = 1 /\ w[1] = 45) /\ u # i + 1 /\ u <= i + 1
    BY <1>1, <1>6
  <2>2. QED  BY <1>2, <1>3, <1>4, <1>6, <2>1 DEF u
<1>7. QED  BY <1>1, <1>5, <1>6

LEMMA FractionMore ==
  ASSUME NEW w, NEW i \in Nat \ {0}
  PROVE  FractionTo(w, i + 1) <=>
           (WholeTo(w, i) /\ w[i + 1] = 46) \/ (FractionTo(w, i) /\ w[i + 1] \in Digit)
<1> DEFINE From(a, k) == WholeTo(w, a) /\ w[a + 1] = 46 /\ AllIn(w, a + 2, k, Digit)
<1>1. ASSUME NEW a \in 1 .. i - 1
      PROVE  From(a, i + 1) <=> From(a, i) /\ w[i + 1] \in Digit
  BY AllMore
<1>2. From(i, i + 1) <=> WholeTo(w, i) /\ w[i + 1] = 46
  BY DEF AllIn
<1>3. /\ FractionTo(w, i + 1) <=> \E a \in 1 .. i : From(a, i + 1)
      /\ FractionTo(w, i) <=> \E a \in 1 .. i - 1 : From(a, i)
  <2>1. (i + 1) - 1 = i
    OBVIOUS
  <2>2. QED  BY <2>1 DEF FractionTo
<1>4. \A a : a \in 1 .. i <=> a \in 1 .. i - 1 \/ a = i
  OBVIOUS
<1> HIDE DEF From
<1>5. QED  BY <1>1, <1>2, <1>3, <1>4

LEMMA FloatMore ==
  ASSUME NEW w, NEW i \in Nat \ {0}
  PROVE  FloatTo(w, i + 1) <=>
           w[i + 1] \in Digit /\ (PowerTo(w, i) \/ SignTo(w, i) \/ FloatTo(w, i))
<1> DEFINE From(a) == PowerTo(w, a) \/ SignTo(w, a)
<1>1. ASSUME NEW a \in 1 .. i
      PROVE  AllIn(w, a + 1, i + 1, Digit) <=> AllIn(w, a + 1, i, Digit) /\ w[i + 1] \in Digit
  BY AllMore
<1>2. AllIn(w, i + 1, i, Digit)
  BY DEF AllIn
<1>3. /\ FloatTo(w, i + 1) <=> \E a \in 1 .. i : From(a) /\ AllIn(w, a + 1, i + 1, Digit)
      /\ FloatTo(w, i) <=> \E a \in 1 .. i - 1 : From(a) /\ AllIn(w, a + 1, i, Digit)
  <2>1. (i + 1) - 1 = i
    OBVIOUS
  <2>2. QED  BY <2>1 DEF FloatTo
<1>4. \A a : a \in 1 .. i <=> a \in 1 .. i - 1 \/ a = i
  OBVIOUS
<1>5. From(i) <=> PowerTo(w, i) \/ SignTo(w, i)
  OBVIOUS
<1> HIDE DEF From
<1>6. QED  BY <1>1, <1>2, <1>3, <1>4, <1>5

LEMMA NumberMore ==
  ASSUME NEW w, w # <<>>, NEW i \in Nat \ {0}, NEW t
  PROVE  NumberAt(w, i + 1, t) <=> \E s : NumberAt(w, i, s) /\ NumberRow(s, w[i + 1], t)
<1> DEFINE c == w[i + 1]
           u == Unsigned(w)
           R(s) == NumberAt(w, i, s) /\ NumberRow(s, c, t)
           New == \/ t = 5 /\ WholeTo(w, i + 1) /\ w[u] = 48
                  \/ t = 6 /\ WholeTo(w, i + 1) /\ w[u] # 48
                  \/ t = 18 /\ FractionTo(w, i + 1)
                  \/ t = 19 /\ PowerTo(w, i + 1)
                  \/ t = 24 /\ SignTo(w, i + 1)
                  \/ t = 25 /\ FloatTo(w, i + 1)
<1>1. NumberAt(w, i + 1, t) <=> New
  BY DEF NumberAt
<1>2. (\E s : R(s)) <=> R(4) \/ R(5) \/ R(6) \/ R(18) \/ R(19) \/ R(24) \/ R(25)
  BY DEF NumberRow
<1>3. /\ R(4) <=> i = 1 /\ w[1] = 45 /\ ((c = 48 /\ t = 5) \/ (c \in NonZero /\ t = 6))
      /\ R(5) <=> /\ WholeTo(w, i) /\ w[u] = 48
                  /\ (c = 46 /\ t = 18) \/ (c \in Exponent /\ t = 19)
      /\ R(6) <=> /\ WholeTo(w, i) /\ w[u] # 48
                  /\ (c = 46 /\ t = 18) \/ (c \in Digit /\ t = 6) \/ (c \in Exponent /\ t = 19)
      /\ R(18) <=> FractionTo(w, i) /\ ((c \in Digit /\ t = 18) \/ (c \in Exponent /\ t = 19))
      /\ R(19) <=> PowerTo(w, i) /\ ((c \in {43, 45} /\ t = 24) \/ (c \in Digit /\ t = 25))
      /\ R(24) <=> SignTo(w, i) /\ c \in Digit /\ t = 25
      /\ R(25) <=> FloatTo(w, i) /\ c \in Digit /\ t = 25
  BY DEF NumberAt, NumberRow
<1>4. /\ FractionTo(w, i + 1) <=>
           (WholeTo(w, i) /\ c = 46) \/ (FractionTo(w, i) /\ c \in Digit)
      /\ FloatTo(w, i + 1) <=> c \in Digit /\ (PowerTo(w, i) \/ SignTo(w, i) \/ FloatTo(w, i))
      /\ WholeTo(w, i + 1) <=> /\ c \in Digit
                               /\ (i = 1 /\ w[1] = 45) \/ (WholeTo(w, i) /\ w[u] # 48)
  BY FractionMore, FloatMore, WholeMore
<1>5. /\ PowerTo(w, i + 1) <=> c \in Exponent /\ (WholeTo(w, i) \/ FractionTo(w, i))
      /\ SignTo(w, i + 1) <=> c \in {43, 45} /\ PowerTo(w, i)
  <2>1. (i + 1) - 1 = i /\ i + 1 >= 2
    OBVIOUS
  <2>2. QED  BY <2>1 DEF PowerTo, SignTo
<1>6. i = 1 /\ w[1] = 45 => w[u] = c
  BY UnsignedIs
<1>7. c \in Digit <=> c = 48 \/ c \in NonZero
  BY DEF Digit, NonZero
<1>8. i = 1 /\ w[1] = 45 => ~WholeTo(w, i)
  BY UnsignedIs DEF WholeTo, Whole
<1>9. c \in NonZero => c # 48
  BY DEF NonZero
<1> HIDE DEF c, u, R
<1>10. New <=> R(4) \/ R(5) \/ R(6) \/ R(18) \/ R(19) \/ R(24) \/ R(25)
  BY <1>3, <1>4, <1>5, <1>6, <1>7, <1>8, <1>9
<1>11. QED  BY <1>1, <1>2, <1>10 DEF R, c

(* The first character of a number. *)
LEMMA NumberFirst ==
  ASSUME NEW w, w # <<>>, NEW t
  PROVE  NumberAt(w, 1, t) <=> t \in {4, 5, 6} /\ StartRow(0, w[1], t)
<1>1. ~FractionTo(w, 1) /\ ~PowerTo(w, 1) /\ ~SignTo(w, 1) /\ ~FloatTo(w, 1)
  BY DEF FractionTo, PowerTo, SignTo, FloatTo
<1>2. WholeTo(w, 1) <=> w[1] \in Digit
  BY WholeFirst
<1>3. w[1] \in Digit => w[Unsigned(w)] = w[1]
  BY UnsignedIs DEF Digit
<1>4. w[1] \in Digit <=> w[1] = 48 \/ w[1] \in NonZero
  BY DEF Digit, NonZero
<1>5. w[1] \in NonZero => w[1] # 48
  BY DEF NonZero
<1>6. QED  BY <1>1, <1>2, <1>3, <1>4, <1>5 DEF NumberAt, StartRow

(* Strings *)

LEMMA StringMore ==
  ASSUME NEW w, Len(w) \in Nat, NEW i \in Nat \ {0}, i + 1 \in 1 .. Len(w),
         w[i + 1] \in 0 .. 255, NEW t
  PROVE  StringAt(w, i + 1, t) <=>
           w[i + 1] # 0 /\ \E s : StringAt(w, i, s) /\ StringRow(s, w[i + 1], t)
<1> DEFINE c == w[i + 1]
           b == Between(w)
           R(s) == StringAt(w, i, s) /\ StringRow(s, c, t)
           After == i >= 2 /\ b[i - 1] /\ w[i] = Backslash
           Some == R(2) \/ R(16) \/ R(17) \/ R(23) \/ R(29) \/ R(33) \/ R(35)
<1>1. (\E s : R(s)) <=> Some
  <2>1. \A s : R(s) => s \in {2, 16, 17, 23, 29, 33, 35}
    BY DEF StringAt
  <2> HIDE DEF R
  <2>2. QED  BY <2>1
<1>2. b[i + 1] <=> \/ b[i] /\ c \notin {0, Quote, Backslash}
                   \/ After /\ c \in Simple
                   \/ DigitsTo(w, i, 3) /\ c \in Hex
  <2>1. b[i + 1] <=> Beyond(b, w, i + 1)
    BY BetweenIs
  <2>2. /\ (i + 1) - 1 = i /\ (i + 1) - 2 = i - 1 /\ (i + 1) - 6 = i - 5 /\ (i + 1) - 5 = i - 4
        /\ (i + 1) - 4 = i - 3 /\ (i + 1) - 3 = i - 2 /\ i + 1 # 1 /\ i + 1 >= 2
        /\ i + 1 >= 3 <=> i >= 2
        /\ i + 1 >= 7 <=> i >= 6
        /\ i - 3 - 2 = i - 5 /\ i - 3 - 1 = i - 4 /\ i - 3 + 1 = i - 2
        /\ i >= 3 + 3 <=> i >= 6
    OBVIOUS
  <2>3. i >= 6 => (AllIn(w, i - 2, i + 1, Hex) <=> AllIn(w, i - 2, i, Hex) /\ c \in Hex)
    BY AllMore
  <2> HIDE DEF b, c
  <2>4. Beyond(b, w, i + 1) <=>
          \/ b[i] /\ c \notin {0, Quote, Backslash}
          \/ i >= 2 /\ b[i - 1] /\ w[i] = Backslash /\ c \in Simple
          \/ /\ i >= 6 /\ b[i - 5] /\ w[i - 4] = Backslash /\ w[i - 3] = Letter_u
             /\ AllIn(w, i - 2, i + 1, Hex)
    BY <2>2 DEF Beyond, c
  <2>5. DigitsTo(w, i, 3) <=>
          /\ i >= 6 /\ b[i - 5] /\ w[i - 4] = Backslash /\ w[i - 3] = Letter_u
          /\ AllIn(w, i - 2, i, Hex)
    BY <2>2 DEF DigitsTo, b
  <2>6. QED  BY <2>1, <2>3, <2>4, <2>5
<1>3. DigitsTo(w, i + 1, 0) <=> After /\ c = Letter_u
  <2>1. /\ i + 1 - 0 - 2 = i - 1 /\ i + 1 - 0 - 1 = i /\ i + 1 - 0 = i + 1
        /\ i + 1 >= 0 + 3 <=> i >= 2
    OBVIOUS
  <2>2. AllIn(w, i + 1 - 0 + 1, i + 1, Hex)
    BY DEF AllIn
  <2>3. QED  BY <2>1, <2>2 DEF DigitsTo
<1>4. ASSUME NEW k \in 0 .. 2
      PROVE  DigitsTo(w, i + 1, k + 1) <=> DigitsTo(w, i, k) /\ c \in Hex
  <2>1. /\ i + 1 - (k + 1) - 2 = i - k - 2 /\ i + 1 - (k + 1) - 1 = i - k - 1
        /\ i + 1 - (k + 1) = i - k /\ i + 1 - (k + 1) + 1 = i - k + 1
        /\ i + 1 >= k + 1 + 3 <=> i >= k + 3
    OBVIOUS
  <2>2. ASSUME i >= k + 3
        PROVE  AllIn(w, i - k + 1, i + 1, Hex) <=> AllIn(w, i - k + 1, i, Hex) /\ c \in Hex
    <3>1. i - k + 1 \in Nat /\ i - k + 1 <= i + 1
      BY <2>2
    <3>2. QED  BY <3>1, AllMore
  <2>3. QED  BY <2>1, <2>2 DEF DigitsTo
<1>5. /\ DigitsTo(w, i + 1, 1) <=> DigitsTo(w, i, 0) /\ c \in Hex
      /\ DigitsTo(w, i + 1, 2) <=> DigitsTo(w, i, 1) /\ c \in Hex
      /\ DigitsTo(w, i + 1, 3) <=> DigitsTo(w, i, 2) /\ c \in Hex
  <2>1. 0 \in 0 .. 2 /\ 1 \in 0 .. 2 /\ 2 \in 0 .. 2 /\ 0 + 1 = 1 /\ 1 + 1 = 2 /\ 2 + 1 = 3
    OBVIOUS
  <2>2. QED  BY <1>4, <2>1
<1>6. StringAt(w, i + 1, t) <=>
        \/ t = 2 /\ b[i + 1]
        \/ t = 16 /\ b[i] /\ c = Quote
        \/ t = 17 /\ b[i] /\ c = Backslash
        \/ t = 23 /\ DigitsTo(w, i + 1, 0)
        \/ t = 29 /\ DigitsTo(w, i + 1, 1)
        \/ t = 33 /\ DigitsTo(w, i + 1, 2)
        \/ t = 35 /\ DigitsTo(w, i + 1, 3)
  <2>1. i + 1 >= 2 /\ (i + 1) - 1 = i
    OBVIOUS
  <2>2. QED  BY <2>1 DEF StringAt
<1>7. /\ R(2) <=> /\ b[i]
                  /\ \/ c # Quote /\ c # Backslash /\ t = 2
                     \/ c = Quote /\ t = 16
                     \/ c = Backslash /\ t = 17
      /\ ~R(16)
      /\ R(17) <=> After /\ ((c \in Simple /\ t = 2) \/ (c = Letter_u /\ t = 23))
      /\ R(23) <=> DigitsTo(w, i, 0) /\ c \in Hex /\ t = 29
      /\ R(29) <=> DigitsTo(w, i, 1) /\ c \in Hex /\ t = 33
      /\ R(33) <=> DigitsTo(w, i, 2) /\ c \in Hex /\ t = 35
      /\ R(35) <=> DigitsTo(w, i, 3) /\ c \in Hex /\ t = 2
  BY DEF StringAt, StringRow
<1>8. ASSUME c = Quote \/ c = Backslash \/ c = Letter_u \/ c \in Simple \/ c \in Hex
      PROVE  c # 0
  <2>1. \A x \in Hex : x # 0
    BY DEF Hex, Digit
  <2>2. CASE c \in Simple
    BY <2>2 DEF Simple
  <2>3. QED  BY <1>8, <2>1, <2>2 DEF Quote, Backslash, Letter_u
<1> HIDE DEF c, b, R, After
<1>9. StringAt(w, i + 1, t) <=> c # 0 /\ Some
  BY <1>2, <1>3, <1>5, <1>6, <1>7, <1>8
<1>10. QED  BY <1>1, <1>9 DEF R, c

LEMMA StringFirst ==
  ASSUME NEW w, Len(w) \in Nat, Len(w) # 0, NEW t
  PROVE  StringAt(w, 1, t) <=> t = 2 /\ w[1] = Quote
<1>1. Between(w)[1] <=> w[1] = Quote
  <2>1. 1 \in 1 .. Len(w)
    OBVIOUS
  <2>2. QED  BY <2>1, BetweenIs DEF Beyond
<1>2. QED  BY <1>1 DEF StringAt, DigitsTo

(* Words and the rest *)

LEMMA WordMore ==
  ASSUME NEW w, NEW i \in Nat \ {0}, NEW t
  PROVE  WordAt(w, i + 1, t) <=> \E s : WordAt(w, i, s) /\ WordRow(s, w[i + 1], t)
<1> DEFINE R(s) == WordAt(w, i, s) /\ WordRow(s, w[i + 1], t)
<1>1. (\E s : R(s)) <=> \/ R(10) \/ R(20) \/ R(26) \/ R(30) \/ R(11) \/ R(21) \/ R(27)
                        \/ R(12) \/ R(22) \/ R(28)
  BY DEF WordRow
<1>2. CASE i = 1
  BY <1>1, <1>2 DEF WordAt, WordRow
<1>3. CASE i = 2
  BY <1>1, <1>3 DEF WordAt, WordRow
<1>4. CASE i = 3
  BY <1>1, <1>4 DEF WordAt, WordRow
<1>5. CASE i = 4
  BY <1>1, <1>5 DEF WordAt, WordRow
<1>6. CASE i > 4
  BY <1>1, <1>6 DEF WordAt, WordRow
<1>7. QED  BY <1>2, <1>3, <1>4, <1>5, <1>6

LEMMA OtherMore ==
  ASSUME NEW w, NEW i \in Nat \ {0}, NEW t
  PROVE  OtherAt(w, i + 1, t) <=> OtherAt(w, i, 15) /\ w[i + 1] \in White /\ t = 15
<1>1. AllIn(w, 1, i + 1, White) <=> AllIn(w, 1, i, White) /\ w[i + 1] \in White
  BY AllMore
<1>2. i + 1 # 1
  OBVIOUS
<1>3. QED  BY <1>1, <1>2 DEF OtherAt

(* A text of characters, the end of the source among them. *)
IsText(w) == w \in Seq(0 .. 255)

LEMMA TextFacts ==
  ASSUME NEW w, IsText(w)
  PROVE  Len(w) \in Nat /\ (\A i \in 1 .. Len(w) : w[i] \in 0 .. 255)
BY LenProperties, ElementOfSeq DEF IsText

(* The labels of a text, one character further: all of them, and no other. *)
LEMMA LangMore ==
  ASSUME NEW w, IsText(w), NEW i \in Nat, i + 1 <= Len(w), NEW t
  PROVE  Lang(w, i + 1, t) <=>
           w[i + 1] # 0 /\ \E s : Lang(w, i, s) /\ t \in Targets(s, w[i + 1])
<1> DEFINE c == w[i + 1]
           Row3(s) ==
              StartRow(s, c, t) \/ StringRow(s, c, t) \/ NumberRow(s, c, t) \/ WordRow(s, c, t)
<1>1. Len(w) \in Nat /\ i + 1 \in 1 .. Len(w) /\ w # <<>> /\ c \in 0 .. 255
  <2>1. Len(w) \in Nat /\ i + 1 \in 1 .. Len(w)
    BY TextFacts
  <2>2. w # <<>>
    BY <2>1
  <2>3. QED  BY <2>1, <2>2, TextFacts
<1>2. \A s : t \in Targets(s, c) <=> Row3(s)
  BY Taken
<1>3. Lang(w, i + 1, t) <=>
        \/ NumberAt(w, i + 1, t) \/ StringAt(w, i + 1, t)
        \/ WordAt(w, i + 1, t) \/ OtherAt(w, i + 1, t)
  <2>1. i + 1 # 0
    OBVIOUS
  <2>2. QED  BY <2>1 DEF Lang
<1>4. CASE i = 0
  <2>1. i + 1 = 1 /\ c = w[1]
    BY <1>4
  <2>2. (\E s : Lang(w, i, s) /\ t \in Targets(s, c)) <=> StartRow(0, c, t)
    <3>1. ~StringRow(0, c, t) /\ ~NumberRow(0, c, t) /\ ~WordRow(0, c, t)
      BY DEF StringRow, NumberRow, WordRow
    <3>2. \A s : Lang(w, i, s) <=> s = 0
      BY <1>4 DEF Lang
    <3> HIDE DEF c
    <3>3. QED  BY <1>2, <3>1, <3>2
  <2>3. NumberAt(w, 1, t) <=> t \in {4, 5, 6} /\ StartRow(0, c, t)
    BY <1>1, <2>1, NumberFirst
  <2>4. StringAt(w, 1, t) <=> t = 2 /\ c = 34
    BY <1>1, <2>1, StringFirst DEF Quote
  <2>5. WordAt(w, 1, t) <=> (t = 10 /\ c = 102) \/ (t = 11 /\ c = 110) \/ (t = 12 /\ c = 116)
    BY <2>1 DEF WordAt
  <2>6. OtherAt(w, 1, t) <=>
          \/ t = 15 /\ c \in White
          \/ (t = 3 /\ c = 44) \/ (t = 7 /\ c = 58) \/ (t = 8 /\ c = 91) \/ (t = 9 /\ c = 93)
          \/ (t = 13 /\ c = 123) \/ (t = 14 /\ c = 125)
    BY <2>1 DEF OtherAt, AllIn
  <2>7. 0 \notin White /\ 0 \notin NonZero
    BY DEF White, NonZero
  <2> HIDE DEF c
  <2>8. c # 0 /\ StartRow(0, c, t) <=>
          \/ NumberAt(w, 1, t) \/ StringAt(w, 1, t) \/ WordAt(w, 1, t) \/ OtherAt(w, 1, t)
    BY <2>3, <2>4, <2>5, <2>6, <2>7 DEF StartRow
  <2>9. QED  BY <1>3, <2>1, <2>2, <2>8 DEF c
<1>5. CASE i # 0
  <2>1. i \in Nat \ {0}
    BY <1>5
  <2>2. \A s : Lang(w, i, s) <=>
                 NumberAt(w, i, s) \/ StringAt(w, i, s) \/ WordAt(w, i, s) \/ OtherAt(w, i, s)
    BY <1>5 DEF Lang
  <2>3. NumberAt(w, i + 1, t) <=> \E s : NumberAt(w, i, s) /\ NumberRow(s, c, t)
    BY <1>1, <2>1, NumberMore
  <2>4. StringAt(w, i + 1, t) <=> c # 0 /\ \E s : StringAt(w, i, s) /\ StringRow(s, c, t)
    BY <1>1, <2>1, StringMore
  <2>5. WordAt(w, i + 1, t) <=> \E s : WordAt(w, i, s) /\ WordRow(s, c, t)
    BY <2>1, WordMore
  <2>6. OtherAt(w, i + 1, t) <=> \E s : OtherAt(w, i, s) /\ StartRow(s, c, t)
    <3>1. OtherAt(w, i + 1, t) <=> OtherAt(w, i, 15) /\ c \in White /\ t = 15
      BY <2>1, OtherMore
    <3>2. \A s : OtherAt(w, i, s) => s # 0
      BY DEF OtherAt
    <3> HIDE DEF c
    <3>3. QED  BY <3>1, <3>2 DEF StartRow
  <2>7. \A s : Lang(w, i, s) /\ Row3(s) <=>
          \/ NumberAt(w, i, s) /\ NumberRow(s, c, t)
          \/ StringAt(w, i, s) /\ StringRow(s, c, t)
          \/ WordAt(w, i, s) /\ WordRow(s, c, t)
          \/ OtherAt(w, i, s) /\ StartRow(s, c, t)
    <3> DEFINE N == {4, 5, 6, 18, 19, 24, 25}
               S == {2, 16, 17, 23, 29, 33, 35}
               W == {10, 11, 12, 20, 21, 22, 26, 27, 28, 30, 31, 32, 34}
               O == {3, 7, 8, 9, 13, 14, 15}
    <3>1. /\ \A s : NumberAt(w, i, s) => s \in N
          /\ \A s : StringAt(w, i, s) => s \in S
          /\ \A s : WordAt(w, i, s) => s \in W
          /\ \A s : OtherAt(w, i, s) => s \in O
      BY DEF NumberAt, StringAt, WordAt, OtherAt
    <3>2. /\ \A s : NumberRow(s, c, t) => s \in N
          /\ \A s : StringRow(s, c, t) => s \in S
          /\ \A s : WordRow(s, c, t) => s \in W
          /\ \A s : StartRow(s, c, t) => s \in O \cup {0}
      BY DEF NumberRow, StringRow, WordRow, StartRow
    <3>3. /\ N \cap S = {} /\ N \cap W = {} /\ N \cap (O \cup {0}) = {}
          /\ S \cap W = {} /\ S \cap (O \cup {0}) = {} /\ W \cap (O \cup {0}) = {}
      OBVIOUS
    <3> HIDE DEF N, S, W, O, c
    <3>4. QED  BY <2>2, <3>1, <3>2, <3>3
  <2>8. (\E s : NumberAt(w, i, s) /\ NumberRow(s, c, t)) => c # 0
    BY DEF NumberRow, NonZero, Exponent, Digit
  <2>9. (\E s : WordAt(w, i, s) /\ WordRow(s, c, t)) => c # 0
    BY DEF WordRow
  <2>10. (\E s : OtherAt(w, i, s) /\ StartRow(s, c, t)) => c # 0
    <3>1. \A s : OtherAt(w, i, s) => s # 0
      BY DEF OtherAt
    <3>2. \A x \in White : x # 0
      BY DEF White
    <3> HIDE DEF c
    <3>3. QED  BY <3>1, <3>2 DEF StartRow
  <2> HIDE DEF c, Row3
  <2>11. QED  BY <1>2, <1>3, <2>3, <2>4, <2>5, <2>6, <2>7, <2>8, <2>9, <2>10 DEF c
<1>6. QED  BY <1>4, <1>5

(* The labels of a text depend on nothing behind it. *)
LEMMA LangPrefix ==
  ASSUME NEW w, IsText(w), NEW v, IsText(v), NEW n \in Nat, n <= Len(w), n <= Len(v),
         \A k \in 1 .. n : w[k] = v[k]
  PROVE  \A s : Lang(w, n, s) <=> Lang(v, n, s)
<1> DEFINE S == {i \in 0 .. n : \A s : Lang(w, i, s) <=> Lang(v, i, s)}
<1>1. 0 \in S
  BY DEF Lang
<1>2. ASSUME NEW i \in 0 .. n - 1, i \in S
      PROVE  i + 1 \in S
  <2>1. i \in Nat /\ i + 1 \in 1 .. n /\ i + 1 <= Len(w) /\ i + 1 <= Len(v)
    BY TextFacts
  <2>2. ASSUME NEW t
        PROVE  Lang(w, i + 1, t) <=> Lang(v, i + 1, t)
    <3>1. /\ Lang(w, i + 1, t) <=>
               w[i + 1] # 0 /\ \E s : Lang(w, i, s) /\ t \in Targets(s, w[i + 1])
          /\ Lang(v, i + 1, t) <=>
               v[i + 1] # 0 /\ \E s : Lang(v, i, s) /\ t \in Targets(s, v[i + 1])
      BY <2>1, LangMore
    <3>2. \A s : Lang(w, i, s) <=> Lang(v, i, s)
      BY <1>2
    <3>3. w[i + 1] = v[i + 1]
      BY <2>1
    <3>4. QED  BY <3>1, <3>2, <3>3
  <2>3. QED  BY <2>1, <2>2
<1>3. 0 .. n \subseteq S
  <2> HIDE DEF S
  <2>1. QED  BY <1>1, <1>2, UpTo
<1>4. n \in S
  BY <1>3
<1>5. QED  BY <1>4

(* A text has no two labels. *)
LEMMA LangUnique ==
  ASSUME NEW w, IsText(w), NEW n \in Nat, n <= Len(w)
  PROVE  \A s, t : Lang(w, n, s) /\ Lang(w, n, t) => s = t
<1> DEFINE S == {i \in 0 .. n : \A s, t : Lang(w, i, s) /\ Lang(w, i, t) => s = t}
<1>1. 0 \in S
  BY DEF Lang
<1>2. ASSUME NEW i \in 0 .. n - 1, i \in S
      PROVE  i + 1 \in S
  <2>1. i \in Nat /\ i + 1 \in 0 .. n /\ i + 1 <= Len(w)
    BY TextFacts
  <2>2. ASSUME NEW t, NEW u, Lang(w, i + 1, t), Lang(w, i + 1, u)
        PROVE  t = u
    <3>1. PICK s : Lang(w, i, s) /\ t \in Targets(s, w[i + 1])
      BY <2>1, <2>2, LangMore
    <3>2. PICK r : Lang(w, i, r) /\ u \in Targets(r, w[i + 1])
      BY <2>1, <2>2, LangMore
    <3>3. s = r
      BY <1>2, <3>1, <3>2
    <3>4. QED  BY <3>1, <3>2, <3>3, OneWay
  <2>3. QED  BY <2>1, <2>2
<1>3. 0 .. n \subseteq S
  <2> HIDE DEF S
  <2>1. QED  BY <1>1, <1>2, UpTo
<1>4. n \in S
  BY <1>3
<1>5. QED  BY <1>4

(* A text with a label has one at each of its characters. *)
LEMMA LangDown ==
  ASSUME NEW w, IsText(w), NEW n \in Nat, n <= Len(w), NEW s, Lang(w, n, s), NEW i \in 0 .. n
  PROVE  \E t : Lang(w, i, t)
<1> DEFINE S == {k \in 0 .. n : \E t : Lang(w, n - k, t)}
<1>1. 0 \in S
  BY SMT
<1>2. ASSUME NEW k \in 0 .. n - 1, k \in S
      PROVE  k + 1 \in S
  <2> DEFINE j == n - (k + 1)
  <2>1. j \in Nat /\ j + 1 = n - k /\ j + 1 <= Len(w) /\ k + 1 \in 0 .. n
    BY TextFacts
  <2>2. PICK t : Lang(w, n - k, t)
    BY <1>2
  <2>3. \E u : Lang(w, j, u)
    <3> HIDE DEF j
    <3>1. Lang(w, j + 1, t)
      BY <2>1, <2>2
    <3>2. QED  BY <2>1, <3>1, LangMore
  <2>4. QED  BY <2>1, <2>3
<1>3. 0 .. n \subseteq S
  <2> HIDE DEF S
  <2>1. QED  BY <1>1, <1>2, UpTo
<1>4. n - i \in 0 .. n /\ n - (n - i) = i
  OBVIOUS
<1>5. n - i \in S
  <2> HIDE DEF S
  <2>1. QED  BY <1>3, <1>4
<1>6. QED  BY <1>4, <1>5

-----------------------------------------------------------------------------
(* The languages of the terminals *)

LEMMA IntegerIs ==
  ASSUME NEW w
  PROVE  Integer(w) <=> NumberAt(w, Len(w), 5) \/ NumberAt(w, Len(w), 6)
BY DEF Integer, NumberAt, WholeTo

LEMMA NumberIs ==
  ASSUME NEW w, IsText(w), w # <<>>
  PROVE  Number(w) /\ ~Integer(w) <=> FractionTo(w, Len(w)) \/ FloatTo(w, Len(w))
<1> DEFINE n == Len(w)
           u == Unsigned(w)
<1>1. n \in Nat /\ n # 0 /\ u \in {1, 2}
  <2>1. n \in Nat /\ n # 0
    BY TextFacts, EmptySeq DEF IsText
  <2>2. QED  BY <2>1, UnsignedIs
<1>2. /\ \A i : WholeTo(w, i) <=> Whole(w, u, i)
      /\ Integer(w) <=> WholeTo(w, n)
  BY DEF WholeTo, Integer
<1>3. \A i : WholeTo(w, i) => u <= i /\ AllIn(w, u, i, Digit)
  BY DEF WholeTo, Whole
<1>4. /\ \A c \in Digit : c # 46 /\ c \notin Exponent /\ c \notin {43, 45}
      /\ \A c \in Exponent : c # 46 /\ c \notin {43, 45}
  BY DEF Digit, Exponent
<1> HIDE DEF n, u
<1>5. ASSUME NEW i \in 1 .. n, WholeTo(w, n), u <= i
      PROVE  w[i] \in Digit
  BY <1>1, <1>3, <1>5 DEF AllIn
<1>6. ASSUME NEW j \in 1 .. n
      PROVE  (\E i \in 1 .. j : WholeTo(w, i) /\ Fraction(w, i + 1, j)) <=>
               WholeTo(w, j) \/ FractionTo(w, j)
  <2>1. ASSUME NEW i \in 1 .. j, WholeTo(w, i), Fraction(w, i + 1, j)
        PROVE  WholeTo(w, j) \/ FractionTo(w, j)
    <3>1. CASE i = j
      BY <2>1, <3>1
    <3>2. CASE i # j
      <4>1. ~(i + 1 > j) /\ i \in 1 .. j - 1 /\ (i + 1) + 1 = i + 2
        BY <1>1, <3>2
      <4>2. w[i + 1] = 46 /\ AllIn(w, i + 2, j, Digit)
        BY <2>1, <4>1 DEF Fraction
      <4>3. QED  BY <2>1, <4>1, <4>2 DEF FractionTo
    <3>3. QED  BY <3>1, <3>2
  <2>2. ASSUME WholeTo(w, j)
        PROVE  j \in 1 .. j /\ Fraction(w, j + 1, j)
    BY <1>1 DEF Fraction
  <2>3. ASSUME FractionTo(w, j)
        PROVE  \E i \in 1 .. j : WholeTo(w, i) /\ Fraction(w, i + 1, j)
    <3>1. PICK i \in 1 .. j - 1 : WholeTo(w, i) /\ w[i + 1] = 46 /\ AllIn(w, i + 2, j, Digit)
      BY <2>3 DEF FractionTo
    <3>2. i \in 1 .. j /\ (i + 1) + 1 = i + 2
      BY <1>1
    <3>3. QED  BY <3>1, <3>2 DEF Fraction
  <2>4. QED  BY <2>1, <2>2, <2>3
<1>7. ASSUME NEW j \in 1 .. n, WholeTo(w, j) \/ FractionTo(w, j), j # n
      PROVE  /\ Power(w, j + 1, n) => FloatTo(w, n)
             /\ w[j + 1] \in Exponent => ~WholeTo(w, n)
  <2>1. j + 1 \in 2 .. n /\ (j + 1) - 1 = j /\ ~(j + 1 > n)
    BY <1>1, <1>7
  <2>2. ASSUME Power(w, j + 1, n)
        PROVE  FloatTo(w, n)
    <3>1. /\ w[j + 1] \in Exponent /\ PowerDigits(w, j + 1, n) <= n
          /\ AllIn(w, PowerDigits(w, j + 1, n), n, Digit)
      BY <2>1, <2>2 DEF Power
    <3>2. PowerTo(w, j + 1)
      BY <1>7, <2>1, <3>1 DEF PowerTo
    <3>3. CASE j + 1 < n /\ w[(j + 1) + 1] \in {43, 45}
      <4>1. PowerDigits(w, j + 1, n) = (j + 2) + 1
        BY <1>1, <3>3 DEF PowerDigits
      <4>2. j + 2 \in 1 .. n - 1 /\ (j + 2) - 1 = j + 1 /\ (j + 1) + 1 = j + 2 /\ j + 2 >= 2
        BY <1>1, <3>1, <4>1
      <4>3. SignTo(w, j + 2)
        BY <3>2, <3>3, <4>2 DEF SignTo
      <4>4. QED  BY <3>1, <4>1, <4>2, <4>3 DEF FloatTo
    <3>4. CASE ~(j + 1 < n /\ w[(j + 1) + 1] \in {43, 45})
      <4>1. PowerDigits(w, j + 1, n) = (j + 1) + 1
        BY <1>1, <3>4 DEF PowerDigits
      <4>2. j + 1 \in 1 .. n - 1
        BY <1>1, <3>1, <4>1
      <4>3. QED  BY <3>1, <3>2, <4>1, <4>2 DEF FloatTo
    <3>5. QED  BY <3>3, <3>4
  <2>3. ASSUME w[j + 1] \in Exponent, WholeTo(w, n)
        PROVE  FALSE
    <3>1. u <= j
      <4>1. CASE WholeTo(w, j)
        BY <1>3, <4>1
      <4>2. CASE FractionTo(w, j)
        <5>1. PICK a \in 1 .. j - 1 : WholeTo(w, a)
          BY <4>2 DEF FractionTo
        <5>2. QED  BY <1>1, <1>3, <5>1
      <4>3. QED  BY <1>7, <4>1, <4>2
    <3>2. j + 1 \in 1 .. n /\ u <= j + 1
      BY <1>1, <2>1, <3>1
    <3>3. w[j + 1] \in Digit
      BY <1>5, <2>3, <3>2
    <3>4. QED  BY <1>4, <2>3, <3>3
  <2>4. QED  BY <2>2, <2>3
<1>8. ASSUME Number(w), ~Integer(w)
      PROVE  FractionTo(w, n) \/ FloatTo(w, n)
  <2>1. PICK i \in 1 .. n, j \in 1 .. n :
          i <= j /\ Whole(w, u, i) /\ Fraction(w, i + 1, j) /\ Power(w, j + 1, n)
    BY <1>8 DEF Number, n, u
  <2>2. i \in 1 .. j /\ WholeTo(w, i)
    BY <1>1, <1>2, <2>1
  <2>3. WholeTo(w, j) \/ FractionTo(w, j)
    BY <1>6, <2>1, <2>2
  <2>4. QED  BY <1>2, <1>7, <1>8, <2>1, <2>3
<1>9. ASSUME FractionTo(w, n)
      PROVE  Number(w) /\ ~Integer(w)
  <2>1. n \in 1 .. n /\ n + 1 > n
    BY <1>1
  <2>2. PICK i \in 1 .. n : WholeTo(w, i) /\ Fraction(w, i + 1, n)
    BY <1>6, <1>9, <2>1
  <2>3. Power(w, n + 1, n) /\ i <= n
    BY <1>1, <2>1 DEF Power
  <2>4. Number(w)
    BY <1>2, <2>1, <2>2, <2>3 DEF Number, n, u
  <2>5. PICK a \in 1 .. n - 1 : WholeTo(w, a) /\ w[a + 1] = 46
    BY <1>9 DEF FractionTo
  <2>6. a + 1 \in 1 .. n /\ u <= a + 1
    BY <1>1, <1>3, <2>5
  <2>7. ~WholeTo(w, n)
    BY <1>4, <1>5, <2>5, <2>6
  <2>8. QED  BY <1>2, <2>4, <2>7
<1>10. ASSUME FloatTo(w, n)
       PROVE  Number(w) /\ ~Integer(w)
  <2>1. PICK a \in 1 .. n - 1 : (PowerTo(w, a) \/ SignTo(w, a)) /\ AllIn(w, a + 1, n, Digit)
    BY <1>10 DEF FloatTo
  <2>2. \E j \in 1 .. n :
          /\ j # n /\ (WholeTo(w, j) \/ FractionTo(w, j))
          /\ w[j + 1] \in Exponent /\ Power(w, j + 1, n)
    <3>1. CASE PowerTo(w, a)
      <4>1. /\ a - 1 \in 1 .. n /\ a - 1 # n /\ (a - 1) + 1 = a /\ w[a] \in Exponent
            /\ WholeTo(w, a - 1) \/ FractionTo(w, a - 1)
        BY <1>1, <3>1 DEF PowerTo
      <4>2. a + 1 \in a + 1 .. n
        BY <1>1
      <4>3. w[a + 1] \notin {43, 45}
        BY <1>4, <2>1, <4>2 DEF AllIn
      <4>4. PowerDigits(w, a, n) = a + 1
        BY <4>3 DEF PowerDigits
      <4>5. Power(w, a, n)
        BY <1>1, <2>1, <4>1, <4>4 DEF Power
      <4>6. QED  BY <4>1, <4>5
    <3>2. CASE SignTo(w, a)
      <4>1. a >= 2 /\ w[a] \in {43, 45} /\ PowerTo(w, a - 1)
        BY <3>2 DEF SignTo
      <4>2. a - 1 >= 2 /\ w[a - 1] \in Exponent
            /\ (WholeTo(w, (a - 1) - 1) \/ FractionTo(w, (a - 1) - 1))
        BY <4>1 DEF PowerTo
      <4>3. /\ (a - 1) - 1 = a - 2 /\ a - 2 \in 1 .. n /\ a - 2 # n /\ (a - 2) + 1 = a - 1
            /\ (a - 1) + 1 = a /\ (a - 1) + 2 = a + 1 /\ a - 1 < n /\ a + 1 <= n
        BY <1>1, <4>2
      <4>4. PowerDigits(w, a - 1, n) = a + 1
        BY <4>1, <4>3 DEF PowerDigits
      <4>5. Power(w, a - 1, n)
        BY <2>1, <4>2, <4>3, <4>4 DEF Power
      <4>6. QED  BY <4>2, <4>3, <4>5
    <3>3. QED  BY <2>1, <3>1, <3>2
  <2>3. PICK j \in 1 .. n :
          /\ j # n /\ (WholeTo(w, j) \/ FractionTo(w, j))
          /\ w[j + 1] \in Exponent /\ Power(w, j + 1, n)
    BY <2>2
  <2>4. PICK i \in 1 .. j : WholeTo(w, i) /\ Fraction(w, i + 1, j)
    BY <1>6, <2>3
  <2>5. i \in 1 .. n /\ i <= j
    BY <1>1
  <2>6. Number(w)
    BY <1>2, <2>3, <2>4, <2>5 DEF Number, n, u
  <2>7. ~Integer(w)
    BY <1>2, <1>7, <2>3
  <2>8. QED  BY <2>6, <2>7
<1>11. QED  BY <1>8, <1>9, <1>10 DEF n

LEMMA FixedIs ==
  ASSUME NEW w, IsText(w)
  PROVE  \A k : k \in DOMAIN Fixed /\ Fixed[k] = w <=>
           \E s : /\ WordAt(w, Len(w), s) \/ (OtherAt(w, Len(w), s) /\ s # 15)
                  /\ Closed(s) = k /\ k # "unknown"
<1> DEFINE n == Len(w)
           Is(v) == n = Len(v) /\ \A i \in 1 .. n : w[i] = v[i]
<1>1. n \in Nat
  BY TextFacts
<1>2. ASSUME NEW v, IsText(v)
      PROVE  v = w <=> Is(v)
  <2>1. v \in Seq(0 .. 255) /\ w \in Seq(0 .. 255)
    BY <1>2 DEF IsText
  <2>2. QED  BY <2>1, SeqEqual
<1>3. /\ Fixed["comma"] = w <=> n = 1 /\ w[1] = 44
      /\ Fixed["colon"] = w <=> n = 1 /\ w[1] = 58
      /\ Fixed["lbrack"] = w <=> n = 1 /\ w[1] = 91
      /\ Fixed["rbrack"] = w <=> n = 1 /\ w[1] = 93
      /\ Fixed["lbrace"] = w <=> n = 1 /\ w[1] = 123
      /\ Fixed["rbrace"] = w <=> n = 1 /\ w[1] = 125
  <2>1. \A c \in 0 .. 255 : <<c>> = w <=> n = 1 /\ w[1] = c
    <3>1. TAKE c \in 0 .. 255
    <3>2. IsText(<<c>>) /\ Len(<<c>>) = 1 /\ <<c>>[1] = c
      BY DEF IsText
    <3>3. <<c>> = w <=> Is(<<c>>)
      BY <1>2, <3>2
    <3>4. 1 .. 1 = {1}
      OBVIOUS
    <3>5. QED  BY <3>2, <3>3, <3>4
  <2>2. /\ Fixed["comma"] = <<44>> /\ Fixed["colon"] = <<58>> /\ Fixed["lbrack"] = <<91>>
        /\ Fixed["rbrack"] = <<93>> /\ Fixed["lbrace"] = <<123>> /\ Fixed["rbrace"] = <<125>>
    BY DEF Fixed
  <2>3. {44, 58, 91, 93, 123, 125} \subseteq 0 .. 255
    BY SMT
  <2> HIDE DEF n
  <2>4. QED  BY <2>1, <2>2, <2>3
<1>4. Fixed["true"] = w <=>
        n = 4 /\ w[1] = 116 /\ w[2] = 114 /\ w[3] = 117 /\ w[4] = 101
  <2> DEFINE v == Fixed["true"]
  <2>1. v = <<116, 114, 117, 101>>
    BY DEF Fixed
  <2>2. v \in Seq(0 .. 255)
    <3>1. /\ 116 \in 0 .. 255 /\ 114 \in 0 .. 255 /\ 117 \in 0 .. 255
          /\ 101 \in 0 .. 255
      BY SMT
    <3>2. QED  BY <2>1, <3>1, SMT
  <2>3. Len(v) = 4 /\ v[1] = 116 /\ v[2] = 114 /\ v[3] = 117 /\ v[4] = 101
    BY <2>1, SMT
  <2>4. 1 .. 4 = {1, 2, 3, 4}
    BY SMT
  <2> HIDE DEF v
  <2>5. v = w <=> Is(v)
    BY <1>2, <2>2 DEF IsText
  <2>6. v = w <=> n = 4 /\ w[1] = 116 /\ w[2] = 114 /\ w[3] = 117 /\ w[4] = 101
    BY <2>3, <2>4, <2>5
  <2>7. QED  BY <2>6 DEF v
<1>5. Fixed["null"] = w <=>
        n = 4 /\ w[1] = 110 /\ w[2] = 117 /\ w[3] = 108 /\ w[4] = 108
  <2> DEFINE v == Fixed["null"]
  <2>1. v = <<110, 117, 108, 108>>
    BY DEF Fixed
  <2>2. v \in Seq(0 .. 255)
    <3>1. 110 \in 0 .. 255 /\ 117 \in 0 .. 255 /\ 108 \in 0 .. 255
      BY SMT
    <3>2. QED  BY <2>1, <3>1, SMT
  <2>3. Len(v) = 4 /\ v[1] = 110 /\ v[2] = 117 /\ v[3] = 108 /\ v[4] = 108
    BY <2>1, SMT
  <2>4. 1 .. 4 = {1, 2, 3, 4}
    BY SMT
  <2> HIDE DEF v
  <2>5. v = w <=> Is(v)
    BY <1>2, <2>2 DEF IsText
  <2>6. v = w <=> n = 4 /\ w[1] = 110 /\ w[2] = 117 /\ w[3] = 108 /\ w[4] = 108
    BY <2>3, <2>4, <2>5
  <2>7. QED  BY <2>6 DEF v
<1>6. Fixed["false"] = w <=>
        n = 5 /\ w[1] = 102 /\ w[2] = 97 /\ w[3] = 108 /\ w[4] = 115 /\ w[5] = 101
  <2> DEFINE v == Fixed["false"]
  <2>1. v = <<102, 97, 108, 115, 101>>
    BY DEF Fixed
  <2>2. v \in Seq(0 .. 255)
    <3>1. /\ 102 \in 0 .. 255 /\ 97 \in 0 .. 255 /\ 108 \in 0 .. 255
          /\ 115 \in 0 .. 255 /\ 101 \in 0 .. 255
      BY SMT
    <3>2. QED  BY <2>1, <3>1, SMT
  <2>3. Len(v) = 5 /\ v[1] = 102 /\ v[2] = 97 /\ v[3] = 108 /\ v[4] = 115 /\ v[5] = 101
    BY <2>1, SMT
  <2>4. 1 .. 5 = {1, 2, 3, 4, 5}
    BY SMT
  <2> HIDE DEF v
  <2>5. v = w <=> Is(v)
    BY <1>2, <2>2 DEF IsText
  <2>6. v = w <=> n = 5 /\ w[1] = 102 /\ w[2] = 97 /\ w[3] = 108 /\ w[4] = 115 /\ w[5] = 101
    BY <2>3, <2>4, <2>5
  <2>7. QED  BY <2>6 DEF v
<1>7. \A k : k \in DOMAIN Fixed <=>
        k \in {"comma", "colon", "lbrack", "rbrack", "lbrace", "rbrace", "true", "null", "false"}
  BY DEF Fixed
<1> DEFINE At(s) == WordAt(w, n, s) \/ (OtherAt(w, n, s) /\ s # 15)
<1>8. /\ At(3) <=> n = 1 /\ w[1] = 44
      /\ At(7) <=> n = 1 /\ w[1] = 58
      /\ At(8) <=> n = 1 /\ w[1] = 91
      /\ At(9) <=> n = 1 /\ w[1] = 93
      /\ At(13) <=> n = 1 /\ w[1] = 123
      /\ At(14) <=> n = 1 /\ w[1] = 125
      /\ At(32) <=> n = 4 /\ w[1] = 116 /\ w[2] = 114 /\ w[3] = 117 /\ w[4] = 101
      /\ At(31) <=> n = 4 /\ w[1] = 110 /\ w[2] = 117 /\ w[3] = 108 /\ w[4] = 108
      /\ At(34) <=> n = 5 /\ w[1] = 102 /\ w[2] = 97 /\ w[3] = 108 /\ w[4] = 115 /\ w[5] = 101
  BY DEF WordAt, OtherAt
<1>9. \A s : At(s) => s \in {3, 7, 8, 9, 13, 14, 31, 32, 34} \/ Closed(s) = "unknown"
  <2>1. ASSUME NEW s, WordAt(w, n, s)
        PROVE  s \in {31, 32, 34} \/ s \in {10, 11, 12, 20, 21, 22, 26, 27, 28, 30}
    BY <2>1 DEF WordAt
  <2>2. ASSUME NEW s \in {10, 11, 12, 20, 21, 22, 26, 27, 28, 30}
        PROVE  Closed(s) = "unknown"
    BY DEF Closed
  <2>3. ASSUME NEW s, OtherAt(w, n, s), s # 15
        PROVE  s \in {3, 7, 8, 9, 13, 14}
    BY <2>3 DEF OtherAt
  <2>4. QED  BY <2>1, <2>2, <2>3
<1>10. /\ Closed(3) = "comma" /\ Closed(7) = "colon" /\ Closed(8) = "lbrack"
      /\ Closed(9) = "rbrack" /\ Closed(13) = "lbrace" /\ Closed(14) = "rbrace"
      /\ Closed(32) = "true" /\ Closed(31) = "null" /\ Closed(34) = "false"
  BY DEF Closed
<1> HIDE DEF At, n
<1>11. ASSUME NEW k
       PROVE  k \in DOMAIN Fixed /\ Fixed[k] = w <=>
                \E s : At(s) /\ Closed(s) = k /\ k # "unknown"
  BY <1>3, <1>4, <1>5, <1>6, <1>7, <1>8, <1>9, <1>10
<1>12. QED  BY <1>11 DEF At, n

LEMMA LangKinds ==
  ASSUME NEW w, IsText(w)
  PROVE  \A k : k \in Kinds(w) <=>
                  k # "unknown" /\ \E s : Lang(w, Len(w), s) /\ Closed(s) = k
<1> DEFINE n == Len(w)
           At(s) == WordAt(w, n, s) \/ (OtherAt(w, n, s) /\ s # 15)
<1>1. n \in Nat /\ (n = 0 <=> w = <<>>)
  BY TextFacts, EmptySeq DEF IsText
<1>2. ASSUME NEW k
      PROVE  k \in Kinds(w) <=>
               \/ k \in DOMAIN Fixed /\ Fixed[k] = w
               \/ k = "int" /\ Integer(w)
               \/ k = "flt" /\ Number(w) /\ ~Integer(w)
               \/ k = "skip" /\ w # <<>> /\ AllIn(w, 1, n, White)
               \/ k = "str" /\ String(w)
  BY DEF Kinds
<1>3. CASE w = <<>>
  <2>1. \A k \in DOMAIN Fixed : Fixed[k] # w
    <3>1. \A s : ~WordAt(w, 0, s) /\ (OtherAt(w, 0, s) => s = 15)
      BY DEF WordAt, OtherAt
    <3>2. n = 0
      BY <1>1, <1>3
    <3>3. QED  BY <3>1, <3>2, FixedIs
  <2>2. ~Integer(w) /\ ~Number(w) /\ ~String(w)
    <3>1. n = 0
      BY <1>1, <1>3
    <3>2. Unsigned(w) = 1
      BY <1>3 DEF Unsigned
    <3>3. QED  BY <3>1, <3>2 DEF Integer, Whole, Number, String
  <2>3. \A s : Lang(w, n, s) => Closed(s) = "unknown"
    <3>1. Closed(0) = "unknown"
      BY DEF Closed
    <3>2. QED  BY <1>1, <1>3, <3>1 DEF Lang
  <2>4. QED  BY <1>2, <1>3, <2>1, <2>2, <2>3
<1>4. CASE w # <<>>
  <2>1. \A s : Lang(w, n, s) <=> \/ NumberAt(w, n, s) \/ StringAt(w, n, s) \/ At(s)
                                 \/ s = 15 /\ OtherAt(w, n, 15)
    BY <1>1, <1>4 DEF Lang
  <2>2. \A k : k \in DOMAIN Fixed /\ Fixed[k] = w <=>
               \E s : At(s) /\ Closed(s) = k /\ k # "unknown"
    BY FixedIs
  <2>3. Integer(w) <=> NumberAt(w, n, 5) \/ NumberAt(w, n, 6)
    BY IntegerIs
  <2>4. Number(w) /\ ~Integer(w) <=> NumberAt(w, n, 18) \/ NumberAt(w, n, 25)
    BY <1>4, NumberIs DEF NumberAt
  <2>5. String(w) <=> StringAt(w, n, 16)
    BY DEF String, StringAt
  <2>6. AllIn(w, 1, n, White) <=> OtherAt(w, n, 15)
    BY DEF OtherAt
  <2>7. ASSUME NEW s, NumberAt(w, n, s)
        PROVE  \/ s \in {5, 6} /\ Closed(s) = "int"
               \/ s \in {18, 25} /\ Closed(s) = "flt"
               \/ Closed(s) = "unknown"
    BY <2>7 DEF NumberAt, Closed
  <2>8. ASSUME NEW s, StringAt(w, n, s)
        PROVE  (s = 16 /\ Closed(s) = "str") \/ Closed(s) = "unknown"
    <3>1. s = 16 \/ s \in {2, 17, 23, 29, 33, 35}
      BY <2>8 DEF StringAt
    <3>2. Closed(16) = "str" /\ \A x \in {2, 17, 23, 29, 33, 35} : Closed(x) = "unknown"
      BY DEF Closed
    <3>3. QED  BY <3>1, <3>2
  <2>9. Closed(15) = "skip" /\ Closed(5) = "int" /\ Closed(6) = "int" /\ Closed(18) = "flt"
        /\ Closed(25) = "flt" /\ Closed(16) = "str"
    BY DEF Closed
  <2> HIDE DEF n, At
  <2>10. ASSUME NEW k, k # "unknown", NEW s, Lang(w, n, s), Closed(s) = k
         PROVE  k \in Kinds(w)
    <3>1. CASE NumberAt(w, n, s)
      BY <1>2, <2>3, <2>4, <2>7, <2>10, <3>1
    <3>2. CASE StringAt(w, n, s)
      BY <1>2, <2>5, <2>8, <2>10, <3>2
    <3>3. CASE At(s)
      BY <1>2, <2>2, <2>10, <3>3
    <3>4. CASE s = 15 /\ OtherAt(w, n, 15)
      BY <1>2, <1>4, <2>6, <2>9, <2>10, <3>4
    <3>5. QED  BY <2>1, <2>10, <3>1, <3>2, <3>3, <3>4
  <2>11. ASSUME NEW k, k \in Kinds(w)
         PROVE  k # "unknown" /\ \E s : Lang(w, n, s) /\ Closed(s) = k
    <3>1. CASE k \in DOMAIN Fixed /\ Fixed[k] = w
      BY <2>1, <2>2, <3>1
    <3>2. CASE k = "int" /\ Integer(w)
      BY <2>1, <2>3, <2>9, <3>2
    <3>3. CASE k = "flt" /\ Number(w) /\ ~Integer(w)
      BY <2>1, <2>4, <2>9, <3>3
    <3>4. CASE k = "skip" /\ AllIn(w, 1, n, White)
      BY <2>1, <2>6, <2>9, <3>4
    <3>5. CASE k = "str" /\ String(w)
      BY <2>1, <2>5, <2>9, <3>5
    <3>6. QED  BY <1>2, <2>11, <3>1, <3>2, <3>3, <3>4, <3>5
  <2>12. QED  BY <2>10, <2>11 DEF n
<1>5. QED  BY <1>3, <1>4

-----------------------------------------------------------------------------
(* The scanner *)

LabelOK ==
  /\ IsText(text)
  /\ term = "scanning" => Lang(text, Len(text), state)
  /\ term # "scanning" =>
       /\ in_char \in 0 .. 255
       /\ \E s : /\ Lang(text, Len(text), s)
                 /\ \/ Targets(s, in_char) = {} /\ term = Closed(s)
                    \/ in_char = 0 /\ \E t \in Targets(s, 0) : term = Closed(t)
  /\ decode # "idle" => term = "str"

LEMMA AlphabetChars ==
  /\ \A sh \in Shapes : sh \in Seq(SUBSET (0 .. 255))
  /\ Alphabet \subseteq 0 .. 255
<1>1. \A sh \in Shapes : sh \in Seq(SUBSET (0 .. 255)) /\ Range(sh) \subseteq SUBSET (0 .. 255)
  <2>1. TAKE sh \in Shapes
  <2> DEFINE T == SUBSET (0 .. 255)
  <2>2. sh \in Seq(T)
    BY LexAssumption DEF LexAssumption
  <2> HIDE DEF T
  <2>3. DOMAIN sh = 1 .. Len(sh) /\ \A i \in 1 .. Len(sh) : sh[i] \in T
    BY <2>2, LenProperties, ElementOfSeq
  <2>4. Range(sh) \subseteq T
    BY <2>3 DEF Range
  <2>5. QED  BY <2>2, <2>4 DEF T
<1>2. ASSUME NEW sh \in Shapes, NEW C \in Range(sh)
      PROVE  C \subseteq 0 .. 255
  BY <1>1
<1>3. 0 \in 0 .. 255
  BY SMT
<1>4. \A x \in Alphabet : x = 0 \/ \E sh \in Shapes : \E C \in Range(sh) : x \in C
  BY DEF Alphabet
<1>5. QED  BY <1>1, <1>2, <1>3, <1>4

LEMMA FollowingChars ==
  ASSUME IsText(text), shape \in Shapes
  PROVE  Following \subseteq 0 .. 255
<1>1. Len(text) < Len(shape) => shape[Len(text) + 1] \subseteq 0 .. 255
  <2>1. Len(shape) \in Nat /\ \A i \in 1 .. Len(shape) : shape[i] \in SUBSET (0 .. 255)
    BY AlphabetChars, LenProperties, ElementOfSeq
  <2>2. Len(text) < Len(shape) => Len(text) + 1 \in 1 .. Len(shape)
    BY <2>1, TextFacts
  <2>3. QED  BY <2>1, <2>2
<1>2. 0 \in 0 .. 255
  BY SMT
<1>3. QED  BY <1>1, <1>2, AlphabetChars DEF Following

LEMMA TextAppend ==
  ASSUME NEW w, IsText(w), NEW c \in 0 .. 255
  PROVE  /\ IsText(Append(w, c)) /\ Len(Append(w, c)) = Len(w) + 1
         /\ Append(w, c)[Len(w) + 1] = c
         /\ \A s : Lang(Append(w, c), Len(w), s) <=> Lang(w, Len(w), s)
<1>1. /\ IsText(Append(w, c)) /\ Len(Append(w, c)) = Len(w) + 1
      /\ Append(w, c)[Len(w) + 1] = c
      /\ \A k \in 1 .. Len(w) : Append(w, c)[k] = w[k]
  BY AppendProperties DEF IsText
<1>2. Len(w) \in Nat
  BY TextFacts
<1> DEFINE v == Append(w, c)
<1>3. IsText(v) /\ Len(w) \in Nat /\ Len(w) <= Len(w) /\ Len(w) <= Len(v)
      /\ \A k \in 1 .. Len(w) : v[k] = w[k]
  BY <1>1, <1>2
<1> HIDE DEF v
<1>4. \A s : Lang(v, Len(w), s) <=> Lang(w, Len(w), s)
  BY <1>3, LangPrefix
<1>5. QED  BY <1>1, <1>4 DEF v

ScannerInv == LabelOK /\ shape \in Shapes

LEMMA ScannerInit == Init => ScannerInv
<1> SUFFICES ASSUME Init
             PROVE  ScannerInv
  OBVIOUS
<1>1. text = <<>> /\ state = 0 /\ term = "scanning" /\ decode = "idle" /\ shape \in Shapes
  BY DEF Init
<1>2. IsText(<<>>) /\ Len(<<>>) = 0
  BY DEF IsText
<1>3. QED  BY <1>1, <1>2 DEF ScannerInv, LabelOK, Lang

LEMMA ScannerNext == ScannerInv /\ [Next]_vars => ScannerInv'
<1> SUFFICES ASSUME ScannerInv, [Next]_vars
             PROVE  ScannerInv'
  OBVIOUS
<1>1. IsText(text) /\ shape \in Shapes
  BY DEF ScannerInv, LabelOK
<1>2. ASSUME NEW c \in Following, Scan(c)
      PROVE  ScannerInv'
  <2>1. /\ term = "scanning" /\ decode = "idle" /\ in_char' = c
        /\ UNCHANGED <<shape, decode>> /\ Lang(text, Len(text), state)
    BY <1>2 DEF Scan, ScannerInv, LabelOK
  <2>2. c \in 0 .. 255
    BY <1>1, FollowingChars
  <2>3. \A s : Closed(s) # "scanning"
    BY DEF Closed
  <2>4. CASE Targets(state, c) = {}
    <3>1. term' = Closed(state) /\ text' = text
      BY <1>2, <2>4 DEF Scan
    <3>2. /\ IsText(text') /\ term' # "scanning" /\ in_char' \in 0 .. 255
          /\ Lang(text', Len(text'), state)
          /\ Targets(state, in_char') = {} /\ term' = Closed(state)
      BY <1>1, <2>1, <2>2, <2>3, <2>4, <3>1
    <3>3. QED  BY <1>1, <2>1, <3>2 DEF ScannerInv, LabelOK
  <2>5. CASE Targets(state, c) # {}
    <3>1. PICK t \in Targets(state, c) :
            /\ state' = t
            /\ IF c = 0 THEN term' = Closed(t) /\ UNCHANGED text
               ELSE text' = Append(text, c) /\ UNCHANGED term
      BY <1>2, <2>5 DEF Scan
    <3>2. CASE c = 0
      <4>1. /\ IsText(text') /\ term' # "scanning" /\ in_char' \in 0 .. 255
            /\ Lang(text', Len(text'), state) /\ in_char' = 0
            /\ t \in Targets(state, 0) /\ term' = Closed(t)
        BY <1>1, <2>1, <2>2, <2>3, <3>1, <3>2
      <4>2. QED  BY <1>1, <2>1, <4>1 DEF ScannerInv, LabelOK
    <3>3. CASE c # 0
      <4>1. text' = Append(text, c) /\ state' = t /\ term' = "scanning"
        BY <2>1, <3>1, <3>3
      <4>2. /\ IsText(text') /\ Len(text') = Len(text) + 1 /\ text'[Len(text) + 1] = c
            /\ Lang(text', Len(text), state)
        BY <1>1, <2>1, <2>2, <4>1, TextAppend
      <4>3. Lang(text', Len(text) + 1, t)
        <5> DEFINE w == text'
                   n == Len(text)
        <5>1. IsText(w) /\ n \in Nat /\ n + 1 <= Len(w) /\ w[n + 1] = c /\ Lang(w, n, state)
          BY <1>1, <4>2, TextFacts
        <5>2. t \in Targets(state, w[n + 1]) /\ w[n + 1] # 0
          BY <3>1, <3>3, <5>1
        <5> HIDE DEF w, n
        <5>3. Lang(w, n + 1, t)
          BY <5>1, <5>2, LangMore
        <5>4. QED  BY <5>3 DEF w, n
      <4>4. QED  BY <1>1, <2>1, <4>1, <4>2, <4>3 DEF ScannerInv, LabelOK
    <3>4. QED  BY <3>2, <3>3
  <2>6. QED  BY <2>4, <2>5
<1>3. ASSUME Begin \/ Plain \/ Unicode \/ Escape \/ Fails \/ End
      PROVE  ScannerInv'
  <2>1. UNCHANGED <<shape, state, in_char, text, term>> /\ (decode # "idle" \/ term = "str")
    BY <1>3 DEF Begin, Plain, Unicode, Escape, Fails, End, Take, Running
  <2>2. QED  BY <2>1 DEF ScannerInv, LabelOK
<1>4. CASE UNCHANGED vars
  BY <1>4 DEF vars, ScannerInv, LabelOK
<1>5. QED  BY <1>2, <1>3, <1>4 DEF Next

(* ccljson.cc:477-1009: whatever label the scanner stands at, the          *)
(* characters it has taken are of the language of that label, and of no    *)
(* other's.                                                                *)
THEOREM ScannerInvariance == Spec => []ScannerInv
  BY ScannerInit, ScannerNext, PTL DEF Spec

(* The kinds of a text at a label: what the label returns. *)
LEMMA KindsAt ==
  ASSUME NEW w, IsText(w), NEW s, Lang(w, Len(w), s)
  PROVE  Kinds(w) = IF Closed(s) = "unknown" THEN {} ELSE {Closed(s)}
<1>1. Len(w) \in Nat
  BY TextFacts
<1>2. \A t : Lang(w, Len(w), t) => t = s
  BY <1>1, LangUnique
<1>3. \A k : k \in Kinds(w) <=> k # "unknown" /\ k = Closed(s)
  BY <1>2, LangKinds
<1>4. QED  BY <1>3

(* ccljson.cc:566-720: for texts of any length, the value returned at a    *)
(* label is the terminal whose language the characters are of, written     *)
(* without labels, and a text that is of no terminal is not returned as    *)
(* one.                                                                    *)
THEOREM LexRecognises == Spec => []Recognises
<1>1. ScannerInv => Recognises
  BY KindsAt DEF ScannerInv, LabelOK, Recognises
<1>2. QED  BY <1>1, ScannerInvariance, PTL

(* A terminal that begins with a text and a character after it takes the   *)
(* text's label on. *)
LEMMA BeginsTaken ==
  ASSUME NEW w, IsText(w), NEW s, Lang(w, Len(w), s), NEW c \in 0 .. 255,
         Begins(Append(w, c))
  PROVE  c # 0 /\ Targets(s, c) # {}
<1> DEFINE n == Len(w)
           v == Append(w, c)
<1>1. PICK e \in Ends : Kinds(v \o e) # {}
  BY DEF Begins
<1>2. IsText(e)
  <2> DEFINE S == 0 .. 255
  <2>1. /\ Quote \in S /\ 48 \in S /\ 97 \in S /\ 101 \in S /\ 108 \in S /\ 110 \in S
        /\ 114 \in S /\ 115 \in S /\ 117 \in S
    BY SMT DEF Quote
  <2> HIDE DEF S
  <2>2. {<<>>, <<48>>} \subseteq Seq(S)
    BY <2>1, SMT
  <2>3. StringEnds \subseteq Seq(S)
    <3>1. /\ <<Quote>> \in Seq(S) /\ <<110, Quote>> \in Seq(S) /\ <<48, Quote>> \in Seq(S)
          /\ <<48, 48, Quote>> \in Seq(S)
      BY <2>1, SMT
    <3>2. <<48, 48, 48, Quote>> \in Seq(S) /\ <<48, 48, 48, 48, Quote>> \in Seq(S)
      BY <2>1, SMT
    <3>3. QED  BY <3>1, <3>2, Zenon DEF StringEnds
  <2>4. WordEnds \subseteq Seq(S)
    <3>1. {<<114, 117, 101>>, <<117, 101>>, <<101>>} \subseteq Seq(S)
      BY <2>1, SMT
    <3>2. {<<117, 108, 108>>, <<108, 108>>, <<108>>} \subseteq Seq(S)
      BY <2>1, SMT
    <3>3. {<<97, 108, 115, 101>>, <<108, 115, 101>>, <<115, 101>>} \subseteq Seq(S)
      BY <2>1, SMT
    <3>4. QED  BY <3>1, <3>2, <3>3, Zenon DEF WordEnds
  <2>5. e \in Seq(S)
    BY <2>2, <2>3, <2>4, Zenon DEF Ends
  <2>6. QED  BY <2>5 DEF IsText, S
<1>3. /\ IsText(v) /\ Len(v) = n + 1 /\ v[n + 1] = c /\ Lang(v, n, s)
  BY TextAppend
<1>4. n \in Nat /\ Len(e) \in Nat
  BY <1>2, TextFacts
<1> DEFINE x == v \o e
<1> HIDE DEF n, v
<1>5. /\ IsText(x) /\ Len(x) = (n + 1) + Len(e)
      /\ \A k \in 1 .. n + 1 : x[k] = v[k]
  <2> DEFINE S == 0 .. 255
  <2>1. v \in Seq(S) /\ e \in Seq(S) /\ Len(v) = n + 1
    BY <1>2, <1>3 DEF IsText
  <2> HIDE DEF S
  <2>2. /\ x \in Seq(S) /\ Len(x) = Len(v) + Len(e)
        /\ \A k \in 1 .. Len(v) + Len(e) : x[k] = IF k <= Len(v) THEN v[k] ELSE e[k - Len(v)]
    BY <2>1, ConcatProperties
  <2>3. \A k \in 1 .. n + 1 : k \in 1 .. Len(v) + Len(e) /\ k <= Len(v)
    BY <1>4, <2>1
  <2>4. QED  BY <2>1, <2>2, <2>3 DEF IsText, S
<1> HIDE DEF x
<1>6. PICK t : Lang(x, Len(x), t)
  <2>1. PICK k : k \in Kinds(x)
    BY <1>1 DEF x
  <2>2. QED  BY <1>5, <2>1, LangKinds
<1>7. n + 1 \in 0 .. Len(x) /\ Len(x) \in Nat /\ n <= Len(x) /\ n <= Len(v) /\ n + 1 <= Len(x)
  BY <1>3, <1>4, <1>5
<1>8. PICK u : Lang(x, n + 1, u)
  BY <1>5, <1>6, <1>7, LangDown
<1>9. x[n + 1] # 0 /\ \E r : Lang(x, n, r) /\ u \in Targets(r, x[n + 1])
  BY <1>4, <1>5, <1>7, <1>8, LangMore
<1>10. x[n + 1] = c
  BY <1>3, <1>4, <1>5
<1>11. \A r : Lang(x, n, r) <=> Lang(v, n, r)
  <2>1. \A k \in 1 .. n : x[k] = v[k]
    BY <1>4, <1>5
  <2>2. QED  BY <1>3, <1>4, <1>5, <1>7, <2>1, LangPrefix
<1>12. \A r : Lang(v, n, r) => r = s
  BY <1>3, <1>4, <1>7, LangUnique
<1>13. QED  BY <1>9, <1>10, <1>11, <1>12

(* ccljson.cc:477-1009: the scanner never goes back, and needs not: it     *)
(* returns the one terminal its text is of, when no terminal begins with   *)
(* that text and the next character, and gives up when none begins so.     *)
THEOREM LexLongestMatch == Spec => []LongestMatch
<1>1. ScannerInv => LongestMatch
  <2> SUFFICES ASSUME ScannerInv, term # "scanning"
               PROVE  LongestMatch
    BY DEF LongestMatch
  <2>1. PICK s : /\ Lang(text, Len(text), s)
                 /\ \/ Targets(s, in_char) = {} /\ term = Closed(s)
                    \/ in_char = 0 /\ \E t \in Targets(s, 0) : term = Closed(t)
    BY DEF ScannerInv, LabelOK
  <2>2. IsText(text) /\ in_char \in 0 .. 255
    BY DEF ScannerInv, LabelOK
  <2>3. Seen = Append(text, in_char)
    <3>1. in_char # Nothing
      BY <2>2, SMT DEF Nothing
    <3>2. QED  BY <3>1 DEF Seen
  <2>4. ~Begins(Seen)
    BY <2>1, <2>2, <2>3, BeginsTaken
  <2>5. Kinds(text) = IF Closed(s) = "unknown" THEN {} ELSE {Closed(s)}
    BY <2>1, <2>2, KindsAt
  <2>6. s # 1
    <3>1. \A i : ~Lang(text, i, 1)
      BY DEF Lang, NumberAt, StringAt, WordAt, OtherAt
    <3>2. QED  BY <2>1, <3>1
  <2>7. CASE Targets(s, in_char) = {} /\ term = Closed(s)
    <3>1. term # "eof"
      BY <2>6, <2>7 DEF Closed
    <3>2. QED  BY <2>4, <2>5, <2>7, <3>1 DEF LongestMatch
  <2>8. CASE in_char = 0 /\ \E t \in Targets(s, 0) : term = Closed(t)
    <3>1. PICK t : t \in Targets(s, 0) /\ term = Closed(t)
      BY <2>8
    <3>2. (s = 0 /\ t = 1) \/ t = 2
      <4>1. StartRow(s, 0, t) \/ StringRow(s, 0, t) \/ NumberRow(s, 0, t) \/ WordRow(s, 0, t)
        BY <3>1, Taken
      <4>2. QED
        BY <4>1 DEF StartRow, StringRow, NumberRow, WordRow, White, NonZero, Exponent, Digit, Hex,
                    Simple, Letter_u, Quote, Backslash
    <3>3. CASE s = 0 /\ t = 1
      <4>1. term = "eof"
        BY <3>1, <3>3 DEF Closed
      <4>2. text = <<>>
        <5>1. Len(text) = 0
          BY <2>1, <3>3 DEF Lang, NumberAt, StringAt, WordAt, OtherAt
        <5>2. QED  BY <2>2, <5>1, EmptySeq DEF IsText
      <4>3. QED  BY <2>8, <4>1, <4>2 DEF LongestMatch
    <3>4. CASE t = 2
      <4>1. term = "unknown"
        BY <3>1, <3>4 DEF Closed
      <4>2. QED  BY <2>4, <4>1 DEF LongestMatch
    <3>5. QED  BY <3>2, <3>3, <3>4
  <2>9. QED  BY <2>1, <2>7, <2>8
<1>2. QED  BY <1>1, ScannerInvariance, PTL

-----------------------------------------------------------------------------
(* What create writes for a string, and how it is read back *)

Piece(c) == IF c \in DOMAIN Escapes THEN <<Backslash, Escapes[c]>> ELSE <<c>>

Chars == 0 .. 255

(* b[i] is what is written for the first i characters of s. *)
Pieces(b, s) == b = [i \in 0 .. Len(s) |-> IF i = 0 THEN <<>> ELSE b[i - 1] \o Piece(s[i])]

LEMMA EscapesAre ==
  /\ DOMAIN Escapes = Escaped
  /\ \A c \in Escaped : /\ Escapes[c] \in Chars /\ Escapes[c] # Letter_u
                        /\ Escapes[c] \in DOMAIN Unescapes /\ Unescapes[Escapes[c]] = c
  /\ Backslash \in Escaped /\ Backslash \in Chars
<1>1. DOMAIN Escapes = Escaped /\ \A c \in Escaped : Escapes[c] = EscapeOf(c)
  BY DEF Escapes
<1>2. /\ EscapeOf(8) = 98 /\ EscapeOf(12) = 102 /\ EscapeOf(10) = 110 /\ EscapeOf(13) = 114
      /\ EscapeOf(9) = 116 /\ EscapeOf(92) = 92 /\ EscapeOf(34) = 34
  BY SMT DEF EscapeOf
<1>3. DOMAIN Unescapes = {98, 102, 110, 114, 116, 92, 34}
  BY DEF Unescapes
<1>4. /\ Unescapes[98] = 8 /\ Unescapes[102] = 12 /\ Unescapes[110] = 10 /\ Unescapes[114] = 13
      /\ Unescapes[116] = 9 /\ Unescapes[92] = 92 /\ Unescapes[34] = 34
  BY SMT DEF Unescapes
<1>5. \A c \in Escaped :
        /\ EscapeOf(c) \in Chars /\ EscapeOf(c) # Letter_u
        /\ EscapeOf(c) \in DOMAIN Unescapes /\ Unescapes[EscapeOf(c)] = c
  BY <1>2, <1>3, <1>4, SMT DEF Escaped, Chars, Letter_u
<1>6. Backslash \in Escaped /\ Backslash \in Chars
  BY SMT DEF Backslash, Escaped, Chars
<1>7. QED  BY <1>1, <1>5, <1>6

LEMMA PieceIs ==
  ASSUME NEW c \in Chars
  PROVE  /\ Piece(c) \in Seq(Chars) /\ Len(Piece(c)) \in {1, 2}
         /\ c \in Escaped => /\ Len(Piece(c)) = 2 /\ Piece(c)[1] = Backslash
                             /\ Piece(c)[2] = Escapes[c]
         /\ c \notin Escaped => Len(Piece(c)) = 1 /\ Piece(c)[1] = c /\ c # Backslash
<1>1. CASE c \in Escaped
  <2>1. Piece(c) = <<Backslash, Escapes[c]>>
    BY <1>1, EscapesAre DEF Piece
  <2>2. Backslash \in Chars /\ Escapes[c] \in Chars
    BY <1>1, EscapesAre
  <2> HIDE DEF Chars
  <2>3. QED  BY <1>1, <2>1, <2>2
<1>2. CASE c \notin Escaped
  <2>1. Piece(c) = <<c>> /\ c # Backslash
    BY <1>2, EscapesAre DEF Piece
  <2> HIDE DEF Chars
  <2>2. QED  BY <1>2, <2>1
<1>3. QED  BY <1>1, <1>2

LEMMA PiecesExist ==
  ASSUME NEW s
  PROVE  Len(s) \in Nat => \E b : Pieces(b, s)
<1> DEFINE Upto(b, n) == b = [i \in 0 .. n |-> IF i = 0 THEN <<>> ELSE b[i - 1] \o Piece(s[i])]
           S == {n \in 0 .. Len(s) : \E b : Upto(b, n)}
<1> SUFFICES ASSUME Len(s) \in Nat
             PROVE  \E b : Pieces(b, s)
  OBVIOUS
<1>1. 0 \in S
  <2> DEFINE b == [i \in 0 .. 0 |-> <<>>]
  <2>1. b = [i \in 0 .. 0 |-> IF i = 0 THEN <<>> ELSE b[i - 1] \o Piece(s[i])]
    OBVIOUS
  <2>2. Upto(b, 0) /\ 0 \in 0 .. Len(s)
    BY <2>1
  <2> HIDE DEF b, Upto
  <2>3. QED  BY <2>2
<1>2. ASSUME NEW n \in 0 .. Len(s) - 1, n \in S
      PROVE  n + 1 \in S
  <2>1. PICK b : Upto(b, n)
    BY <1>2
  <2> DEFINE c == [i \in 0 .. n + 1 |-> IF i = n + 1 THEN b[n] \o Piece(s[n + 1]) ELSE b[i]]
             d == [i \in 0 .. n + 1 |-> IF i = 0 THEN <<>> ELSE c[i - 1] \o Piece(s[i])]
  <2>2. ASSUME NEW i \in 0 .. n + 1
        PROVE  c[i] = d[i]
    <3>1. CASE i = 0
      <4>1. c[0] = b[0] /\ b[0] = <<>>
        BY <2>1
      <4>2. QED  BY <3>1, <4>1
    <3>2. CASE i \in 1 .. n
      <4>1. i \in 0 .. n /\ i - 1 \in 0 .. n /\ i # n + 1 /\ i - 1 # n + 1 /\ i # 0
        BY <3>2
      <4>2. c[i] = b[i] /\ c[i - 1] = b[i - 1]
        BY <4>1
      <4>3. b[i] = b[i - 1] \o Piece(s[i])
        BY <2>1, <4>1
      <4>4. QED  BY <4>1, <4>2, <4>3
    <3>3. CASE i = n + 1
      <4>1. c[n] = b[n]
        OBVIOUS
      <4>2. QED  BY <3>3, <4>1
    <3>4. QED  BY <3>1, <3>2, <3>3
  <2>3. c = d
    <3>1. c = [i \in 0 .. n + 1 |-> c[i]] /\ d = [i \in 0 .. n + 1 |-> d[i]]
      OBVIOUS
    <3> HIDE DEF c, d
    <3>2. QED  BY <2>2, <3>1
  <2>4. Upto(c, n + 1)
    BY <2>3
  <2>5. n + 1 \in 0 .. Len(s)
    OBVIOUS
  <2> HIDE DEF c, Upto
  <2>6. QED  BY <2>4, <2>5
<1>3. 0 .. Len(s) \subseteq S
  <2> HIDE DEF S
  <2>1. QED  BY <1>1, <1>2, UpTo
<1>4. Len(s) \in S
  <2> HIDE DEF S
  <2>1. QED  BY <1>3
<1>5. QED  BY <1>4 DEF Pieces

LEMMA WrittenIs ==
  ASSUME NEW s, Len(s) \in Nat
  PROVE  \E b : Pieces(b, s) /\ Written(s) = (<<Quote>> \o b[Len(s)]) \o <<Quote>>
<1> DEFINE Buf == CHOOSE b : Pieces(b, s)
<1>1. Pieces(Buf, s)
  BY PiecesExist
<1>2. Written(s) = (<<Quote>> \o Buf[Len(s)]) \o <<Quote>>
  BY Zenon DEF Written, Pieces, Piece
<1> HIDE DEF Buf
<1>3. QED  BY <1>1, <1>2

LEMMA PiecesAre ==
  ASSUME NEW s \in Seq(Chars), NEW b, Pieces(b, s)
  PROVE  /\ b[0] = <<>>
         /\ \A i \in 0 .. Len(s) : b[i] \in Seq(Chars) /\ Len(b[i]) \in Nat
         /\ \A i \in 1 .. Len(s) : b[i] = b[i - 1] \o Piece(s[i])
<1> DEFINE n == Len(s)
           S == {i \in 0 .. n : b[i] \in Seq(Chars)}
<1>1. n \in Nat /\ \A i \in 1 .. n : s[i] \in Chars
  BY LenProperties, ElementOfSeq
<1>2. \A i \in 0 .. n : b[i] = IF i = 0 THEN <<>> ELSE b[i - 1] \o Piece(s[i])
  <2> DEFINE c == [i \in 0 .. n |-> IF i = 0 THEN <<>> ELSE b[i - 1] \o Piece(s[i])]
  <2>1. b = c
    BY Zenon DEF Pieces
  <2>2. \A i \in 0 .. n : c[i] = IF i = 0 THEN <<>> ELSE b[i - 1] \o Piece(s[i])
    OBVIOUS
  <2> HIDE DEF c
  <2>3. QED  BY <2>1, <2>2
<1>3. b[0] = <<>> /\ \A i \in 1 .. n : b[i] = b[i - 1] \o Piece(s[i])
  <2>1. 0 \in 0 .. n /\ \A i \in 1 .. n : i \in 0 .. n /\ i # 0
    BY <1>1
  <2> HIDE DEF n
  <2>2. QED  BY <1>2, <2>1
<1>4. 0 \in S
  <2>1. 0 \in 0 .. n /\ <<>> \in Seq(Chars)
    BY <1>1
  <2>2. QED  BY <1>3, <2>1
<1>5. ASSUME NEW i \in 0 .. n - 1, i \in S
      PROVE  i + 1 \in S
  <2>1. i + 1 \in 1 .. n /\ (i + 1) - 1 = i /\ i + 1 \in 0 .. n
    BY <1>1
  <2>2. b[i + 1] = b[i] \o Piece(s[i + 1])
    BY <1>3, <2>1
  <2>3. b[i] \in Seq(Chars) /\ Piece(s[i + 1]) \in Seq(Chars)
    BY <1>1, <1>5, <2>1, PieceIs
  <2>4. b[i + 1] \in Seq(Chars)
    BY <2>2, <2>3, ConcatProperties
  <2>5. QED  BY <2>1, <2>4
<1>6. 0 .. n \subseteq S
  <2> HIDE DEF S
  <2>1. QED  BY <1>1, <1>4, <1>5, UpTo
<1>7. \A i \in 0 .. n : b[i] \in Seq(Chars)
  BY <1>6
<1>8. QED  BY <1>3, <1>7, LenProperties

(* The parts of a concatenation. *)
LEMMA ConcatParts ==
  ASSUME NEW u \in Seq(Chars), NEW v \in Seq(Chars)
  PROVE  /\ u \o v \in Seq(Chars) /\ Len(u \o v) = Len(u) + Len(v)
         /\ Len(u) \in Nat /\ Len(v) \in Nat
         /\ \A j \in 1 .. Len(u) : (u \o v)[j] = u[j]
         /\ \A j \in 1 .. Len(v) : (u \o v)[Len(u) + j] = v[j]
<1>1. /\ u \o v \in Seq(Chars) /\ Len(u \o v) = Len(u) + Len(v)
      /\ \A j \in 1 .. Len(u) + Len(v) :
           (u \o v)[j] = IF j <= Len(u) THEN u[j] ELSE v[j - Len(u)]
  BY ConcatProperties
<1>2. Len(u) \in Nat /\ Len(v) \in Nat
  BY LenProperties
<1>3. \A j \in 1 .. Len(u) : j \in 1 .. Len(u) + Len(v) /\ j <= Len(u)
  BY <1>2
<1>4. \A j \in 1 .. Len(v) :
        /\ Len(u) + j \in 1 .. Len(u) + Len(v) /\ ~(Len(u) + j <= Len(u))
        /\ (Len(u) + j) - Len(u) = j
  BY <1>2
<1>5. QED  BY <1>1, <1>2, <1>3, <1>4

LEMMA PieceMore ==
  ASSUME NEW s \in Seq(Chars), NEW b, Pieces(b, s), NEW i \in 0 .. Len(s) - 1
  PROVE  /\ Piece(s[i + 1]) \in Seq(Chars) /\ Len(Piece(s[i + 1])) \in {1, 2}
         /\ b[i] \in Seq(Chars) /\ b[i + 1] = b[i] \o Piece(s[i + 1])
<1>1. Len(s) \in Nat /\ i + 1 \in 1 .. Len(s) /\ (i + 1) - 1 = i /\ i \in 0 .. Len(s)
  BY LenProperties
<1>2. s[i + 1] \in Chars
  BY <1>1, ElementOfSeq
<1>3. Piece(s[i + 1]) \in Seq(Chars) /\ Len(Piece(s[i + 1])) \in {1, 2}
  BY <1>2, PieceIs
<1>4. b[i] \in Seq(Chars) /\ b[i + 1] = b[i] \o Piece(s[i + 1])
  BY <1>1, PiecesAre
<1>5. QED  BY <1>3, <1>4

(* What is written for the first characters stays where it is. *)
LEMMA PiecesStay ==
  ASSUME NEW s \in Seq(Chars), NEW b, Pieces(b, s), NEW i \in 0 .. Len(s)
  PROVE  /\ Len(b[i]) + (Len(s) - i) <= Len(b[Len(s)])
         /\ \A j \in 1 .. Len(b[i]) : b[Len(s)][j] = b[i][j]
<1> DEFINE n == Len(s)
           S == {k \in 0 .. n - i : /\ Len(b[i]) + k <= Len(b[i + k])
                                    /\ \A j \in 1 .. Len(b[i]) : b[i + k][j] = b[i][j]}
<1>1. n \in Nat /\ \A k \in 0 .. n : Len(b[k]) \in Nat
  BY LenProperties, PiecesAre
<1>2. 0 \in S
  BY <1>1
<1>3. ASSUME NEW k \in 0 .. (n - i) - 1, k \in S
      PROVE  k + 1 \in S
  <2>1. /\ i + k \in 0 .. n - 1 /\ (i + k) + 1 = i + (k + 1) /\ k + 1 \in 0 .. n - i
        /\ i + k \in 0 .. n /\ i + (k + 1) \in 0 .. n /\ (i + k) + 1 \in 1 .. n
    BY <1>1
  <2> DEFINE u == b[i + k]
             p == Piece(s[(i + k) + 1])
  <2>2. /\ p \in Seq(Chars) /\ Len(p) \in {1, 2} /\ u \in Seq(Chars)
        /\ b[i + (k + 1)] = u \o p
    BY <2>1, PieceMore
  <2> HIDE DEF u, p
  <2>3. /\ Len(b[i + (k + 1)]) = Len(u) + Len(p) /\ Len(u) \in Nat
        /\ \A j \in 1 .. Len(u) : b[i + (k + 1)][j] = u[j]
    BY <2>2, ConcatParts
  <2>4. /\ Len(b[i]) + k <= Len(u) /\ Len(b[i]) \in Nat /\ k \in Nat
        /\ \A j \in 1 .. Len(b[i]) : u[j] = b[i][j]
    BY <1>1, <1>3 DEF u
  <2> DEFINE x == Len(b[i])
             y == Len(u)
             z == Len(b[i + (k + 1)])
             d == Len(p)
  <2>5. x + (k + 1) <= z /\ \A j \in 1 .. x : j \in 1 .. y
    <3>1. x \in Nat /\ y \in Nat /\ k \in Nat /\ d \in {1, 2} /\ z = y + d /\ x + k <= y
      BY <2>2, <2>3, <2>4
    <3> HIDE DEF x, y, z, d
    <3>2. QED  BY <3>1
  <2>6. \A j \in 1 .. Len(b[i]) : b[i + (k + 1)][j] = b[i][j]
    BY <2>3, <2>4, <2>5
  <2>7. QED  BY <2>1, <2>5, <2>6
<1>4. n - i \in Nat
  BY <1>1
<1>5. 0 .. n - i \subseteq S
  <2> HIDE DEF S
  <2>1. QED  BY <1>2, <1>3, <1>4, UpTo
<1>6. n - i \in 0 .. n - i /\ i + (n - i) = n
  BY <1>1, <1>4
<1>7. n - i \in S
  <2> HIDE DEF S
  <2>1. QED  BY <1>5, <1>6
<1>8. QED  BY <1>6, <1>7

(* The text of a string: where it ends, and what stands where the pieces   *)
(* of its characters begin. *)
Place(b, i) == Len(b[i]) + 2

LEMMA WrittenHas ==
  ASSUME NEW s \in Seq(Chars), NEW b, Pieces(b, s), NEW w,
         w = (<<Quote>> \o b[Len(s)]) \o <<Quote>>
  PROVE  /\ Place(b, 0) = 2 /\ Place(b, Len(s)) = Len(w)
         /\ w \in Seq(Chars) /\ w[1] = Quote /\ w[Len(w)] = Quote
         /\ \A i \in 0 .. Len(s) - 1 :
              LET p == Piece(s[i + 1]) IN
              /\ Place(b, i) \in Nat /\ Place(b, i) < Len(w)
              /\ Place(b, i + 1) = Place(b, i) + Len(p)
              /\ w[Place(b, i)] = p[1]
              /\ Len(p) = 2 => w[Place(b, i) + 1] = p[2]
<1> DEFINE n == Len(s)
           m == Len(b[n])
           q == <<Quote>>
           v == q \o b[n]
<1>1. n \in Nat /\ n \in 0 .. n /\ b[n] \in Seq(Chars) /\ m \in Nat /\ b[0] = <<>>
  <2>1. n \in Nat
    BY LenProperties
  <2>2. n \in 0 .. n
    BY <2>1
  <2>3. QED  BY <2>1, <2>2, PiecesAre
<1>2. q \in Seq(Chars) /\ Len(q) = 1 /\ q[1] = Quote
  <2>1. Quote \in Chars
    BY SMT DEF Quote, Chars
  <2> HIDE DEF Chars
  <2>2. QED  BY <2>1
<1> HIDE DEF q
<1>3. /\ v \in Seq(Chars) /\ Len(v) = 1 + m
      /\ \A j \in 1 .. m : v[1 + j] = b[n][j]
      /\ v[1] = Quote
  <2> DEFINE x == b[n]
  <2>1. x \in Seq(Chars) /\ v = q \o x /\ m = Len(x)
    BY <1>1
  <2> HIDE DEF x, v, m
  <2>2. /\ v \in Seq(Chars) /\ Len(v) = Len(q) + Len(x)
        /\ \A j \in 1 .. Len(q) : v[j] = q[j]
        /\ \A j \in 1 .. Len(x) : v[Len(q) + j] = x[j]
    BY <1>2, <2>1, ConcatParts
  <2>3. QED  BY <1>2, <2>1, <2>2 DEF x
<1>4. w = v \o q
  BY DEF q
<1> HIDE DEF v
<1>5. /\ Len(w) = m + 2 /\ \A j \in 1 .. 1 + m : w[j] = v[j]
      /\ w \in Seq(Chars) /\ w[1] = Quote /\ w[Len(w)] = Quote
  <2>1. /\ Len(w) = Len(v) + Len(q) /\ \A j \in 1 .. Len(v) : w[j] = v[j]
        /\ w \in Seq(Chars) /\ \A j \in 1 .. Len(q) : w[Len(v) + j] = q[j]
    <3>1. /\ v \o q \in Seq(Chars) /\ Len(v \o q) = Len(v) + Len(q)
          /\ \A j \in 1 .. Len(v) : (v \o q)[j] = v[j]
          /\ \A j \in 1 .. Len(q) : (v \o q)[Len(v) + j] = q[j]
      <4> HIDE DEF Chars
      <4>1. v \in Seq(Chars) /\ q \in Seq(Chars)
        BY <1>2, <1>3
      <4>2. QED  BY <4>1, ConcatParts
    <3>2. QED  BY <1>4, <3>1, Zenon
  <2>2. Len(w) = m + 2 /\ Len(w) = Len(v) + 1 /\ \A j \in 1 .. 1 + m : w[j] = v[j]
    BY <1>1, <1>2, <1>3, <2>1
  <2>3. w[1] = Quote
    BY <1>1, <1>3, <2>2
  <2>4. w[Len(w)] = Quote
    BY <1>2, <2>1, <2>2
  <2>5. QED  BY <2>1, <2>2, <2>3, <2>4
<1>6. \A j \in 1 .. m : w[j + 1] = b[n][j]
  <2>1. \A j \in 1 .. m : j + 1 \in 1 .. 1 + m /\ j + 1 = 1 + j
    BY <1>1
  <2>2. QED  BY <1>3, <1>5, <2>1
<1>7. ASSUME NEW i \in 0 .. n - 1, NEW p, p = Piece(s[i + 1])
      PROVE  /\ Place(b, i) \in Nat /\ Place(b, i) < Len(w)
             /\ Place(b, i + 1) = Place(b, i) + Len(p)
             /\ w[Place(b, i)] = p[1]
             /\ Len(p) = 2 => w[Place(b, i) + 1] = p[2]
  <2> DEFINE l == Len(b[i])
             h == Len(b[i + 1])
  <2>1. i \in 0 .. n /\ i + 1 \in 0 .. n /\ i + 1 \in 1 .. n /\ n - (i + 1) \in Nat
    BY <1>1
  <2>2. l \in Nat /\ h \in Nat /\ h <= m /\ \A j \in 1 .. h : b[n][j] = b[i + 1][j]
    <3>1. l \in Nat /\ h \in Nat
      BY <2>1, PiecesAre
    <3>2. h + (n - (i + 1)) <= m /\ \A j \in 1 .. h : b[n][j] = b[i + 1][j]
      BY <2>1, PiecesStay
    <3> HIDE DEF h, l, m, n
    <3>3. QED  BY <1>1, <2>1, <3>1, <3>2
  <2>3. p \in Seq(Chars) /\ Len(p) \in {1, 2} /\ b[i] \in Seq(Chars) /\ b[i + 1] = b[i] \o p
    BY <1>7, PieceMore
  <2>4. h = l + Len(p) /\ \A j \in 1 .. Len(p) : b[i + 1][l + j] = p[j]
    BY <2>3, ConcatParts
  <2> HIDE DEF h, l, m, n
  <2>5. \A j \in 1 .. Len(p) : w[(l + j) + 1] = p[j]
    <3>1. \A j \in 1 .. Len(p) : l + j \in 1 .. h /\ l + j \in 1 .. m
      BY <1>1, <2>2, <2>3, <2>4
    <3>2. QED  BY <1>6, <2>2, <2>4, <3>1
  <2>6. w[l + 2] = p[1] /\ (Len(p) = 2 => w[(l + 2) + 1] = p[2])
    <3>1. (l + 1) + 1 = l + 2
      BY <2>2
    <3>2. 1 \in 1 .. Len(p) /\ (Len(p) = 2 => 2 \in 1 .. Len(p))
      <4>1. \A d \in {1, 2} : 1 \in 1 .. d /\ (d = 2 => 2 \in 1 .. d)
        OBVIOUS
      <4>2. QED  BY <2>3, <4>1, Zenon
    <3>3. QED  BY <2>5, <3>1, <3>2
  <2>7. l + 2 < Len(w) /\ h + 2 = (l + 2) + Len(p)
    <3> DEFINE d == Len(p)
    <3>1. /\ d \in {1, 2} /\ h = l + d /\ h <= m /\ l \in Nat /\ m \in Nat
          /\ Len(w) = m + 2
      BY <1>1, <1>5, <2>2, <2>3, <2>4
    <3> HIDE DEF d
    <3>2. l + 2 < Len(w) /\ h + 2 = (l + 2) + d
      BY <3>1
    <3>3. QED  BY <3>2 DEF d
  <2>8. Place(b, i) = l + 2 /\ Place(b, i + 1) = h + 2
    BY DEF Place, l, h
  <2>9. l + 2 \in Nat
    BY <2>2
  <2>10. QED  BY <2>6, <2>7, <2>8, <2>9
<1>8. Place(b, 0) = 2 /\ Place(b, n) = Len(w)
  BY <1>1, <1>5 DEF Place
<1>9. QED  BY <1>5, <1>7, <1>8

(* The labels of a string. *)
Inside == {2, 16, 17, 23, 29, 33, 35}

IsSeq(s) == \E S : s \in Seq(S)

(* r[i] is the label before the i-th character of w, and s the last one.   *)
Run(r, w, s) ==
  /\ IsSeq(r) /\ Len(r) = Len(w) + 1
  /\ r[1] = 0 /\ r[Len(w) + 1] = s
  /\ \A i \in 1 .. Len(w) : r[i + 1] \in Targets(r[i], w[i])
  /\ \A i \in 2 .. Len(w) + 1 : r[i] \in Inside => r[2] = 2

Scanned == \E r : Run(r, text, state)

(* A string of one escape by number. *)
OneNumber == Len(text) = 8 /\ text[2] = Backslash /\ text[3] = Letter_u

(* No slash was escaped before the i-th character of w. *)
Passed(r, w, i) ==
  \A k \in 2 .. i - 1 : r[k] = 2 /\ w[k] = Backslash => w[k + 1] # Slash

(* Where the decoder is, and what it has made of a single escape so far.   *)
DecodeOK ==
  /\ iter \in 2 .. Len(text)
  /\ \E r : Run(r, text, 16) /\ r[iter] = 2 /\ Passed(r, text, iter)
  /\ OneNumber => \/ iter = 2 /\ const_str = <<>>
                  \/ iter = 8 /\ const_str = Utf8(Value(SubSeq(text, 4, 7)))

LexInv ==
  /\ IsSeq(text)
  /\ term = "scanning" => Scanned
  /\ term = "str" => \E r : Run(r, text, 16)
  /\ decode \in {"idle", "running", "done", "assert"}
  /\ decode = "idle" => iter = 2 /\ const_str = <<>>
  /\ decode # "idle" => term = "str" /\ DecodeOK
  /\ decode = "done" => iter = Len(text)
  /\ decode = "assert" =>
       iter < Len(text) /\ text[iter] = Backslash /\ text[iter + 1] = Slash

-----------------------------------------------------------------------------
(* Sequences of whatever they hold *)

LEMMA SeqFacts ==
  ASSUME NEW s, IsSeq(s)
  PROVE  Len(s) \in Nat /\ DOMAIN s = 1 .. Len(s)
BY LenProperties DEF IsSeq

LEMMA SeqAppend ==
  ASSUME NEW s, IsSeq(s), NEW e
  PROVE  /\ IsSeq(Append(s, e)) /\ Len(Append(s, e)) = Len(s) + 1
         /\ \A k \in 1 .. Len(s) : Append(s, e)[k] = s[k]
         /\ Append(s, e)[Len(s) + 1] = e
<1>1. PICK S : s \in Seq(S)
  BY DEF IsSeq
<1> DEFINE T == S \cup {e}
<1>2. s \in Seq(T) /\ e \in T
  <2>1. S \subseteq T /\ e \in T
    OBVIOUS
  <2> HIDE DEF T
  <2>2. QED  BY <1>1, <2>1, SeqMonotonic
<1> HIDE DEF T
<1>3. /\ Append(s, e) \in Seq(T) /\ Len(Append(s, e)) = Len(s) + 1
      /\ \A k \in 1 .. Len(s) : Append(s, e)[k] = s[k]
      /\ Append(s, e)[Len(s) + 1] = e
  BY <1>2, AppendProperties
<1>4. QED  BY <1>3 DEF IsSeq

-----------------------------------------------------------------------------
(* The labels *)

(* What a goto says of the labels of a string. *)
Row(s, c, t) ==
  /\ t # 0 /\ s # 16
  /\ t \in Inside => (s = 0 /\ t = 2) \/ s \in Inside
  /\ t = 16 => s = 2 /\ c = Quote
  /\ s = 2 => \/ t = 2 /\ c \notin {Quote, Backslash}
              \/ t = 16 /\ c = Quote
              \/ t = 17 /\ c = Backslash
  /\ s = 17 => (t = 2 /\ c \in Simple) \/ (t = 23 /\ c = Letter_u)
  /\ s = 23 => t = 29 /\ c \in Hex
  /\ s = 29 => t = 33 /\ c \in Hex
  /\ s = 33 => t = 35 /\ c \in Hex
  /\ s = 35 => t = 2 /\ c \in Hex

LEMMA Rows ==
  ASSUME NEW s, NEW c, NEW t \in Targets(s, c)
  PROVE  Row(s, c, t)
<1>1. PICK g \in Gotos : g[1] = s /\ c \in g[2] /\ g[3] = t
  BY DEF Targets
<1>2. CASE g \in StringGotos
  <2>1. \/ s = 2 /\ t = 2 /\ c \notin {Quote, Backslash}
        \/ s = 2 /\ t = 16 /\ c = Quote
        \/ s = 2 /\ t = 17 /\ c = Backslash
        \/ s = 17 /\ t = 2 /\ c \in Simple
        \/ s = 17 /\ t = 23 /\ c = Letter_u
        \/ s = 23 /\ t = 29 /\ c \in Hex
        \/ s = 29 /\ t = 33 /\ c \in Hex
        \/ s = 33 /\ t = 35 /\ c \in Hex
        \/ s = 35 /\ t = 2 /\ c \in Hex
    BY <1>1, <1>2 DEF StringGotos
  <2>2. QED  BY <2>1 DEF Row, Inside
<1>3. CASE g \in StartGotos
  BY <1>1, <1>3 DEF StartGotos, Row, Inside
<1>4. CASE g \in NumberGotos
  BY <1>1, <1>4 DEF NumberGotos, NumberRows, Row, Inside
<1>5. CASE g \in WordGotos
  BY <1>1, <1>5 DEF WordGotos, Row, Inside
<1>6. QED  BY <1>2, <1>3, <1>4, <1>5 DEF Gotos

LEMMA RunNext ==
  ASSUME NEW w, IsSeq(w), NEW r, NEW s, Run(r, w, s), NEW c, NEW t \in Targets(s, c)
  PROVE  Run(Append(r, t), Append(w, c), t)
<1> DEFINE n == Len(w)
           rr == Append(r, t)
           ww == Append(w, c)
<1>1. n \in Nat /\ IsSeq(r) /\ Len(r) = n + 1 /\ r[1] = 0 /\ r[n + 1] = s
  BY SeqFacts DEF Run
<1>2. Len(ww) = n + 1 /\ (\A k \in 1 .. n : ww[k] = w[k]) /\ ww[n + 1] = c
  BY SeqAppend
<1>3. /\ IsSeq(rr) /\ Len(rr) = (n + 1) + 1
      /\ \A k \in 1 .. n + 1 : rr[k] = r[k]
      /\ rr[(n + 1) + 1] = t
  BY <1>1, SeqAppend
<1>4. Row(s, c, t)
  BY Rows
<1> HIDE DEF n, rr, ww
<1>5. \A i \in 1 .. n : r[i + 1] \in Targets(r[i], w[i])
  BY DEF Run, n
<1>6. \A i \in 2 .. n + 1 : r[i] \in Inside => r[2] = 2
  BY DEF Run, n
<1>7. ASSUME NEW i \in 1 .. n + 1
      PROVE  rr[i + 1] \in Targets(rr[i], ww[i])
  <2>1. CASE i = n + 1
    BY <1>1, <1>2, <1>3, <2>1
  <2>2. CASE i # n + 1
    <3>1. i \in 1 .. n /\ i \in 1 .. n + 1 /\ i + 1 \in 1 .. n + 1
      BY <1>1, <2>2
    <3>2. rr[i + 1] = r[i + 1] /\ rr[i] = r[i] /\ ww[i] = w[i]
      BY <1>2, <1>3, <3>1
    <3>3. QED  BY <1>5, <3>1, <3>2
  <2>3. QED  BY <2>1, <2>2
<1>8. ASSUME NEW i \in 2 .. (n + 1) + 1, rr[i] \in Inside
      PROVE  rr[2] = 2
  <2>1. CASE n = 0
    <3>1. i = 2 /\ s = 0 /\ rr[2] = t
      BY <1>1, <1>3, <2>1
    <3>2. QED  BY <1>4, <1>8, <3>1 DEF Row, Inside
  <2>2. CASE n # 0
    <3>1. n \in 1 .. n /\ n + 1 \in 2 .. n + 1 /\ 2 \in 1 .. n + 1
      BY <1>1, <2>2
    <3>2. rr[2] = r[2]
      BY <1>3, <3>1
    <3>3. CASE i = (n + 1) + 1
      <4>1. s # 0
        <5>1. s \in Targets(r[n], w[n])
          BY <1>1, <1>5, <3>1
        <5>2. QED  BY <5>1, Rows DEF Row
      <4>2. s \in Inside
        BY <1>3, <1>4, <1>8, <3>3, <4>1 DEF Row
      <4>3. QED  BY <1>1, <1>6, <3>1, <3>2, <4>2
    <3>4. CASE i # (n + 1) + 1
      <4>1. i \in 2 .. n + 1 /\ i \in 1 .. n + 1
        BY <1>1, <3>4
      <4>2. QED  BY <1>3, <1>6, <1>8, <3>2, <4>1
    <3>5. QED  BY <3>3, <3>4
  <2>3. QED  BY <2>1, <2>2
<1>9. rr[1] = 0
  BY <1>1, <1>3
<1>10. QED  BY <1>2, <1>3, <1>7, <1>8, <1>9 DEF Run, rr, ww

(* One character of a run: the last label belongs to the last character.   *)
LEMMA RunAt ==
  ASSUME NEW w, IsSeq(w), NEW r, Run(r, w, 16), NEW i \in 1 .. Len(w) + 1, r[i] # 16
  PROVE  /\ i \in 1 .. Len(w) /\ i + 1 \in 1 .. Len(w) + 1
         /\ Row(r[i], w[i], r[i + 1])
         /\ r[i + 1] = 16 <=> i = Len(w)
<1>1. Len(w) \in Nat
  BY SeqFacts
<1>2. i # Len(w) + 1
  BY DEF Run
<1>3. i \in 1 .. Len(w) /\ i + 1 \in 1 .. Len(w) + 1
  BY <1>1, <1>2
<1>4. Row(r[i], w[i], r[i + 1])
  BY <1>3, Rows DEF Run
<1>5. ASSUME r[i + 1] = 16, i # Len(w)
      PROVE  FALSE
  <2>1. i + 1 \in 1 .. Len(w)
    BY <1>1, <1>3, <1>5
  <2>2. Row(r[i + 1], w[i + 1], r[(i + 1) + 1])
    BY <2>1, Rows DEF Run
  <2>3. QED  BY <1>5, <2>2 DEF Row
<1>6. i = Len(w) => r[i + 1] = 16
  BY DEF Run
<1>7. QED  BY <1>3, <1>4, <1>5, <1>6

(* The run of a string begins with its quote. *)
LEMMA RunBegins ==
  ASSUME NEW w, IsSeq(w), NEW r, Run(r, w, 16)
  PROVE  r[2] = 2 /\ Len(w) \in Nat /\ Len(w) >= 2
<1>1. Len(w) \in Nat /\ r[1] = 0 /\ r[Len(w) + 1] = 16
  BY SeqFacts DEF Run
<1>2. Len(w) # 0
  BY <1>1
<1>3. Len(w) + 1 \in 2 .. Len(w) + 1 /\ 16 \in Inside
  BY <1>1, <1>2 DEF Inside
<1>4. r[2] = 2
  BY <1>1, <1>3 DEF Run
<1>5. Len(w) # 1
  <2>1. SUFFICES ASSUME Len(w) = 1
                 PROVE  FALSE
    OBVIOUS
  <2>2. Len(w) + 1 = 2
    BY <2>1
  <2>3. QED  BY <1>1, <1>4, <2>2
<1>6. QED  BY <1>1, <1>2, <1>4, <1>5

(* What the decoder finds at a character before which the scanner was      *)
(* between the quotes.                                                     *)
LEMMA RunDecodes ==
  ASSUME NEW w, IsSeq(w), NEW r, Run(r, w, 16), NEW i \in 2 .. Len(w), r[i] = 2, i # Len(w)
  PROVE  /\ w[i] # Backslash => i + 1 \in 2 .. Len(w) /\ r[i + 1] = 2
         /\ w[i] = Backslash => w[i + 1] \in Simple \cup {Letter_u}
         /\ w[i] = Backslash /\ w[i + 1] \in Simple =>
              i + 2 \in 2 .. Len(w) /\ r[i + 2] = 2 /\ r[i + 1] # 2
         /\ w[i] = Backslash /\ w[i + 1] = Letter_u =>
              /\ i + 6 \in 2 .. Len(w) /\ r[i + 6] = 2
              /\ \A k \in i + 1 .. i + 5 : r[k] # 2
              /\ {w[i + 2], w[i + 3], w[i + 4], w[i + 5]} \subseteq Hex
<1> DEFINE n == Len(w)
           On(k) == k \in 1 .. n /\ r[k] # 16
<1>1. n \in Nat /\ i \in Nat /\ i >= 2
  BY SeqFacts
<1>2. On(i)
  BY <1>1
<1>3. ASSUME NEW k, On(k)
      PROVE  /\ k + 1 \in 1 .. n + 1 /\ Row(r[k], w[k], r[k + 1])
             /\ r[k + 1] # 16 => On(k + 1)
  <2>1. k \in 1 .. n + 1 /\ k \in 1 .. n
    BY <1>1, <1>3
  <2>2. /\ k + 1 \in 1 .. n + 1 /\ Row(r[k], w[k], r[k + 1])
        /\ r[k + 1] = 16 <=> k = n
    BY <1>3, <2>1, RunAt
  <2>3. k # n => k + 1 \in 1 .. n
    BY <1>1, <2>1
  <2>4. QED  BY <2>2, <2>3
<1>4. r[i + 1] # 16
  <2>1. r[i + 1] = 16 <=> i = n
    BY <1>1, <1>2, RunAt
  <2>2. QED  BY <2>1
<1>5. On(i + 1) /\ Row(2, w[i], r[i + 1])
  BY <1>2, <1>3, <1>4
<1> HIDE DEF On
<1>6. CASE w[i] # Backslash
  <2>1. r[i + 1] = 2 /\ i + 1 \in 1 .. n
    BY <1>4, <1>5, <1>6 DEF Row, On
  <2>2. QED  BY <1>1, <1>6, <2>1
<1>7. CASE w[i] = Backslash
  <2>1. r[i + 1] = 17
    BY <1>5, <1>7 DEF Row, Quote, Backslash
  <2> DEFINE j == i + 1
  <2>2. On(j) /\ Row(17, w[j], r[j + 1]) /\ (r[j + 1] # 16 => On(j + 1)) /\ j + 1 = i + 2
    <3>1. On(j) /\ r[j] = 17 /\ j + 1 = i + 2
      BY <1>1, <1>5, <2>1
    <3> HIDE DEF j
    <3>2. QED  BY <1>3, <3>1
  <2>3. \/ r[i + 2] = 2 /\ w[i + 1] \in Simple
        \/ r[i + 2] = 23 /\ w[i + 1] = Letter_u
    BY <2>2 DEF Row
  <2>4. On(i + 2)
    BY <2>2, <2>3
  <2>5. Letter_u \notin Simple
    BY DEF Letter_u, Simple
  <2>6. CASE w[i + 1] \in Simple
    <3>1. r[i + 2] = 2 /\ i + 2 \in 1 .. n
      BY <2>3, <2>4, <2>5, <2>6 DEF On
    <3>2. i + 2 \in 2 .. n
      BY <1>1, <3>1
    <3>3. QED  BY <1>7, <2>1, <2>5, <2>6, <3>1, <3>2
  <2>7. CASE w[i + 1] = Letter_u
    <3>1. r[i + 2] = 23
      BY <2>3, <2>5, <2>7
    <3>2. r[(i + 2) + 1] = 29 /\ w[i + 2] \in Hex /\ On((i + 2) + 1)
      BY <1>3, <2>4, <3>1 DEF Row
    <3>3. r[((i + 2) + 1) + 1] = 33 /\ w[(i + 2) + 1] \in Hex /\ On(((i + 2) + 1) + 1)
      BY <1>3, <3>2 DEF Row
    <3>4. /\ r[(((i + 2) + 1) + 1) + 1] = 35 /\ w[((i + 2) + 1) + 1] \in Hex
          /\ On((((i + 2) + 1) + 1) + 1)
      BY <1>3, <3>3 DEF Row
    <3>5. /\ r[((((i + 2) + 1) + 1) + 1) + 1] = 2 /\ w[(((i + 2) + 1) + 1) + 1] \in Hex
          /\ On(((((i + 2) + 1) + 1) + 1) + 1)
      BY <1>3, <3>4 DEF Row
    <3>6. /\ (i + 2) + 1 = i + 3 /\ ((i + 2) + 1) + 1 = i + 4
          /\ (((i + 2) + 1) + 1) + 1 = i + 5 /\ ((((i + 2) + 1) + 1) + 1) + 1 = i + 6
      BY <1>1
    <3>7. r[i + 6] = 2 /\ i + 6 \in 1 .. n /\ w[i + 3] \in Hex /\ w[i + 4] \in Hex
          /\ w[i + 5] \in Hex
      BY <3>3, <3>4, <3>5, <3>6 DEF On
    <3>8. i + 6 \in 2 .. n
      BY <1>1, <3>7
    <3>9. \A k \in i + 1 .. i + 5 : r[k] # 2
      <4>1. /\ r[i + 1] = 17 /\ r[i + 2] = 23 /\ r[i + 3] = 29 /\ r[i + 4] = 33
            /\ r[i + 5] = 35
        BY <2>1, <3>1, <3>2, <3>3, <3>4, <3>6
      <4>2. \A k \in i + 1 .. i + 5 :
              k = i + 1 \/ k = i + 2 \/ k = i + 3 \/ k = i + 4 \/ k = i + 5
        BY <1>1
      <4>3. TAKE k \in i + 1 .. i + 5
      <4>4. r[k] \in {17, 23, 29, 33, 35}
        BY <4>1, <4>2, Zenon
      <4>5. QED  BY <4>4
    <3>10. QED  BY <1>7, <2>5, <2>7, <3>2, <3>7, <3>8, <3>9
  <2>8. QED  BY <2>3, <2>6, <2>7
<1>8. QED  BY <1>6, <1>7

-----------------------------------------------------------------------------
(* The steps *)

LEMMA ScanStays ==
  ASSUME LexInv, NEW c, Scan(c)
  PROVE  LexInv'
<1>1. /\ term = "scanning" /\ decode = "idle" /\ iter = 2 /\ const_str = <<>> /\ IsSeq(text)
      /\ UNCHANGED <<iter, const_str, decode>>
  BY DEF Scan, LexInv
<1>2. PICK r : Run(r, text, state)
  BY <1>1 DEF LexInv, Scanned
<1>3. \A s : Closed(s) # "scanning" /\ (Closed(s) = "str" => s = 16)
  BY DEF Closed
<1>4. CASE Targets(state, c) = {}
  <2>1. term' = Closed(state) /\ text' = text
    BY <1>4 DEF Scan
  <2>2. term' # "scanning" /\ (term' = "str" => Run(r, text', 16))
    BY <1>2, <1>3, <2>1
  <2>3. QED  BY <1>1, <2>1, <2>2 DEF LexInv
<1>5. CASE Targets(state, c) # {}
  <2>1. PICK t \in Targets(state, c) :
          /\ state' = t
          /\ IF c = 0 THEN term' = Closed(t) /\ UNCHANGED text
             ELSE text' = Append(text, c) /\ UNCHANGED term
    BY <1>5 DEF Scan
  <2>2. CASE c = 0
    <3>1. t # 16
      BY <2>2, Rows DEF Row, Quote
    <3>2. term' # "scanning" /\ term' # "str" /\ text' = text
      BY <1>3, <2>1, <2>2, <3>1
    <3>3. QED  BY <1>1, <3>2 DEF LexInv
  <2>3. CASE c # 0
    <3>1. text' = Append(text, c) /\ state' = t /\ term' = "scanning"
      BY <1>1, <2>1, <2>3
    <3>2. IsSeq(text') /\ Run(Append(r, t), text', state')
      BY <1>1, <1>2, <3>1, RunNext, SeqAppend
    <3>3. Scanned'
      BY <3>2 DEF Scanned
    <3>4. QED  BY <1>1, <3>1, <3>2, <3>3 DEF LexInv
  <2>4. QED  BY <2>2, <2>3
<1>6. QED  BY <1>4, <1>5

LEMMA BeginStays ==
  ASSUME LexInv, Begin
  PROVE  LexInv'
<1>1. /\ term = "str" /\ decode = "idle" /\ iter = 2 /\ const_str = <<>> /\ IsSeq(text)
      /\ decode' = "running" /\ UNCHANGED <<text, term, iter, const_str>>
  BY DEF Begin, LexInv
<1>2. PICK r : Run(r, text, 16)
  BY <1>1 DEF LexInv
<1>3. r[2] = 2 /\ 2 \in 2 .. Len(text)
  BY <1>1, <1>2, RunBegins
<1>4. DecodeOK'
  BY <1>1, <1>2, <1>3 DEF DecodeOK, OneNumber, Passed
<1>5. QED  BY <1>1, <1>2, <1>4 DEF LexInv

(* A step of the decoder that goes on at a character between the quotes.   *)
LEMMA TakeStays ==
  ASSUME LexInv, Running, NEW n, NEW chars, Take(n, chars), iter + n \in 2 .. Len(text),
         NEW r, Run(r, text, 16), r[iter + n] = 2, Passed(r, text, iter + n),
         OneNumber => iter + n = 8 /\ const_str \o chars = Utf8(Value(SubSeq(text, 4, 7)))
  PROVE  LexInv'
<1>1. /\ decode = "running" /\ term = "str" /\ IsSeq(text)
      /\ iter' = iter + n /\ const_str' = const_str \o chars
      /\ UNCHANGED <<text, term, decode>>
  BY DEF LexInv, Running, Take
<1>2. DecodeOK'
  BY <1>1 DEF DecodeOK, OneNumber
<1>3. QED  BY <1>1, <1>2 DEF LexInv

LEMMA Utf8Seq ==
  ASSUME NEW v
  PROVE  \E S : Utf8(v) \in Seq(S)
<1>1. CASE v <= 127
  <2>1. Utf8(v) = <<v>> /\ <<v>> \in Seq({v})
    BY <1>1 DEF Utf8
  <2>2. QED  BY <2>1
<1>2. CASE ~(v <= 127) /\ v <= 2047
  <2> DEFINE a == 192 + v \div 64
             b == 128 + (v % 64)
  <2>1. Utf8(v) = <<a, b>>
    BY <1>2 DEF Utf8
  <2> HIDE DEF a, b
  <2>2. <<a, b>> \in Seq({a, b})
    OBVIOUS
  <2>3. QED  BY <2>1, <2>2
<1>3. CASE ~(v <= 127) /\ ~(v <= 2047)
  <2> DEFINE a == 224 + v \div 4096
             b == 128 + ((v \div 64) % 64)
             d == 128 + (v % 64)
  <2>1. Utf8(v) = <<a, b, d>>
    BY <1>3 DEF Utf8
  <2> HIDE DEF a, b, d
  <2>2. <<a, b, d>> \in Seq({a, b, d})
    OBVIOUS
  <2>3. QED  BY <2>1, <2>2
<1>4. QED  BY <1>1, <1>2, <1>3

LEMMA DecodeStays ==
  ASSUME LexInv, Plain \/ Unicode \/ Escape \/ Fails
  PROVE  LexInv'
<1>1. Running /\ decode = "running" /\ term = "str" /\ IsSeq(text) /\ DecodeOK
      /\ iter \in 2 .. Len(text) /\ iter # Len(text)
  <2>1. Running
    BY DEF Plain, Unicode, Escape, Fails
  <2>2. DecodeOK /\ IsSeq(text) /\ term = "str"
    BY <2>1 DEF Running, LexInv
  <2>3. Len(text) \in Nat /\ iter \in 2 .. Len(text)
    BY <2>2, SeqFacts DEF DecodeOK
  <2>4. QED  BY <2>1, <2>2, <2>3 DEF Running
<1>2. PICK r : Run(r, text, 16) /\ r[iter] = 2 /\ Passed(r, text, iter)
  BY <1>1 DEF DecodeOK
<1>3. /\ text[iter] # Backslash => iter + 1 \in 2 .. Len(text) /\ r[iter + 1] = 2
      /\ text[iter] = Backslash => text[iter + 1] \in Simple \cup {Letter_u}
      /\ text[iter] = Backslash /\ text[iter + 1] \in Simple =>
           iter + 2 \in 2 .. Len(text) /\ r[iter + 2] = 2 /\ r[iter + 1] # 2
      /\ text[iter] = Backslash /\ text[iter + 1] = Letter_u =>
           /\ iter + 6 \in 2 .. Len(text) /\ r[iter + 6] = 2
           /\ \A k \in iter + 1 .. iter + 5 : r[k] # 2
  BY <1>1, <1>2, RunDecodes
<1>4. OneNumber => /\ iter = 2 /\ const_str = <<>> /\ text[iter] = Backslash
                   /\ text[iter + 1] = Letter_u
  <2>1. OneNumber => iter = 2 /\ const_str = <<>>
    BY <1>1 DEF DecodeOK, OneNumber
  <2>2. QED  BY <2>1 DEF OneNumber
<1>5. DOMAIN Unescapes = {98, 102, 110, 114, 116, 92, 34}
  BY DEF Unescapes
<1>6. CASE Plain
  <2>1. text[iter] # Backslash /\ Take(1, <<text[iter]>>)
    BY <1>6 DEF Plain
  <2>2. Passed(r, text, iter + 1)
    <3>1. \A k \in 2 .. (iter + 1) - 1 : k \in 2 .. iter - 1 \/ k = iter
      BY <1>1
    <3>2. QED  BY <1>2, <2>1, <3>1 DEF Passed
  <2>3. QED  BY <1>1, <1>2, <1>3, <1>4, <2>1, <2>2, TakeStays
<1>7. CASE Unicode
  <2> DEFINE out == Utf8(Value(SubSeq(text, iter + 2, iter + 5)))
  <2>1. text[iter] = Backslash /\ text[iter + 1] = Letter_u /\ Take(6, out)
    BY <1>7 DEF Unicode
  <2>2. OneNumber => iter + 6 = 8 /\ const_str \o out = Utf8(Value(SubSeq(text, 4, 7)))
    <3>1. \A v : \E S : Utf8(v) \in Seq(S)
      BY Utf8Seq
    <3>2. \A x : (\E S : x \in Seq(S)) => <<>> \o x = x
      BY ConcatEmptySeq
    <3>3. OneNumber => out = Utf8(Value(SubSeq(text, 4, 7)))
      BY <1>4
    <3> HIDE DEF out
    <3>4. OneNumber => const_str \o out = out
      BY <1>4, <3>1, <3>2, <3>3
    <3>5. QED  BY <1>4, <3>3, <3>4
  <2>3. Passed(r, text, iter + 6)
    <3>1. \A k \in 2 .. (iter + 6) - 1 :
            k \in 2 .. iter - 1 \/ k = iter \/ k \in iter + 1 .. iter + 5
      BY <1>1
    <3>2. Letter_u # Slash
      BY DEF Letter_u, Slash
    <3>3. QED  BY <1>2, <1>3, <2>1, <3>1, <3>2 DEF Passed
  <2> HIDE DEF out
  <2>4. QED  BY <1>1, <1>2, <1>3, <2>1, <2>2, <2>3, TakeStays
<1>8. CASE Escape
  <2> DEFINE out == <<Unescapes[text[iter + 1]]>>
  <2>1. text[iter] = Backslash /\ text[iter + 1] \in DOMAIN Unescapes /\ Take(2, out)
    BY <1>8 DEF Escape
  <2>2. text[iter + 1] \in Simple /\ ~OneNumber
    BY <1>4, <1>5, <2>1 DEF Simple, Letter_u
  <2>3. Passed(r, text, iter + 2)
    <3>1. \A k \in 2 .. (iter + 2) - 1 : k \in 2 .. iter - 1 \/ k = iter \/ k = iter + 1
      BY <1>1
    <3>2. text[iter + 1] # Slash
      BY <1>5, <2>1 DEF Slash
    <3>3. QED  BY <1>2, <1>3, <2>1, <2>2, <3>1, <3>2 DEF Passed
  <2> HIDE DEF out
  <2>4. QED  BY <1>1, <1>2, <1>3, <2>1, <2>2, <2>3, TakeStays
<1>9. CASE Fails
  <2>1. /\ text[iter] = Backslash /\ text[iter + 1] # Letter_u
        /\ text[iter + 1] \notin DOMAIN Unescapes
        /\ decode' = "assert" /\ UNCHANGED <<text, term, iter, const_str>>
    BY <1>9 DEF Fails
  <2>2. text[iter + 1] = Slash
    BY <1>3, <1>5, <2>1 DEF Simple, Slash
  <2>3. iter < Len(text)
    BY <1>1 DEF Running
  <2>4. DecodeOK'
    BY <1>1, <2>1 DEF DecodeOK, OneNumber
  <2>5. QED  BY <1>1, <1>2, <2>1, <2>2, <2>3, <2>4 DEF LexInv
<1>10. QED  BY <1>6, <1>7, <1>8, <1>9

LEMMA LexNextInv == LexInv /\ [Next]_vars => LexInv'
<1> SUFFICES ASSUME LexInv, [Next]_vars
             PROVE  LexInv'
  OBVIOUS
<1>1. CASE End
  <2>1. /\ decode = "running" /\ iter = Len(text) /\ decode' = "done"
        /\ UNCHANGED <<text, term, iter, const_str>>
    BY <1>1 DEF End
  <2>2. DecodeOK /\ term = "str" /\ IsSeq(text)
    BY <2>1 DEF LexInv
  <2>3. DecodeOK'
    BY <2>1, <2>2 DEF DecodeOK, OneNumber
  <2>4. \E r : Run(r, text, 16)
    BY <2>2 DEF DecodeOK
  <2>5. QED  BY <2>1, <2>2, <2>3, <2>4 DEF LexInv
<1>2. CASE UNCHANGED vars
  BY <1>2 DEF vars, LexInv, Scanned, DecodeOK, OneNumber
<1>3. QED  BY <1>1, <1>2, ScanStays, BeginStays, DecodeStays DEF Next

LEMMA LexInitInv == Init => LexInv
<1> SUFFICES ASSUME Init
             PROVE  LexInv
  OBVIOUS
<1>1. /\ state = 0 /\ text = <<>> /\ term = "scanning" /\ iter = 2 /\ const_str = <<>>
      /\ decode = "idle"
  BY DEF Init
<1>2. IsSeq(<<>>) /\ IsSeq(<<0>>)
  <2>1. <<>> \in Seq({0}) /\ <<0>> \in Seq({0})
    OBVIOUS
  <2>2. QED  BY <2>1 DEF IsSeq
<1>3. Run(<<0>>, <<>>, 0)
  <2>1. Len(<<>>) = 0 /\ Len(<<0>>) = 1 /\ <<0>>[1] = 0
    OBVIOUS
  <2>2. QED  BY <1>2, <2>1 DEF Run
<1>4. QED  BY <1>1, <1>2, <1>3 DEF LexInv, Scanned

(* ccljson_parse_actions.cc:168-281: the decoder goes from character to    *)
(* character as the scanner went, so it always stands between two          *)
(* characters of the string and never inside an escape.                    *)
THEOREM LexInvariance == Spec => []LexInv
  BY LexInitInv, LexNextInv, PTL DEF Spec

-----------------------------------------------------------------------------
(* The labels of a run are those of the text. *)
LEMMA RunLang ==
  ASSUME NEW w, IsText(w), NEW r, Run(r, w, 16), \A k \in 1 .. Len(w) : w[k] # 0,
         NEW i \in 0 .. Len(w)
  PROVE  Lang(w, i, r[i + 1])
<1> DEFINE n == Len(w)
           S == {k \in 0 .. n : Lang(w, k, r[k + 1])}
<1>1. n \in Nat
  BY TextFacts
<1>2. 0 \in S
  BY <1>1 DEF Run, Lang
<1>3. ASSUME NEW k \in 0 .. n - 1, k \in S
      PROVE  k + 1 \in S
  <2>1. k \in Nat /\ k + 1 \in 1 .. n /\ k + 1 <= n /\ k + 1 \in 0 .. n
    BY <1>1
  <2>2. r[(k + 1) + 1] \in Targets(r[k + 1], w[k + 1]) /\ w[k + 1] # 0
    BY <2>1 DEF Run
  <2>3. Lang(w, k + 1, r[(k + 1) + 1])
    BY <1>3, <2>1, <2>2, LangMore
  <2>4. QED  BY <2>1, <2>3
<1>4. 0 .. n \subseteq S
  <2> HIDE DEF S
  <2>1. QED  BY <1>1, <1>2, <1>3, UpTo
<1>5. QED  BY <1>4

(* A character of a string begins where the label is that of a string.     *)
LEMMA BetweenAt ==
  ASSUME NEW w, NEW i \in Nat, i >= 1
  PROVE  Lang(w, i, 2) <=> Between(w)[i]
BY DEF Lang, NumberAt, StringAt, WordAt, OtherAt

(* A text with a label has no 0 in it. *)
LEMMA LangNoZero ==
  ASSUME NEW w, IsText(w), NEW s, Lang(w, Len(w), s), NEW i \in 1 .. Len(w)
  PROVE  w[i] # 0
<1>1. Len(w) \in Nat /\ i \in 0 .. Len(w) /\ i - 1 \in Nat /\ (i - 1) + 1 = i
  BY TextFacts
<1>2. PICK t : Lang(w, i, t)
  BY <1>1, LangDown
<1> DEFINE j == i - 1
<1>3. j \in Nat /\ j + 1 = i /\ j + 1 <= Len(w) /\ Lang(w, j + 1, t)
  BY <1>1, <1>2
<1> HIDE DEF j
<1>4. w[j + 1] # 0
  BY <1>3, LangMore
<1>5. QED  BY <1>3, <1>4

(* An escaped slash, seen by the labels of a run. *)
LEMMA SlashAt ==
  ASSUME NEW w, IsText(w), NEW r, Run(r, w, 16), \A k \in 1 .. Len(w) : w[k] # 0
  PROVE  \A i \in 1 .. Len(w) - 2 : Between(w)[i] <=> r[i + 1] = 2
<1> TAKE i \in 1 .. Len(w) - 2
<1>1. i \in Nat /\ i >= 1 /\ i <= Len(w) /\ i \in 0 .. Len(w)
  BY TextFacts
<1>2. Lang(w, i, r[i + 1])
  BY <1>1, RunLang
<1>3. \A s, t : Lang(w, i, s) /\ Lang(w, i, t) => s = t
  BY <1>1, LangUnique
<1>4. Lang(w, i, 2) <=> Between(w)[i]
  BY <1>1, BetweenAt
<1>5. QED  BY <1>2, <1>3, <1>4

-----------------------------------------------------------------------------
(* ccljson_parse_actions.cc:180-271: for strings of any length the decoder *)
(* ends at the closing quote, and what makes it fail its assert is, of all *)
(* that the scanner lets through, an escaped slash.                        *)
THEOREM LexDecodesAll == Spec => []DecodesAll
<1>1. LexInv /\ ScannerInv => DecodesAll
  <2> SUFFICES ASSUME LexInv, ScannerInv, decode # "idle"
               PROVE  DecodesAll
    BY DEF DecodesAll
  <2>1. /\ iter \in 2 .. Len(text) /\ Len(text) \in Nat /\ iter <= Len(text)
        /\ term = "str" /\ IsText(text) /\ DecodeOK
    <3>1. DecodeOK /\ term = "str" /\ IsText(text) /\ iter \in 2 .. Len(text)
      BY DEF LexInv, DecodeOK, ScannerInv, LabelOK
    <3>2. Len(text) \in Nat
      BY <3>1, TextFacts
    <3>3. QED  BY <3>1, <3>2
  <2>2. PICK r : Run(r, text, 16) /\ r[iter] = 2 /\ Passed(r, text, iter)
    BY <2>1 DEF DecodeOK
  <2>3. \A k \in 1 .. Len(text) : text[k] # 0
    <3>1. PICK s : Lang(text, Len(text), s)
      BY <2>1 DEF ScannerInv, LabelOK
    <3>2. QED  BY <2>1, <3>1, LangNoZero
  <2>4. \A i \in 1 .. Len(text) - 2 : Between(text)[i] <=> r[i + 1] = 2
    BY <2>1, <2>2, <2>3, SlashAt
  <2>5. decode = "assert" => EscapedSlash(text)
    <3>1. SUFFICES ASSUME decode = "assert"
                   PROVE  EscapedSlash(text)
      OBVIOUS
    <3>2. iter < Len(text) /\ text[iter] = Backslash /\ text[iter + 1] = Slash
      BY <3>1 DEF LexInv
    <3> DEFINE i == iter - 1
    <3>3. i \in 1 .. Len(text) - 2 /\ i + 1 = iter /\ i + 2 = iter + 1
      BY <2>1, <3>2
    <3> HIDE DEF i
    <3>4. QED  BY <2>2, <2>4, <3>2, <3>3 DEF EscapedSlash
  <2>6. decode = "done" => ~EscapedSlash(text)
    <3>1. SUFFICES ASSUME decode = "done", EscapedSlash(text)
                   PROVE  FALSE
      OBVIOUS
    <3>2. iter = Len(text)
      BY <3>1 DEF LexInv
    <3>3. PICK i \in 1 .. Len(text) - 2 :
            Between(text)[i] /\ text[i + 1] = Backslash /\ text[i + 2] = Slash
      BY <3>1 DEF EscapedSlash
    <3>4. i + 1 \in 2 .. iter - 1 /\ (i + 1) + 1 = i + 2
      BY <2>1, <3>2
    <3>5. QED  BY <2>2, <2>4, <3>3, <3>4 DEF Passed
  <2>7. QED  BY <2>1, <2>5, <2>6 DEF DecodesAll
<1>2. QED  BY <1>1, LexInvariance, ScannerInvariance, PTL

LEMMA HexValues == \A c \in Hex : HexValue(c) \in 0 .. 15
  BY DEF Hex, Digit, HexValue

(* One, two or three bytes give back the value they were made of. *)
LEMMA Utf8Exact ==
  ASSUME NEW v \in Nat, v < 16 * 4096, NEW w, w = Utf8(v)
  PROVE  /\ CodePoint(w) = v
         /\ \A i \in 2 .. Len(w) : w[i] \in 128 .. 191
         /\ v >= 128 => Len(w) >= 2
         /\ v >= 2048 => Len(w) = 3
<1>1. CASE v <= 127
  <2>1. w = <<v>>
    BY <1>1, SMT DEF Utf8
  <2>2. Len(w) = 1 /\ w[1] = v
    BY <2>1, SMT
  <2>3. CodePoint(w) = v
    BY <1>1, <2>2, SMT DEF CodePoint
  <2>4. ~(v >= 128) /\ ~(v >= 2048)
    BY <1>1, SMT
  <2>5. \A i \in 2 .. Len(w) : FALSE
    BY <2>2, SMT
  <2>6. QED  BY <2>3, <2>4, <2>5, SMT
<1>2. CASE v > 127 /\ v <= 2047
  <2> DEFINE a == 192 + v \div 64
             b == 128 + (v % 64)
  <2>1. ~(v <= 127)
    BY <1>2, SMT
  <2>2. w = <<a, b>>
    BY <1>2, <2>1, SMT DEF Utf8
  <2>3. a \in 192 .. 223 /\ b \in 128 .. 191 /\ 64 * (a - 192) + b - 128 = v
    BY <1>2, SMT
  <2> HIDE DEF a, b
  <2>4. Len(w) = 2 /\ w[1] = a /\ w[2] = b
    BY <2>2, SMT
  <2>5. CodePoint(w) = 64 * (a - 192) + b - 128
    BY <2>3, <2>4, SMT DEF CodePoint
  <2>6. CodePoint(w) = v
    BY <2>3, <2>5, SMT
  <2>7. \A i \in 2 .. Len(w) : w[i] \in 128 .. 191
    <3>1. \A i \in 2 .. Len(w) : i = 2
      BY <2>4, SMT
    <3>2. QED  BY <2>3, <2>4, <3>1, SMT
  <2>8. Len(w) >= 2 /\ ~(v >= 2048)
    BY <1>2, <2>4, SMT
  <2>9. QED  BY <2>6, <2>7, <2>8, SMT
<1>3. CASE v > 2047
  <2> DEFINE a == 224 + v \div 4096
             b == 128 + ((v \div 64) % 64)
             d == 128 + (v % 64)
  <2>1. ~(v <= 127) /\ ~(v <= 2047)
    BY <1>3, SMT
  <2>2. w = <<a, b, d>>
    BY <2>1, SMT DEF Utf8
  <2>3. /\ a \in 224 .. 239 /\ b \in 128 .. 191 /\ d \in 128 .. 191
        /\ 4096 * (a - 224) + 64 * (b - 128) + d - 128 = v
    BY <1>3, SMT
  <2> HIDE DEF a, b, d
  <2>4. Len(w) = 3 /\ w[1] = a /\ w[2] = b /\ w[3] = d
    BY <2>2, SMT
  <2>5. CodePoint(w) = 4096 * (a - 224) + 64 * (b - 128) + d - 128
    BY <2>3, <2>4, SMT DEF CodePoint
  <2>6. CodePoint(w) = v
    BY <2>3, <2>5, SMT
  <2>7. \A i \in 2 .. Len(w) : w[i] \in 128 .. 191
    <3>1. \A i \in 2 .. Len(w) : i = 2 \/ i = 3
      BY <2>4, SMT
    <3>2. w[2] \in 128 .. 191 /\ w[3] \in 128 .. 191
      BY <2>3, <2>4, SMT
    <3>3. TAKE i \in 2 .. Len(w)
    <3>4. CASE i = 2
      BY <3>2, <3>4, SMT
    <3>5. CASE i = 3
      BY <3>2, <3>5, SMT
    <3>6. QED  BY <3>1, <3>4, <3>5, SMT
  <2>8. Len(w) >= 2 /\ Len(w) = 3
    BY <2>4, SMT
  <2>9. QED  BY <2>6, <2>7, <2>8, SMT
<1>4. QED  BY <1>1, <1>2, <1>3, SMT

(* ccljson_parse_actions.cc:191-232: whatever four digits follow, the      *)
(* bytes that are made of them are the shortest UTF-8 of their value.      *)
THEOREM LexUnicodeExact == Spec => []UnicodeExact
<1>1. LexInv => UnicodeExact
  <2> SUFFICES ASSUME LexInv, decode = "done", OneNumber
               PROVE  UnicodeExact
    BY DEF UnicodeExact, OneNumber
  <2>1. DecodeOK /\ IsSeq(text) /\ iter = 8 /\ Len(text) = 8
    BY DEF LexInv, OneNumber
  <2>2. const_str = Utf8(Value(SubSeq(text, 4, 7)))
    BY <2>1 DEF DecodeOK
  <2>3. PICK r : Run(r, text, 16)
    BY <2>1 DEF DecodeOK
  <2>4. {text[4], text[5], text[6], text[7]} \subseteq Hex
    <3>1. r[2] = 2 /\ 2 \in 2 .. Len(text) /\ 2 # Len(text)
      BY <2>1, <2>3, RunBegins
    <3>2. {text[2 + 2], text[2 + 3], text[2 + 4], text[2 + 5]} \subseteq Hex
      BY <2>1, <2>3, <3>1, RunDecodes DEF OneNumber
    <3>3. QED  BY <3>2
  <2> DEFINE v == 4096 * HexValue(text[4]) + 256 * HexValue(text[5])
                    + 16 * HexValue(text[6]) + HexValue(text[7])
  <2>5. Value(SubSeq(text, 4, 7)) = v /\ v \in Nat /\ v < 16 * 4096
    <3>1. PICK S : text \in Seq(S)
      BY <2>1 DEF IsSeq
    <3>2. \A k \in 1 .. 4 : SubSeq(text, 4, 7)[k] = text[4 + k - 1]
      <4>1. \A k \in 4 .. 7 : k \in 1 .. Len(text)
        BY <2>1
      <4>2. \A k \in 4 .. 7 : text[k] \in S
        BY <3>1, <4>1, ElementOfSeq
      <4>3. QED  BY <3>1, <4>2, SubSeqProperties
    <3>3. /\ SubSeq(text, 4, 7)[1] = text[4] /\ SubSeq(text, 4, 7)[2] = text[5]
          /\ SubSeq(text, 4, 7)[3] = text[6] /\ SubSeq(text, 4, 7)[4] = text[7]
      <4>1. 4 + 1 - 1 = 4 /\ 4 + 2 - 1 = 5 /\ 4 + 3 - 1 = 6 /\ 4 + 4 - 1 = 7
        OBVIOUS
      <4>2. QED  BY <3>2, <4>1
    <3>4. PICK a, b, d, e \in 0 .. 15 :
            /\ HexValue(text[4]) = a /\ HexValue(text[5]) = b
            /\ HexValue(text[6]) = d /\ HexValue(text[7]) = e
      BY <2>4, HexValues
    <3>5. v = 4096 * a + 256 * b + 16 * d + e
      <4>1. /\ 4096 * HexValue(text[4]) = 4096 * a /\ 256 * HexValue(text[5]) = 256 * b
            /\ 16 * HexValue(text[6]) = 16 * d /\ HexValue(text[7]) = e
        BY <3>4, SMT
      <4>2. QED  BY <4>1, SMT
    <3>6. Value(SubSeq(text, 4, 7)) = 16 * (16 * (16 * a + b) + d) + e
      BY <3>3, <3>4, SMT DEF Value
    <3> HIDE DEF v
    <3>7. QED  BY <3>5, <3>6, SMT
  <2> HIDE DEF v
  <2>6. /\ CodePoint(const_str) = v
        /\ \A i \in 2 .. Len(const_str) : const_str[i] \in 128 .. 191
        /\ v >= 128 => Len(const_str) >= 2
        /\ v >= 2048 => Len(const_str) = 3
    <3>1. const_str = Utf8(v)
      BY <2>2, <2>5, Zenon
    <3>2. QED  BY <2>5, <3>1, Utf8Exact, SMT
  <2>7. QED  BY <2>6, SMT DEF UnicodeExact, v
<1>2. QED  BY <1>1, LexInvariance, PTL

(* The decoder of what was written for s has read back what the first k    *)
(* pieces were written for, and is where the next one begins.              *)
Back(s, b) ==
  /\ decode # "assert"
  /\ \E k \in 0 .. Len(s) :
       /\ iter = Place(b, k)
       /\ const_str \in Seq(Chars) /\ Len(const_str) = k
       /\ \A j \in 1 .. k : const_str[j] = s[j]

TripOK ==
  \A s \in Seq(Chars) : \A b :
    Pieces(b, s) /\ text = (<<Quote>> \o b[Len(s)]) \o <<Quote>> => Back(s, b)

TripInv == LexInv /\ (term = "str" => TripOK)

LEMMA BackBegins ==
  ASSUME iter = 2, const_str = <<>>, decode # "assert"
  PROVE  TripOK
<1> SUFFICES ASSUME NEW s \in Seq(Chars), NEW b, Pieces(b, s),
                    text = (<<Quote>> \o b[Len(s)]) \o <<Quote>>
             PROVE  Back(s, b)
  BY DEF TripOK
<1>1. Place(b, 0) = 2 /\ 0 \in 0 .. Len(s)
  BY WrittenHas, LenProperties
<1>2. const_str \in Seq(Chars) /\ Len(const_str) = 0
  OBVIOUS
<1>3. QED  BY <1>1, <1>2 DEF Back

(* One more character read back. *)
LEMMA BackMore ==
  ASSUME NEW s \in Seq(Chars), NEW b, Pieces(b, s), NEW k \in 0 .. Len(s) - 1,
         const_str \in Seq(Chars), Len(const_str) = k, \A j \in 1 .. k : const_str[j] = s[j],
         decode' # "assert", iter' = Place(b, k + 1), const_str' = const_str \o <<s[k + 1]>>
  PROVE  Back(s, b)'
<1>1. Len(s) \in Nat /\ k + 1 \in 1 .. Len(s) /\ k + 1 \in 0 .. Len(s) /\ k \in Nat
  BY LenProperties
<1> DEFINE q == <<s[k + 1]>>
<1>2. q \in Seq(Chars) /\ Len(q) = 1 /\ q[1] = s[k + 1]
  <2>1. s[k + 1] \in Chars
    BY <1>1, ElementOfSeq
  <2> HIDE DEF Chars
  <2>2. QED  BY <2>1
<1>3. const_str' = const_str \o q
  OBVIOUS
<1> HIDE DEF q
<1>4. /\ const_str' \in Seq(Chars) /\ Len(const_str') = k + 1
      /\ \A j \in 1 .. k : const_str'[j] = const_str[j]
      /\ const_str'[k + 1] = s[k + 1]
  <2>1. /\ const_str' \in Seq(Chars) /\ Len(const_str') = Len(const_str) + Len(q)
        /\ \A j \in 1 .. Len(const_str) : const_str'[j] = const_str[j]
        /\ \A j \in 1 .. Len(q) : const_str'[Len(const_str) + j] = q[j]
    BY <1>2, <1>3, ConcatParts
  <2>2. 1 \in 1 .. Len(q)
    BY <1>2
  <2>3. QED  BY <1>2, <2>1, <2>2
<1>5. \A j \in 1 .. k + 1 : j \in 1 .. k \/ j = k + 1
  BY <1>1
<1>6. \A j \in 1 .. k + 1 : const_str'[j] = s[j]
  BY <1>4, <1>5
<1>7. QED  BY <1>1, <1>4, <1>6 DEF Back

LEMMA BackStays ==
  ASSUME NEW s \in Seq(Chars), NEW b, Pieces(b, s),
         text = (<<Quote>> \o b[Len(s)]) \o <<Quote>>,
         Back(s, b), Running, Plain \/ Unicode \/ Escape \/ Fails
  PROVE  Back(s, b)'
<1> DEFINE n == Len(s)
<1>1. PICK k \in 0 .. n :
        /\ iter = Place(b, k)
        /\ const_str \in Seq(Chars) /\ Len(const_str) = k
        /\ \A j \in 1 .. k : const_str[j] = s[j]
  BY DEF Back
<1>2. n \in Nat /\ iter < Len(text) /\ decode = "running"
  BY LenProperties DEF Running
<1>3. k \in 0 .. n - 1
  <2>1. Place(b, n) = Len(text)
    BY WrittenHas
  <2>2. Len(text) \in Nat
    <3>1. n \in 0 .. n
      BY <1>2
    <3>2. Len(b[n]) \in Nat
      BY <3>1, PiecesAre
    <3>3. QED  BY <2>1, <3>2 DEF Place
  <2>3. k # n
    BY <1>1, <1>2, <2>1, <2>2
  <2>4. QED  BY <1>2, <2>3
<1> DEFINE c == s[k + 1]
           p == Piece(c)
<1>4. /\ Place(b, k + 1) = iter + Len(p)
      /\ text[iter] = p[1]
      /\ Len(p) = 2 => text[iter + 1] = p[2]
  <2>1. /\ Place(b, k + 1) = Place(b, k) + Len(p)
        /\ text[Place(b, k)] = p[1]
        /\ Len(p) = 2 => text[Place(b, k) + 1] = p[2]
    BY <1>3, WrittenHas
  <2>2. QED  BY <1>1, <2>1
<1>5. c \in Chars
  <2>1. k + 1 \in 1 .. n
    BY <1>2, <1>3
  <2>2. QED  BY <2>1, ElementOfSeq
<1>6. /\ c \in Escaped => Len(p) = 2 /\ p[1] = Backslash /\ p[2] = Escapes[c]
      /\ c \notin Escaped => Len(p) = 1 /\ p[1] = c /\ c # Backslash
  BY <1>5, PieceIs
<1>7. c \in Escaped => /\ Escapes[c] # Letter_u /\ Escapes[c] \in DOMAIN Unescapes
                       /\ Unescapes[Escapes[c]] = c
  BY EscapesAre
<1>8. ASSUME NEW m, NEW chars, Take(m, chars), iter + m = iter + Len(p), chars = <<c>>
      PROVE  Back(s, b)'
  <2>1. iter' = Place(b, k + 1) /\ const_str' = const_str \o <<c>> /\ decode' # "assert"
    BY <1>2, <1>4, <1>8 DEF Take
  <2>2. QED  BY <1>1, <1>3, <2>1, BackMore
<1> HIDE DEF c, p
<1>9. CASE Plain
  <2>1. text[iter] # Backslash /\ Take(1, <<text[iter]>>)
    BY <1>9 DEF Plain
  <2>2. c \notin Escaped
    BY <1>4, <1>6, <2>1
  <2>3. QED  BY <1>4, <1>6, <1>8, <2>1, <2>2
<1>10. CASE Unicode
  <2>1. text[iter] = Backslash /\ text[iter + 1] = Letter_u
    BY <1>10 DEF Unicode
  <2>2. QED  BY <1>4, <1>6, <1>7, <2>1
<1>11. CASE Escape
  <2>1. text[iter] = Backslash /\ Take(2, <<Unescapes[text[iter + 1]]>>)
    BY <1>11 DEF Escape
  <2>2. c \in Escaped
    BY <1>4, <1>6, <2>1
  <2>3. QED  BY <1>4, <1>6, <1>7, <1>8, <2>1, <2>2
<1>12. CASE Fails
  <2>1. text[iter] = Backslash /\ text[iter + 1] \notin DOMAIN Unescapes
    BY <1>12 DEF Fails
  <2>2. QED  BY <1>4, <1>6, <1>7, <2>1
<1>13. QED  BY <1>9, <1>10, <1>11, <1>12

LEMMA TripNext == TripInv /\ [Next]_vars => TripInv'
<1> SUFFICES ASSUME TripInv, [Next]_vars
             PROVE  TripInv'
  OBVIOUS
<1>1. LexInv /\ LexInv'
  BY LexNextInv DEF TripInv
<1> SUFFICES ASSUME term' = "str"
             PROVE  TripOK'
  BY <1>1 DEF TripInv
<1>2. ASSUME NEW c \in Following, Scan(c)
      PROVE  TripOK'
  <2>1. iter' = 2 /\ const_str' = <<>> /\ decode' # "assert"
    BY <1>1, <1>2 DEF Scan, LexInv
  <2>2. (iter = 2 /\ const_str = <<>> /\ decode # "assert" => TripOK)'
    BY BackBegins, PTL
  <2>3. QED  BY <2>1, <2>2
<1>3. ASSUME Plain \/ Unicode \/ Escape \/ Fails
      PROVE  TripOK'
  <2>1. Running /\ term = "str" /\ text' = text
    BY <1>1, <1>3 DEF Plain, Unicode, Escape, Fails, Take, Running, LexInv
  <2>2. QED  BY <1>3, <2>1, BackStays DEF TripInv, TripOK
<1>4. ASSUME Begin \/ End \/ UNCHANGED vars
      PROVE  TripOK'
  <2>1. UNCHANGED <<text, term, iter, const_str>> /\ (decode' = "assert" => decode = "assert")
    BY <1>4 DEF Begin, End, vars
  <2>2. QED  BY <2>1 DEF TripInv, TripOK, Back
<1>5. QED  BY <1>2, <1>3, <1>4 DEF Next

LEMMA TripInit == Init => TripInv
  BY LexInitInv DEF Init, TripInv

(* ccljson.cc:57-100 and ccljson_parse_actions.cc:168-281: reading what    *)
(* append_string wrote, the decoder stands before the piece of one         *)
(* character of the string and has made all the characters before it.      *)
THEOREM TripInvariance == Spec => []TripInv
  BY TripInit, TripNext, PTL DEF Spec

-----------------------------------------------------------------------------
(* The scanner on what was written *)

(* The label behind the first n characters of w, which was written for s   *)
(* in the pieces b: between two pieces, in the middle of one, or at the    *)
(* end.                                                                    *)
WrittenAt(s, b, w, n, t) ==
  \/ n = 0 /\ t = 0
  \/ t = 2 /\ \E k \in 0 .. Len(s) : n + 1 = Place(b, k)
  \/ t = 17 /\ \E k \in 0 .. Len(s) - 1 : n = Place(b, k) /\ s[k + 1] \in Escaped
  \/ t = 16 /\ n = Len(w)

LEMMA EscapesSimple == \A c \in Escaped : Escapes[c] \in Simple
<1>1. \A c \in Escaped : Escapes[c] \in DOMAIN Unescapes
  BY EscapesAre
<1>2. DOMAIN Unescapes = {98, 102, 110, 114, 116, 92, 34}
  BY DEF Unescapes
<1>3. QED  BY <1>1, <1>2 DEF Simple

(* At each of these labels the next character written has a goto; only a 0 *)
(* does not go on.                                                         *)
LEMMA WrittenGoes ==
  ASSUME NEW s \in Seq(Chars), NEW b, Pieces(b, s), NEW w,
         w = (<<Quote>> \o b[Len(s)]) \o <<Quote>>,
         NEW n \in Nat, n < Len(w), NEW t, WrittenAt(s, b, w, n, t)
  PROVE  \E u \in Targets(t, w[n + 1]) :
           /\ w[n + 1] = 0 => u = 2
           /\ WrittenAt(s, b, w, n + 1, u)
<1> DEFINE c == w[n + 1]
<1>1. /\ Place(b, 0) = 2 /\ Place(b, Len(s)) = Len(w)
      /\ w[1] = Quote /\ w[Len(w)] = Quote /\ Len(w) \in Nat /\ Len(s) \in Nat
  <2>1. /\ Place(b, 0) = 2 /\ Place(b, Len(s)) = Len(w)
        /\ w[1] = Quote /\ w[Len(w)] = Quote /\ w \in Seq(Chars)
    BY WrittenHas
  <2>2. QED  BY <2>1, LenProperties
<1>2. ASSUME NEW k \in 0 .. Len(s) - 1, NEW p, p = Piece(s[k + 1])
      PROVE  /\ Place(b, k) \in Nat /\ Place(b, k + 1) = Place(b, k) + Len(p)
             /\ w[Place(b, k)] = p[1]
             /\ Len(p) = 2 => w[Place(b, k) + 1] = p[2]
             /\ s[k + 1] \in Chars
             /\ s[k + 1] \in Escaped => /\ Len(p) = 2 /\ p[1] = Backslash
                                        /\ p[2] = Escapes[s[k + 1]]
             /\ s[k + 1] \notin Escaped => Len(p) = 1 /\ p[1] = s[k + 1]
  <2>1. /\ Place(b, k) \in Nat /\ Place(b, k + 1) = Place(b, k) + Len(p)
        /\ w[Place(b, k)] = p[1]
        /\ Len(p) = 2 => w[Place(b, k) + 1] = p[2]
    BY <1>2, WrittenHas
  <2>2. k + 1 \in 1 .. Len(s)
    BY <1>1
  <2>3. s[k + 1] \in Chars
    BY <2>2, ElementOfSeq
  <2>4. QED  BY <1>2, <2>1, <2>3, PieceIs
<1>3. Quote # 0 /\ Backslash # 0 /\ Quote \in Escaped /\ Backslash \in Escaped
  BY DEF Quote, Backslash, Escaped
<1>4. CASE n = 0 /\ t = 0
  <2>1. c = Quote /\ n + 1 = 1
    BY <1>1, <1>4
  <2>2. 2 \in Targets(t, c)
    BY <1>4, <2>1, Taken DEF StartRow, Quote
  <2>3. WrittenAt(s, b, w, n + 1, 2)
    <3>1. 0 \in 0 .. Len(s) /\ (n + 1) + 1 = Place(b, 0)
      BY <1>1, <2>1
    <3>2. QED  BY <3>1 DEF WrittenAt
  <2>4. QED  BY <1>3, <2>1, <2>2, <2>3
<1>5. ASSUME t = 2, NEW k \in 0 .. Len(s), n + 1 = Place(b, k)
      PROVE  \E u \in Targets(t, c) : (c = 0 => u = 2) /\ WrittenAt(s, b, w, n + 1, u)
  <2>1. CASE k = Len(s)
    <3>1. n + 1 = Len(w) /\ c = Quote
      BY <1>1, <1>5, <2>1
    <3>2. 16 \in Targets(t, c)
      BY <1>5, <3>1, Taken DEF StringRow
    <3>3. WrittenAt(s, b, w, n + 1, 16)
      BY <3>1 DEF WrittenAt
    <3>4. QED  BY <1>3, <3>1, <3>2, <3>3
  <2>2. CASE k # Len(s) /\ s[k + 1] \in Escaped
    <3>1. k \in 0 .. Len(s) - 1
      BY <1>1, <2>2
    <3>2. c = Backslash
      BY <1>2, <1>5, <2>2, <3>1
    <3>3. 17 \in Targets(t, c)
      BY <1>5, <3>2, Taken DEF StringRow
    <3>4. WrittenAt(s, b, w, n + 1, 17)
      BY <1>5, <2>2, <3>1 DEF WrittenAt
    <3>5. QED  BY <1>3, <3>2, <3>3, <3>4
  <2>3. CASE k # Len(s) /\ s[k + 1] \notin Escaped
    <3>1. k \in 0 .. Len(s) - 1
      BY <1>1, <2>3
    <3>2. c = s[k + 1] /\ c \in 0 .. 255 /\ Place(b, k + 1) = (n + 1) + 1
      <4>1. c = s[k + 1] /\ Place(b, k + 1) = (n + 1) + 1
        BY <1>2, <1>5, <2>3, <3>1
      <4>2. c \in Chars
        BY <1>2, <3>1, <4>1
      <4>3. QED  BY <4>1, <4>2 DEF Chars
    <3>3. c # Quote /\ c # Backslash
      BY <1>3, <2>3, <3>2
    <3>4. 2 \in Targets(t, c)
      BY <1>5, <3>2, <3>3, Taken DEF StringRow
    <3>5. WrittenAt(s, b, w, n + 1, 2)
      <4>1. k + 1 \in 0 .. Len(s)
        BY <1>1, <3>1
      <4>2. QED  BY <3>2, <4>1 DEF WrittenAt
    <3>6. QED  BY <3>4, <3>5
  <2>4. QED  BY <2>1, <2>2, <2>3
<1>6. ASSUME t = 17, NEW k \in 0 .. Len(s) - 1, n = Place(b, k), s[k + 1] \in Escaped
      PROVE  \E u \in Targets(t, c) : (c = 0 => u = 2) /\ WrittenAt(s, b, w, n + 1, u)
  <2>1. c = Escapes[s[k + 1]] /\ Place(b, k + 1) = (n + 1) + 1
    <3> DEFINE p == Piece(s[k + 1])
    <3>1. /\ Place(b, k) \in Nat /\ Place(b, k + 1) = Place(b, k) + Len(p)
          /\ Len(p) = 2 => w[Place(b, k) + 1] = p[2]
          /\ Len(p) = 2 /\ p[2] = Escapes[s[k + 1]]
      BY <1>2, <1>6
    <3> HIDE DEF p
    <3>2. w[n + 1] = p[2] /\ Place(b, k + 1) = n + 2
      BY <1>6, <3>1
    <3>3. (n + 1) + 1 = n + 2
      OBVIOUS
    <3>4. QED  BY <3>1, <3>2, <3>3, Zenon
  <2>2. 2 \in Targets(t, c)
    BY <1>6, <2>1, EscapesSimple, Taken DEF StringRow
  <2>3. WrittenAt(s, b, w, n + 1, 2)
    <3>1. k + 1 \in 0 .. Len(s)
      BY <1>1
    <3>2. QED  BY <2>1, <3>1 DEF WrittenAt
  <2>4. QED  BY <2>2, <2>3
<1> HIDE DEF c
<1>7. \E u \in Targets(t, c) : (c = 0 => u = 2) /\ WrittenAt(s, b, w, n + 1, u)
  <2>1. CASE t = 2 /\ \E k \in 0 .. Len(s) : n + 1 = Place(b, k)
    BY <1>5, <2>1, Zenon
  <2>2. CASE t = 17 /\ \E k \in 0 .. Len(s) - 1 : n = Place(b, k) /\ s[k + 1] \in Escaped
    BY <1>6, <2>2, Zenon
  <2>3. ~(t = 16 /\ n = Len(w))
    BY <1>1
  <2>4. QED  BY <1>4, <2>1, <2>2, <2>3, Zenon DEF WrittenAt, c
<1>8. QED  BY <1>7 DEF c

(* So a text that agrees with what was written so far is at such a label.  *)
LEMMA WrittenLang ==
  ASSUME NEW s \in Seq(Chars), NEW b, Pieces(b, s), NEW w,
         w = (<<Quote>> \o b[Len(s)]) \o <<Quote>>,
         NEW n \in Nat, n <= Len(w), \A k \in 1 .. n : w[k] # 0
  PROVE  \E t : WrittenAt(s, b, w, n, t) /\ Lang(w, n, t)
<1> DEFINE S == {i \in 0 .. n : \E t : WrittenAt(s, b, w, i, t) /\ Lang(w, i, t)}
<1>1. IsText(w)
  BY WrittenHas DEF IsText, Chars
<1>2. 0 \in S
  BY DEF WrittenAt, Lang
<1>3. ASSUME NEW i \in 0 .. n - 1, i \in S
      PROVE  i + 1 \in S
  <2>1. /\ i \in Nat /\ i < Len(w) /\ i + 1 \in 1 .. n /\ i + 1 \in 0 .. n
        /\ i + 1 <= Len(w)
    BY <1>1, TextFacts
  <2>2. PICK t : WrittenAt(s, b, w, i, t) /\ Lang(w, i, t)
    BY <1>3
  <2>3. PICK u \in Targets(t, w[i + 1]) : WrittenAt(s, b, w, i + 1, u)
    BY <2>1, <2>2, WrittenGoes
  <2>4. Lang(w, i + 1, u)
    BY <1>1, <2>1, <2>2, LangMore
  <2>5. QED  BY <2>1, <2>3, <2>4
<1>4. 0 .. n \subseteq S
  <2> HIDE DEF S
  <2>1. QED  BY <1>2, <1>3, UpTo
<1>5. QED  BY <1>4

(* Before the end of what was written the scanner stops at a 0 only.       *)
LEMMA StopsAtZero ==
  ASSUME ScannerInv, term # "scanning",
         NEW s \in Seq(Chars), NEW b, Pieces(b, s), NEW w,
         w = (<<Quote>> \o b[Len(s)]) \o <<Quote>>,
         Len(text) < Len(w), \A k \in 1 .. Len(text) : text[k] = w[k],
         in_char = w[Len(text) + 1]
  PROVE  term = "unknown" /\ in_char = 0
<1> DEFINE n == Len(text)
<1>1. IsText(text) /\ n \in Nat /\ IsText(w) /\ Len(w) \in Nat
  <2>1. IsText(text) /\ IsText(w)
    BY WrittenHas DEF ScannerInv, LabelOK, IsText, Chars
  <2>2. QED  BY <2>1, TextFacts
<1>2. PICK r : /\ Lang(text, n, r)
               /\ \/ Targets(r, in_char) = {} /\ term = Closed(r)
                  \/ in_char = 0 /\ \E t \in Targets(r, 0) : term = Closed(t)
  BY DEF ScannerInv, LabelOK
<1>3. \A k \in 1 .. n : w[k] # 0
  BY <1>1, <1>2, LangNoZero
<1>4. PICK t : WrittenAt(s, b, w, n, t) /\ Lang(w, n, t)
  <2>1. n \in Nat /\ n <= Len(w)
    BY <1>1
  <2> HIDE DEF n
  <2>2. QED  BY <1>3, <2>1, WrittenLang
<1>5. t = r
  <2>1. n <= Len(w) /\ n <= Len(text)
    BY <1>1
  <2>2. Lang(text, n, t)
    <3> HIDE DEF n
    <3>1. \A k \in 1 .. n : text[k] = w[k]
      BY DEF n
    <3>2. QED  BY <1>1, <1>4, <2>1, <3>1, LangPrefix
  <2>3. QED  BY <1>1, <1>2, <2>1, <2>2, LangUnique
<1>6. PICK u \in Targets(t, in_char) : in_char = 0 => u = 2
  <2>1. n \in Nat /\ n < Len(w) /\ in_char = w[n + 1]
    BY <1>1
  <2>2. WrittenAt(s, b, w, n, t)
    BY <1>4
  <2> HIDE DEF n
  <2>3. \E u \in Targets(t, w[n + 1]) :
          (w[n + 1] = 0 => u = 2) /\ WrittenAt(s, b, w, n + 1, u)
    BY <2>1, <2>2, WrittenGoes
  <2>4. QED  BY <2>1, <2>3, Zenon
<1>7. in_char = 0 /\ u = 2
  BY <1>2, <1>5, <1>6
<1>8. term = Closed(2)
  BY <1>2, <1>5, <1>6, <1>7, OneWay
<1>9. Closed(2) = "unknown"
  BY SMT DEF Closed
<1>10. QED  BY <1>7, <1>8, <1>9

(* At its end it returns a string. *)
LEMMA StopsAtEnd ==
  ASSUME ScannerInv, term # "scanning",
         NEW s \in Seq(Chars), NEW b, Pieces(b, s),
         text = (<<Quote>> \o b[Len(s)]) \o <<Quote>>
  PROVE  term = "str"
<1> DEFINE n == Len(text)
<1>1. IsText(text) /\ n \in Nat
  <2>1. IsText(text)
    BY DEF ScannerInv, LabelOK
  <2>2. QED  BY <2>1, TextFacts
<1>2. PICK r : /\ Lang(text, n, r)
               /\ \/ Targets(r, in_char) = {} /\ term = Closed(r)
                  \/ in_char = 0 /\ \E t \in Targets(r, 0) : term = Closed(t)
  BY DEF ScannerInv, LabelOK
<1>3. \A k \in 1 .. n : text[k] # 0
  BY <1>1, <1>2, LangNoZero
<1>4. PICK t : WrittenAt(s, b, text, n, t) /\ Lang(text, n, t)
  <2>1. n \in Nat /\ n <= Len(text)
    BY <1>1
  <2> HIDE DEF n
  <2>2. QED  BY <1>3, <2>1, WrittenLang
<1>5. r = t
  <2>1. n \in Nat /\ n <= Len(text) /\ Lang(text, n, r)
    BY <1>1, <1>2
  <2> HIDE DEF n
  <2>2. QED  BY <1>1, <1>4, <2>1, LangUnique
<1>6. t = 16
  <2>1. /\ Place(b, Len(s)) = n /\ Len(s) \in Nat
        /\ \A k \in 0 .. Len(s) - 1 : Place(b, k) \in Nat /\ Place(b, k) < n
    BY WrittenHas, LenProperties
  <2>2. \A k \in 0 .. Len(s) : k = Len(s) \/ k \in 0 .. Len(s) - 1
    BY <2>1
  <2>3. \A k \in 0 .. Len(s) : n + 1 # Place(b, k)
    BY <1>1, <2>1, <2>2
  <2>4. \A k \in 0 .. Len(s) - 1 : n # Place(b, k)
    BY <1>1, <2>1
  <2>5. n # 0
    <3>1. Len(b[Len(s)]) \in Nat
      <4>1. Len(s) \in 0 .. Len(s)
        BY <2>1
      <4>2. QED  BY <4>1, PiecesAre
    <3>2. QED  BY <2>1, <3>1 DEF Place
  <2>6. QED  BY <1>4, <2>3, <2>4, <2>5 DEF WrittenAt
<1>7. Targets(16, in_char) = {} /\ Targets(16, 0) = {}
  BY Rows DEF Row
<1>8. QED  BY <1>2, <1>5, <1>6, <1>7 DEF Closed

(* The strings that are written, and what a beginning of one is.           *)
LEMMA StringsAre ==
  ASSUME NEW s \in Strings
  PROVE  s \in Seq(Chars) /\ \E b : Pieces(b, s) /\ Written(s) = (<<Quote>> \o b[Len(s)]) \o <<Quote>>
<1>1. PICK m \in 0 .. MaxImage : s \in [1 .. m -> Alphabet]
  BY DEF Strings, SeqOf
<1>2. Alphabet \subseteq Chars
  BY AlphabetChars DEF Chars
<1>3. m \in Nat
  BY ImageAssumption DEF ImageAssumption
<1>4. s \in [1 .. m -> Chars]
  BY <1>1, <1>2
<1>5. s \in Seq(Chars)
  BY <1>3, <1>4
<1>6. Len(s) \in Nat
  BY <1>5, LenProperties
<1>7. QED  BY <1>5, <1>6, WrittenIs

LEMMA SeenIs ==
  ASSUME ScannerInv, term # "scanning", NEW w, w \in Seq(Chars), NEW n \in 1 .. Len(w),
         Seen = SubSeq(w, 1, n)
  PROVE  /\ Len(text) < Len(w) /\ in_char = w[Len(text) + 1]
         /\ \A k \in 1 .. Len(text) : text[k] = w[k]
<1>1. IsText(text) /\ in_char \in 0 .. 255 /\ Len(text) \in Nat /\ Len(w) \in Nat
  <2>1. IsText(text) /\ in_char \in 0 .. 255
    BY DEF ScannerInv, LabelOK
  <2>2. QED  BY <2>1, TextFacts, LenProperties
<1>2. Seen = Append(text, in_char)
  <2>1. in_char # Nothing
    BY <1>1 DEF Nothing
  <2>2. QED  BY <2>1 DEF Seen
<1>3. /\ Len(Seen) = Len(text) + 1 /\ Seen[Len(text) + 1] = in_char
      /\ \A k \in 1 .. Len(text) : Seen[k] = text[k]
  BY <1>1, <1>2, AppendProperties DEF IsText
<1>4. Len(Seen) = n /\ \A k \in 1 .. n : Seen[k] = w[k]
  <2>1. n \in Nat /\ n <= Len(w) /\ n >= 1
    BY <1>1
  <2>2. Len(SubSeq(w, 1, n)) = n /\ \A k \in 1 .. n : SubSeq(w, 1, n)[k] = w[k]
    BY <1>1, <2>1, SubSeqProperties
  <2>3. QED  BY <2>2
<1>5. n = Len(text) + 1 /\ Len(text) + 1 \in 1 .. n /\ \A k \in 1 .. Len(text) : k \in 1 .. n
  BY <1>1, <1>3, <1>4
<1>6. QED  BY <1>1, <1>3, <1>4, <1>5

(* ccljson.cc:57-100, 477-817 and ccljson_parse_actions.cc:168-281: of     *)
(* strings of any length, over any characters, what append_string writes   *)
(* is taken by the scanner up to its closing quote, returned as a string   *)
(* and decoded as the string it was given, unless the scanner meets a NUL, *)
(* which alone makes it give up; and the decoder's assert fails for the    *)
(* strings with an escaped slash and for no other.                         *)
THEOREM LexRoundTrip == Spec => []RoundTrip
<1>1. ScannerInv => (term # "scanning" /\ Seen \in Beginnings => term = "unknown" /\ in_char = 0)
  <2> SUFFICES ASSUME ScannerInv, term # "scanning", Seen \in Beginnings
               PROVE  term = "unknown" /\ in_char = 0
    OBVIOUS
  <2>1. PICK s \in Strings : \E n \in 1 .. Len(Written(s)) : Seen = SubSeq(Written(s), 1, n)
    BY DEF Beginnings, Images
  <2>2. PICK b : Pieces(b, s) /\ Written(s) = (<<Quote>> \o b[Len(s)]) \o <<Quote>>
    BY StringsAre
  <2> DEFINE w == Written(s)
  <2>3. s \in Seq(Chars) /\ w \in Seq(Chars)
    BY <2>2, StringsAre, WrittenHas
  <2>4. PICK n \in 1 .. Len(w) : Seen = SubSeq(w, 1, n)
    BY <2>1
  <2>5. w = (<<Quote>> \o b[Len(s)]) \o <<Quote>>
    BY <2>2
  <2> HIDE DEF w
  <2>6. /\ Len(text) < Len(w) /\ in_char = w[Len(text) + 1]
        /\ \A k \in 1 .. Len(text) : text[k] = w[k]
    BY <2>3, <2>4, SeenIs
  <2>7. QED  BY <2>2, <2>3, <2>5, <2>6, StopsAtZero
<1>2. ASSUME TripInv, ScannerInv, term # "scanning", text \in Images
      PROVE  /\ term = "str" /\ decode # "assert"
             /\ decode = "done" => \A p \in WrittenFor : p[1] = text => const_str = p[2]
  <2>1. ASSUME NEW s \in Strings, text = Written(s)
        PROVE  term = "str" /\ decode # "assert" /\ (decode = "done" => const_str = s)
    <3>1. s \in Seq(Chars)
      BY StringsAre
    <3>2. PICK b : Pieces(b, s) /\ text = (<<Quote>> \o b[Len(s)]) \o <<Quote>>
      BY <2>1, StringsAre
    <3>3. term = "str"
      BY <1>2, <3>1, <3>2, StopsAtEnd
    <3>4. Back(s, b)
      BY <1>2, <3>1, <3>2, <3>3 DEF TripInv, TripOK
    <3>5. Len(s) \in Nat
      BY <3>1, LenProperties
    <3>6. PICK k \in 0 .. Len(s) :
            /\ iter = Place(b, k)
            /\ const_str \in Seq(Chars) /\ Len(const_str) = k
            /\ \A j \in 1 .. k : const_str[j] = s[j]
      BY <3>4 DEF Back
    <3>7. ASSUME decode = "done"
          PROVE  const_str = s
      <4>1. iter = Len(text)
        BY <1>2, <3>7 DEF TripInv, LexInv
      <4>2. k = Len(s)
        <5>1. SUFFICES ASSUME k # Len(s)
                       PROVE  FALSE
          OBVIOUS
        <5>2. k \in 0 .. Len(s) - 1
          BY <3>5, <5>1
        <5>3. Place(b, k) < Len(text) /\ Place(b, k) \in Nat
          BY <3>1, <3>2, <5>2, WrittenHas
        <5>4. QED  BY <3>6, <4>1, <5>3
      <4>3. QED  BY <3>1, <3>6, <4>2, SeqEqual
    <3>8. QED  BY <3>3, <3>4, <3>7 DEF Back
  <2>2. PICK s \in Strings : text = Written(s)
    BY <1>2 DEF Images
  <2>3. ASSUME NEW p \in WrittenFor, p[1] = text
        PROVE  \E q \in Strings : text = Written(q) /\ p[2] = q
    BY <2>3 DEF WrittenFor
  <2>4. QED  BY <2>1, <2>2, <2>3
<1>3. LexInv /\ decode = "done" => term # "scanning"
  BY DEF LexInv
<1>4. TripInv /\ ScannerInv /\ DecodesAll => RoundTrip
  BY <1>1, <1>2, <1>3 DEF RoundTrip, TripInv
<1>5. QED  BY <1>4, TripInvariance, ScannerInvariance, LexDecodesAll, PTL
=============================================================================
