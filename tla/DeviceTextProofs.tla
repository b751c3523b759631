--------------------------- MODULE DeviceTextProofs ---------------------------
(***************************************************************************)
(* Proofs about the text of the device: after any updates the lines of the *)
(* levels are those that formatting the service again would give, as far   *)
(* as snprintf has not cut them, and no line is lost or added.  They hold  *)
(* for any number of levels, keys, users and counts that TextAssumption    *)
(* and WidthAssumption allow.                                              *)
(***************************************************************************)
EXTENDS DeviceText, FiniteSetTheorems, SequenceTheorems, TLAPS

-----------------------------------------------------------------------------
\* Recursion.

\* The least number principle, without induction: 0 .. y is a proper subset
\* of 0 .. x if y < x, and that order on finite sets is well-founded.
LEMMA Least ==
  ASSUME NEW S \in SUBSET Nat, S # {}
  PROVE  \E x \in S : \A y \in S : x <= y
  <1> DEFINE Below == {0 .. x : x \in S}
  <1>1. Below \subseteq FiniteSubsetsOf(Nat)
    <2>1. \A x \in S : IsFiniteSet(0 .. x) /\ 0 .. x \in SUBSET Nat
      BY FS_Interval
    <2> QED
      BY <2>1 DEF FiniteSubsetsOf
  <1>2. Below # {}
    OBVIOUS
  <1>3. IsWellFoundedOn(StrictSubsetOrdering(Nat), FiniteSubsetsOf(Nat))
    BY FS_StrictSubsetOrderingWellFounded
  <1> HIDE DEF Below
  <1>4. \E U \in Below : \A V \in Below :
          <<V, U>> \notin StrictSubsetOrdering(Nat)
    BY <1>1, <1>2, <1>3, WFMin
  <1>5. PICK x \in S : \A y \in S :
          <<0 .. y, 0 .. x>> \notin StrictSubsetOrdering(Nat)
    BY <1>4 DEF Below
  <1>6. ASSUME NEW y \in S, y < x PROVE FALSE
    <2>1. 0 .. y \subseteq 0 .. x /\ 0 .. y # 0 .. x
      BY <1>6
    <2>2. 0 .. y \in SUBSET Nat /\ 0 .. x \in SUBSET Nat
      OBVIOUS
    <2> QED
      BY <1>5, <2>1, <2>2 DEF StrictSubsetOrdering
  <1> QED
    BY <1>6

\* Complete induction: a set of numbers that contains every number of which it
\* contains all the smaller ones.
LEMMA Induction ==
  ASSUME NEW S, \A n \in Nat : (\A m \in Nat : m < n => m \in S) => n \in S
  PROVE  \A n \in Nat : n \in S
  <1> SUFFICES ASSUME {n \in Nat : n \notin S} # {} PROVE FALSE
    OBVIOUS
  <1>1. PICK x \in {n \in Nat : n \notin S} :
          \A y \in {n \in Nat : n \notin S} : x <= y
    BY Least
  <1> QED
    BY <1>1

LEMMA FixedPoint ==
  ASSUME NEW V, NEW G \in [[Nat -> V] -> [Nat -> V]], NEW f \in [Nat -> V],
         \A n \in Nat : f[n] = G[f][n]
  PROVE  f = G[f]
  <1>1. PICK h \in [Nat -> V] : h = G[f]
    OBVIOUS
  <1>2. \A n \in Nat : f[n] = h[n]
    BY <1>1
  <1>3. f = h
    BY <1>2
  <1> QED
    BY <1>1, <1>3

\* G computes each value of a function from the values for smaller numbers.
FromSmaller(V, G) ==
  \A f, g \in [Nat -> V] : \A n \in Nat :
    (\A m \in Nat : m < n => f[m] = g[m]) => G[f][n] = G[g][n]

\* Then there is a function with these values.
LEMMA Recursion ==
  ASSUME NEW V, NEW v \in V,
         NEW G \in [[Nat -> V] -> [Nat -> V]], FromSmaller(V, G)
  PROVE  \E f \in [Nat -> V] : f = G[f]
  <1> DEFINE Good(n, f) == /\ f \in [Nat -> V]
                           /\ \A m \in Nat : m < n => f[m] = G[f][m]
  <1>1. ASSUME NEW n \in Nat PROVE \E f : Good(n, f)
    <2> DEFINE S == {i \in Nat : \E f : Good(i, f)}
    <2>1. ASSUME NEW i \in Nat, \A j \in Nat : j < i => j \in S
          PROVE  i \in S
      <3>1. CASE i = 0
        <4> DEFINE c == [d \in Nat |-> v]
        <4>1. c \in [Nat -> V]
          OBVIOUS
        <4>2. \A m \in Nat : ~(m < 0)
          OBVIOUS
        <4> HIDE DEF c
        <4>3. Good(0, c)
          BY <4>1, <4>2
        <4> QED
          BY <3>1, <4>3
      <3>2. CASE i # 0
        <4>0. i - 1 \in Nat /\ i - 1 < i
          BY <3>2
        <4>1. \E f : Good(i - 1, f)
          BY <2>1, <4>0
        <4>2. PICK f : Good(i - 1, f)
          BY <4>1
        <4>3. G[f] \in [Nat -> V]
          BY <4>2
        <4>4. ASSUME NEW m \in Nat, m < i PROVE G[f][m] = G[G[f]][m]
          <5>1. \A j \in Nat : j < m => f[j] = G[f][j]
            BY <4>2, <4>4
          <5> QED
            BY <4>2, <4>3, <5>1 DEF FromSmaller
        <4>5. Good(i, G[f])
          BY <4>3, <4>4
        <4> QED
          BY <4>5
      <3> QED
        BY <3>1, <3>2
    <2> HIDE DEF S
    <2>2. n \in S
      BY <2>1, Induction
    <2> QED
      BY <2>2 DEF S
  <1>2. ASSUME NEW n \in Nat, NEW f, NEW g, Good(n, f), Good(n, g), NEW m \in Nat,
               m < n
        PROVE  f[m] = g[m]
    <2> DEFINE S == {i \in Nat : i < n => f[i] = g[i]}
    <2>1. ASSUME NEW i \in Nat, \A j \in Nat : j < i => j \in S
          PROVE  i \in S
      <3> SUFFICES ASSUME i < n PROVE f[i] = g[i]
        OBVIOUS
      <3>1. \A j \in Nat : j < i => f[j] = g[j]
        BY <2>1
      <3>2. G[f][i] = G[g][i]
        BY <1>2, <3>1 DEF FromSmaller
      <3> QED
        BY <1>2, <3>2
    <2> HIDE DEF S
    <2>2. m \in S
      BY <2>1, Induction
    <2> QED
      BY <1>2, <2>2 DEF S
  <1> DEFINE At(n) == CHOOSE f : Good(n + 1, f)
  <1>3. ASSUME NEW n \in Nat PROVE Good(n + 1, At(n))
    <2>1. n + 1 \in Nat
      OBVIOUS
    <2>2. \E f : Good(n + 1, f)
      BY <1>1, <2>1
    <2> HIDE DEF Good
    <2> QED
      BY <2>2
  <1> HIDE DEF At
  <1>4. PICK F \in [Nat -> V] : \A n \in Nat : F[n] = At(n)[n]
    <2>1. \A n \in Nat : At(n)[n] \in V
      BY <1>3
    <2>2. [n \in Nat |-> At(n)[n]] \in [Nat -> V]
      BY <2>1
    <2> QED
      BY <2>2
  <1>5. ASSUME NEW n \in Nat PROVE F[n] = G[F][n]
    <2>1. ASSUME NEW m \in Nat, m < n PROVE F[m] = At(n)[m]
      <3>1. Good(m + 1, At(m)) /\ Good(m + 1, At(n))
        BY <1>3, <2>1
      <3> HIDE DEF Good
      <3>2. m + 1 \in Nat /\ m < m + 1
        OBVIOUS
      <3> QED
        BY <1>2, <1>4, <3>1, <3>2
    <2>2. At(n) \in [Nat -> V] /\ At(n)[n] = G[At(n)][n]
      BY <1>3
    <2> HIDE DEF Good
    <2>3. G[F][n] = G[At(n)][n]
      BY <1>4, <2>1, <2>2 DEF FromSmaller
    <2> QED
      BY <1>4, <2>2, <2>3
  <1>6. F = G[F]
    BY <1>5, FixedPoint
  <1> QED
    BY <1>6

-----------------------------------------------------------------------------
\* Numbers and their characters.

LEMMA Tenth ==
  ASSUME NEW n \in Nat
  PROVE  /\ n \div 10 \in Nat /\ n % 10 \in Digit
         /\ n > 0 => n \div 10 < n
         /\ n < 10 => n \div 10 = 0
         /\ n >= 10 => n \div 10 > 0
         /\ \A m \in Nat : m <= n => m \div 10 <= n \div 10
  BY DEF Digit

LEMMA DigitsValue ==
  \A n \in Nat :
    /\ n < 10 => DigitsOf[n] = <<n>>
    /\ n >= 10 => DigitsOf[n] = Append(DigitsOf[n \div 10], n % 10)
    /\ DigitsOf[n] \in Seq(Digit)
  <1> DEFINE V == Seq(Digit)
             G == [f \in [Nat -> V] |->
                     [n \in Nat |-> IF n < 10 THEN <<n>>
                                    ELSE Append(f[n \div 10], n % 10)]]
  <1>1. \A n \in Nat : n < 10 => <<n>> \in V
    BY DEF Digit
  <1>2. \A s \in V, d \in Digit : Append(s, d) \in V
    OBVIOUS
  <1>3. << >> \in V
    OBVIOUS
  <1> HIDE DEF V
  <1>4. ASSUME NEW f \in [Nat -> V], NEW n \in Nat
        PROVE  (IF n < 10 THEN <<n>> ELSE Append(f[n \div 10], n % 10)) \in V
    BY <1>1, <1>2, Tenth
  <1>5. G \in [[Nat -> V] -> [Nat -> V]]
    BY <1>4
  <1>6. FromSmaller(V, G)
    <2> SUFFICES ASSUME NEW f \in [Nat -> V], NEW g \in [Nat -> V], NEW n \in Nat,
                        \A m \in Nat : m < n => f[m] = g[m]
                 PROVE  G[f][n] = G[g][n]
      BY DEF FromSmaller
    <2>1. n >= 10 => f[n \div 10] = g[n \div 10]
      BY Tenth
    <2> QED
      BY <2>1
  <1>7. PICK f \in [Nat -> V] : f = G[f]
    <2> HIDE DEF G
    <2> QED
      BY <1>3, <1>5, <1>6, Recursion
  <1>8. f = [n \in Nat |-> IF n < 10 THEN <<n>>
                           ELSE Append(f[n \div 10], n % 10)]
    BY <1>7
  <1>9. DigitsOf = [n \in Nat |-> IF n < 10 THEN <<n>>
                                  ELSE Append(DigitsOf[n \div 10], n % 10)]
    BY <1>8 DEF DigitsOf
  <1> DEFINE S == {n \in Nat : DigitsOf[n] \in V}
  <1>10. \A n \in Nat :
           /\ n < 10 => DigitsOf[n] = <<n>>
           /\ n >= 10 => DigitsOf[n] = Append(DigitsOf[n \div 10], n % 10)
    <2> SUFFICES ASSUME NEW n \in Nat
                 PROVE  /\ n < 10 => DigitsOf[n] = <<n>>
                        /\ n >= 10 =>
                             DigitsOf[n] = Append(DigitsOf[n \div 10], n % 10)
      OBVIOUS
    <2>1. DigitsOf[n] = IF n < 10 THEN <<n>>
                        ELSE Append(DigitsOf[n \div 10], n % 10)
      BY <1>9, Zenon
    <2>2. n >= 10 => ~(n < 10)
      OBVIOUS
    <2> QED
      BY <2>1, <2>2, Zenon
  <1>11. ASSUME NEW n \in Nat, \A m \in Nat : m < n => m \in S PROVE n \in S
    <2>1. n >= 10 => DigitsOf[n \div 10] \in V
      BY <1>11, Tenth
    <2>2. CASE n < 10
      BY <1>1, <1>10, <2>2
    <2>3. CASE n >= 10
      <3>1. n % 10 \in Digit /\ DigitsOf[n \div 10] \in V
        BY <2>1, <2>3, Tenth
      <3>2. Append(DigitsOf[n \div 10], n % 10) \in V
        BY <1>2, <3>1
      <3> QED
        BY <1>10, <2>3, <3>2
    <2> QED
      BY <2>2, <2>3
  <1> HIDE DEF S
  <1>12. \A n \in Nat : n \in S
    BY <1>11, Induction
  <1> QED
    BY <1>10, <1>12 DEF S, V

LEMMA DivisionsValue ==
  \A n \in Nat :
    /\ Divisions[n] = IF n = 0 THEN 0 ELSE Divisions[n \div 10] + 1
    /\ Divisions[n] \in Nat
  <1> DEFINE G == [f \in [Nat -> Nat] |->
                     [n \in Nat |-> IF n = 0 THEN 0 ELSE f[n \div 10] + 1]]
  <1>1. ASSUME NEW f \in [Nat -> Nat], NEW n \in Nat
        PROVE  (IF n = 0 THEN 0 ELSE f[n \div 10] + 1) \in Nat
    BY Tenth
  <1>2. G \in [[Nat -> Nat] -> [Nat -> Nat]]
    BY <1>1
  <1>3. FromSmaller(Nat, G)
    <2> SUFFICES ASSUME NEW f \in [Nat -> Nat], NEW g \in [Nat -> Nat],
                        NEW n \in Nat, \A m \in Nat : m < n => f[m] = g[m]
                 PROVE  G[f][n] = G[g][n]
      BY DEF FromSmaller
    <2>1. n > 0 => f[n \div 10] = g[n \div 10]
      BY Tenth
    <2> QED
      BY <2>1
  <1>4. PICK f \in [Nat -> Nat] : f = G[f]
    <2> HIDE DEF G
    <2> QED
      BY <1>2, <1>3, Recursion
  <1>5. f = [n \in Nat |-> IF n = 0 THEN 0 ELSE f[n \div 10] + 1]
    BY <1>4
  <1>6. Divisions = [n \in Nat |-> IF n = 0 THEN 0 ELSE Divisions[n \div 10] + 1]
    BY <1>5 DEF Divisions
  <1>7. \A n \in Nat : Divisions[n] = IF n = 0 THEN 0 ELSE Divisions[n \div 10] + 1
    BY <1>6
  <1> DEFINE S == {n \in Nat : Divisions[n] \in Nat}
  <1>8. ASSUME NEW n \in Nat, \A m \in Nat : m < n => m \in S PROVE n \in S
    <2>1. n > 0 => Divisions[n \div 10] \in Nat
      BY <1>8, Tenth
    <2> QED
      BY <1>7, <2>1
  <1> HIDE DEF S
  <1>9. \A n \in Nat : n \in S
    BY <1>8, Induction
  <1> QED
    BY <1>7, <1>9 DEF S

\* countCharsOfNumber counts the characters that %d writes.
LEMMA DigitsCounted ==
  \A n \in Nat : Len(DigitsOf[n]) = IF n = 0 THEN 1 ELSE Divisions[n]
  <1> DEFINE S == {n \in Nat : Len(DigitsOf[n]) = IF n = 0 THEN 1 ELSE Divisions[n]}
  <1>1. ASSUME NEW n \in Nat, \A m \in Nat : m < n => m \in S PROVE n \in S
    <2>1. CASE n < 10
      <3>1. DigitsOf[n] = <<n>> /\ Len(<<n>>) = 1
        BY <2>1, DigitsValue
      <3>2. n # 0 => Divisions[n] = 1
        BY <2>1, DivisionsValue, Tenth
      <3> QED
        BY <3>1, <3>2
    <2>2. CASE n >= 10
      <3> DEFINE m == n \div 10
      <3>1. m \in Nat /\ m < n /\ m > 0 /\ n % 10 \in Digit
        BY <2>2, Tenth
      <3> HIDE DEF m
      <3>2. Len(DigitsOf[m]) = Divisions[m]
        BY <1>1, <3>1
      <3>3. DigitsOf[n] = Append(DigitsOf[m], n % 10) /\ DigitsOf[m] \in Seq(Digit)
        BY <2>2, <3>1, DigitsValue DEF m
      <3>4. Len(DigitsOf[n]) = Len(DigitsOf[m]) + 1
        BY <3>1, <3>3
      <3>5. Divisions[n] = Divisions[m] + 1
        BY <2>2, DivisionsValue DEF m
      <3> QED
        BY <2>2, <3>2, <3>4, <3>5
    <2> QED
      BY <2>1, <2>2
  <1> HIDE DEF S
  <1>2. \A n \in Nat : n \in S
    BY <1>1, Induction
  <1> QED
    BY <1>2 DEF S

LEMMA DivisionsGrow ==
  \A n \in Nat : \A m \in Nat : m <= n => Divisions[m] <= Divisions[n]
  <1> DEFINE S == {n \in Nat : \A m \in Nat : m <= n => Divisions[m] <= Divisions[n]}
  <1>1. ASSUME NEW n \in Nat, \A i \in Nat : i < n => i \in S PROVE n \in S
    <2> SUFFICES ASSUME NEW m \in Nat, m <= n PROVE Divisions[m] <= Divisions[n]
      OBVIOUS
    <2>1. CASE n = 0
      BY <2>1, DivisionsValue
    <2>2. CASE n # 0
      <3>1. n \div 10 \in S /\ m \div 10 \in Nat /\ m \div 10 <= n \div 10
        BY <1>1, <2>2, Tenth
      <3>2. Divisions[m \div 10] <= Divisions[n \div 10]
        BY <3>1
      <3>3. Divisions[n] = Divisions[n \div 10] + 1 /\ n \div 10 \in Nat
        BY <2>2, DivisionsValue, Tenth
      <3>4. /\ Divisions[m] = IF m = 0 THEN 0 ELSE Divisions[m \div 10] + 1
            /\ Divisions[m \div 10] \in Nat /\ Divisions[n \div 10] \in Nat
        BY <3>1, <3>3, DivisionsValue
      <3> QED
        BY <3>2, <3>3, <3>4
    <2> QED
      BY <2>1, <2>2
  <1> HIDE DEF S
  <1>2. \A n \in Nat : n \in S
    BY <1>1, Induction
  <1> QED
    BY <1>2 DEF S

-----------------------------------------------------------------------------
\* Texts, their newlines and their tabs.

Text == Seq(Character)
Lf(x) == Cardinality(NewlinesOf(x))       \* number of newlines
NoNewline(x) == \A i \in 1 .. Len(x) : x[i] # NEWLINE
NoTab(x)     == \A i \in 1 .. Len(x) : x[i] # TAB
EndsWithTab(x) == Len(x) > 0 /\ x[Len(x)] = TAB
StartsWithNewline(x) == x # << >> /\ x[1] = NEWLINE

LEMMA TextType ==
  ASSUME NEW x \in Text
  PROVE  /\ Len(x) \in Nat /\ DOMAIN x = 1 .. Len(x)
         /\ \A i \in 1 .. Len(x) : x[i] \in Character
         /\ NewlinesOf(x) \in SUBSET (1 .. Len(x))
         /\ IsFiniteSet(NewlinesOf(x)) /\ Lf(x) \in Nat
  <1>1. /\ Len(x) \in Nat /\ DOMAIN x = 1 .. Len(x)
        /\ \A i \in 1 .. Len(x) : x[i] \in Character
    BY LenProperties, ElementOfSeq DEF Text
  <1>2. NewlinesOf(x) \in SUBSET (1 .. Len(x))
    BY <1>1 DEF NewlinesOf
  <1>3. IsFiniteSet(1 .. Len(x))
    BY <1>1, FS_Interval
  <1>4. IsFiniteSet(NewlinesOf(x))
    BY <1>2, <1>3, FS_Subset
  <1> QED
    BY <1>1, <1>2, <1>4, FS_CardinalityType DEF Lf

LEMMA Concat ==
  ASSUME NEW a \in Text, NEW b \in Text
  PROVE  /\ a \o b \in Text /\ Len(a \o b) = Len(a) + Len(b)
         /\ \A i \in 1 .. Len(a) : (a \o b)[i] = a[i]
         /\ \A i \in 1 .. Len(b) : (a \o b)[Len(a) + i] = b[i]
  <1>1. Len(a) \in Nat /\ Len(b) \in Nat
    BY TextType
  <1>2. /\ a \o b \in Text /\ Len(a \o b) = Len(a) + Len(b)
        /\ \A i \in 1 .. Len(a) + Len(b) :
             (a \o b)[i] = IF i <= Len(a) THEN a[i] ELSE b[i - Len(a)]
    BY ConcatProperties DEF Text
  <1>3. \A i \in 1 .. Len(a) : (a \o b)[i] = a[i]
    BY <1>1, <1>2
  <1>4. ASSUME NEW i \in 1 .. Len(b) PROVE (a \o b)[Len(a) + i] = b[i]
    <2>1. /\ Len(a) + i \in 1 .. Len(a) + Len(b) /\ ~(Len(a) + i <= Len(a))
          /\ (Len(a) + i) - Len(a) = i
      BY <1>1
    <2> QED
      BY <1>2, <2>1
  <1> QED
    BY <1>2, <1>3, <1>4

LEMMA Associative ==
  ASSUME NEW a \in Text, NEW b \in Text, NEW c \in Text
  PROVE  (a \o b) \o c = a \o (b \o c)
  BY ConcatAssociative DEF Text

LEMMA EmptyText ==
  /\ << >> \in Text /\ Len(<< >>) = 0 /\ NoNewline(<< >>) /\ NoTab(<< >>)
  /\ \A a \in Text : a \o << >> = a /\ << >> \o a = a
  BY EmptySeq, ConcatEmptySeq DEF Text, NoNewline, NoTab

LEMMA OneCharacter ==
  ASSUME NEW c \in Character
  PROVE  <<c>> \in Text /\ Len(<<c>>) = 1 /\ <<c>>[1] = c
  BY DEF Text

LEMMA Constants ==
  /\ TAB \in Character /\ NEWLINE \in Character /\ MINUS \in Character
  /\ TAB # NEWLINE /\ MINUS # TAB /\ MINUS # NEWLINE
  /\ \A d \in Digit : d \in Character /\ d # TAB /\ d # NEWLINE
  BY DEF Character, Digit, TAB, NEWLINE, MINUS, LETTER

\* What a concatenation lacks, and how it ends.
LEMMA ConcatLacks ==
  ASSUME NEW a \in Text, NEW b \in Text
  PROVE  /\ NoNewline(a \o b) <=> NoNewline(a) /\ NoNewline(b)
         /\ NoTab(a \o b) <=> NoTab(a) /\ NoTab(b)
         /\ EndsWithTab(b) => EndsWithTab(a \o b)
  <1>1. Len(a) \in Nat /\ Len(b) \in Nat
    BY TextType
  <1> DEFINE x == a \o b
  <1>2. /\ Len(x) = Len(a) + Len(b)
        /\ \A i \in 1 .. Len(a) : x[i] = a[i]
        /\ \A i \in 1 .. Len(b) : x[Len(a) + i] = b[i]
    BY Concat
  <1> HIDE DEF x
  <1>3. ASSUME NEW i \in 1 .. Len(x)
        PROVE  i \in 1 .. Len(a) \/ \E j \in 1 .. Len(b) : i = Len(a) + j
    <2>1. i > Len(a) => i - Len(a) \in 1 .. Len(b) /\ i = Len(a) + (i - Len(a))
      BY <1>1, <1>2
    <2> QED
      BY <1>1, <2>1
  <1>4. /\ \A i \in 1 .. Len(a) : i \in 1 .. Len(x)
        /\ \A i \in 1 .. Len(b) : Len(a) + i \in 1 .. Len(x)
    BY <1>1, <1>2
  <1>5. NoNewline(x) <=> NoNewline(a) /\ NoNewline(b)
    BY <1>2, <1>3, <1>4 DEF NoNewline
  <1>6. NoTab(x) <=> NoTab(a) /\ NoTab(b)
    BY <1>2, <1>3, <1>4 DEF NoTab
  <1>7. EndsWithTab(b) => EndsWithTab(x)
    BY <1>1, <1>2 DEF EndsWithTab
  <1> QED
    BY <1>5, <1>6, <1>7 DEF x

LEMMA NoLf ==
  ASSUME NEW x \in Text, NoNewline(x)
  PROVE  NewlinesOf(x) = {} /\ Lf(x) = 0
  <1>1. NewlinesOf(x) = {}
    BY TextType DEF NewlinesOf, NoNewline
  <1> QED
    BY <1>1, FS_EmptySet DEF Lf

LEMMA OneLf == Lf(<<NEWLINE>>) = 1
  <1>1. NewlinesOf(<<NEWLINE>>) = {1}
    BY Constants, OneCharacter, TextType DEF NewlinesOf
  <1> QED
    BY <1>1, FS_Singleton DEF Lf

LEMMA LfConcat ==
  ASSUME NEW a \in Text, NEW b \in Text
  PROVE  Lf(a \o b) = Lf(a) + Lf(b)
  <1> DEFINE x == a \o b
             A == NewlinesOf(a)
             B == NewlinesOf(b)
             C == NewlinesOf(x) \ A
             g == [i \in B |-> Len(a) + i]
  <1>1. /\ Len(a) \in Nat /\ Len(b) \in Nat /\ x \in Text
        /\ Len(x) = Len(a) + Len(b)
        /\ \A i \in 1 .. Len(a) : x[i] = a[i]
        /\ \A i \in 1 .. Len(b) : x[Len(a) + i] = b[i]
    BY TextType, Concat
  <1>2. /\ A \in SUBSET (1 .. Len(a)) /\ B \in SUBSET (1 .. Len(b))
        /\ IsFiniteSet(A) /\ IsFiniteSet(B) /\ IsFiniteSet(NewlinesOf(x))
        /\ NewlinesOf(x) \in SUBSET (1 .. Len(x))
        /\ DOMAIN a = 1 .. Len(a) /\ DOMAIN b = 1 .. Len(b)
        /\ DOMAIN x = 1 .. Len(x)
    BY <1>1, TextType
  <1> HIDE DEF x
  <1>3. A \subseteq NewlinesOf(x)
    BY <1>1, <1>2 DEF NewlinesOf
  <1>4. ASSUME NEW i \in C PROVE \E j \in B : i = Len(a) + j
    <2>1. i \in 1 .. Len(x) /\ x[i] = NEWLINE
      BY <1>2 DEF NewlinesOf
    <2>2. ~(i <= Len(a))
      BY <1>1, <1>2, <1>4, <2>1 DEF NewlinesOf
    <2>3. i - Len(a) \in 1 .. Len(b) /\ i = Len(a) + (i - Len(a))
      BY <1>1, <2>1, <2>2
    <2>4. i - Len(a) \in B
      BY <1>1, <1>2, <2>1, <2>3 DEF NewlinesOf
    <2> QED
      BY <2>3, <2>4
  <1>5. ASSUME NEW j \in B PROVE Len(a) + j \in C
    <2>1. j \in 1 .. Len(b) /\ b[j] = NEWLINE
      BY <1>2 DEF NewlinesOf
    <2>2. Len(a) + j \in 1 .. Len(x) /\ x[Len(a) + j] = NEWLINE
          /\ Len(a) + j \notin 1 .. Len(a)
      BY <1>1, <2>1
    <2> QED
      BY <1>2, <2>2 DEF NewlinesOf
  <1>6. g \in Bijection(B, C)
    <2> HIDE DEF C
    <2>1. g \in [B -> C]
      BY <1>5
    <2>2. \A i, j \in B : g[i] = g[j] => i = j
      BY <1>1, <1>2
    <2>3. \A y \in C : \E i \in B : g[i] = y
      BY <1>4
    <2> HIDE DEF g, B
    <2> QED
      BY <2>1, <2>2, <2>3 DEF Bijection, Injection, Surjection, IsInjective
  <1>7. IsFiniteSet(C) /\ Cardinality(C) = Cardinality(B)
    <2>1. ExistsBijection(B, C)
      BY <1>6 DEF ExistsBijection
    <2> QED
      BY <1>2, <2>1, FS_Bijection
  <1>8. NewlinesOf(x) = A \cup C /\ A \cap C = {}
    BY <1>3
  <1> HIDE DEF A, B, C
  <1>9. Cardinality(A \cup C) = Cardinality(A) + Cardinality(C) - Cardinality(A \cap C)
    BY <1>2, <1>7, FS_Union
  <1>10. Cardinality(A) \in Nat /\ Cardinality(B) \in Nat
    BY <1>2, FS_CardinalityType
  <1> QED
    BY <1>7, <1>8, <1>9, <1>10, FS_EmptySet DEF Lf, x, A, B

\* The newline after a part with one newline less is the one that is searched.
LEMMA LineEndFound ==
  ASSUME NEW level \in Nat, NEW c \in Text, NEW t \in Text,
         Lf(c) = level + 1, t # << >>, t[1] = NEWLINE
  PROVE  LineEnd(c \o t, level) = Len(c) + 1
  <1> DEFINE x == c \o t
             N == NewlinesOf(x)
             UpTo(p) == {q \in N : q <= p}
             e == Len(c) + 1
  <1>1. /\ Len(c) \in Nat /\ Len(t) \in Nat /\ x \in Text
        /\ Len(x) = Len(c) + Len(t)
        /\ \A i \in 1 .. Len(c) : x[i] = c[i]
        /\ \A i \in 1 .. Len(t) : x[Len(c) + i] = t[i]
    BY TextType, Concat
  <1>2. Len(t) > 0
    BY <1>1, EmptySeq DEF Text
  <1>3. /\ IsFiniteSet(N) /\ N \in SUBSET (1 .. Len(x)) /\ DOMAIN x = 1 .. Len(x)
        /\ NewlinesOf(c) \in SUBSET (1 .. Len(c)) /\ IsFiniteSet(NewlinesOf(c))
        /\ DOMAIN c = 1 .. Len(c)
    BY <1>1, TextType
  <1> HIDE DEF x
  <1>4. e \in N
    BY <1>1, <1>2, <1>3 DEF NewlinesOf
  <1>5. UpTo(e) = NewlinesOf(c) \cup {e}
    <2>1. ASSUME NEW q \in N, q <= e, q # e PROVE q \in NewlinesOf(c)
      BY <1>1, <1>3, <2>1 DEF NewlinesOf
    <2>2. ASSUME NEW q \in NewlinesOf(c) PROVE q \in N /\ q <= e
      BY <1>1, <1>3, <2>2 DEF NewlinesOf
    <2> HIDE DEF N, e
    <2> QED
      BY <1>4, <2>1, <2>2 DEF e
  <1>6. Cardinality(UpTo(e)) = level + 2 /\ IsFiniteSet(UpTo(e))
    <2>1. e \notin NewlinesOf(c)
      BY <1>1, <1>3
    <2> DEFINE C == NewlinesOf(c)
    <2>2. IsFiniteSet(C) /\ Cardinality(C) = level + 1 /\ e \notin C
      BY <1>3, <2>1 DEF Lf
    <2> HIDE DEF UpTo, e, C
    <2>3. /\ IsFiniteSet(C \cup {e})
          /\ Cardinality(C \cup {e}) = Cardinality(C) + 1
      BY <2>2, FS_AddElement
    <2>4. UpTo(e) = C \cup {e}
      BY <1>5 DEF C
    <2>5. Cardinality(UpTo(e)) = level + 2
      BY <2>2, <2>3, <2>4
    <2>6. IsFiniteSet(UpTo(e))
      BY <2>3, <2>4
    <2> QED
      BY <2>5, <2>6
  <1>7. ASSUME NEW p \in N, NEW q \in N, p < q
        PROVE  Cardinality(UpTo(p)) # Cardinality(UpTo(q))
    <2>1. UpTo(p) \subseteq UpTo(q) /\ q \in UpTo(q) /\ q \notin UpTo(p)
      BY <1>1, <1>3, <1>7
    <2>2. IsFiniteSet(UpTo(q))
      BY <1>3, FS_Subset
    <2> HIDE DEF UpTo
    <2> QED
      BY <2>1, <2>2, FS_Subset
  <1>8. Cardinality(N) >= level + 2
    <2>1. UpTo(e) \in SUBSET N
      OBVIOUS
    <2>2. Cardinality(UpTo(e)) <= Cardinality(N) /\ Cardinality(N) \in Nat
      <3> HIDE DEF UpTo, N
      <3> QED
        BY <1>3, <2>1, FS_Subset, FS_CardinalityType
    <2> HIDE DEF UpTo, N
    <2> QED
      BY <1>6, <2>2
  <1>9. \A p \in N : Cardinality(UpTo(p)) = level + 2 => p = e
    <2>1. ASSUME NEW p \in N, p # e PROVE p < e \/ e < p
      BY <1>1, <1>3, <2>1
    <2> HIDE DEF N, e, UpTo
    <2> QED
      BY <1>4, <1>6, <1>7, <2>1
  <1>10. ~(Cardinality(N) < level + 2)
    <2>1. Cardinality(N) \in Nat
      BY <1>3, FS_CardinalityType
    <2> HIDE DEF N
    <2> QED
      BY <1>8, <2>1
  <1>11. LineEnd(x, level) = CHOOSE p \in N : Cardinality(UpTo(p)) = level + 2
    BY <1>10 DEF LineEnd
  <1>12. LineEnd(x, level) = e
    <2> HIDE DEF N, e, UpTo
    <2> QED
      BY <1>4, <1>6, <1>9, <1>11
  <1> QED
    BY <1>12 DEF x

LEMMA LastTabFound ==
  ASSUME NEW c \in Text, NEW d \in Text, NEW t \in Text, EndsWithTab(c), NoTab(d)
  PROVE  LastTab(c \o d \o t, Len(c) + Len(d) + 1) = Len(c)
  <1> DEFINE x == c \o d \o t
             e == Len(c) + Len(d) + 1
             T == {p \in 1 .. e - 1 : x[p] = TAB}
  <1>1. /\ Len(c) \in Nat /\ Len(d) \in Nat /\ c \o d \in Text
        /\ Len(c \o d) = Len(c) + Len(d)
        /\ \A i \in 1 .. Len(c) : (c \o d)[i] = c[i]
        /\ \A i \in 1 .. Len(d) : (c \o d)[Len(c) + i] = d[i]
    BY TextType, Concat
  <1>2. \A i \in 1 .. Len(c) + Len(d) : x[i] = (c \o d)[i]
    BY <1>1, Concat
  <1> HIDE DEF x
  <1>3. Len(c) \in T
    BY <1>1, <1>2 DEF EndsWithTab
  <1>4. ASSUME NEW p \in T PROVE p <= Len(c)
    <2> SUFFICES ASSUME p > Len(c) PROVE FALSE
      BY <1>1
    <2>1. p - Len(c) \in 1 .. Len(d) /\ Len(c) + (p - Len(c)) = p
      BY <1>1
    <2>2. x[p] = d[p - Len(c)]
      BY <1>1, <1>2, <2>1
    <2> QED
      BY <2>1, <2>2 DEF NoTab
  <1>5. Max(T) = Len(c)
    <2>1. \A p \in T : p \in Nat
      BY <1>1
    <2> HIDE DEF T
    <2>2. \A y \in T : Len(c) >= y
      BY <1>1, <1>4, <2>1
    <2>3. \A m \in T : (\A y \in T : m >= y) => m = Len(c)
      BY <1>1, <1>3, <1>4, <2>1
    <2> QED
      BY <1>3, <2>2, <2>3 DEF Max
  <1> QED
    BY <1>5 DEF LastTab, x

LEMMA WholeText ==
  ASSUME NEW x \in Text, NEW n \in Nat, Len(x) <= n
  PROVE  Cut(x, n) = x
  <1>1. Len(x) \in Nat
    BY TextType
  <1>2. Min({Len(x), n}) = Len(x)
    BY <1>1 DEF Min
  <1> QED
    BY <1>2, SubSeqFull DEF Cut, Text

LEMMA Parts ==
  ASSUME NEW a \in Text, NEW b \in Text
  PROVE  /\ SubSeq(a \o b, 1, Len(a)) = a
         /\ SubSeq(a \o b, Len(a) + 1, Len(a) + Len(b)) = b
  <1> DEFINE x == a \o b
             s == SubSeq(x, 1, Len(a))
             u == SubSeq(x, Len(a) + 1, Len(a) + Len(b))
  <1>1. /\ Len(a) \in Nat /\ Len(b) \in Nat /\ x \in Text
        /\ Len(x) = Len(a) + Len(b)
        /\ \A i \in 1 .. Len(a) : x[i] = a[i]
        /\ \A i \in 1 .. Len(b) : x[Len(a) + i] = b[i]
        /\ \A i \in 1 .. Len(x) : x[i] \in Character
    BY TextType, Concat
  <1> HIDE DEF x
  <1>2. s = a
    <2>1. \A i \in 1 .. Len(a) : x[i] \in Character
      BY <1>1
    <2>2. /\ s \in Text /\ Len(s) = IF 1 <= Len(a) THEN Len(a) - 1 + 1 ELSE 0
          /\ \A i \in 1 .. Len(a) - 1 + 1 : s[i] = x[1 + i - 1]
      BY <1>1, <2>1, SubSeqProperties DEF Text
    <2> HIDE DEF s
    <2>3. Len(s) = Len(a)
      BY <1>1, <2>2
    <2>4. \A i \in 1 .. Len(s) : s[i] = a[i]
      BY <1>1, <2>2, <2>3
    <2> QED
      BY <2>2, <2>3, <2>4, SeqEqual DEF Text
  <1>3. u = b
    <2> DEFINE m == Len(a) + 1
               n == Len(a) + Len(b)
    <2>1. m \in Int /\ n \in Int /\ \A i \in m .. n : x[i] \in Character
      BY <1>1
    <2>2. /\ u \in Text /\ Len(u) = IF m <= n THEN n - m + 1 ELSE 0
          /\ \A i \in 1 .. n - m + 1 : u[i] = x[m + i - 1]
      BY <2>1, SubSeqProperties DEF Text
    <2> HIDE DEF u
    <2>3. Len(u) = Len(b)
      BY <1>1, <2>2
    <2>4. ASSUME NEW i \in 1 .. Len(u) PROVE u[i] = b[i]
      <3>1. i \in 1 .. n - m + 1 /\ m + i - 1 = Len(a) + i /\ i \in 1 .. Len(b)
        BY <1>1, <2>3
      <3> HIDE DEF m, n
      <3> QED
        BY <1>1, <2>2, <3>1
    <2> QED
      BY <2>2, <2>3, <2>4, SeqEqual DEF Text
  <1> QED
    BY <1>2, <1>3 DEF x

-----------------------------------------------------------------------------
\* What %d writes.

LEMMA DigitText ==
  ASSUME NEW s \in Seq(Digit)
  PROVE  s \in Text /\ NoTab(s) /\ NoNewline(s)
  <1>1. Len(s) \in Nat /\ \A i \in 1 .. Len(s) : s[i] \in Digit
    BY LenProperties, ElementOfSeq
  <1>2. NoTab(s) /\ NoNewline(s)
    BY <1>1, Constants DEF NoTab, NoNewline
  <1>3. Digit \subseteq Character
    BY Constants
  <1>4. s \in Text
    BY <1>3 DEF Text
  <1> QED
    BY <1>2, <1>4

\* countCharsOfNumber is the number of characters that %d writes; none of them
\* is a tab or a newline.
THEOREM CharsCounted ==
  \A n \in Int :
    /\ Decimal(n) \in Text /\ NoTab(Decimal(n)) /\ NoNewline(Decimal(n))
    /\ Len(Decimal(n)) = countCharsOfNumber(n) /\ countCharsOfNumber(n) \in Nat \ {0}
  <1> SUFFICES ASSUME NEW n \in Int
               PROVE  /\ Decimal(n) \in Text /\ NoTab(Decimal(n))
                      /\ NoNewline(Decimal(n))
                      /\ Len(Decimal(n)) = countCharsOfNumber(n)
                      /\ countCharsOfNumber(n) \in Nat \ {0}
    OBVIOUS
  <1> DEFINE a == Abs(n)
             d == DigitsOf[a]
  <1>1. a \in Nat /\ (a = 0 <=> n = 0)
    BY DEF Abs
  <1> HIDE DEF a
  <1>2. d \in Seq(Digit) /\ Len(d) = IF a = 0 THEN 1 ELSE Divisions[a]
    BY <1>1, DigitsValue, DigitsCounted
  <1>3. d \in Text /\ NoTab(d) /\ NoNewline(d) /\ Len(d) \in Nat
    BY <1>2, DigitText, LenProperties
  <1>4. a # 0 => Divisions[a] \in Nat \ {0}
    <2>1. a # 0 => Divisions[a] = Divisions[a \div 10] + 1 /\ a \div 10 \in Nat
      BY <1>1, DivisionsValue, Tenth
    <2>2. a # 0 => Divisions[a \div 10] \in Nat
      BY <2>1, DivisionsValue
    <2> QED
      BY <2>1, <2>2
  <1> HIDE DEF d
  <1>5. CASE n < 0
    <2>1. Decimal(n) = <<MINUS>> \o d
      BY <1>5 DEF Decimal, d, a
    <2>2. /\ <<MINUS>> \in Text /\ Len(<<MINUS>>) = 1
          /\ NoTab(<<MINUS>>) /\ NoNewline(<<MINUS>>)
      BY OneCharacter, Constants DEF NoTab, NoNewline
    <2>3. /\ Decimal(n) \in Text /\ Len(Decimal(n)) = 1 + Len(d)
          /\ NoTab(Decimal(n)) /\ NoNewline(Decimal(n))
      BY <1>3, <2>1, <2>2, Concat, ConcatLacks
    <2>4. countCharsOfNumber(n) = Divisions[a] + 1
      BY <1>5 DEF countCharsOfNumber, a
    <2> QED
      BY <1>1, <1>2, <1>4, <1>5, <2>3, <2>4
  <1>6. CASE ~(n < 0)
    <2>1. Decimal(n) = d
      <3>1. Decimal(n) = << >> \o d
        BY <1>6 DEF Decimal, d, a
      <3> QED
        BY <1>3, <3>1, EmptyText
    <2>2. countCharsOfNumber(n) = IF a = 0 THEN 1 ELSE Divisions[a]
      <3>1. n = a
        BY <1>6 DEF a, Abs
      <3>2. a # 0 => Divisions[a] \in Nat
        BY <1>4
      <3>3. a = Abs(a)
        BY <3>1 DEF a
      <3> QED
        BY <1>1, <1>6, <3>1, <3>2, <3>3 DEF countCharsOfNumber
    <2> QED
      BY <1>2, <1>3, <1>4, <2>1, <2>2
  <1> QED
    BY <1>5, <1>6

\* A larger level is not narrower.
LEMMA WidthGrows ==
  ASSUME NEW n \in Nat, NEW m \in Nat, m <= n
  PROVE  Len(Decimal(m)) <= Len(Decimal(n))
  <1>1. /\ Len(Decimal(m)) = countCharsOfNumber(m)
        /\ Len(Decimal(n)) = countCharsOfNumber(n)
        /\ countCharsOfNumber(n) \in Nat \ {0}
    BY CharsCounted
  <1>2. Divisions[m] <= Divisions[n] /\ Divisions[m] \in Nat /\ Divisions[n] \in Nat
    BY DivisionsGrow, DivisionsValue
  <1>3. \A i \in Nat : Abs(i) = i
    BY DEF Abs
  <1>4. \A i \in Nat : countCharsOfNumber(i) = IF i = 0 THEN 1 ELSE Divisions[i] + 0
    BY <1>3 DEF countCharsOfNumber
  <1>5. countCharsOfNumber(m) = IF m = 0 THEN 1 ELSE Divisions[m]
    BY <1>2, <1>4
  <1>6. countCharsOfNumber(n) = IF n = 0 THEN 1 ELSE Divisions[n]
    BY <1>2, <1>4
  <1>7. countCharsOfNumber(m) <= countCharsOfNumber(n)
    BY <1>1, <1>2, <1>5, <1>6
  <1> QED
    BY <1>1, <1>7

-----------------------------------------------------------------------------
\* What update_chrdev does to a text of which it finds the field d.

Half == BUFSIZE \div 2

\* The text with the new count.
WithCount(c, n, t) == c \o Decimal(n) \o t

LEMMA HalfType == Half \in Nat
  BY TextAssumption DEF Half

\* d is the field of level l, between the tab and the end that are found.
Field(c, d, t, l) ==
  /\ EndsWithTab(c) /\ NoTab(d)
  /\ LineEnd(c \o d \o t, l) = Len(c) + Len(d) + 1
  /\ Len(c) <= Half /\ Len(t) <= Half

LEMMA SpliceAt ==
  ASSUME NEW c \in Text, NEW d \in Text, NEW t \in Text, NEW l \in Nat,
         NEW n \in Nat, Field(c, d, t, l)
  PROVE  Splice(c \o d \o t, l, n) = WithCount(c, n, t)
  <1> DEFINE x == c \o d \o t
             e == Len(c) + Len(d) + 1
  <1>1. Half \in Nat
    BY HalfType
  <1>2. LastTab(x, e) = Len(c)
    BY LastTabFound DEF Field
  <1>3. /\ Len(c) \in Nat /\ Len(d) \in Nat /\ Len(t) \in Nat
        /\ c \o d \in Text /\ d \o t \in Text
        /\ Len(c \o d) = Len(c) + Len(d) /\ Len(d \o t) = Len(d) + Len(t)
        /\ Len(x) = Len(c \o d) + Len(t)
    BY TextType, Concat
  <1>4. SubSeq(x, 1, Len(c)) = c
    <2>1. x = c \o (d \o t)
      BY Associative
    <2> HIDE DEF x
    <2> QED
      BY <1>3, <2>1, Parts
  <1>5. SubSeq(x, e, Len(x)) = t
    <2>1. e = Len(c \o d) + 1
      BY <1>3
    <2> HIDE DEF e
    <2> QED
      BY <1>3, <2>1, Parts
  <1>6. Splice(x, l, n) = Join(c, Decimal(n), t)
    <2>1. LineEnd(x, l) = e
      BY DEF Field
    <2> HIDE DEF x, e
    <2> QED
      BY <1>2, <1>4, <1>5, <2>1 DEF Splice
  <1>7. Cut(c, Half) = c /\ Cut(t, Half) = t
    BY <1>1, WholeText DEF Field
  <1> QED
    BY <1>6, <1>7 DEF Join, Half, WithCount

\* The field d of a line that is there...
LEMMA SpliceLine ==
  ASSUME NEW c \in Text, NEW d \in Text, NEW t \in Text, NEW l \in Nat,
         NEW n \in Nat, EndsWithTab(c), NoTab(d), NoNewline(d), Lf(c) = l + 1,
         StartsWithNewline(t),
         Len(c) <= Half, Len(t) <= Half
  PROVE  Splice(c \o d \o t, l, n) = WithCount(c, n, t)
  <1>1. /\ c \o d \in Text /\ Len(c \o d) = Len(c) + Len(d)
        /\ Len(c) \in Nat /\ Len(d) \in Nat
    BY TextType, Concat
  <1>2. Lf(c \o d) = l + 1
    <2>1. Lf(c \o d) = Lf(c) + Lf(d) /\ Lf(d) = 0
      BY LfConcat, NoLf
    <2> QED
      BY <2>1
  <1>3. LineEnd(c \o d \o t, l) = Len(c \o d) + 1
    BY <1>1, <1>2, LineEndFound DEF StartsWithNewline
  <1>4. LineEnd(c \o d \o t, l) = Len(c) + Len(d) + 1
    BY <1>1, <1>3
  <1>5. Field(c, d, t, l)
    BY <1>4 DEF Field
  <1> QED
    BY <1>5, SpliceAt

\* ... and what is after the last tab, if there are fewer lines.
LEMMA SpliceEnd ==
  ASSUME NEW c \in Text, NEW d \in Text, NEW l \in Nat, NEW n \in Nat,
         EndsWithTab(c), NoTab(d), Lf(c \o d) < l + 2, Len(c) <= Half
  PROVE  Splice(c \o d, l, n) = c \o Decimal(n)
  <1>1. /\ c \o d \in Text /\ Len(c \o d) = Len(c) + Len(d)
        /\ c \o Decimal(n) \in Text
    <2>1. Decimal(n) \in Text
      BY CharsCounted
    <2> QED
      BY <2>1, Concat
  <1>2. << >> \in Text /\ Len(<< >>) = 0 /\ \A x \in Text : x \o << >> = x
    BY EmptyText
  <1>3. LineEnd(c \o d, l) = Len(c) + Len(d) + 1
    BY <1>1 DEF LineEnd, Lf
  <1>4. LineEnd(c \o d \o << >>, l) = Len(c) + Len(d) + 1
    BY <1>1, <1>2, <1>3
  <1>5. Len(<< >>) <= Half
    BY <1>2, HalfType
  <1>6. Splice(c \o d \o << >>, l, n) = WithCount(c, n, << >>)
    <2>1. Field(c, d, << >>, l)
      BY <1>4, <1>5 DEF Field
    <2> QED
      BY <1>2, <2>1, SpliceAt
  <1>7. WithCount(c, n, << >>) = c \o Decimal(n)
    BY <1>1, <1>2 DEF WithCount
  <1>8. c \o d \o << >> = c \o d
    BY <1>1, <1>2
  <1> QED
    BY <1>6, <1>7, <1>8, Zenon

-----------------------------------------------------------------------------
\* The concatenation of many texts.

\* F has the concatenations of the first texts of s.
Partial(F, s, n) ==
  \A i \in 1 .. n : F[i] = IF i = 1 THEN s[i] ELSE F[i - 1] \o s[i]

LEMMA PartialExists ==
  ASSUME NEW n \in Nat, NEW s \in [1 .. n -> Text]
  PROVE  \E F : F = [i \in 1 .. n |-> IF i = 1 THEN s[i] ELSE F[i - 1] \o s[i]]
  <1> DEFINE Next1(f, i) == IF i = 1 THEN s[i] ELSE f[i - 1] \o s[i]
             G == [f \in [Nat -> Text] |->
                     [i \in Nat |-> IF i \in 1 .. n THEN Next1(f, i) ELSE << >>]]
  <1>1. ASSUME NEW f \in [Nat -> Text], NEW i \in 1 .. n PROVE Next1(f, i) \in Text
    <2>1. CASE i = 1
      BY <2>1
    <2>2. CASE i # 1
      <3>1. i - 1 \in Nat
        OBVIOUS
      <3>2. f[i - 1] \in Text /\ s[i] \in Text
        BY <3>1
      <3>3. f[i - 1] \o s[i] \in Text
        BY <3>2, Concat
      <3> QED
        BY <2>2, <3>3
    <2> QED
      BY <2>1, <2>2
  <1>2. << >> \in Text
    BY EmptyText
  <1>3. ASSUME NEW f \in [Nat -> Text], NEW g \in [Nat -> Text], NEW i \in 1 .. n,
               \A m \in Nat : m < i => f[m] = g[m]
        PROVE  Next1(f, i) = Next1(g, i)
    <2>1. i # 1 => f[i - 1] = g[i - 1]
      <3>1. i # 1 => i - 1 \in Nat /\ i - 1 < i
        OBVIOUS
      <3> QED
        BY <1>3, <3>1
    <2> QED
      BY <2>1, Zenon
  <1> HIDE DEF Next1
  <1>4. G \in [[Nat -> Text] -> [Nat -> Text]]
    BY <1>1, <1>2
  <1>5. FromSmaller(Text, G)
    BY <1>3 DEF FromSmaller
  <1>6. PICK f \in [Nat -> Text] : f = G[f]
    <2> HIDE DEF G
    <2> QED
      BY <1>2, <1>4, <1>5, Recursion
  <1> DEFINE F == [i \in 1 .. n |-> f[i]]
  <1>7. \A i \in 1 .. n : f[i] = Next1(f, i)
    <2>1. \A i \in Nat : f[i] = IF i \in 1 .. n THEN Next1(f, i) ELSE << >>
      BY <1>6
    <2> QED
      BY <2>1
  <1>8. ASSUME NEW i \in 1 .. n PROVE Next1(f, i) = Next1(F, i)
    <2>1. i # 1 => i - 1 \in 1 .. n
      OBVIOUS
    <2>2. i # 1 => f[i - 1] = F[i - 1]
      BY <2>1
    <2> HIDE DEF F
    <2> QED
      BY <2>2, Zenon DEF Next1
  <1>9. F = [i \in 1 .. n |-> Next1(F, i)]
    <2>1. \A i \in 1 .. n : F[i] = Next1(F, i)
      BY <1>7, <1>8
    <2>2. F = [i \in 1 .. n |-> F[i]]
      OBVIOUS
    <2> HIDE DEF F
    <2> QED
      BY <2>1, <2>2
  <1> HIDE DEF F
  <1> QED
    BY <1>9, Zenon DEF Next1

LEMMA PartialType ==
  ASSUME NEW n \in Nat, NEW s \in [1 .. n -> Text], NEW F, Partial(F, s, n)
  PROVE  \A i \in 1 .. n : F[i] \in Text
  <1> DEFINE S == {i \in Nat : i \in 1 .. n => F[i] \in Text}
  <1>1. ASSUME NEW i \in Nat, \A j \in Nat : j < i => j \in S PROVE i \in S
    <2> SUFFICES ASSUME i \in 1 .. n PROVE F[i] \in Text
      OBVIOUS
    <2>1. CASE i = 1
      <3>1. F[i] = s[i]
        BY <2>1 DEF Partial
      <3> QED
        BY <3>1
    <2>2. CASE i # 1
      <3>1. i - 1 \in Nat /\ i - 1 < i /\ i - 1 \in 1 .. n
        BY <2>2
      <3>2. F[i - 1] \in Text /\ s[i] \in Text
        BY <1>1, <3>1
      <3>3. F[i - 1] \o s[i] \in Text
        BY <3>2, Concat
      <3>4. F[i] = F[i - 1] \o s[i]
        BY <2>2, Zenon DEF Partial
      <3> QED
        BY <3>3, <3>4
    <2> QED
      BY <2>1, <2>2
  <1> HIDE DEF S
  <1>2. \A i \in Nat : i \in S
    BY <1>1, Induction
  <1> QED
    BY <1>2 DEF S

LEMMA PartialUnique ==
  ASSUME NEW n \in Nat, NEW s, NEW t, NEW F, NEW H, Partial(F, s, n),
         Partial(H, t, n), \A i \in 1 .. n : s[i] = t[i]
  PROVE  \A i \in 1 .. n : F[i] = H[i]
  <1> DEFINE S == {i \in Nat : i \in 1 .. n => F[i] = H[i]}
  <1>1. ASSUME NEW i \in Nat, \A j \in Nat : j < i => j \in S PROVE i \in S
    <2> SUFFICES ASSUME i \in 1 .. n PROVE F[i] = H[i]
      OBVIOUS
    <2>1. s[i] = t[i]
      OBVIOUS
    <2>2. CASE i = 1
      <3>1. F[i] = s[i] /\ H[i] = t[i]
        BY <2>2, Zenon DEF Partial
      <3> QED
        BY <2>1, <3>1
    <2>3. CASE i # 1
      <3>1. i - 1 \in Nat /\ i - 1 < i /\ i - 1 \in 1 .. n
        BY <2>3
      <3>2. F[i - 1] = H[i - 1]
        BY <1>1, <3>1
      <3>3. F[i] = F[i - 1] \o s[i] /\ H[i] = H[i - 1] \o t[i]
        BY <2>3, Zenon DEF Partial
      <3> QED
        BY <2>1, <3>2, <3>3, Zenon
    <2> QED
      BY <2>2, <2>3
  <1> HIDE DEF S
  <1>2. \A i \in Nat : i \in S
    BY <1>1, Induction
  <1> QED
    BY <1>2 DEF S

LEMMA FlattenValue ==
  ASSUME NEW n \in Nat, n # 0, NEW s \in [1 .. n -> Text]
  PROVE  \E F : Partial(F, s, n) /\ FlattenSeq(s) = F[n]
  <1> DEFINE flatten ==
               CHOOSE F : F = [i \in 1 .. n |-> IF i = 1 THEN s[i] ELSE F[i - 1] \o s[i]]
  <1>1. Len(s) = n
    BY LenProperties DEF Text
  <1>2. flatten = [i \in 1 .. n |-> IF i = 1 THEN s[i] ELSE flatten[i - 1] \o s[i]]
    BY PartialExists, Zenon
  <1>3. FlattenSeq(s) = flatten[n]
    <2>1. Len(s) # 0
      BY <1>1
    <2> QED
      BY <1>1, <2>1, Zenon DEF FlattenSeq
  <1> HIDE DEF flatten
  <1>4. Partial(flatten, s, n)
    BY <1>2, Zenon DEF Partial
  <1> QED
    BY <1>3, <1>4

\* The concatenation of n + 1 texts is that of the first n, and the last.
LEMMA FlattenMore ==
  ASSUME NEW n \in Nat, NEW s \in [1 .. n -> Text], NEW t \in [1 .. n + 1 -> Text],
         \A i \in 1 .. n : s[i] = t[i]
  PROVE  FlattenSeq(s) \in Text /\ FlattenSeq(t) = FlattenSeq(s) \o t[n + 1]
  <1>1. n + 1 \in Nat /\ n + 1 # 0 /\ n + 1 \in 1 .. n + 1 /\ (n + 1) - 1 = n
    OBVIOUS
  <1>2. PICK H : Partial(H, t, n + 1) /\ FlattenSeq(t) = H[n + 1]
    BY <1>1, FlattenValue
  <1>3. t[n + 1] \in Text
    BY <1>1
  <1>4. CASE n = 0
    <2>1. FlattenSeq(s) = << >>
      <3>1. s = << >>
        BY <1>4
      <3> QED
        BY <3>1, EmptyText, Zenon DEF FlattenSeq
    <2>2. FlattenSeq(t) = t[n + 1]
      <3>1. n + 1 = 1
        BY <1>4
      <3> QED
        BY <1>1, <1>2, <3>1, Zenon DEF Partial
    <2> QED
      BY <1>3, <2>1, <2>2, EmptyText, Zenon
  <1>5. CASE n # 0
    <2>1. PICK F : Partial(F, s, n) /\ FlattenSeq(s) = F[n]
      BY <1>5, FlattenValue
    <2>2. n \in 1 .. n /\ n + 1 # 1
      BY <1>5
    <2>3. F[n] \in Text
      BY <2>1, <2>2, PartialType
    <2>4. Partial(H, t, n)
      <3>1. 1 .. n \subseteq 1 .. n + 1
        OBVIOUS
      <3> QED
        BY <1>2, <3>1, Zenon DEF Partial
    <2>5. F[n] = H[n]
      BY <2>1, <2>2, <2>4, PartialUnique
    <2>6. H[n + 1] = H[n] \o t[n + 1]
      <3>1. H[n + 1] = IF n + 1 = 1 THEN t[n + 1] ELSE H[(n + 1) - 1] \o t[n + 1]
        BY <1>1, <1>2, Zenon DEF Partial
      <3> QED
        BY <1>1, <2>2, <3>1, Zenon
    <2> QED
      BY <1>2, <2>1, <2>3, <2>5, <2>6, Zenon
  <1> QED
    BY <1>4, <1>5

-----------------------------------------------------------------------------
\* The header and the lines.

LEMMA FunctionText ==
  ASSUME NEW n \in Nat, NEW x \in [1 .. n -> Character]
  PROVE  x \in Text /\ Len(x) = n /\ DOMAIN x = 1 .. n
  <1>1. x \in Seq(Character)
    BY SeqDef
  <1>2. DOMAIN x = 1 .. n /\ DOMAIN x = 1 .. Len(x) /\ Len(x) \in Nat
    BY <1>1, LenProperties
  <1>3. Len(x) = n
    BY <1>2
  <1> QED
    BY <1>1, <1>2, <1>3 DEF Text

LEMMA HeaderText ==
  /\ header \in Text /\ Len(header) = 24 /\ Lf(header) = 1
  <1>1. \A i \in 1 .. 24 :
          /\ header[i] \in Character
          /\ header[i] = NEWLINE <=> i = 24
    BY DEF header, Character, Digit, TAB, NEWLINE, MINUS, LETTER
  <1>2. header = [i \in 1 .. 24 |-> header[i]]
    BY DEF header
  <1>3. header \in [1 .. 24 -> Character]
    BY <1>1, <1>2
  <1>4. header \in Text /\ Len(header) = 24 /\ DOMAIN header = 1 .. 24
    BY <1>3, FunctionText
  <1>5. NewlinesOf(header) = {24}
    BY <1>1, <1>4 DEF NewlinesOf
  <1>6. Lf(header) = 1
    BY <1>5, FS_Singleton DEF Lf
  <1> QED
    BY <1>4, <1>6

\* The header ends with a field too, for update_chrdev.
LEMMA HeaderParts ==
  \E a, b \in Text :
    /\ header = a \o b
    /\ EndsWithTab(a) /\ NoNewline(a) /\ NoTab(b) /\ Len(a) <= 24
  <1> DEFINE a == SubSeq(header, 1, 15)
             b == SubSeq(header, 16, 24)
  <1>1. header \in Text /\ Len(header) = 24 /\ \A i \in 1 .. 24 : header[i] \in Character
    BY HeaderText, TextType
  <1>2. /\ \A i \in 1 .. 15 : header[i] # NEWLINE
        /\ \A i \in 16 .. 24 : header[i] # TAB
        /\ header[15] = TAB
    BY DEF header, TAB, NEWLINE, LETTER
  <1>3. /\ a \in Text /\ Len(a) = 15
        /\ \A i \in 1 .. 15 - 1 + 1 : a[i] = header[1 + i - 1]
    <2>1. \A i \in 1 .. 15 : header[i] \in Character
      BY <1>1
    <2> QED
      BY <2>1, SubSeqProperties DEF Text
  <1>4. /\ b \in Text /\ Len(b) = 9
        /\ \A i \in 1 .. 24 - 16 + 1 : b[i] = header[16 + i - 1]
    <2>1. \A i \in 16 .. 24 : header[i] \in Character
      BY <1>1
    <2> QED
      BY <2>1, SubSeqProperties DEF Text
  <1> HIDE DEF a, b
  <1>5. EndsWithTab(a) /\ NoNewline(a)
    <2>1. \A i \in 1 .. 15 : a[i] = header[i]
      BY <1>3
    <2> QED
      BY <1>2, <1>3, <2>1 DEF EndsWithTab, NoNewline
  <1>6. NoTab(b)
    <2>1. \A i \in 1 .. 9 : b[i] = header[15 + i] /\ 15 + i \in 16 .. 24
      BY <1>4
    <2> QED
      BY <1>2, <1>4, <2>1 DEF NoTab
  <1>7. header = a \o b
    <2> DEFINE x == a \o b
    <2>1. /\ x \in Text /\ Len(x) = Len(a) + Len(b)
          /\ \A i \in 1 .. Len(a) : x[i] = a[i]
          /\ \A i \in 1 .. Len(b) : x[Len(a) + i] = b[i]
      BY <1>3, <1>4, Concat
    <2> HIDE DEF x
    <2>2. /\ x \in Text /\ Len(x) = 24
          /\ \A i \in 1 .. 15 : x[i] = a[i]
          /\ \A i \in 1 .. 9 : x[15 + i] = b[i]
      BY <1>3, <1>4, <2>1
    <2>3. ASSUME NEW i \in 1 .. 24 PROVE x[i] = header[i]
      <3>1. CASE i <= 15
        <4>1. x[i] = a[i]
          BY <2>2, <3>1
        <4> QED
          BY <1>3, <3>1, <4>1
      <3>2. CASE i > 15
        <4>1. i - 15 \in 1 .. 9 /\ 15 + (i - 15) = i
          BY <3>2
        <4>2. x[i] = b[i - 15]
          BY <2>2, <4>1
        <4>3. b[i - 15] = header[i]
          BY <1>4, <4>1
        <4> QED
          BY <4>2, <4>3
      <3> QED
        BY <3>1, <3>2
    <2>4. x = header
      BY <1>1, <2>2, <2>3, SeqEqual DEF Text
    <2> QED
      BY <2>4 DEF x
  <1>8. Len(a) <= 24
    BY <1>3
  <1> QED
    BY <1>3, <1>4, <1>5, <1>6, <1>7, <1>8, Zenon

\* A line up to its last tab.
LineFront(k, e, l) ==
  Decimal(k) \o <<TAB>> \o Decimal(e) \o <<TAB>> \o Decimal(l) \o <<TAB>>

LEMMA OneTab ==
  /\ <<TAB>> \in Text /\ Len(<<TAB>>) = 1 /\ NoNewline(<<TAB>>)
  /\ EndsWithTab(<<TAB>>)
  /\ <<NEWLINE>> \in Text /\ Len(<<NEWLINE>>) = 1 /\ NoTab(<<NEWLINE>>)
  /\ <<NEWLINE>>[1] = NEWLINE
  BY OneCharacter, Constants DEF NoNewline, NoTab, EndsWithTab

LEMMA FrontText ==
  ASSUME NEW k \in Int, NEW e \in Int, NEW l \in Nat
  PROVE  /\ LineFront(k, e, l) \in Text
         /\ Len(LineFront(k, e, l)) =
              Len(Decimal(k)) + Len(Decimal(e)) + Len(Decimal(l)) + 3
         /\ NoNewline(LineFront(k, e, l)) /\ EndsWithTab(LineFront(k, e, l))
  <1> DEFINE a == Decimal(k)
             b == Decimal(e)
             c == Decimal(l)
  <1>1. /\ a \in Text /\ NoNewline(a) /\ Len(a) \in Nat
        /\ b \in Text /\ NoNewline(b) /\ Len(b) \in Nat
        /\ c \in Text /\ NoNewline(c) /\ Len(c) \in Nat
    <2>1. \A n \in Int : Decimal(n) \in Text /\ NoNewline(Decimal(n))
      BY CharsCounted
    <2>2. l \in Int
      OBVIOUS
    <2> QED
      BY <2>1, <2>2, TextType
  <1>2. LineFront(k, e, l) = a \o <<TAB>> \o b \o <<TAB>> \o c \o <<TAB>>
    BY DEF LineFront
  <1> HIDE DEF a, b, c
  <1> DEFINE x1 == a \o <<TAB>>
             x2 == x1 \o b
             x3 == x2 \o <<TAB>>
             x4 == x3 \o c
             x5 == x4 \o <<TAB>>
  <1>3. x1 \in Text /\ NoNewline(x1) /\ Len(x1) = Len(a) + 1
    BY <1>1, OneTab, Concat, ConcatLacks
  <1> HIDE DEF x1
  <1>4. x2 \in Text /\ NoNewline(x2) /\ Len(x2) = Len(x1) + Len(b)
    BY <1>1, <1>3, Concat, ConcatLacks
  <1> HIDE DEF x2
  <1>5. x3 \in Text /\ NoNewline(x3) /\ Len(x3) = Len(x2) + 1
    BY <1>4, OneTab, Concat, ConcatLacks
  <1> HIDE DEF x3
  <1>6. x4 \in Text /\ NoNewline(x4) /\ Len(x4) = Len(x3) + Len(c)
    BY <1>1, <1>5, Concat, ConcatLacks
  <1> HIDE DEF x4
  <1>7. x5 \in Text /\ NoNewline(x5) /\ Len(x5) = Len(x4) + 1 /\ EndsWithTab(x5)
    BY <1>6, OneTab, Concat, ConcatLacks
  <1>8. LineFront(k, e, l) = x5
    BY <1>2 DEF x1, x2, x3, x4
  <1> HIDE DEF x5
  <1> QED
    BY <1>1, <1>3, <1>4, <1>5, <1>6, <1>7, <1>8 DEF a, b, c

LEMMA LineText ==
  ASSUME NEW k \in Int, NEW e \in Int, NEW l \in Nat, NEW n \in Nat
  PROVE  /\ Line(k, e, l, n) \in Text /\ Lf(Line(k, e, l, n)) = 1
         /\ Len(Line(k, e, l, n)) = Len(LineFront(k, e, l)) + Len(Decimal(n)) + 1
         /\ LineFront(k, e, l) \o Decimal(n) \in Text
         /\ NoNewline(LineFront(k, e, l) \o Decimal(n))
         /\ Line(k, e, l, n) = LineFront(k, e, l) \o Decimal(n) \o <<NEWLINE>>
  <1> DEFINE a == LineFront(k, e, l)
             d == Decimal(n)
             x == a \o d
  <1>1. /\ a \in Text /\ NoNewline(a) /\ d \in Text /\ NoNewline(d)
        /\ Len(a) \in Nat /\ Len(d) \in Nat
    <2>1. n \in Int
      OBVIOUS
    <2> QED
      BY <2>1, FrontText, CharsCounted, TextType
  <1>2. Line(k, e, l, n) = a \o d \o <<NEWLINE>>
    BY DEF Line, LineFront
  <1> HIDE DEF a, d
  <1>3. x \in Text /\ NoNewline(x) /\ Len(x) = Len(a) + Len(d)
    BY <1>1, Concat, ConcatLacks
  <1>4. Line(k, e, l, n) = x \o <<NEWLINE>>
    BY <1>2
  <1> HIDE DEF x
  <1>5. x \o <<NEWLINE>> \in Text /\ Len(x \o <<NEWLINE>>) = Len(x) + 1
    BY <1>3, OneTab, Concat
  <1>6. Lf(x \o <<NEWLINE>>) = 1
    <2>1. Lf(x) = 0 /\ Lf(<<NEWLINE>>) = 1
      BY <1>3, NoLf, OneLf
    <2>2. Lf(x \o <<NEWLINE>>) = Lf(x) + Lf(<<NEWLINE>>)
      BY <1>3, OneTab, LfConcat
    <2> QED
      BY <2>1, <2>2
  <1>7. /\ Line(k, e, l, n) \in Text /\ Lf(Line(k, e, l, n)) = 1
        /\ Len(Line(k, e, l, n)) = Len(a) + Len(d) + 1
    BY <1>1, <1>3, <1>4, <1>5, <1>6
  <1>8. Line(k, e, l, n) = a \o d \o <<NEWLINE>> /\ a \o d \in Text /\ NoNewline(a \o d)
    BY <1>2, <1>3 DEF x
  <1> QED
    BY <1>7, <1>8 DEF a, d

-----------------------------------------------------------------------------
\* The text up to a level.

Waiting == [0 .. MAX_LEVELS - 1 -> Nat]
Lines(k, e, w, i) == [j \in 1 .. i |-> Line(k, e, j - 1, w[j - 1])]
Upto(k, e, w, i) == header \o FlattenSeq(Lines(k, e, w, i))

LEMMA LinesType ==
  ASSUME NEW k \in Int, NEW e \in Int, NEW w \in Waiting,
         NEW i \in 0 .. MAX_LEVELS
  PROVE  Lines(k, e, w, i) \in [1 .. i -> Text]
  <1>1. ASSUME NEW j \in 1 .. i PROVE Line(k, e, j - 1, w[j - 1]) \in Text
    <2>1. j - 1 \in Nat /\ w[j - 1] \in Nat
      BY TextAssumption DEF Waiting
    <2> QED
      BY <2>1, LineText
  <1> QED
    BY <1>1 DEF Lines

LEMMA UptoStep ==
  ASSUME NEW k \in Int, NEW e \in Int, NEW w \in Waiting,
         NEW i \in 0 .. MAX_LEVELS - 1
  PROVE  Upto(k, e, w, i + 1) = Upto(k, e, w, i) \o Line(k, e, i, w[i])
  <1> DEFINE s == Lines(k, e, w, i)
             t == Lines(k, e, w, i + 1)
             x == Line(k, e, i, w[i])
  <1>1. i \in Nat /\ i \in 0 .. MAX_LEVELS /\ i + 1 \in 0 .. MAX_LEVELS
    BY TextAssumption
  <1>2. s \in [1 .. i -> Text] /\ t \in [1 .. i + 1 -> Text]
    BY <1>1, LinesType
  <1>3. \A j \in 1 .. i : s[j] = t[j]
    BY <1>1 DEF Lines
  <1>4. t[i + 1] = x
    <2>1. i + 1 \in 1 .. i + 1 /\ (i + 1) - 1 = i
      BY <1>1
    <2>2. t[i + 1] = Line(k, e, (i + 1) - 1, w[(i + 1) - 1])
      BY <2>1, Zenon DEF Lines
    <2> QED
      BY <2>1, <2>2
  <1>5. x \in Text
    <2>1. w[i] \in Nat
      BY DEF Waiting
    <2> QED
      BY <1>1, <2>1, LineText
  <1> HIDE DEF s, t, x
  <1>6. FlattenSeq(s) \in Text /\ FlattenSeq(t) = FlattenSeq(s) \o x
    <2>1. FlattenSeq(s) \in Text /\ FlattenSeq(t) = FlattenSeq(s) \o t[i + 1]
      BY <1>1, <1>2, <1>3, FlattenMore
    <2> QED
      BY <1>4, <2>1
  <1>7. header \o FlattenSeq(t) = (header \o FlattenSeq(s)) \o x
    <2>1. (header \o FlattenSeq(s)) \o x = header \o (FlattenSeq(s) \o x)
      BY <1>5, <1>6, HeaderText, Associative
    <2> QED
      BY <1>6, <2>1, Zenon
  <1> QED
    BY <1>7, Zenon DEF Upto, s, t, x

LEMMA UptoZero ==
  ASSUME NEW k, NEW e, NEW w
  PROVE  Upto(k, e, w, 0) = header
  <1>1. Lines(k, e, w, 0) = << >>
    BY DEF Lines
  <1>2. FlattenSeq(<< >>) = << >>
    BY EmptyText, Zenon DEF FlattenSeq
  <1> QED
    BY <1>1, <1>2, HeaderText, EmptyText, Zenon DEF Upto

\* The text up to level i has the header and i lines.
LEMMA UptoText ==
  ASSUME NEW k \in Int, NEW e \in Int, NEW w \in Waiting
  PROVE  \A i \in 0 .. MAX_LEVELS :
           Upto(k, e, w, i) \in Text /\ Lf(Upto(k, e, w, i)) = i + 1
  <1> DEFINE U(i) == Upto(k, e, w, i)
             S == {i \in Nat : i <= MAX_LEVELS => U(i) \in Text /\ Lf(U(i)) = i + 1}
  <1>1. ASSUME NEW i \in Nat, \A j \in Nat : j < i => j \in S PROVE i \in S
    <2> SUFFICES ASSUME i <= MAX_LEVELS PROVE U(i) \in Text /\ Lf(U(i)) = i + 1
      OBVIOUS
    <2>1. CASE i = 0
      <3>1. U(0) \in Text /\ Lf(U(0)) = 1
        BY UptoZero, HeaderText
      <3> QED
        BY <2>1, <3>1
    <2>2. CASE i # 0
      <3> DEFINE j == i - 1
                 x == Line(k, e, j, w[j])
      <3>1. j \in Nat /\ j < i /\ j \in 0 .. MAX_LEVELS - 1 /\ j + 1 = i
            /\ j <= MAX_LEVELS
        BY <2>2, TextAssumption
      <3>2. x \in Text /\ Lf(x) = 1
        <4>1. w[j] \in Nat
          BY <3>1 DEF Waiting
        <4> HIDE DEF j
        <4> QED
          BY <3>1, <4>1, LineText
      <3>3. U(j) \in Text /\ Lf(U(j)) = j + 1
        <4> HIDE DEF U, j
        <4> QED
          BY <1>1, <3>1
      <3>4. U(i) = U(j) \o x
        <4>1. Upto(k, e, w, j + 1) = Upto(k, e, w, j) \o Line(k, e, j, w[j])
          <5> HIDE DEF j
          <5> QED
            BY <3>1, UptoStep
        <4> QED
          BY <3>1, <4>1
      <3> HIDE DEF U, j, x
      <3>5. U(j) \o x \in Text /\ Lf(U(j) \o x) = Lf(U(j)) + Lf(x)
        BY <3>2, <3>3, Concat, LfConcat
      <3>6. Lf(U(i)) = i + 1
        BY <3>1, <3>2, <3>3, <3>4, <3>5
      <3> QED
        BY <3>4, <3>5, <3>6
    <2> QED
      BY <2>1, <2>2
  <1> HIDE DEF S
  <1>2. \A i \in Nat : i \in S
    BY <1>1, Induction
  <1>3. \A i \in 0 .. MAX_LEVELS : i \in Nat /\ i <= MAX_LEVELS
    BY TextAssumption
  <1> QED
    BY <1>2, <1>3 DEF S

\* It depends on the levels below only.
LEMMA UptoSame ==
  ASSUME NEW k, NEW e, NEW w, NEW v, NEW i \in Nat,
         \A j \in 0 .. i - 1 : w[j] = v[j]
  PROVE  Upto(k, e, w, i) = Upto(k, e, v, i)
  <1>1. Lines(k, e, w, i) = Lines(k, e, v, i)
    <2>1. \A j \in 1 .. i : Line(k, e, j - 1, w[j - 1]) = Line(k, e, j - 1, v[j - 1])
      <3>1. \A j \in 1 .. i : j - 1 \in 0 .. i - 1
        OBVIOUS
      <3> QED
        BY <3>1
    <2> QED
      BY <2>1, Zenon DEF Lines
  <1> QED
    BY <1>1, Zenon DEF Upto

\* Two texts that differ in the count of a level l have the same rest after it.
LEMMA UptoRest ==
  ASSUME NEW k \in Int, NEW e \in Int, NEW w \in Waiting, NEW v \in Waiting,
         NEW l \in 0 .. MAX_LEVELS - 1,
         \A j \in 0 .. MAX_LEVELS - 1 : j # l => w[j] = v[j]
  PROVE  \A i \in 0 .. MAX_LEVELS : l < i =>
           \E r \in Text : /\ Upto(k, e, w, i) = Upto(k, e, w, l + 1) \o r
                           /\ Upto(k, e, v, i) = Upto(k, e, v, l + 1) \o r
  <1> DEFINE U(i) == Upto(k, e, w, i)
             V(i) == Upto(k, e, v, i)
             Rest(i, r) == U(i) = U(l + 1) \o r /\ V(i) = V(l + 1) \o r
             S == {i \in Nat : i <= MAX_LEVELS /\ l < i => \E r \in Text : Rest(i, r)}
  <1>0. /\ l \in Nat /\ l + 1 \in 0 .. MAX_LEVELS
        /\ U(l + 1) \in Text /\ V(l + 1) \in Text
    <2>1. l \in Nat /\ l + 1 \in 0 .. MAX_LEVELS
      BY TextAssumption
    <2> QED
      BY <2>1, UptoText
  <1>1. ASSUME NEW i \in Nat, \A j \in Nat : j < i => j \in S PROVE i \in S
    <2> SUFFICES ASSUME i <= MAX_LEVELS, l < i PROVE \E r \in Text : Rest(i, r)
      OBVIOUS
    <2>1. CASE i = l + 1
      <3>1. << >> \in Text /\ U(i) = U(l + 1) \o << >> /\ V(i) = V(l + 1) \o << >>
        <4> HIDE DEF U, V
        <4> QED
          BY <1>0, <2>1, EmptyText
      <3> QED
        BY <3>1
    <2>2. CASE i # l + 1
      <3> DEFINE j == i - 1
                 x == Line(k, e, j, w[j])
      <3>1. j \in Nat /\ j < i /\ j \in 0 .. MAX_LEVELS - 1 /\ j + 1 = i
            /\ j <= MAX_LEVELS /\ l < j /\ j # l
        BY <1>0, <2>2, TextAssumption
      <3>2. w[j] = v[j] /\ w[j] \in Nat
        <4> HIDE DEF j
        <4> QED
          BY <3>1 DEF Waiting
      <3>3. x \in Text
        <4> HIDE DEF j
        <4> QED
          BY <3>1, <3>2, LineText
      <3>4. U(i) = U(j) \o x
        <4>1. U(j + 1) = U(j) \o x
          <5> HIDE DEF j
          <5> QED
            BY <3>1, UptoStep
        <4> QED
          BY <3>1, <4>1
      <3>5. V(i) = V(j) \o x
        <4>1. V(j + 1) = V(j) \o Line(k, e, j, v[j])
          <5> HIDE DEF j
          <5> QED
            BY <3>1, UptoStep
        <4> QED
          BY <3>1, <3>2, <4>1
      <3>6. \E r \in Text : Rest(j, r)
        <4> HIDE DEF Rest, j
        <4> QED
          BY <1>1, <3>1
      <3>7. PICK r \in Text : Rest(j, r)
        BY <3>6
      <3> HIDE DEF U, V, j, x
      <3>8. /\ r \o x \in Text
            /\ (U(l + 1) \o r) \o x = U(l + 1) \o (r \o x)
            /\ (V(l + 1) \o r) \o x = V(l + 1) \o (r \o x)
        <4>1. r \o x \in Text
          BY <3>3, Concat
        <4>2. (U(l + 1) \o r) \o x = U(l + 1) \o (r \o x)
          BY <1>0, <3>3, Associative
        <4>3. (V(l + 1) \o r) \o x = V(l + 1) \o (r \o x)
          BY <1>0, <3>3, Associative
        <4> QED
          BY <4>1, <4>2, <4>3
      <3>9. Rest(i, r \o x)
        BY <3>4, <3>5, <3>7, <3>8, Zenon
      <3> QED
        BY <3>8, <3>9
    <2> QED
      BY <2>1, <2>2
  <1> HIDE DEF S
  <1>2. \A i \in Nat : i \in S
    BY <1>1, Induction
  <1>3. \A i \in 0 .. MAX_LEVELS : i \in Nat /\ i <= MAX_LEVELS
    BY TextAssumption
  <1> QED
    BY <1>2, <1>3 DEF S

-----------------------------------------------------------------------------
\* Cutting a text.

LEMMA Halves ==
  ASSUME NEW x \in Text, NEW i \in 0 .. Len(x)
  PROVE  /\ SubSeq(x, 1, i) \in Text /\ Len(SubSeq(x, 1, i)) = i
         /\ \A j \in 1 .. i : SubSeq(x, 1, i)[j] = x[j]
         /\ SubSeq(x, i + 1, Len(x)) \in Text
         /\ Len(SubSeq(x, i + 1, Len(x))) = Len(x) - i
         /\ \A j \in 1 .. Len(x) - i : SubSeq(x, i + 1, Len(x))[j] = x[i + j]
         /\ x = SubSeq(x, 1, i) \o SubSeq(x, i + 1, Len(x))
  <1> DEFINE a == SubSeq(x, 1, i)
             b == SubSeq(x, i + 1, Len(x))
             y == a \o b
  <1>1. /\ Len(x) \in Nat /\ i \in Nat /\ i <= Len(x)
        /\ \A j \in 1 .. Len(x) : x[j] \in Character
    BY TextType
  <1>2. /\ a \in Text /\ Len(a) = i
        /\ \A j \in 1 .. i : a[j] = x[j]
    <2>1. \A j \in 1 .. i : x[j] \in Character
      BY <1>1
    <2>2. /\ a \in Text /\ Len(a) = IF 1 <= i THEN i - 1 + 1 ELSE 0
          /\ \A j \in 1 .. i - 1 + 1 : a[j] = x[1 + j - 1]
      BY <1>1, <2>1, SubSeqProperties DEF Text
    <2> HIDE DEF a
    <2> QED
      BY <1>1, <2>2
  <1>3. /\ b \in Text /\ Len(b) = Len(x) - i
        /\ \A j \in 1 .. Len(x) - i : b[j] = x[i + j]
    <2> DEFINE m == i + 1
    <2>1. \A j \in m .. Len(x) : x[j] \in Character
      BY <1>1
    <2>2. /\ b \in Text /\ Len(b) = IF m <= Len(x) THEN Len(x) - m + 1 ELSE 0
          /\ \A j \in 1 .. Len(x) - m + 1 : b[j] = x[m + j - 1]
      BY <1>1, <2>1, SubSeqProperties DEF Text
    <2> HIDE DEF b
    <2>3. Len(b) = Len(x) - i /\ Len(x) - m + 1 = Len(x) - i
      BY <1>1, <2>2
    <2>4. \A j \in 1 .. Len(x) - i : m + j - 1 = i + j
      BY <1>1
    <2> QED
      BY <2>2, <2>3, <2>4
  <1> HIDE DEF a, b
  <1>4. /\ y \in Text /\ Len(y) = Len(a) + Len(b)
        /\ \A j \in 1 .. Len(a) : y[j] = a[j]
        /\ \A j \in 1 .. Len(b) : y[Len(a) + j] = b[j]
    BY <1>2, <1>3, Concat
  <1> HIDE DEF y
  <1>5. Len(y) = Len(x)
    BY <1>1, <1>2, <1>3, <1>4
  <1>6. ASSUME NEW j \in 1 .. Len(y) PROVE y[j] = x[j]
    <2>1. CASE j <= i
      BY <1>1, <1>2, <1>4, <1>5, <2>1
    <2>2. CASE j > i
      <3>1. j - i \in 1 .. Len(x) - i /\ i + (j - i) = j
        BY <1>1, <1>5, <2>2
      <3>2. b[j - i] = x[j] /\ y[j] = b[j - i]
        BY <1>2, <1>3, <1>4, <3>1
      <3> QED
        BY <3>2
    <2> QED
      BY <1>1, <1>5, <2>1, <2>2
  <1>7. y = x
    BY <1>4, <1>5, <1>6, SeqEqual DEF Text
  <1> QED
    BY <1>2, <1>3, <1>7 DEF a, b, y

LEMMA CutText ==
  ASSUME NEW x \in Text, NEW n \in Nat, n <= Len(x)
  PROVE  /\ Cut(x, n) \in Text /\ Len(Cut(x, n)) = n
         /\ \A j \in 1 .. n : Cut(x, n)[j] = x[j]
  <1>1. Len(x) \in Nat /\ n \in 0 .. Len(x)
    BY TextType
  <1>2. Min({Len(x), n}) = n
    BY <1>1 DEF Min
  <1>3. Cut(x, n) = SubSeq(x, 1, n)
    BY <1>2 DEF Cut
  <1> QED
    BY <1>1, <1>3, Halves

\* A text with a tab, at its last one.
LEMMA AtLastTab ==
  ASSUME NEW x \in Text, ~NoTab(x)
  PROVE  \E p, q \in Text : x = p \o q /\ EndsWithTab(p) /\ NoTab(q)
                            /\ Len(p) + Len(q) = Len(x) /\ Len(p) <= Len(x)
  <1> DEFINE T == {i \in 1 .. Len(x) : x[i] = TAB}
             S == {Len(x) - i : i \in T}
  <1>1. Len(x) \in Nat
    BY TextType
  <1>2. S \in SUBSET Nat /\ S # {}
    <2>1. T # {}
      BY DEF NoTab
    <2> QED
      BY <1>1, <2>1
  <1>3. PICK m \in S : \A y \in S : m <= y
    <2> HIDE DEF S
    <2> QED
      BY <1>2, Least
  <1>4. PICK i \in T : m = Len(x) - i
    OBVIOUS
  <1>5. ASSUME NEW j \in T PROVE j <= i
    <2>1. Len(x) - j \in S
      OBVIOUS
    <2> HIDE DEF S
    <2>2. m <= Len(x) - j
      BY <1>3, <2>1
    <2> QED
      BY <1>1, <1>4, <2>2
  <1> DEFINE p == SubSeq(x, 1, i)
             q == SubSeq(x, i + 1, Len(x))
  <1>6. i \in 0 .. Len(x) /\ i \in Nat /\ i > 0
    BY <1>1
  <1>7. /\ p \in Text /\ Len(p) = i /\ p[i] = x[i]
        /\ q \in Text /\ Len(q) = Len(x) - i
        /\ \A j \in 1 .. Len(x) - i : q[j] = x[i + j]
        /\ x = p \o q
    <2>1. i \in 1 .. i
      BY <1>6
    <2> QED
      BY <1>6, <2>1, Halves
  <1> HIDE DEF p, q
  <1>8. EndsWithTab(p)
    BY <1>6, <1>7 DEF EndsWithTab
  <1>9. NoTab(q)
    <2> SUFFICES ASSUME NEW j \in 1 .. Len(q), q[j] = TAB PROVE FALSE
      BY DEF NoTab
    <2>1. i + j \in 1 .. Len(x) /\ i + j > i
      BY <1>1, <1>6, <1>7
    <2>2. x[i + j] = TAB
      BY <1>7
    <2> QED
      BY <1>5, <1>6, <2>1, <2>2
  <1>10. Len(p) + Len(q) = Len(x) /\ Len(p) <= Len(x)
    BY <1>1, <1>6, <1>7
  <1> QED
    BY <1>7, <1>8, <1>9, <1>10, Zenon

-----------------------------------------------------------------------------
\* What snprintf keeps of a line.

FitsKey(k, l) == Len(Decimal(k)) + Len(Decimal(l))
                   <= Len(Decimal(MAX_TAG_SERVICES)) + Len(Decimal(MAX_LEVELS))
KeyTab(k, e)  == Len(Decimal(k)) + 2 <= Width(e, 0)
Widest(e) == Width(e, 0) + WAITING - 3
Kept(k, e, l, n) == Cut(Line(k, e, l, n), Width(e, n) - 1)

LEMMA Widths ==
  ASSUME NEW e \in Int, NEW n \in Nat
  PROVE  /\ Len(Decimal(MAX_TAG_SERVICES)) \in Nat \ {0}
         /\ Len(Decimal(MAX_LEVELS)) \in Nat \ {0}
         /\ Len(Decimal(e)) \in Nat \ {0} /\ Len(Decimal(n)) \in Nat \ {0}
         /\ Width(e, n) = Len(Decimal(MAX_TAG_SERVICES)) + Len(Decimal(e))
                          + Len(Decimal(MAX_LEVELS)) + Len(Decimal(n)) + 5
         /\ Width(e, 0) = Len(Decimal(MAX_TAG_SERVICES)) + Len(Decimal(e))
                          + Len(Decimal(MAX_LEVELS)) + 6
         /\ WAITING \in Nat /\ Len(Decimal(0)) = 1
  <1>1. \A i \in Int : /\ Len(Decimal(i)) = countCharsOfNumber(i)
                       /\ countCharsOfNumber(i) \in Nat \ {0}
    BY CharsCounted
  <1>2. n \in Int /\ 0 \in Int /\ MAX_TAG_SERVICES \in Int /\ MAX_LEVELS \in Int
        /\ WAITING \in Nat
    BY TextAssumption
  <1>3. countCharsOfNumber(0) = 1
    BY DEF countCharsOfNumber
  <1>4. /\ countCharsOfNumber(MAX_TAG_SERVICES) \in Nat \ {0}
        /\ countCharsOfNumber(MAX_LEVELS) \in Nat \ {0}
        /\ countCharsOfNumber(e) \in Nat \ {0}
        /\ countCharsOfNumber(n) \in Nat \ {0}
    BY <1>1, <1>2
  <1>5. /\ Width(e, n) = countCharsOfNumber(MAX_TAG_SERVICES) + countCharsOfNumber(e)
                         + countCharsOfNumber(MAX_LEVELS) + countCharsOfNumber(n) + 5
        /\ Width(e, 0) = countCharsOfNumber(MAX_TAG_SERVICES) + countCharsOfNumber(e)
                         + countCharsOfNumber(MAX_LEVELS) + countCharsOfNumber(0) + 5
    BY DEF Width
  <1>6. /\ Len(Decimal(MAX_TAG_SERVICES)) = countCharsOfNumber(MAX_TAG_SERVICES)
        /\ Len(Decimal(MAX_LEVELS)) = countCharsOfNumber(MAX_LEVELS)
        /\ Len(Decimal(e)) = countCharsOfNumber(e)
        /\ Len(Decimal(n)) = countCharsOfNumber(n)
        /\ Len(Decimal(0)) = countCharsOfNumber(0)
    BY <1>1, <1>2
  <1>7. /\ Len(Decimal(MAX_TAG_SERVICES)) \in Nat \ {0}
        /\ Len(Decimal(MAX_LEVELS)) \in Nat \ {0}
        /\ Len(Decimal(e)) \in Nat \ {0} /\ Len(Decimal(n)) \in Nat \ {0}
    BY <1>4, <1>6, Zenon
  <1>8. Width(e, n) = Len(Decimal(MAX_TAG_SERVICES)) + Len(Decimal(e))
                      + Len(Decimal(MAX_LEVELS)) + Len(Decimal(n)) + 5
    BY <1>5, <1>6, Zenon
  <1>9. Width(e, 0) = Len(Decimal(MAX_TAG_SERVICES)) + Len(Decimal(e))
                      + Len(Decimal(MAX_LEVELS)) + 1 + 5
    BY <1>3, <1>5, <1>6, Zenon
  <1>10. Len(Decimal(MAX_TAG_SERVICES)) + Len(Decimal(e)) + Len(Decimal(MAX_LEVELS))
           + 1 + 5 = Len(Decimal(MAX_TAG_SERVICES)) + Len(Decimal(e))
                       + Len(Decimal(MAX_LEVELS)) + 6
    BY <1>7
  <1>11. Len(Decimal(0)) = 1
    BY <1>3, <1>6, Zenon
  <1> QED
    BY <1>2, <1>7, <1>8, <1>9, <1>10, <1>11, Zenon

LEMMA KeptLine ==
  ASSUME NEW k \in Int, NEW e \in Int, NEW l \in Nat, NEW n \in Nat,
         Len(Decimal(n)) < WAITING
  PROVE  /\ Kept(k, e, l, n) \in Text /\ Len(Kept(k, e, l, n)) <= Widest(e)
         /\ FitsKey(k, l) => /\ Kept(k, e, l, n) = Line(k, e, l, n)
                             /\ Len(LineFront(k, e, l)) <= Widest(e)
         /\ ~FitsKey(k, l) => NoNewline(Kept(k, e, l, n))
         /\ ~FitsKey(k, l) /\ KeyTab(k, e) => ~NoTab(Kept(k, e, l, n))
  <1> DEFINE x == Line(k, e, l, n)
             c == LineFront(k, e, l) \o Decimal(n)
             W == Width(e, n) - 1
             K == Len(Decimal(k))
             N == Len(Decimal(n))
             Q == Len(Decimal(l))
             E == Len(Decimal(e))
             A == Len(Decimal(MAX_TAG_SERVICES))
             B == Len(Decimal(MAX_LEVELS))
  <1>1. /\ K \in Nat \ {0} /\ N \in Nat \ {0} /\ Q \in Nat \ {0} /\ E \in Nat \ {0}
        /\ A \in Nat \ {0} /\ B \in Nat \ {0} /\ WAITING \in Nat
        /\ Width(e, n) = A + E + B + N + 5 /\ Width(e, 0) = A + E + B + 6
    <2>1. k \in Int /\ l \in Int
      OBVIOUS
    <2>2. K \in Nat \ {0} /\ Q \in Nat \ {0}
      BY <2>1, CharsCounted
    <2> QED
      BY <2>2, Widths
  <1>2. /\ x \in Text /\ c \in Text /\ NoNewline(c) /\ x = c \o <<NEWLINE>>
        /\ Len(x) = K + E + Q + N + 4 /\ Len(c) = K + E + Q + N + 3
        /\ Len(LineFront(k, e, l)) = K + E + Q + 3
    <2>1. /\ x \in Text /\ c \in Text /\ NoNewline(c) /\ x = c \o <<NEWLINE>>
          /\ Len(x) = Len(LineFront(k, e, l)) + N + 1
      BY LineText
    <2>2. LineFront(k, e, l) \in Text /\ Len(LineFront(k, e, l)) = K + E + Q + 3
      BY FrontText
    <2>3. Len(c) = Len(LineFront(k, e, l)) + N
      <3>1. Decimal(n) \in Text
        BY CharsCounted
      <3> QED
        BY <2>2, <3>1, Concat
    <2> HIDE DEF K, N, Q, E, x, c
    <2>4. Len(x) = K + E + Q + N + 4 /\ Len(c) = K + E + Q + N + 3
      BY <1>1, <2>1, <2>2, <2>3
    <2> QED
      BY <2>1, <2>2, <2>4
  <1>3. x[K + 1] = TAB
    <2> DEFINE a == Decimal(k)
               r == Decimal(e) \o <<TAB>> \o Decimal(l) \o <<TAB>> \o Decimal(n)
                      \o <<NEWLINE>>
    <2>1. a \in Text /\ Decimal(e) \in Text /\ Decimal(l) \in Text /\ Decimal(n) \in Text
      BY CharsCounted
    <2>2. x = (a \o <<TAB>>) \o r
      <3> DEFINE u1 == Decimal(e)
                 u2 == <<TAB>>
                 u3 == Decimal(l)
                 u5 == Decimal(n)
                 u6 == <<NEWLINE>>
                 y0 == a \o <<TAB>>
                 y1 == u1 \o u2
                 y2 == y1 \o u3
                 y3 == y2 \o u2
                 y4 == y3 \o u5
      <3>1. u2 \in Text /\ u6 \in Text
        BY OneTab
      <3>2. x = y0 \o u1 \o u2 \o u3 \o u2 \o u5 \o u6
        BY DEF Line
      <3>3. r = y4 \o u6
        OBVIOUS
      <3>4. y0 \in Text
        BY <2>1, OneTab, Concat
      <3>5. u1 \in Text /\ u3 \in Text /\ u5 \in Text
        BY <2>1
      <3> HIDE DEF u1, u2, u3, u5, u6, x, y0, r
      <3>6. y1 \in Text /\ y0 \o u1 \o u2 = y0 \o y1
        BY <3>1, <3>4, <3>5, Concat, Associative
      <3> HIDE DEF y1
      <3>7. y2 \in Text /\ y0 \o y1 \o u3 = y0 \o y2
        BY <3>4, <3>5, <3>6, Concat, Associative
      <3> HIDE DEF y2
      <3>8. y3 \in Text /\ y0 \o y2 \o u2 = y0 \o y3
        BY <3>1, <3>4, <3>7, Concat, Associative
      <3> HIDE DEF y3
      <3>9. y4 \in Text /\ y0 \o y3 \o u5 = y0 \o y4
        BY <3>4, <3>5, <3>8, Concat, Associative
      <3> HIDE DEF y4
      <3>10. y0 \o y4 \o u6 = y0 \o (y4 \o u6)
        BY <3>1, <3>4, <3>9, Associative
      <3>11. x = y0 \o r
        BY <3>2, <3>3, <3>6, <3>7, <3>8, <3>9, <3>10, Zenon
      <3> QED
        BY <3>11 DEF y0
    <2>3. r \in Text
      <3>1. Decimal(e) \o <<TAB>> \in Text
        BY <2>1, OneTab, Concat
      <3>2. Decimal(e) \o <<TAB>> \o Decimal(l) \in Text
        BY <2>1, <3>1, Concat
      <3>3. Decimal(e) \o <<TAB>> \o Decimal(l) \o <<TAB>> \in Text
        BY <3>2, OneTab, Concat
      <3>4. Decimal(e) \o <<TAB>> \o Decimal(l) \o <<TAB>> \o Decimal(n) \in Text
        BY <2>1, <3>3, Concat
      <3> QED
        BY <3>4, OneTab, Concat
    <2> HIDE DEF a, r, x
    <2>4. a \o <<TAB>> \in Text /\ Len(a \o <<TAB>>) = Len(a) + 1
      BY <2>1, OneTab, Concat
    <2>5. (a \o <<TAB>>)[Len(a) + 1] = TAB
      <3>1. 1 \in 1 .. Len(<<TAB>>) /\ <<TAB>>[1] = TAB
        OBVIOUS
      <3> QED
        BY <2>1, <3>1, OneTab, Concat
    <2>6. x[Len(a) + 1] = (a \o <<TAB>>)[Len(a) + 1]
      <3>1. Len(a) \in Nat
        BY <2>1, TextType
      <3>2. Len(a) + 1 \in 1 .. Len(a \o <<TAB>>)
        BY <2>4, <3>1
      <3> QED
        BY <2>2, <2>3, <2>4, <3>2, Concat
    <2> QED
      BY <2>5, <2>6 DEF a
  <1>4. /\ Widest(e) = A + E + B + WAITING + 3 /\ N <= WAITING - 1
        /\ W = A + E + B + N + 4 /\ W \in Nat /\ W <= Widest(e)
    <2> HIDE DEF A, B, E, N
    <2>1. N <= WAITING - 1
      BY <1>1 DEF N
    <2> QED
      BY <1>1, <2>1 DEF Widest
  <1>5. FitsKey(k, l) <=> K + Q <= A + B
    BY DEF FitsKey
  <1>6. KeyTab(k, e) <=> K + 2 <= A + E + B + 6
    BY <1>1 DEF KeyTab
  <1>7. Kept(k, e, l, n) = Cut(x, W)
    BY DEF Kept
  <1> DEFINE y == Cut(x, W)
  <1> HIDE DEF K, N, Q, E, A, B, x, c, W
  <1>8. CASE FitsKey(k, l)
    <2>1. Len(x) <= W
      BY <1>1, <1>2, <1>4, <1>5, <1>8
    <2>2. y = x
      BY <1>2, <1>4, <2>1, WholeText
    <2>3. Len(y) <= Widest(e) /\ Len(LineFront(k, e, l)) <= Widest(e)
      BY <1>1, <1>2, <1>4, <1>5, <1>8, <2>1, <2>2
    <2> QED
      BY <1>2, <1>7, <1>8, <2>2, <2>3 DEF x
  <1>9. CASE ~FitsKey(k, l)
    <2>1. W <= Len(c) /\ W <= Len(x) /\ Len(c) \in Nat
      BY <1>1, <1>2, <1>4, <1>5, <1>9
    <2>2. y \in Text /\ Len(y) = W /\ \A j \in 1 .. W : y[j] = x[j]
      BY <1>2, <1>4, <2>1, CutText
    <2> HIDE DEF y
    <2>3. NoNewline(y)
      <3>1. \A j \in 1 .. Len(c) : x[j] = c[j]
        BY <1>2, OneTab, Concat
      <3>2. \A j \in 1 .. W : y[j] = c[j] /\ j \in 1 .. Len(c)
        BY <1>4, <2>1, <2>2, <3>1
      <3> QED
        BY <1>2, <2>2, <3>2 DEF NoNewline
    <2>4. KeyTab(k, e) => ~NoTab(y)
      <3>1. KeyTab(k, e) => K + 1 \in 1 .. W
        BY <1>1, <1>4, <1>6
      <3> QED
        BY <1>3, <2>2, <3>1 DEF NoTab
    <2>5. Len(y) <= Widest(e)
      BY <1>4, <2>2
    <2> QED
      BY <1>7, <1>9, <2>2, <2>3, <2>4, <2>5 DEF y
  <1> QED
    BY <1>8, <1>9

-----------------------------------------------------------------------------
\* The text that ts_create_char_device_file writes.

Cuts(k, e, w, i) ==
  header \o FlattenSeq([j \in 1 .. i |-> Kept(k, e, j - 1, w[j - 1])])
Short(w) == \A l \in 0 .. MAX_LEVELS - 1 : Len(Decimal(w[l])) < WAITING

\* f is the first level whose line is cut; there may be none.
FirstCut(k, f) ==
  /\ f \in 0 .. MAX_LEVELS
  /\ \A l \in 0 .. f - 1 : FitsKey(k, l)
  /\ \A l \in f .. MAX_LEVELS - 1 : ~FitsKey(k, l)

\* A key that is too wide for a level is too wide for the levels after it.
LEMMA FirstCutExists ==
  ASSUME NEW k \in Int
  PROVE  \E f : FirstCut(k, f)
  <1> DEFINE S == {l \in Nat : ~FitsKey(k, l) \/ l >= MAX_LEVELS}
  <1>1. MAX_LEVELS \in S /\ MAX_LEVELS \in Nat
    BY TextAssumption
  <1>2. PICK f \in S : \A y \in S : f <= y
    <2>1. S # {} /\ S \in SUBSET Nat
      BY <1>1
    <2> HIDE DEF S
    <2> QED
      BY <2>1, Least
  <1>3. f \in 0 .. MAX_LEVELS /\ f \in Nat
    BY <1>1, <1>2
  <1>4. ASSUME NEW l \in 0 .. f - 1 PROVE FitsKey(k, l)
    <2>1. l \notin S
      BY <1>2, <1>3
    <2> QED
      BY <1>3, <2>1
  <1>5. ASSUME NEW l \in f .. MAX_LEVELS - 1 PROVE ~FitsKey(k, l)
    <2>1. ~FitsKey(k, f)
      BY <1>1, <1>3
    <2>2. Len(Decimal(f)) <= Len(Decimal(l)) /\ l \in Nat
      BY <1>3, WidthGrows
    <2>3. /\ Len(Decimal(f)) \in Nat /\ Len(Decimal(l)) \in Nat
          /\ Len(Decimal(k)) \in Nat
      BY <1>3, <2>2, CharsCounted, TextType
    <2>4. /\ Len(Decimal(MAX_TAG_SERVICES)) \in Nat /\ Len(Decimal(MAX_LEVELS)) \in Nat
      <3>1. 0 \in Int /\ 0 \in Nat
        OBVIOUS
      <3> QED
        BY <3>1, Widths
    <2> QED
      BY <2>1, <2>2, <2>3, <2>4 DEF FitsKey
  <1> QED
    BY <1>3, <1>4, <1>5 DEF FirstCut

LEMMA CutsStep ==
  ASSUME NEW k \in Int, NEW e \in Int, NEW w \in Waiting, Short(w),
         NEW i \in 0 .. MAX_LEVELS - 1
  PROVE  /\ Cuts(k, e, w, i + 1) = Cuts(k, e, w, i) \o Kept(k, e, i, w[i])
         /\ Cuts(k, e, w, i) \in Text /\ Kept(k, e, i, w[i]) \in Text
  <1> DEFINE s == [j \in 1 .. i |-> Kept(k, e, j - 1, w[j - 1])]
             t == [j \in 1 .. i + 1 |-> Kept(k, e, j - 1, w[j - 1])]
             x == Kept(k, e, i, w[i])
  <1>1. i \in Nat
    OBVIOUS
  <1>2. ASSUME NEW j \in 1 .. i + 1 PROVE Kept(k, e, j - 1, w[j - 1]) \in Text
    <2>1. j - 1 \in 0 .. MAX_LEVELS - 1 /\ j - 1 \in Nat
      BY TextAssumption
    <2>2. w[j - 1] \in Nat /\ Len(Decimal(w[j - 1])) < WAITING
      BY <2>1 DEF Waiting, Short
    <2> QED
      BY <2>1, <2>2, KeptLine
  <1>3. s \in [1 .. i -> Text] /\ t \in [1 .. i + 1 -> Text]
    <2>1. \A j \in 1 .. i : j \in 1 .. i + 1
      BY <1>1
    <2> QED
      BY <1>2, <2>1
  <1>4. \A j \in 1 .. i : s[j] = t[j]
    BY <1>1
  <1>5. t[i + 1] = x /\ x \in Text
    <2>1. i + 1 \in 1 .. i + 1 /\ (i + 1) - 1 = i
      BY <1>1
    <2>2. t[i + 1] = Kept(k, e, (i + 1) - 1, w[(i + 1) - 1])
      BY <2>1, Zenon
    <2>3. t[i + 1] = x
      BY <2>1, <2>2
    <2>4. t[i + 1] \in Text
      BY <1>2, <2>1, <2>2
    <2> QED
      BY <2>3, <2>4, Zenon
  <1> HIDE DEF s, t, x
  <1>6. FlattenSeq(s) \in Text /\ FlattenSeq(t) = FlattenSeq(s) \o x
    <2>1. FlattenSeq(s) \in Text /\ FlattenSeq(t) = FlattenSeq(s) \o t[i + 1]
      BY <1>1, <1>3, <1>4, FlattenMore
    <2> QED
      BY <1>5, <2>1
  <1>7. /\ header \o FlattenSeq(t) = (header \o FlattenSeq(s)) \o x
        /\ header \o FlattenSeq(s) \in Text
    <2>1. (header \o FlattenSeq(s)) \o x = header \o (FlattenSeq(s) \o x)
      BY <1>5, <1>6, HeaderText, Associative
    <2>2. header \o FlattenSeq(s) \in Text
      BY <1>6, HeaderText, Concat
    <2> QED
      BY <1>6, <2>1, <2>2, Zenon
  <1> QED
    BY <1>5, <1>7, Zenon DEF Cuts, s, t, x

LEMMA CutsZero ==
  ASSUME NEW k, NEW e, NEW w
  PROVE  Cuts(k, e, w, 0) = header
  <1>1. [j \in 1 .. 0 |-> Kept(k, e, j - 1, w[j - 1])] = << >>
    OBVIOUS
  <1>2. FlattenSeq(<< >>) = << >>
    BY EmptyText, Zenon DEF FlattenSeq
  <1> QED
    BY <1>1, <1>2, HeaderText, EmptyText, Zenon DEF Cuts

\* The lines below the first cut are whole.
LEMMA CutsWhole ==
  ASSUME NEW k \in Int, NEW e \in Int, NEW w \in Waiting, Short(w), NEW f,
         FirstCut(k, f)
  PROVE  \A i \in 0 .. f : Cuts(k, e, w, i) = Upto(k, e, w, i)
  <1> DEFINE S == {i \in Nat : i <= f => Cuts(k, e, w, i) = Upto(k, e, w, i)}
  <1>0. f \in Nat /\ f <= MAX_LEVELS /\ MAX_LEVELS \in Nat
    BY TextAssumption DEF FirstCut
  <1>1. ASSUME NEW i \in Nat, \A j \in Nat : j < i => j \in S PROVE i \in S
    <2> SUFFICES ASSUME i <= f PROVE Cuts(k, e, w, i) = Upto(k, e, w, i)
      OBVIOUS
    <2>1. CASE i = 0
      BY <2>1, UptoZero, CutsZero
    <2>2. CASE i # 0
      <3>1. PICK j \in Nat : i = j + 1
        <4>1. i - 1 \in Nat /\ i = (i - 1) + 1
          BY <2>2
        <4> QED
          BY <4>1
      <3>2. j < i /\ j \in 0 .. f - 1 /\ j \in 0 .. MAX_LEVELS - 1 /\ j <= f
        BY <1>0, <3>1
      <3>3. Cuts(k, e, w, j) = Upto(k, e, w, j)
        BY <1>1, <3>2
      <3>4. FitsKey(k, j) /\ w[j] \in Nat /\ Len(Decimal(w[j])) < WAITING
        BY <3>2 DEF FirstCut, Waiting, Short
      <3>5. Kept(k, e, j, w[j]) = Line(k, e, j, w[j])
        BY <3>4, KeptLine
      <3>6. Cuts(k, e, w, j + 1) = Cuts(k, e, w, j) \o Kept(k, e, j, w[j])
        BY <3>2, CutsStep
      <3>7. Upto(k, e, w, j + 1) = Upto(k, e, w, j) \o Line(k, e, j, w[j])
        BY <3>2, UptoStep
      <3> QED
        BY <3>1, <3>3, <3>5, <3>6, <3>7, Zenon
    <2> QED
      BY <2>1, <2>2
  <1> HIDE DEF S
  <1>2. \A i \in Nat : i \in S
    BY <1>1, Induction
  <1>3. \A i \in 0 .. f : i \in Nat /\ i <= f
    BY <1>0
  <1> QED
    BY <1>2, <1>3 DEF S

\* From there on the text has no newline.
LEMMA CutsRest ==
  ASSUME NEW k \in Int, NEW e \in Int, NEW w \in Waiting, Short(w), NEW f,
         FirstCut(k, f), Widest(e) \in Nat
  PROVE  \A i \in 0 .. MAX_LEVELS : f < i =>
           \E u \in Text : /\ Cuts(k, e, w, i) = Upto(k, e, w, f) \o u
                           /\ NoNewline(u) /\ Len(u) <= (i - f) * Widest(e)
                           /\ KeyTab(k, e) => ~NoTab(u)
  <1> DEFINE C(i) == Cuts(k, e, w, i)
             F == Upto(k, e, w, f)
             W == Widest(e)
             T == KeyTab(k, e)
             Rest(i, u) == /\ C(i) = F \o u
                           /\ NoNewline(u) /\ Len(u) <= (i - f) * W
                           /\ T => ~NoTab(u)
             S == {i \in Nat : i <= MAX_LEVELS /\ f < i => \E u \in Text : Rest(i, u)}
  <1>0. f \in Nat /\ f <= MAX_LEVELS /\ MAX_LEVELS \in Nat /\ f \in 0 .. MAX_LEVELS
    BY TextAssumption DEF FirstCut
  <1>00. F \in Text
    BY <1>0, UptoText
  <1>1. ASSUME NEW i \in Nat, \A j \in Nat : j < i => j \in S PROVE i \in S
    <2> SUFFICES ASSUME i <= MAX_LEVELS, f < i PROVE \E u \in Text : Rest(i, u)
      OBVIOUS
    <2>1. PICK j \in Nat : i = j + 1
      <3>1. i - 1 \in Nat /\ i = (i - 1) + 1
        BY <1>0
      <3> QED
        BY <3>1
    <2>2. j < i /\ f <= j /\ j <= MAX_LEVELS - 1 /\ j <= MAX_LEVELS
          /\ j \in 0 .. MAX_LEVELS - 1 /\ j \in f .. MAX_LEVELS - 1
      BY <1>0, <2>1
    <2> DEFINE x == Kept(k, e, j, w[j])
    <2>3. x \in Text /\ NoNewline(x) /\ Len(x) <= W /\ (T => ~NoTab(x))
      <3>1. ~FitsKey(k, j) /\ w[j] \in Nat /\ Len(Decimal(w[j])) < WAITING
        BY <2>2 DEF FirstCut, Waiting, Short
      <3> QED
        BY <3>1, KeptLine
    <2>4. C(i) = C(j) \o x
      BY <2>1, <2>2, CutsStep
    <2>5. CASE j = f
      <3>1. C(j) = F
        <4>1. f \in 0 .. f
          BY <1>0
        <4> QED
          BY <2>5, <4>1, CutsWhole
      <3>2. C(i) = F \o x
        BY <2>4, <3>1
      <3>3. Len(x) <= (i - f) * W
        <4>1. i - f = 1
          BY <1>0, <2>1, <2>5
        <4>2. 1 * W = W
          OBVIOUS
        <4> HIDE DEF W, x
        <4> QED
          BY <2>3, <4>1, <4>2
      <3>4. Rest(i, x)
        BY <2>3, <3>2, <3>3, Zenon
      <3> QED
        BY <2>3, <3>4
    <2>6. CASE j # f
      <3>1. f < j
        BY <1>0, <2>2, <2>6
      <3>2. \E u \in Text : Rest(j, u)
        <4> HIDE DEF Rest
        <4> QED
          BY <1>1, <2>2, <3>1
      <3>3. PICK u \in Text : Rest(j, u)
        BY <3>2
      <3> HIDE DEF C, F, x, W, T
      <3>4. /\ u \o x \in Text /\ Len(u \o x) = Len(u) + Len(x)
            /\ NoNewline(u \o x) /\ (T => ~NoTab(u \o x))
        BY <2>3, <3>3, Concat, ConcatLacks
      <3>5. (F \o u) \o x = F \o (u \o x)
        BY <1>00, <2>3, Associative
      <3>6. Len(u \o x) <= (i - f) * W
        <4>1. Len(u) \in Nat /\ Len(x) \in Nat /\ Len(u) <= (j - f) * W /\ Len(x) <= W
          BY <2>3, <3>3, TextType
        <4>2. W \in Nat
          BY DEF W
        <4>3. (j + 1 - f) * W = (j - f) * W + W /\ (j - f) * W \in Int
          BY <1>0, <4>2
        <4>4. Len(u) + Len(x) <= (j + 1 - f) * W
          <5> DEFINE y == (j - f) * W
                     z == (j + 1 - f) * W
          <5> HIDE DEF y, z
          <5>1. z = y + W /\ y \in Int /\ Len(u) <= y
            BY <4>1, <4>3 DEF y, z
          <5>2. Len(u) + Len(x) <= z
            BY <4>1, <4>2, <5>1
          <5> QED
            BY <5>2 DEF z
        <4>5. i - f = j + 1 - f
          BY <1>0, <2>1
        <4> QED
          BY <3>4, <4>4, <4>5, Zenon
      <3>7. C(i) = F \o (u \o x)
        BY <2>4, <3>3, <3>5, Zenon
      <3>8. Rest(i, u \o x)
        BY <3>4, <3>6, <3>7, Zenon
      <3> QED
        BY <3>4, <3>8
    <2> QED
      BY <2>5, <2>6
  <1> HIDE DEF S
  <1>2. \A i \in Nat : i \in S
    BY <1>1, Induction
  <1>3. \A i \in 0 .. MAX_LEVELS : i \in Nat /\ i <= MAX_LEVELS
    BY <1>0
  <1> QED
    BY <1>2, <1>3 DEF S

-----------------------------------------------------------------------------
\* The lengths.

LEMMA Bound ==
  ASSUME NEW e \in Euids
  PROVE  /\ Widest(e) \in Nat /\ WAITING \in Nat /\ WAITING > 1 /\ Half \in Nat
         /\ 24 + MAX_LEVELS * Widest(e) + (WAITING - 1) < Half
         /\ e \in Int /\ MAX_LEVELS \in Nat
  <1>1. e \in Int /\ MAX_LEVELS \in Nat /\ WAITING \in Nat /\ 0 \in Nat
    BY TextAssumption
  <1>2. /\ Len(Decimal(0)) = 1
        /\ Width(e, 0) = Len(Decimal(MAX_TAG_SERVICES)) + Len(Decimal(e))
                         + Len(Decimal(MAX_LEVELS)) + 6
        /\ Len(Decimal(MAX_TAG_SERVICES)) \in Nat /\ Len(Decimal(e)) \in Nat
        /\ Len(Decimal(MAX_LEVELS)) \in Nat
    BY <1>1, Widths
  <1>3. WAITING > 1
    BY <1>1, <1>2, WidthAssumption
  <1>4. Widest(e) \in Nat
    BY <1>1, <1>2, <1>3 DEF Widest
  <1>5. Len(header) + MAX_LEVELS * Widest(e) + WAITING - 1 < Half
    BY WidthAssumption, Zenon DEF Widest, Half
  <1>6. Len(header) = 24 /\ Half \in Nat
    BY HeaderText, HalfType
  <1>7. MAX_LEVELS * Widest(e) \in Nat
    BY <1>1, <1>4
  <1> DEFINE y == MAX_LEVELS * Widest(e)
  <1> HIDE DEF y
  <1>8. 24 + y + WAITING - 1 = 24 + y + (WAITING - 1)
    BY <1>1, <1>7 DEF y
  <1>9. 24 + MAX_LEVELS * Widest(e) + (WAITING - 1) < Half
    BY <1>5, <1>6, <1>8, Zenon DEF y
  <1> QED
    BY <1>1, <1>3, <1>4, <1>6, <1>9

LEMMA UptoLength ==
  ASSUME NEW k \in Int, NEW e \in Int, NEW w \in Waiting, Short(w), NEW f,
         FirstCut(k, f), Widest(e) \in Nat
  PROVE  \A i \in 0 .. f : Len(Upto(k, e, w, i)) <= 24 + i * Widest(e)
  <1> DEFINE W == Widest(e)
             S == {i \in Nat : i <= f => Len(Upto(k, e, w, i)) <= 24 + i * W}
  <1>0. f \in Nat /\ f <= MAX_LEVELS /\ MAX_LEVELS \in Nat
    BY TextAssumption DEF FirstCut
  <1>00. W \in Nat
    OBVIOUS
  <1>1. ASSUME NEW i \in Nat, \A j \in Nat : j < i => j \in S PROVE i \in S
    <2> SUFFICES ASSUME i <= f PROVE Len(Upto(k, e, w, i)) <= 24 + i * W
      OBVIOUS
    <2>1. CASE i = 0
      <3>1. Upto(k, e, w, 0) = header /\ Len(header) = 24
        BY UptoZero, HeaderText, Zenon
      <3>2. 24 <= 24 + 0 * W
        <4> HIDE DEF W
        <4> QED
          BY <1>00
      <3> QED
        BY <2>1, <3>1, <3>2, Zenon
    <2>2. CASE i # 0
      <3>1. PICK j \in Nat : i = j + 1
        <4>1. i - 1 \in Nat /\ i = (i - 1) + 1
          BY <2>2
        <4> QED
          BY <4>1
      <3>2. j < i /\ j \in 0 .. f - 1 /\ j \in 0 .. MAX_LEVELS - 1 /\ j <= f
            /\ j \in 0 .. MAX_LEVELS
        BY <1>0, <3>1
      <3> DEFINE a == Upto(k, e, w, j)
                 x == Line(k, e, j, w[j])
      <3>3. Len(a) <= 24 + j * W
        BY <1>1, <3>2
      <3>4. FitsKey(k, j) /\ w[j] \in Nat /\ Len(Decimal(w[j])) < WAITING
        BY <3>2 DEF FirstCut, Waiting, Short
      <3>5. Len(x) <= W /\ x \in Text
        <4>1. Kept(k, e, j, w[j]) = x /\ Len(Kept(k, e, j, w[j])) <= W
          BY <3>4, KeptLine
        <4>2. x \in Text
          BY <3>4, LineText
        <4> QED
          BY <4>1, <4>2, Zenon
      <3>6. a \in Text
        BY <3>2, UptoText
      <3>7. Upto(k, e, w, j + 1) = a \o x
        BY <3>2, UptoStep
      <3> HIDE DEF a, x, W
      <3>8. Len(a \o x) = Len(a) + Len(x) /\ Len(a) \in Nat /\ Len(x) \in Nat
        BY <3>5, <3>6, Concat, TextType
      <3>9. (j + 1) * W = j * W + W /\ j * W \in Nat
        BY <1>00
      <3>10. Len(a) + Len(x) <= 24 + (j + 1) * W
        <4> DEFINE y == j * W
                   z == (j + 1) * W
        <4>1. z = y + W /\ y \in Nat /\ Len(a) <= 24 + y
          BY <3>3, <3>9
        <4> HIDE DEF y, z
        <4>2. Len(a) + Len(x) <= 24 + z
          BY <1>00, <3>5, <3>8, <4>1
        <4> QED
          BY <4>2 DEF z
      <3> QED
        BY <3>1, <3>7, <3>8, <3>10, Zenon
    <2> QED
      BY <2>1, <2>2
  <1> HIDE DEF S
  <1>2. \A i \in Nat : i \in S
    BY <1>1, Induction
  <1>3. \A i \in 0 .. f : i \in Nat /\ i <= f
    BY <1>0
  <1> QED
    BY <1>2, <1>3 DEF S

-----------------------------------------------------------------------------
\* The shape of the text after any updates.  f is the first level whose line
\* snprintf has cut.  Either all before it is there, and after it nothing that
\* has a tab ...
Whole(x, k, e, w, f) ==
  \E u \in Text :
    /\ x = Upto(k, e, w, f) \o u
    /\ NoNewline(u) /\ NoTab(u)
    /\ Len(u) <= (MAX_LEVELS - f) * Widest(e)
    /\ f = MAX_LEVELS => u = << >>
    /\ f # MAX_LEVELS => ~KeyTab(k, e)

\* ... or the line of level g runs to the end of the text, and the field after
\* its last tab is the one that any update of a level from g on rewrites ...
Tailed(x, k, e, w, f) ==
  \E g \in 0 .. f, p, q \in Text :
    /\ x = (Upto(k, e, w, g) \o p) \o q
    /\ EndsWithTab(p) /\ NoNewline(p) /\ NoNewline(q) /\ NoTab(q)
    /\ Len(p) <= (MAX_LEVELS - g) * Widest(e)
    /\ Len(p) + Len(q) <= (MAX_LEVELS - g) * Widest(e) + (WAITING - 1)
    /\ f # MAX_LEVELS
    /\ KeyTab(k, e) => g = f

\* ... or an update has taken the end of the header for the field.
Headless(x, k, e) ==
  \E p, q \in Text :
    /\ x = p \o q
    /\ EndsWithTab(p) /\ NoNewline(p) /\ NoNewline(q) /\ NoTab(q)
    /\ Len(p) <= 24 /\ Len(q) <= WAITING - 1
    /\ ~KeyTab(k, e)

Shape(x, k, e, w, f) ==
  Whole(x, k, e, w, f) \/ Tailed(x, k, e, w, f) \/ Headless(x, k, e)

\* Such a text is shorter than the half buffers.
LEMMA ShapeLength ==
  ASSUME NEW k \in Int, NEW e \in Euids, NEW w \in Waiting, Short(w), NEW f,
         FirstCut(k, f), NEW x, Shape(x, k, e, w, f)
  PROVE  x \in Text /\ Len(x) < Half
  <1> DEFINE W == Widest(e)
             M == MAX_LEVELS
  <1>1. /\ W \in Nat /\ WAITING \in Nat /\ WAITING > 1 /\ Half \in Nat
        /\ 24 + M * W + (WAITING - 1) < Half /\ e \in Int /\ M \in Nat
    BY Bound
  <1>2. f \in 0 .. M
    BY DEF FirstCut
  <1>3. ASSUME NEW g \in 0 .. M
        PROVE  g * W + (M - g) * W = M * W /\ g * W \in Nat /\ (M - g) * W \in Nat
               /\ M * W \in Nat
    <2>1. M - g \in Nat /\ g \in Nat
      BY <1>1
    <2> HIDE DEF W, M
    <2>2. g * W \in Nat /\ (M - g) * W \in Nat /\ M * W \in Nat
      BY <1>1, <2>1
    <2>3. g * W + (M - g) * W = M * W
      BY <1>1, <2>1
    <2> QED
      BY <2>2, <2>3
  <1>4. ASSUME NEW g \in 0 .. f
        PROVE  /\ Upto(k, e, w, g) \in Text /\ g \in 0 .. M
               /\ Len(Upto(k, e, w, g)) <= 24 + g * W
    <2>1. g \in 0 .. M
      BY <1>1, <1>2
    <2>2. Upto(k, e, w, g) \in Text
      BY <1>1, <2>1, UptoText
    <2> QED
      BY <1>1, <2>1, <2>2, UptoLength
  <1>5. CASE Whole(x, k, e, w, f)
    <2>1. PICK u \in Text : x = Upto(k, e, w, f) \o u /\ Len(u) <= (M - f) * W
      BY <1>5 DEF Whole
    <2> DEFINE a == Upto(k, e, w, f)
    <2>2. a \in Text /\ Len(a) <= 24 + f * W
      <3>1. f \in 0 .. f
        BY <1>2
      <3> QED
        BY <1>4, <3>1
    <2> HIDE DEF a
    <2>3. x \in Text /\ Len(x) = Len(a) + Len(u) /\ Len(a) \in Nat /\ Len(u) \in Nat
      BY <2>1, <2>2, Concat, TextType DEF a
    <2> DEFINE y == f * W
               z == (M - f) * W
               m == M * W
    <2>4. y + z = m /\ y \in Nat /\ z \in Nat /\ Len(a) <= 24 + y /\ Len(u) <= z
          /\ 24 + m + (WAITING - 1) < Half
      BY <1>1, <1>2, <1>3, <2>1, <2>2
    <2> HIDE DEF y, z, m
    <2> QED
      BY <1>1, <2>3, <2>4
  <1>6. CASE Tailed(x, k, e, w, f)
    <2>1. PICK g \in 0 .. f, p \in Text, q \in Text :
            /\ x = (Upto(k, e, w, g) \o p) \o q
            /\ Len(p) + Len(q) <= (M - g) * W + (WAITING - 1)
      BY <1>6 DEF Tailed
    <2> DEFINE a == Upto(k, e, w, g)
    <2>2. a \in Text /\ Len(a) <= 24 + g * W /\ g \in 0 .. M
      BY <1>4
    <2> HIDE DEF a
    <2>3. a \o p \in Text /\ Len(a \o p) = Len(a) + Len(p) /\ Len(a) \in Nat
          /\ Len(p) \in Nat /\ Len(q) \in Nat
      BY <2>2, Concat, TextType
    <2>4. x \in Text /\ Len(x) = Len(a \o p) + Len(q)
      BY <2>1, <2>3, Concat DEF a
    <2> DEFINE y == g * W
               z == (M - g) * W
               m == M * W
    <2>5. y + z = m /\ y \in Nat /\ z \in Nat /\ Len(a) <= 24 + y
          /\ Len(p) + Len(q) <= z + (WAITING - 1) /\ 24 + m + (WAITING - 1) < Half
      BY <1>1, <1>3, <2>1, <2>2
    <2> HIDE DEF y, z, m
    <2> QED
      BY <1>1, <2>3, <2>4, <2>5
  <1>7. CASE Headless(x, k, e)
    <2>1. PICK p \in Text, q \in Text :
            x = p \o q /\ Len(p) <= 24 /\ Len(q) <= WAITING - 1
      BY <1>7 DEF Headless
    <2>2. x \in Text /\ Len(x) = Len(p) + Len(q) /\ Len(p) \in Nat /\ Len(q) \in Nat
      BY <2>1, Concat, TextType
    <2> DEFINE m == M * W
    <2>3. m \in Nat /\ 24 + m + (WAITING - 1) < Half
      BY <1>1, <1>2, <1>3
    <2> HIDE DEF m
    <2> QED
      BY <1>1, <2>1, <2>2, <2>3
  <1> QED
    BY <1>5, <1>6, <1>7 DEF Shape

-----------------------------------------------------------------------------
\* ts_create_char_device_file gives the text this shape.

LEMMA FirstTextShape ==
  ASSUME NEW k \in Int, NEW e \in Euids, NEW w \in Waiting, Short(w), NEW f,
         FirstCut(k, f)
  PROVE  Shape(FirstText(k, e, w), k, e, w, f)
  <1> DEFINE x == FirstText(k, e, w)
             a == Upto(k, e, w, f)
             W == Widest(e)
             M == MAX_LEVELS
  <1>1. /\ W \in Nat /\ WAITING \in Nat /\ WAITING > 1 /\ e \in Int /\ M \in Nat
    BY Bound
  <1>2. f \in 0 .. M
    BY DEF FirstCut
  <1>3. x = Cuts(k, e, w, M)
    BY Zenon DEF FirstText, Cuts, Kept
  <1>4. a \in Text
    BY <1>1, <1>2, UptoText
  <1>5. CASE f = M
    <2>1. f \in 0 .. f
      BY <1>2
    <2>2. x = a
      BY <1>1, <1>3, <1>5, <2>1, CutsWhole
    <2>3. /\ << >> \in Text /\ a \o << >> = a /\ NoNewline(<< >>) /\ NoTab(<< >>)
          /\ Len(<< >>) = 0
      BY <1>4, EmptyText
    <2>4. 0 <= (M - f) * W
      <3>1. M - f = 0 /\ 0 * W = 0
        BY <1>1, <1>5
      <3> QED
        BY <3>1
    <2>5. Len(<< >>) <= (M - f) * W
      BY <2>3, <2>4, Zenon
    <2>6. x = a \o << >>
      BY <2>2, <2>3, Zenon
    <2>7. Whole(x, k, e, w, f)
      BY <1>5, <2>3, <2>5, <2>6, Zenon DEF Whole
    <2> QED
      BY <2>7 DEF Shape
  <1>6. CASE f # M
    <2>1. M \in 0 .. MAX_LEVELS /\ f < M
      BY <1>1, <1>2, <1>6
    <2>2. PICK u \in Text : /\ Cuts(k, e, w, M) = Upto(k, e, w, f) \o u
                            /\ NoNewline(u) /\ Len(u) <= (M - f) * W
                            /\ KeyTab(k, e) => ~NoTab(u)
      BY <1>1, <2>1, CutsRest
    <2>3. x = a \o u
      BY <1>3, <2>2, Zenon
    <2>4. CASE NoTab(u)
      <3>1. Whole(x, k, e, w, f)
        BY <1>6, <2>2, <2>3, <2>4, Zenon DEF Whole
      <3> QED
        BY <3>1 DEF Shape
    <2>5. CASE ~NoTab(u)
      <3>1. PICK p \in Text, q \in Text :
               u = p \o q /\ EndsWithTab(p) /\ NoTab(q)
               /\ Len(p) + Len(q) = Len(u) /\ Len(p) <= Len(u)
        BY <2>5, AtLastTab
      <3>2. NoNewline(p) /\ NoNewline(q)
        BY <2>2, <3>1, ConcatLacks
      <3>3. x = (a \o p) \o q
        <4>1. (a \o p) \o q = a \o (p \o q)
          BY <1>4, Associative
        <4> QED
          BY <2>3, <3>1, <4>1, Zenon
      <3>4. Len(p) <= (M - f) * W /\ Len(p) + Len(q) <= (M - f) * W + (WAITING - 1)
        <4> DEFINE z == (M - f) * W
        <4>1. z \in Int
          <5>1. M - f \in Int
            BY <1>1, <1>2
          <5> HIDE DEF W
          <5> QED
            BY <1>1, <5>1
        <4>2. Len(u) <= z /\ Len(u) \in Nat /\ Len(p) \in Nat /\ Len(q) \in Nat
          BY <2>2, TextType
        <4> HIDE DEF z
        <4>3. Len(p) <= z /\ Len(p) + Len(q) <= z + (WAITING - 1)
          BY <1>1, <3>1, <4>1, <4>2
        <4> QED
          BY <4>3 DEF z
      <3>5. f \in 0 .. f
        BY <1>2
      <3>6. Tailed(x, k, e, w, f)
        BY <1>6, <3>1, <3>2, <3>3, <3>4, <3>5, Zenon DEF Tailed
      <3> QED
        BY <3>6 DEF Shape
    <2> QED
      BY <2>4, <2>5
  <1> QED
    BY <1>5, <1>6

-----------------------------------------------------------------------------
\* And update_chrdev keeps it.

\* Concatenation as an operator that the provers do not expand.
Glue(a, b) == a \o b

LEMMA GlueText ==
  ASSUME NEW a \in Text, NEW b \in Text
  PROVE  Glue(a, b) \in Text
  BY Concat DEF Glue

LEMMA GlueAssociative ==
  ASSUME NEW a \in Text, NEW b \in Text, NEW c \in Text
  PROVE  Glue(Glue(a, b), c) = Glue(a, Glue(b, c))
  BY Associative DEF Glue

LEMMA Regroup ==
  ASSUME NEW a \in Text, NEW b \in Text, NEW d \in Text, NEW z \in Text,
         NEW s \in Text, NEW r \in Text
  PROVE  Glue(Glue(Glue(a, Glue(Glue(b, d), z)), s), r)
           = Glue(Glue(Glue(a, b), d), Glue(z, Glue(s, r)))
  <1>1. Glue(a, Glue(Glue(b, d), z)) = Glue(Glue(Glue(a, b), d), z)
    BY GlueText, GlueAssociative
  <1> DEFINE c == Glue(Glue(a, b), d)
  <1>2. c \in Text
    BY GlueText
  <1> HIDE DEF c
  <1>3. Glue(Glue(c, z), s) = Glue(c, Glue(z, s))
    BY <1>2, GlueAssociative
  <1>4. Glue(Glue(c, Glue(z, s)), r) = Glue(c, Glue(Glue(z, s), r))
    BY <1>2, GlueText, GlueAssociative
  <1>5. Glue(Glue(z, s), r) = Glue(z, Glue(s, r))
    BY GlueAssociative
  <1> QED
    BY <1>1, <1>3, <1>4, <1>5, Zenon DEF c

\* The count of level l has become n.
Changed(w, v, l, n) ==
  v[l] = n /\ \A j \in 0 .. MAX_LEVELS - 1 : j # l => w[j] = v[j]

\* The line of a level that has not been cut.
LEMMA UpdateLine ==
  ASSUME NEW k \in Int, NEW e \in Int, NEW w \in Waiting, NEW v \in Waiting,
         NEW l \in 0 .. MAX_LEVELS - 1, NEW n \in Nat, Changed(w, v, l, n),
         NEW g \in 0 .. MAX_LEVELS, l < g, NEW r \in Text, NEW x,
         x = Glue(Upto(k, e, w, g), r), Len(x) <= Half
  PROVE  Splice(x, l, n) = Glue(Upto(k, e, v, g), r)
  <1> DEFINE a == Upto(k, e, w, l)
             b == LineFront(k, e, l)
             d == Decimal(w[l])
             z == <<NEWLINE>>
             c == a \o b
  <1>1. l \in Nat /\ l \in 0 .. MAX_LEVELS /\ w[l] \in Nat
    BY TextAssumption DEF Waiting
  <1>2. PICK s \in Text : /\ Upto(k, e, w, g) = Upto(k, e, w, l + 1) \o s
                          /\ Upto(k, e, v, g) = Upto(k, e, v, l + 1) \o s
    BY UptoRest DEF Changed
  <1>3. /\ a \in Text /\ Lf(a) = l + 1
        /\ b \in Text /\ NoNewline(b) /\ EndsWithTab(b)
        /\ d \in Text /\ NoTab(d) /\ NoNewline(d)
        /\ z \in Text /\ Decimal(n) \in Text
    <2>1. a \in Text /\ Lf(a) = l + 1
      BY <1>1, UptoText
    <2>2. b \in Text /\ NoNewline(b) /\ EndsWithTab(b)
      BY <1>1, FrontText
    <2>3. d \in Text /\ NoTab(d) /\ NoNewline(d) /\ Decimal(n) \in Text
      <3>1. w[l] \in Int /\ n \in Int
        BY <1>1
      <3> QED
        BY <3>1, CharsCounted, Zenon
    <2> QED
      BY <2>1, <2>2, <2>3, OneTab
  <1>4. Upto(k, e, w, l + 1) = Glue(a, Glue(Glue(b, d), z))
    <2>1. Upto(k, e, w, l + 1) = a \o Line(k, e, l, w[l])
      BY UptoStep
    <2>2. Line(k, e, l, w[l]) = (b \o d) \o z
      BY <1>1, LineText
    <2> QED
      BY <2>1, <2>2, Zenon DEF Glue
  <1>5. Upto(k, e, v, l + 1) = Glue(a, Glue(Glue(b, Decimal(n)), z))
    <2>1. Upto(k, e, v, l + 1) = Upto(k, e, v, l) \o Line(k, e, l, v[l])
      BY UptoStep
    <2>2. Line(k, e, l, n) = (b \o Decimal(n)) \o z
      BY <1>1, LineText
    <2>3. Upto(k, e, v, l) = a
      <3>1. \A j \in 0 .. l - 1 : w[j] = v[j]
        <4>1. \A j \in 0 .. l - 1 : j \in 0 .. MAX_LEVELS - 1 /\ j # l
          BY <1>1, TextAssumption
        <4> QED
          BY <4>1 DEF Changed
      <3> QED
        BY <1>1, <3>1, UptoSame
    <2> QED
      BY <2>1, <2>2, <2>3, Zenon DEF Glue, Changed
  <1> HIDE DEF a, b, d, z, c
  <1> DEFINE t == z \o (s \o r)
  <1>6. s \o r \in Text /\ t \in Text /\ c \in Text
    <2>1. s \o r \in Text
      BY Concat
    <2> QED
      BY <1>3, <2>1, Concat DEF c
  <1>7. x = c \o d \o t
    <2>1. x = Glue(Glue(Glue(a, Glue(Glue(b, d), z)), s), r)
      BY <1>2, <1>4, Zenon DEF Glue
    <2>2. x = Glue(Glue(Glue(a, b), d), Glue(z, Glue(s, r)))
      BY <1>3, <2>1, Regroup
    <2> QED
      BY <2>2, Zenon DEF c, Glue
  <1>8. Upto(k, e, v, g) \o r = WithCount(c, n, t)
    <2> DEFINE m == Decimal(n)
               y == Upto(k, e, v, g) \o r
    <2>1. m \in Text
      BY <1>3
    <2>2. y = Glue(Glue(Glue(a, Glue(Glue(b, m), z)), s), r)
      BY <1>2, <1>5, Zenon DEF Glue
    <2> HIDE DEF m, y
    <2>3. Glue(Glue(Glue(a, Glue(Glue(b, m), z)), s), r)
            = Glue(Glue(Glue(a, b), m), Glue(z, Glue(s, r)))
      <3>1. a \in Text /\ b \in Text /\ z \in Text
        BY <1>3
      <3> QED
        BY <2>1, <3>1, Regroup
    <2> QED
      BY <2>2, <2>3, Zenon DEF c, m, y, Glue, WithCount
  <1>9. EndsWithTab(c) /\ Lf(c) = l + 1
    <2>1. Lf(c) = Lf(a) + Lf(b) /\ Lf(b) = 0
      BY <1>3, LfConcat, NoLf DEF c
    <2>2. EndsWithTab(c)
      BY <1>3, ConcatLacks DEF c
    <2> QED
      BY <1>1, <1>3, <2>1, <2>2
  <1>10. StartsWithNewline(t)
    <2>1. z[1] = NEWLINE /\ Len(z) = 1
      BY OneTab DEF z
    <2>2. /\ t \in Text /\ Len(t) = Len(z) + Len(s \o r)
          /\ \A i \in 1 .. Len(z) : t[i] = z[i]
      BY <1>3, <1>6, Concat
    <2> HIDE DEF t
    <2>3. Len(t) > 0 /\ t[1] = NEWLINE
      BY <1>6, <2>1, <2>2, TextType
    <2>4. t # << >>
      BY <2>3, EmptyText
    <2> QED
      BY <2>3, <2>4 DEF StartsWithNewline
  <1> HIDE DEF t
  <1>11. Len(c) <= Half /\ Len(t) <= Half
    <2>1. c \o d \in Text /\ Len(c \o d) = Len(c) + Len(d)
      BY <1>3, <1>6, Concat
    <2>2. Len(x) = Len(c \o d) + Len(t)
      BY <1>6, <1>7, <2>1, Concat
    <2>3. Len(c) \in Nat /\ Len(d) \in Nat /\ Len(t) \in Nat /\ Half \in Nat
      BY <1>3, <1>6, TextType, HalfType
    <2> QED
      BY <2>1, <2>2, <2>3
  <1>12. Splice(c \o d \o t, l, n) = WithCount(c, n, t)
    BY <1>1, <1>3, <1>6, <1>9, <1>10, <1>11, SpliceLine
  <1> QED
    BY <1>7, <1>8, <1>12, Zenon DEF Glue

\* The field after the last tab: of the last line, or of the header.
LEMMA UpdateEnd ==
  ASSUME NEW c \in Text, NEW d \in Text, EndsWithTab(c), NoTab(d), NoNewline(d),
         NEW l \in Nat, NEW n \in Nat, Lf(c) < l + 2, NEW x, x = c \o d,
         Len(x) <= Half
  PROVE  Splice(x, l, n) = c \o Decimal(n)
  <1>1. Lf(c \o d) = Lf(c)
    <2>1. Lf(c \o d) = Lf(c) + Lf(d) /\ Lf(d) = 0 /\ Lf(c) \in Nat
      BY LfConcat, NoLf, TextType
    <2> QED
      BY <2>1
  <1>2. Len(c) <= Half
    <2>1. Len(x) = Len(c) + Len(d) /\ Len(c) \in Nat /\ Len(d) \in Nat
      BY Concat, TextType
    <2> QED
      BY <2>1, HalfType
  <1>3. Lf(c \o d) < l + 2
    BY <1>1
  <1>4. Splice(c \o d, l, n) = c \o Decimal(n)
    BY <1>2, <1>3, SpliceEnd
  <1> QED
    BY <1>4, Zenon

LEMMA NewCount ==
  ASSUME NEW n \in Nat, Len(Decimal(n)) < WAITING
  PROVE  /\ Decimal(n) \in Text /\ NoTab(Decimal(n)) /\ NoNewline(Decimal(n))
         /\ Len(Decimal(n)) \in Nat /\ Len(Decimal(n)) <= WAITING - 1
  <1>1. n \in Int /\ WAITING \in Nat
    BY TextAssumption
  <1>2. Decimal(n) \in Text /\ NoTab(Decimal(n)) /\ NoNewline(Decimal(n))
    BY <1>1, CharsCounted, Zenon
  <1>3. Len(Decimal(n)) \in Nat
    BY <1>2, TextType
  <1> QED
    BY <1>1, <1>2, <1>3

LEMMA UpdateWhole ==
  ASSUME NEW k \in Int, NEW e \in Euids, NEW w \in Waiting, NEW v \in Waiting,
         Short(w), NEW f, FirstCut(k, f), NEW l \in 0 .. MAX_LEVELS - 1,
         NEW n \in Nat, Len(Decimal(n)) < WAITING, Changed(w, v, l, n),
         NEW x, Len(x) <= Half, Whole(x, k, e, w, f)
  PROVE  Shape(Splice(x, l, n), k, e, v, f)
  <1>1. /\ Widest(e) \in Nat /\ WAITING \in Nat /\ WAITING > 1 /\ e \in Int
        /\ MAX_LEVELS \in Nat
    BY Bound
  <1>2. f \in 0 .. MAX_LEVELS /\ f \in Nat /\ l \in Nat
    BY <1>1 DEF FirstCut
  <1>3. PICK u \in Text :
          /\ x = Upto(k, e, w, f) \o u
          /\ NoNewline(u) /\ NoTab(u)
          /\ Len(u) <= (MAX_LEVELS - f) * Widest(e)
          /\ f = MAX_LEVELS => u = << >>
          /\ f # MAX_LEVELS => ~KeyTab(k, e)
    BY Zenon DEF Whole
  <1> DEFINE m == Decimal(n)
  <1>4. m \in Text /\ NoTab(m) /\ NoNewline(m) /\ Len(m) \in Nat /\ Len(m) <= WAITING - 1
    BY NewCount
  <1>5. CASE l < f
    <2>0. x = Glue(Upto(k, e, w, f), u)
      BY <1>3, Zenon DEF Glue
    <2>1. Splice(x, l, n) = Glue(Upto(k, e, v, f), u)
      BY <1>1, <1>2, <1>5, <2>0, UpdateLine
    <2>2. Whole(Splice(x, l, n), k, e, v, f)
      BY <1>3, <2>1, Zenon DEF Whole, Glue
    <2> QED
      BY <2>2 DEF Shape
  <1>6. CASE ~(l < f) /\ f # 0
    <2>1. PICK g \in Nat : f = g + 1
      <3>1. f - 1 \in Nat /\ f = (f - 1) + 1
        BY <1>2, <1>6
      <3> QED
        BY <3>1
    <2>2. /\ g \in 0 .. MAX_LEVELS - 1 /\ g \in 0 .. f /\ g \in 0 .. f - 1
          /\ g \in 0 .. MAX_LEVELS /\ g <= l /\ f # MAX_LEVELS
      BY <1>1, <1>2, <1>6, <2>1
    <2> DEFINE a == Upto(k, e, w, g)
               b == LineFront(k, e, g)
               d == Decimal(w[g])
               z == <<NEWLINE>>
               c == Glue(a, b)
               q == Glue(Glue(d, z), u)
    <2>3. FitsKey(k, g) /\ w[g] \in Nat /\ Len(Decimal(w[g])) < WAITING
      BY <2>2 DEF FirstCut, Waiting, Short
    <2>4. /\ a \in Text /\ Lf(a) = g + 1
          /\ b \in Text /\ NoNewline(b) /\ EndsWithTab(b) /\ Len(b) <= Widest(e)
          /\ d \in Text /\ NoTab(d) /\ NoNewline(d)
          /\ z \in Text /\ NoTab(z) /\ Lf(z) = 1
      <3>1. a \in Text /\ Lf(a) = g + 1
        BY <1>1, <2>2, UptoText
      <3>2. b \in Text /\ NoNewline(b) /\ EndsWithTab(b)
        BY <1>1, FrontText
      <3>3. Len(b) <= Widest(e)
        BY <1>1, <2>3, KeptLine
      <3>4. d \in Text /\ NoTab(d) /\ NoNewline(d)
        BY <2>3, NewCount
      <3> QED
        BY <3>1, <3>2, <3>3, <3>4, OneTab, OneLf
    <2>5. x = Glue(Glue(a, Glue(Glue(b, d), z)), u)
      <3>1. Upto(k, e, w, g + 1) = a \o Line(k, e, g, w[g])
        BY <1>1, <2>2, UptoStep
      <3>2. Line(k, e, g, w[g]) = (b \o d) \o z
        BY <1>1, <2>3, LineText
      <3> QED
        BY <1>3, <2>1, <3>1, <3>2, Zenon DEF Glue
    <2> HIDE DEF a, b, d, z, m
    <2>6. x = Glue(c, q) /\ c \in Text /\ q \in Text
      <3>1. Glue(d, z) \in Text /\ c \in Text
        BY <2>4, GlueText
      <3>2. q \in Text
        BY <3>1, GlueText
      <3>3. Glue(Glue(Glue(a, b), d), Glue(z, u)) = Glue(c, q)
        <4>1. Glue(c, Glue(d, Glue(z, u))) = Glue(Glue(c, d), Glue(z, u))
          BY <2>4, <3>1, GlueText, GlueAssociative
        <4>2. Glue(d, Glue(z, u)) = Glue(Glue(d, z), u)
          BY <2>4, GlueAssociative
        <4> QED
          BY <4>1, <4>2, Zenon
      <3>4. Glue(Glue(a, Glue(Glue(b, d), z)), u) = Glue(Glue(Glue(a, b), d), Glue(z, u))
        <4>1. Glue(Glue(b, d), z) = Glue(b, Glue(d, z))
          BY <2>4, GlueAssociative
        <4>2. Glue(a, Glue(b, Glue(d, z))) = Glue(c, Glue(d, z))
          BY <2>4, <3>1, GlueAssociative
        <4>3. Glue(Glue(c, Glue(d, z)), u) = Glue(c, q)
          BY <3>1, GlueAssociative
        <4> QED
          BY <3>3, <4>1, <4>2, <4>3, Zenon
      <3> QED
        BY <2>5, <3>1, <3>2, <3>3, <3>4, Zenon
    <2>7. EndsWithTab(c) /\ Lf(c) = g + 1
      <3>1. Lf(c) = Lf(a) + Lf(b) /\ Lf(b) = 0 /\ EndsWithTab(c)
        BY <2>4, LfConcat, NoLf, ConcatLacks DEF Glue
      <3> QED
        BY <2>4, <3>1
    <2>8. x = c \o q /\ Len(x) <= Half
      BY <2>6, Zenon DEF Glue
    <2>9. NoTab(q) /\ Lf(q) = 1
      <3>1. NoTab(Glue(d, z)) /\ Glue(d, z) \in Text
        BY <2>4, ConcatLacks, GlueText DEF Glue
      <3>2. NoTab(q)
        BY <1>3, <3>1, ConcatLacks DEF Glue
      <3>3. Lf(Glue(d, z)) = Lf(d) + Lf(z) /\ Lf(d) = 0
        BY <2>4, LfConcat, NoLf DEF Glue
      <3>4. Lf(q) = Lf(Glue(d, z)) + Lf(u) /\ Lf(u) = 0
        BY <1>3, <3>1, LfConcat, NoLf DEF Glue
      <3> QED
        BY <2>4, <3>2, <3>3, <3>4
    <2> HIDE DEF c, q
    <2>10. Splice(x, l, n) = c \o m
      <3>1. Lf(c \o q) = Lf(c) + Lf(q)
        BY <2>6, LfConcat
      <3>2. Lf(c \o q) < l + 2
        BY <1>2, <2>1, <2>2, <2>7, <2>9, <1>6, <3>1
      <3>3. Len(c) <= Half
        <4>1. Len(x) = Len(c) + Len(q) /\ Len(c) \in Nat /\ Len(q) \in Nat
          BY <2>6, <2>8, Concat, TextType
        <4> QED
          BY <2>8, <4>1, HalfType
      <3>4. Splice(c \o q, l, n) = c \o Decimal(n)
        BY <1>2, <2>6, <2>7, <2>9, <3>2, <3>3, SpliceEnd
      <3> QED
        BY <2>8, <3>4, Zenon DEF m
    <2>11. Upto(k, e, w, g) = Upto(k, e, v, g)
      <3>1. \A j \in 0 .. g - 1 : j \in 0 .. MAX_LEVELS - 1 /\ j # l
        BY <1>1, <2>2
      <3> QED
        BY <3>1, UptoSame DEF Changed
    <2>12. Splice(x, l, n) = (Upto(k, e, v, g) \o b) \o m
      BY <2>10, <2>11, Zenon DEF c, a, Glue
    <2>13. /\ Len(b) <= (MAX_LEVELS - g) * Widest(e)
           /\ Len(b) + Len(m) <= (MAX_LEVELS - g) * Widest(e) + (WAITING - 1)
      <3> DEFINE y == (MAX_LEVELS - g) * Widest(e)
      <3>1. Widest(e) <= y /\ y \in Nat
        <4>1. MAX_LEVELS - g \in Nat /\ MAX_LEVELS - g >= 1
          BY <1>1, <2>2
        <4>2. \A i, j \in Nat : i >= 1 => j <= i * j /\ i * j \in Nat
          OBVIOUS
        <4> QED
          BY <1>1, <4>1, <4>2
      <3> HIDE DEF y
      <3>2. Len(b) <= y /\ Len(b) + Len(m) <= y + (WAITING - 1)
        <4>1. Len(b) \in Nat
          BY <2>4, TextType
        <4> QED
          BY <1>1, <1>4, <2>4, <3>1, <4>1 DEF m
      <3> QED
        BY <3>2 DEF y
    <2>14. Tailed(Splice(x, l, n), k, e, v, f)
      <3>1. ~KeyTab(k, e)
        BY <1>3, <2>2
      <3>2. m \in Text /\ NoTab(m) /\ NoNewline(m)
        BY <1>4 DEF m
      <3> QED
        BY <2>2, <2>4, <2>12, <2>13, <3>1, <3>2, Zenon DEF Tailed
    <2> QED
      BY <2>14 DEF Shape
  <1>7. CASE ~(l < f) /\ f = 0
    <2>1. PICK a \in Text, b \in Text :
             /\ header = a \o b
             /\ EndsWithTab(a) /\ NoNewline(a) /\ NoTab(b) /\ Len(a) <= 24
      BY HeaderParts
    <2> DEFINE q == Glue(b, u)
    <2>2. x = a \o q /\ q \in Text /\ NoTab(q)
      <3>1. x = Glue(Glue(a, b), u)
        <4>1. Upto(k, e, w, f) = header
          BY <1>7, UptoZero
        <4> QED
          BY <1>3, <2>1, <4>1, Zenon DEF Glue
      <3>2. Glue(Glue(a, b), u) = Glue(a, q)
        BY GlueAssociative
      <3>3. q \in Text
        BY GlueText
      <3>4. NoTab(q)
        BY <1>3, <2>1, ConcatLacks DEF Glue
      <3>5. x = Glue(a, q)
        BY <3>1, <3>2, Zenon
      <3> QED
        BY <3>3, <3>4, <3>5, Zenon DEF Glue
    <2>3. Lf(a \o q) = 1
      <3>1. Lf(header) = Lf(a) + Lf(b) /\ Lf(header) = 1
        BY <2>1, LfConcat, HeaderText
      <3>2. Lf(q) = Lf(b) + Lf(u) /\ Lf(u) = 0
        BY <1>3, LfConcat, NoLf DEF Glue
      <3> HIDE DEF q
      <3>3. Lf(a \o q) = Lf(a) + Lf(q)
        BY <2>2, LfConcat
      <3>4. Lf(a) \in Nat /\ Lf(b) \in Nat
        BY TextType
      <3> QED
        BY <3>1, <3>2, <3>3, <3>4
    <2> HIDE DEF q, m
    <2>4. Splice(x, l, n) = a \o m
      <3>1. Lf(a \o q) < l + 2
        BY <1>2, <2>3
      <3>2. Len(a) <= Half
        <4>1. Len(x) = Len(a) + Len(q) /\ Len(a) \in Nat /\ Len(q) \in Nat
          BY <2>2, Concat, TextType
        <4> QED
          BY <4>1, HalfType
      <3>3. Splice(a \o q, l, n) = a \o Decimal(n)
        BY <1>2, <2>1, <2>2, <3>1, <3>2, SpliceEnd
      <3> QED
        BY <2>2, <3>3, Zenon DEF m
    <2>5. Headless(Splice(x, l, n), k, e)
      <3>1. f # MAX_LEVELS
        BY <1>2, <1>7
      <3> QED
        BY <1>3, <1>4, <2>1, <2>4, <3>1, Zenon DEF Headless, m
    <2> QED
      BY <2>5 DEF Shape
  <1> QED
    BY <1>5, <1>6, <1>7

LEMMA UpdateTailed ==
  ASSUME NEW k \in Int, NEW e \in Euids, NEW w \in Waiting, NEW v \in Waiting,
         Short(w), NEW f, FirstCut(k, f), NEW l \in 0 .. MAX_LEVELS - 1,
         NEW n \in Nat, Len(Decimal(n)) < WAITING, Changed(w, v, l, n),
         NEW x, Len(x) <= Half, Tailed(x, k, e, w, f)
  PROVE  Tailed(Splice(x, l, n), k, e, v, f)
  <1>1. /\ Widest(e) \in Nat /\ WAITING \in Nat /\ e \in Int /\ MAX_LEVELS \in Nat
    BY Bound
  <1>2. f \in 0 .. MAX_LEVELS /\ l \in Nat
    BY <1>1 DEF FirstCut
  <1>3. PICK g \in 0 .. f, p \in Text, q \in Text :
          /\ x = (Upto(k, e, w, g) \o p) \o q
          /\ EndsWithTab(p) /\ NoNewline(p) /\ NoNewline(q) /\ NoTab(q)
          /\ Len(p) <= (MAX_LEVELS - g) * Widest(e)
          /\ Len(p) + Len(q) <= (MAX_LEVELS - g) * Widest(e) + (WAITING - 1)
          /\ f # MAX_LEVELS
          /\ KeyTab(k, e) => g = f
    BY Zenon DEF Tailed
  <1> DEFINE m == Decimal(n)
  <1>4. m \in Text /\ NoTab(m) /\ NoNewline(m) /\ Len(m) \in Nat /\ Len(m) <= WAITING - 1
    BY NewCount
  <1>5. g \in 0 .. MAX_LEVELS /\ g \in Nat
    BY <1>1, <1>2
  <1>6. /\ Upto(k, e, w, g) \in Text /\ Lf(Upto(k, e, w, g)) = g + 1
        /\ Upto(k, e, v, g) \in Text
    BY <1>1, <1>5, UptoText
  <1>7. CASE l < g
    <2> DEFINE r == Glue(p, q)
    <2>1. r \in Text
      BY GlueText
    <2>2. x = Glue(Upto(k, e, w, g), r)
      <3>1. Glue(Glue(Upto(k, e, w, g), p), q) = Glue(Upto(k, e, w, g), r)
        BY <1>6, GlueAssociative
      <3> QED
        BY <1>3, <3>1, Zenon DEF Glue
    <2>3. Splice(x, l, n) = Glue(Upto(k, e, v, g), r)
      <3> HIDE DEF r
      <3> QED
        BY <1>1, <1>5, <1>7, <2>1, <2>2, UpdateLine
    <2>4. Glue(Glue(Upto(k, e, v, g), p), q) = Glue(Upto(k, e, v, g), r)
      BY <1>6, GlueAssociative
    <2>5. Splice(x, l, n) = (Upto(k, e, v, g) \o p) \o q
      BY <2>3, <2>4, Zenon DEF Glue
    <2> QED
      BY <1>3, <2>5, Zenon DEF Tailed
  <1>8. CASE ~(l < g)
    <2> DEFINE c == Upto(k, e, w, g) \o p
    <2>1. c \in Text /\ EndsWithTab(c) /\ Lf(c) = g + 1
      <3>1. Lf(c) = Lf(Upto(k, e, w, g)) + Lf(p) /\ Lf(p) = 0
        BY <1>3, <1>6, LfConcat, NoLf
      <3>2. c \in Text /\ EndsWithTab(c)
        BY <1>3, <1>6, Concat, ConcatLacks
      <3> HIDE DEF c
      <3> QED
        BY <1>5, <1>6, <3>1, <3>2
    <2>2. x = c \o q
      BY <1>3
    <2> HIDE DEF c
    <2>3. Splice(c \o q, l, n) = c \o Decimal(n)
      <3>1. Lf(c \o q) = Lf(c) + Lf(q) /\ Lf(q) = 0
        BY <1>3, <2>1, LfConcat, NoLf
      <3>2. Lf(c \o q) < l + 2
        BY <1>2, <1>5, <1>8, <2>1, <3>1
      <3>3. Len(c) <= Half
        <4>1. Len(x) = Len(c) + Len(q) /\ Len(c) \in Nat /\ Len(q) \in Nat
          BY <2>1, <2>2, Concat, TextType
        <4> QED
          BY <4>1, HalfType
      <3> QED
        BY <1>2, <1>3, <2>1, <3>2, <3>3, SpliceEnd
    <2>4. Upto(k, e, w, g) = Upto(k, e, v, g)
      <3>1. \A j \in 0 .. g - 1 : j \in 0 .. MAX_LEVELS - 1 /\ j # l
        BY <1>1, <1>2, <1>5, <1>8
      <3> QED
        BY <1>5, <3>1, UptoSame DEF Changed
    <2>5. Splice(x, l, n) = (Upto(k, e, v, g) \o p) \o m
      BY <2>2, <2>3, <2>4, Zenon DEF c
    <2>6. Len(p) + Len(m) <= (MAX_LEVELS - g) * Widest(e) + (WAITING - 1)
      <3> DEFINE y == (MAX_LEVELS - g) * Widest(e)
      <3>1. y \in Int /\ Len(p) <= y /\ Len(p) \in Nat
        <4>1. \A i, j \in Int : i * j \in Int
          OBVIOUS
        <4> QED
          BY <1>1, <1>3, <1>5, <4>1, TextType
      <3> HIDE DEF y, m
      <3>2. Len(p) + Len(m) <= y + (WAITING - 1)
        BY <1>1, <1>4, <3>1
      <3> QED
        BY <3>2 DEF y
    <2> HIDE DEF m
    <2> QED
      BY <1>3, <1>4, <2>5, <2>6, Zenon DEF Tailed
  <1> QED
    BY <1>7, <1>8

LEMMA UpdateHeadless ==
  ASSUME NEW k \in Int, NEW e \in Euids, NEW l \in 0 .. MAX_LEVELS - 1,
         NEW n \in Nat, Len(Decimal(n)) < WAITING,
         NEW x, Len(x) <= Half, Headless(x, k, e)
  PROVE  Headless(Splice(x, l, n), k, e)
  <1>1. PICK p \in Text, q \in Text :
          /\ x = p \o q
          /\ EndsWithTab(p) /\ NoNewline(p) /\ NoNewline(q) /\ NoTab(q)
          /\ Len(p) <= 24 /\ Len(q) <= WAITING - 1
          /\ ~KeyTab(k, e)
    BY Zenon DEF Headless
  <1> DEFINE m == Decimal(n)
  <1>2. m \in Text /\ NoTab(m) /\ NoNewline(m) /\ Len(m) <= WAITING - 1
    BY NewCount
  <1>3. Splice(p \o q, l, n) = p \o m
    <2>1. Lf(p \o q) = Lf(p) + Lf(q) /\ Lf(p) = 0 /\ Lf(q) = 0
      BY <1>1, LfConcat, NoLf
    <2>2. l \in Nat /\ Lf(p \o q) < l + 2
      BY <2>1
    <2>3. Len(p) <= Half
      <3>1. Len(x) = Len(p) + Len(q) /\ Len(p) \in Nat /\ Len(q) \in Nat
        BY <1>1, Concat, TextType
      <3> QED
        BY <3>1, HalfType
    <2>4. Splice(p \o q, l, n) = p \o Decimal(n)
      BY <1>1, <2>2, <2>3, SpliceEnd
    <2> QED
      BY <2>4, Zenon
  <1> HIDE DEF m
  <1> QED
    BY <1>1, <1>2, <1>3, Zenon DEF Headless

LEMMA UpdateShape ==
  ASSUME NEW k \in Int, NEW e \in Euids, NEW w \in Waiting, NEW v \in Waiting,
         Short(w), NEW f, FirstCut(k, f), NEW l \in 0 .. MAX_LEVELS - 1,
         NEW n \in Nat, Len(Decimal(n)) < WAITING, Changed(w, v, l, n),
         NEW x, Shape(x, k, e, w, f)
  PROVE  Shape(Splice(x, l, n), k, e, v, f)
  <1>1. Len(x) <= Half
    <2>1. x \in Text /\ Len(x) < Half
      BY ShapeLength
    <2> QED
      BY <2>1, TextType, HalfType
  <1>2. CASE Whole(x, k, e, w, f)
    BY <1>1, <1>2, UpdateWhole
  <1>3. CASE Tailed(x, k, e, w, f)
    BY <1>1, <1>3, UpdateTailed DEF Shape
  <1>4. CASE Headless(x, k, e)
    BY <1>1, <1>4, UpdateHeadless DEF Shape
  <1> QED
    BY <1>2, <1>3, <1>4 DEF Shape

-----------------------------------------------------------------------------
\* The inductive invariant.
TextShape ==
  /\ key \in Keys /\ owner_euid \in Euids
  /\ thread_waiting \in [0 .. MAX_LEVELS - 1 -> Counts \cup {0}]
  /\ content # << >> =>
       \E f : FirstCut(key, f) /\ Shape(content, key, owner_euid, thread_waiting, f)

\* The counts of a state, as the lemmas want them.
LEMMA StateCounts ==
  ASSUME NEW w \in [0 .. MAX_LEVELS - 1 -> Counts \cup {0}]
  PROVE  w \in Waiting /\ Short(w)
  <1>1. \A n \in Counts \cup {0} : n \in Nat /\ Len(Decimal(n)) < WAITING
    BY TextAssumption, WidthAssumption
  <1>2. \A l \in 0 .. MAX_LEVELS - 1 : w[l] \in Counts \cup {0}
    OBVIOUS
  <1>3. w \in Waiting
    BY <1>1 DEF Waiting
  <1>4. Short(w)
    BY <1>1, <1>2 DEF Short
  <1> QED
    BY <1>3, <1>4

LEMMA ShapeStep == TextShape /\ [Next]_vars => TextShape'
  <1> SUFFICES ASSUME TextShape, [Next]_vars PROVE TextShape'
    OBVIOUS
  <1> DEFINE w == thread_waiting
             v == thread_waiting'
  <1>1. /\ key \in Keys /\ key \in Int /\ owner_euid \in Euids
        /\ w \in [0 .. MAX_LEVELS - 1 -> Counts \cup {0}]
        /\ w \in Waiting /\ Short(w)
    BY StateCounts, TextAssumption DEF TextShape
  <1>2. CASE CreateText
    <2>1. PICK f : FirstCut(key, f)
      BY <1>1, FirstCutExists
    <2>2. Shape(FirstText(key, owner_euid, w), key, owner_euid, w, f)
      BY <1>1, <2>1, FirstTextShape
    <2> QED
      BY <1>1, <1>2, <2>1, <2>2 DEF CreateText, TextShape
  <1>3. ASSUME NEW l \in Used, NEW n \in Counts, ReceiveEarly(l, n)
        PROVE  TextShape'
    <2>1. v \in [0 .. MAX_LEVELS - 1 -> Counts \cup {0}]
      BY <1>1, <1>3 DEF ReceiveEarly
    <2>2. content' = << >> /\ key' = key /\ owner_euid' = owner_euid
      BY <1>3 DEF ReceiveEarly
    <2> QED
      BY <1>1, <2>1, <2>2 DEF TextShape
  <1>4. ASSUME NEW l \in Used, NEW n \in Counts, Update(l, n)
        PROVE  TextShape'
    <2>1. /\ v = [w EXCEPT ![l] = n] /\ content' = Splice(content, l, n)
          /\ content # << >> /\ key' = key /\ owner_euid' = owner_euid
      BY <1>4 DEF Update
    <2>2. l \in 0 .. MAX_LEVELS - 1 /\ n \in Nat /\ Len(Decimal(n)) < WAITING
      BY TextAssumption, WidthAssumption
    <2>3. v \in [0 .. MAX_LEVELS - 1 -> Counts \cup {0}] /\ v \in Waiting
      <3>1. v \in [0 .. MAX_LEVELS - 1 -> Counts \cup {0}]
        BY <1>1, <2>1
      <3> HIDE DEF v, w
      <3> QED
        BY <3>1, StateCounts
    <2>4. Changed(w, v, l, n)
      BY <1>1, <2>1, <2>2 DEF Changed
    <2>5. PICK f : /\ FirstCut(key, f)
                   /\ Shape(content, key, owner_euid, w, f)
      BY <2>1 DEF TextShape
    <2>6. Shape(Splice(content, l, n), key, owner_euid, v, f)
      <3> HIDE DEF v, w
      <3> QED
        BY <1>1, <2>2, <2>3, <2>4, <2>5, UpdateShape
    <2>7. \E g : FirstCut(key', g) /\ Shape(content', key', owner_euid', v, g)
      BY <2>1, <2>5, <2>6, Zenon
    <2> QED
      BY <1>1, <2>1, <2>3, <2>7 DEF TextShape
  <1>5. CASE UNCHANGED vars
    BY <1>5 DEF TextShape, vars
  <1> QED
    BY <1>2, <1>3, <1>4, <1>5 DEF Next

\* After any updates of any levels, the text has this shape.
THEOREM TextShapes == Spec => []TextShape
  <1>1. Init => TextShape
    BY DEF Init, TextShape
  <1> QED
    BY <1>1, ShapeStep, PTL DEF Spec

\* Types; and no sequence of updates makes the text longer than the half
\* buffers of update_chrdev.
THEOREM TextTypes == Spec => []TypeOK
  <1>1. TextShape => TypeOK
    <2> SUFFICES ASSUME TextShape PROVE TypeOK
      OBVIOUS
    <2>1. /\ key \in Keys /\ key \in Int /\ owner_euid \in Euids
          /\ thread_waiting \in [0 .. MAX_LEVELS - 1 -> Counts \cup {0}]
          /\ thread_waiting \in Waiting /\ Short(thread_waiting)
      BY StateCounts, TextAssumption DEF TextShape
    <2>2. content \in Text /\ Len(content) < Half
      <3>1. CASE content = << >>
        <4>1. << >> \in Text /\ Len(<< >>) = 0
          BY EmptyText
        <4>2. 0 < Half
          <5> DEFINE y == MAX_LEVELS * Widest(owner_euid)
          <5>1. 24 + y + (WAITING - 1) < Half /\ WAITING \in Nat /\ WAITING > 1
                /\ Half \in Nat /\ y \in Nat
            <6>1. \A i, j \in Nat : i * j \in Nat
              OBVIOUS
            <6> QED
              BY <2>1, <6>1, Bound
          <5> HIDE DEF y
          <5> QED
            BY <5>1
        <4> QED
          BY <3>1, <4>1, <4>2
      <3>2. CASE content # << >>
        <4>1. PICK f : /\ FirstCut(key, f)
                       /\ Shape(content, key, owner_euid, thread_waiting, f)
          BY <3>2 DEF TextShape
        <4> QED
          BY <2>1, <4>1, ShapeLength
      <3> QED
        BY <3>1, <3>2
    <2> QED
      BY <2>1, <2>2, Zenon DEF TypeOK, Text, Half
  <1> QED
    BY <1>1, TextShapes, PTL

\* If no line is too wide for snprintf, the text of the device is always what
\* formatting the service again would give, whichever levels were updated.
THEOREM TextsExact == Spec => []TextExact
  <1>1. TextShape => TextExact
    <2> SUFFICES ASSUME TextShape, content # << >>,
                        \A l \in DOMAIN thread_waiting : Fits(l)
                 PROVE  content = Document
      BY DEF TextExact
    <2>1. /\ key \in Int /\ owner_euid \in Euids /\ owner_euid \in Int
          /\ DOMAIN thread_waiting = 0 .. MAX_LEVELS - 1
          /\ thread_waiting \in Waiting /\ MAX_LEVELS \in Nat \ {0}
      BY StateCounts, TextAssumption DEF TextShape
    <2>2. PICK f : /\ FirstCut(key, f)
                   /\ Shape(content, key, owner_euid, thread_waiting, f)
      BY DEF TextShape
    <2>3. \A l \in 0 .. MAX_LEVELS - 1 : FitsKey(key, l)
      BY <2>1 DEF Fits, FitsKey
    <2>4. f = MAX_LEVELS
      <3> SUFFICES ASSUME f # MAX_LEVELS PROVE FALSE
        OBVIOUS
      <3>1. f \in f .. MAX_LEVELS - 1 /\ f \in 0 .. MAX_LEVELS - 1
        BY <2>1, <2>2 DEF FirstCut
      <3> QED
        BY <2>2, <2>3, <3>1 DEF FirstCut
    <2>5. KeyTab(key, owner_euid)
      <3>1. 0 \in 0 .. MAX_LEVELS - 1 /\ 0 \in Nat
        BY <2>1
      <3>2. Len(Decimal(key)) + Len(Decimal(0))
              <= Len(Decimal(MAX_TAG_SERVICES)) + Len(Decimal(MAX_LEVELS))
        BY <2>3, <3>1 DEF FitsKey
      <3>3. /\ Len(Decimal(0)) = 1
            /\ Width(owner_euid, 0) =
                 Len(Decimal(MAX_TAG_SERVICES)) + Len(Decimal(owner_euid))
                 + Len(Decimal(MAX_LEVELS)) + 6
            /\ Len(Decimal(MAX_TAG_SERVICES)) \in Nat
            /\ Len(Decimal(owner_euid)) \in Nat /\ Len(Decimal(MAX_LEVELS)) \in Nat
        BY <2>1, <3>1, Widths
      <3>4. Len(Decimal(key)) \in Nat
        BY <2>1, CharsCounted
      <3> QED
        BY <3>2, <3>3, <3>4 DEF KeyTab
    <2>6. Whole(content, key, owner_euid, thread_waiting, f)
      <3>1. ~Tailed(content, key, owner_euid, thread_waiting, f)
        BY <2>4, Zenon DEF Tailed
      <3>2. ~Headless(content, key, owner_euid)
        BY <2>5, Zenon DEF Headless
      <3> QED
        BY <2>2, <3>1, <3>2 DEF Shape
    <2>7. content = Upto(key, owner_euid, thread_waiting, MAX_LEVELS) \o << >>
      BY <2>4, <2>6, Zenon DEF Whole
    <2>8. Upto(key, owner_euid, thread_waiting, MAX_LEVELS) \in Text
      <3>1. MAX_LEVELS \in 0 .. MAX_LEVELS
        BY <2>1
      <3> QED
        BY <2>1, <3>1, UptoText
    <2>9. content = Upto(key, owner_euid, thread_waiting, MAX_LEVELS)
      BY <2>7, <2>8, EmptyText, Zenon
    <2> QED
      BY <2>9, Zenon DEF Upto, Lines, Document
  <1> QED
    BY <1>1, TextShapes, PTL

\* No update adds or drops a line, as long as snprintf kept the tab after the
\* key, even where it cut the line.
THEOREM LinesStay == Spec => []LinesKept
  <1>1. TextShape => LinesKept
    <2> SUFFICES ASSUME TextShape, content # << >>, TabKept
                 PROVE  Lf(content) =
                          1 + Cardinality({l \in DOMAIN thread_waiting : Fits(l)})
      BY DEF LinesKept, Lf
    <2>1. /\ key \in Int /\ owner_euid \in Euids /\ owner_euid \in Int
          /\ DOMAIN thread_waiting = 0 .. MAX_LEVELS - 1
          /\ thread_waiting \in Waiting /\ MAX_LEVELS \in Nat
      BY StateCounts, TextAssumption DEF TextShape
    <2>2. PICK f : /\ FirstCut(key, f)
                   /\ Shape(content, key, owner_euid, thread_waiting, f)
      BY DEF TextShape
    <2>3. KeyTab(key, owner_euid)
      BY DEF TabKept, KeyTab
    <2>4. f \in 0 .. MAX_LEVELS /\ f \in Nat
      BY <2>1, <2>2 DEF FirstCut
    <2> DEFINE a == Upto(key, owner_euid, thread_waiting, f)
    <2>5. a \in Text /\ Lf(a) = f + 1
      BY <2>1, <2>4, UptoText
    <2>6. Lf(content) = f + 1
      <3>1. CASE Whole(content, key, owner_euid, thread_waiting, f)
        <4>1. PICK u \in Text :
                content = Upto(key, owner_euid, thread_waiting, f) \o u /\ NoNewline(u)
          BY <3>1, Zenon DEF Whole
        <4>2. content = a \o u
          BY <4>1
        <4> HIDE DEF a
        <4>3. Lf(a \o u) = Lf(a) + Lf(u) /\ Lf(u) = 0
          BY <2>5, <4>1, LfConcat, NoLf
        <4>4. Lf(a \o u) = f + 1
          BY <2>4, <2>5, <4>3
        <4> QED
          BY <4>2, <4>4, Zenon
      <3>2. CASE Tailed(content, key, owner_euid, thread_waiting, f)
        <4>1. PICK g \in 0 .. f, p \in Text, q \in Text :
                /\ content = (Upto(key, owner_euid, thread_waiting, g) \o p) \o q
                /\ NoNewline(p) /\ NoNewline(q)
                /\ KeyTab(key, owner_euid) => g = f
          BY <3>2, Zenon DEF Tailed
        <4>2. content = (a \o p) \o q
          BY <2>3, <4>1, Zenon
        <4> HIDE DEF a
        <4>3. a \o p \in Text /\ Lf(a \o p) = Lf(a) + Lf(p) /\ Lf(p) = 0 /\ Lf(q) = 0
          BY <2>5, <4>1, Concat, LfConcat, NoLf
        <4>4. Lf((a \o p) \o q) = Lf(a \o p) + Lf(q)
          BY <4>3, LfConcat
        <4>5. Lf((a \o p) \o q) = f + 1
          BY <2>4, <2>5, <4>3, <4>4
        <4> QED
          BY <4>2, <4>5, Zenon
      <3>3. CASE Headless(content, key, owner_euid)
        BY <2>3, <3>3, Zenon DEF Headless
      <3> QED
        BY <2>2, <3>1, <3>2, <3>3 DEF Shape
    <2>7. {l \in DOMAIN thread_waiting : Fits(l)} = 0 .. f - 1
      <3>1. \A l \in 0 .. MAX_LEVELS - 1 : Fits(l) <=> FitsKey(key, l)
        BY DEF Fits, FitsKey
      <3>2. \A l \in 0 .. MAX_LEVELS - 1 : FitsKey(key, l) <=> l \in 0 .. f - 1
        <4>1. \A l \in 0 .. MAX_LEVELS - 1 : l \in 0 .. f - 1 \/ l \in f .. MAX_LEVELS - 1
          BY <2>1, <2>4
        <4>2. \A l \in f .. MAX_LEVELS - 1 : l \notin 0 .. f - 1
          BY <2>1, <2>4
        <4> QED
          BY <2>2, <4>1, <4>2 DEF FirstCut
      <3>3. \A l \in 0 .. f - 1 : l \in 0 .. MAX_LEVELS - 1
        BY <2>1, <2>4
      <3> QED
        BY <2>1, <3>1, <3>2, <3>3
    <2>8. Cardinality(0 .. f - 1) = f
      <3>1. 0 \in Int /\ f - 1 \in Int
        BY <2>4
      <3>2. Cardinality(0 .. f - 1) = IF 0 > f - 1 THEN 0 ELSE (f - 1) - 0 + 1
        BY <3>1, FS_Interval
      <3> QED
        BY <2>4, <3>2
    <2>9. Lf(content) = 1 + f
      BY <2>4, <2>6
    <2> QED
      BY <2>7, <2>8, <2>9, Zenon
  <1> QED
    BY <1>1, TextShapes, PTL

=============================================================================
