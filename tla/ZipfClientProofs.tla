--------------------------- MODULE ZipfClientProofs ---------------------------
(***************************************************************************)
(* Theorems about ZipfClient, for any ranges, weights and numbers of       *)
(* packets.                                                                *)
(*                                                                         *)
(* The cumulative weights are strictly increasing (PcumSteps), so that the *)
(* numbers drawn for the k-th content are those behind Pcum[k - 1] and up  *)
(* to Pcum[k].  Names tell contents because the digits of a name, put      *)
(* together again, are the index (DigitsTell), and because names of other  *)
(* lengths differ.                                                         *)
(***************************************************************************)
EXTENDS ZipfClient, FiniteSetTheorems, WellFoundedInduction, TLAPS

-----------------------------------------------------------------------------
(* Least and greatest numbers. *)

\* A non-empty set of natural numbers has a least element.
LEMMA LeastExists ==
  ASSUME NEW T \in SUBSET Nat, T # {}
  PROVE  \E x \in T : \A y \in T : x <= y
<1>1. PICK x \in T : \A y \in T : ~(<<y, x>> \in OpToRel(<, Nat))
  BY NatLessThanWellFounded, WFMin, Zenon
<1>2. \A y \in T : ~(y < x)
  BY <1>1 DEF OpToRel
<1>3. \A y \in T : x <= y
  BY <1>2
<1> QED
  BY <1>3

\* Min of a non-empty set of natural numbers is that element.
LEMMA MinIsLeast ==
  ASSUME NEW T \in SUBSET Nat, T # {}
  PROVE  Min(T) \in T /\ \A y \in T : Min(T) <= y
BY LeastExists DEF Min

\* An element that no other is below is the minimum.
LEMMA MinIs ==
  ASSUME NEW T \in SUBSET Nat, NEW m \in T, \A y \in T : m <= y
  PROVE  Min(T) = m
<1>1. Min(T) \in T /\ Min(T) <= m
  BY MinIsLeast
<1>2. m <= Min(T) /\ m \in Nat /\ Min(T) \in Nat
  BY <1>1
<1> QED
  BY <1>1, <1>2

\* The greater of 1 and a natural number.
LEMMA MaxOfTwo ==
  ASSUME NEW n \in Nat
  PROVE  /\ Max({1, n}) \in Nat /\ Max({1, n}) >= 1 /\ Max({1, n}) >= n
         /\ n >= 1 => Max({1, n}) = n
BY DEF Max

-----------------------------------------------------------------------------
(* The digits of a name. *)

\* Two divisions by ten in a row.
LEMMA DivTwice ==
  ASSUME NEW i \in Nat
  PROVE  /\ (i \div 10) \div 10 = i \div 100
         /\ (i \div 100) \div 10 = i \div 1000
         /\ (i \div 1000) \div 10 = i \div 10000
         /\ (i \div 10000) \div 10 = i \div 100000
<1>1. (i \div 10) \div 10 = i \div 100
  BY SMT
<1>2. (i \div 100) \div 10 = i \div 1000
  BY SMT
<1>3. (i \div 1000) \div 10 = i \div 10000
  BY SMT
<1>4. (i \div 10000) \div 10 = i \div 100000
  BY SMT
<1> QED
  BY <1>1, <1>2, <1>3, <1>4

\* The digits of an index of up to six digits, put together, are the index.
LEMMA DigitsTell ==
  ASSUME NEW i \in Nat, i <= 999999
  PROVE  i = 100000 * Digit(i, 100000) + 10000 * Digit(i, 10000)
               + 1000 * Digit(i, 1000) + 100 * Digit(i, 100)
               + 10 * Digit(i, 10) + Digit(i, 1)
<1>1. i = 10 * (i \div 10) + Digit(i, 1)
  BY SMT DEF Digit
<1>2. i \div 10 = 10 * (i \div 100) + Digit(i, 10)
  BY DivTwice, SMT DEF Digit
<1>3. i \div 100 = 10 * (i \div 1000) + Digit(i, 100)
  BY DivTwice, SMT DEF Digit
<1>4. i \div 1000 = 10 * (i \div 10000) + Digit(i, 1000)
  BY DivTwice, SMT DEF Digit
<1>5. i \div 10000 = 10 * (i \div 100000) + Digit(i, 10000)
  BY DivTwice, SMT DEF Digit
<1>6. i \div 100000 = Digit(i, 100000)
  BY SMT DEF Digit
<1>7. /\ i \div 10 \in Nat /\ i \div 100 \in Nat /\ i \div 1000 \in Nat
      /\ i \div 10000 \in Nat
      /\ \A w \in {1, 10, 100, 1000, 10000, 100000} : Digit(i, w) \in Nat
  BY SMT DEF Digit
<1> DEFINE d(w) == Digit(i, w)
           q(w) == i \div w
<1>8. /\ q(10) \in Nat /\ q(100) \in Nat /\ q(1000) \in Nat /\ q(10000) \in Nat
      /\ d(1) \in Nat /\ d(10) \in Nat /\ d(100) \in Nat /\ d(1000) \in Nat
      /\ d(10000) \in Nat /\ d(100000) \in Nat
  BY <1>7
<1>9. /\ i = 10 * q(10) + d(1) /\ q(10) = 10 * q(100) + d(10)
      /\ q(100) = 10 * q(1000) + d(100) /\ q(1000) = 10 * q(10000) + d(1000)
      /\ q(10000) = 10 * d(100000) + d(10000)
  BY <1>1, <1>2, <1>3, <1>4, <1>5, <1>6
<1> HIDE DEF d, q
<1>10. i = 100000 * d(100000) + 10000 * d(10000) + 1000 * d(1000)
             + 100 * d(100) + 10 * d(10) + d(1)
  BY <1>8, <1>9, SMT
<1> QED
  BY <1>10, SMT DEF d

-----------------------------------------------------------------------------
(* The cumulative weights. *)

\* The equations of Pcum have a solution, so Pcum is one.
LEMMA PcumRec ==
  /\ Pcum \in [0 .. Len(Weight) -> Nat]
  /\ \A j \in 0 .. Len(Weight) :
       Pcum[j] = IF j = 0 THEN 0 ELSE Pcum[j - 1] + Weight[j]
<1> DEFINE n == Len(Weight)
           Sums(m, g) == /\ g \in [0 .. m -> Nat]
                         /\ \A j \in 0 .. m :
                              g[j] = IF j = 0 THEN 0 ELSE g[j - 1] + Weight[j]
           Without == {m \in 0 .. n : ~\E g : Sums(m, g)}
           Solves(g) == g = [j \in 0 .. n |-> IF j = 0 THEN 0 ELSE g[j - 1] + Weight[j]]
<1>1. n \in Nat /\ \A j \in 1 .. n : Weight[j] \in Nat
  BY ZipfAssumption
<1> HIDE DEF n
<1>2. Without = {}
  <2> SUFFICES ASSUME Without # {} PROVE FALSE
    OBVIOUS
  <2>1. Without \in SUBSET Nat
    BY <1>1
  <2> PICK m \in Without : \A k \in Without : m <= k
    BY <2>1, LeastExists
  <2>2. m \in 0 .. n /\ ~\E g : Sums(m, g)
    OBVIOUS
  <2>3. CASE m = 0
    <3>1. Sums(m, [j \in 0 .. m |-> 0])
      BY <2>3
    <3> QED
      BY <2>2, <3>1
  <2>4. CASE m # 0
    <3>1. m \in Nat /\ m - 1 \in 0 .. n /\ m \in 1 .. n /\ ~(m <= m - 1)
      BY <1>1, <2>2, <2>4
    <3>2. PICK g : Sums(m - 1, g)
      BY <3>1
    <3> DEFINE last == g[m - 1] + Weight[m]
               h == [j \in 0 .. m |-> IF j = m THEN last ELSE g[j]]
    <3>3. last \in Nat
      BY <1>1, <3>1, <3>2
    <3> HIDE DEF last
    <3>4. h \in [0 .. m -> Nat]
      BY <3>1, <3>2, <3>3
    <3>5. ASSUME NEW j \in 0 .. m
          PROVE  h[j] = IF j = 0 THEN 0 ELSE h[j - 1] + Weight[j]
      <4>1. CASE j = 0
        BY <3>1, <3>2, <4>1
      <4>2. CASE j # 0 /\ j # m
        BY <3>1, <3>2, <4>2
      <4>3. CASE j = m
        <5>1. h[j] = last /\ h[j - 1] = g[m - 1] /\ j # 0
          BY <3>1, <4>3
        <5> QED
          BY <4>3, <5>1 DEF last
      <4> QED
        BY <4>1, <4>2, <4>3
    <3>6. Sums(m, h)
      BY <3>4, <3>5
    <3> QED
      BY <2>2, <3>6
  <2> QED
    BY <2>3, <2>4
<1>3. PICK g : Sums(n, g)
  BY <1>1, <1>2
<1>4. Solves(g)
  BY <1>3
<1>5. Pcum = CHOOSE f : Solves(f)
  BY DEF Pcum, n
<1>6. Solves(Pcum)
  BY <1>4, <1>5
<1> HIDE DEF Solves
<1>7. Pcum = [j \in 0 .. n |-> IF j = 0 THEN 0 ELSE Pcum[j - 1] + Weight[j]]
  BY <1>6 DEF Solves
<1>8. \A j \in 0 .. n : Pcum[j] = IF j = 0 THEN 0 ELSE Pcum[j - 1] + Weight[j]
  BY <1>7
<1> DEFINE Bad == {j \in 0 .. n : Pcum[j] \notin Nat}
<1>9. Bad = {}
  <2> SUFFICES ASSUME Bad # {} PROVE FALSE
    OBVIOUS
  <2>1. Bad \in SUBSET Nat
    BY <1>1
  <2> PICK j \in Bad : \A k \in Bad : j <= k
    BY <2>1, LeastExists
  <2>2. j # 0 /\ j \in 1 .. n /\ j - 1 \in 0 .. n /\ ~(j <= j - 1)
    BY <1>1, <1>8
  <2>3. Pcum[j - 1] \in Nat
    BY <2>2
  <2>4. Pcum[j] = Pcum[j - 1] + Weight[j]
    BY <1>8, <2>2
  <2> QED
    BY <1>1, <2>2, <2>3, <2>4
<1>10. DOMAIN Pcum = 0 .. n /\ Pcum \in [0 .. n -> Nat]
  BY <1>7, <1>9
<1> QED
  BY <1>8, <1>10 DEF n

\* The cumulative weights are strictly increasing.
LEMMA PcumSteps ==
  ASSUME NEW j \in 0 .. Len(Weight), NEW k \in 0 .. Len(Weight), j < k
  PROVE  Pcum[j] < Pcum[k]
<1> DEFINE n == Len(Weight)
           Bad == {m \in 0 .. n : j < m /\ ~(Pcum[j] < Pcum[m])}
<1>1. n \in Nat /\ \A m \in 1 .. n : Weight[m] \in Nat /\ Weight[m] > 0
  BY ZipfAssumption
<1>2. \A m \in 0 .. n : Pcum[m] \in Nat
  BY PcumRec
<1>3. ASSUME NEW m \in 1 .. n PROVE Pcum[m] = Pcum[m - 1] + Weight[m]
  <2>1. m \in 0 .. n /\ m # 0
    BY <1>1
  <2> QED
    BY <2>1, PcumRec
<1>4. j \in 0 .. n /\ k \in 0 .. n
  OBVIOUS
<1> HIDE DEF n
<1>5. Bad = {}
  <2> SUFFICES ASSUME Bad # {} PROVE FALSE
    OBVIOUS
  <2>1. Bad \in SUBSET Nat
    BY <1>1
  <2> PICK m \in Bad : \A i \in Bad : m <= i
    BY <2>1, LeastExists
  <2>2. m \in 1 .. n /\ m - 1 \in 0 .. n /\ ~(m <= m - 1) /\ (j = m - 1 \/ j < m - 1)
    BY <1>1, <1>4
  <2>3. Pcum[j] \in Nat /\ Pcum[m - 1] \in Nat /\ Weight[m] \in Nat /\ Weight[m] > 0
    BY <1>1, <1>2, <1>4, <2>2
  <2>4. Pcum[j] <= Pcum[m - 1]
    BY <1>2, <1>4, <2>2, <2>3
  <2>5. Pcum[m] = Pcum[m - 1] + Weight[m]
    BY <1>3, <2>2
  <2>6. ~(Pcum[j] < Pcum[m])
    OBVIOUS
  <2> QED
    BY <2>3, <2>4, <2>5, <2>6
<1> QED
  BY <1>4, <1>5

-----------------------------------------------------------------------------
(* What is drawn. *)

\* A range that SetZipf is called with.
LEMMA RangeFacts ==
  ASSUME range \in Ranges
  PROVE  /\ First \in Nat /\ Second \in Nat /\ First <= Second
         /\ N \in Nat /\ N <= Len(Weight) /\ Len(Weight) \in Nat
         /\ Second = First + N
         /\ \A j \in 0 .. N : Pcum[j] \in Nat
         /\ Parts = IF N = 0 THEN {1} ELSE 1 .. Pcum[N]
<1>1. /\ First \in Nat /\ Second \in Nat /\ First <= Second
      /\ Second - First <= Len(Weight) /\ Len(Weight) \in Nat
  BY ZipfAssumption DEF First, Second
<1>2. N \in Nat /\ N <= Len(Weight) /\ Second = First + N
  BY <1>1 DEF N
<1>3. \A j \in 0 .. N : Pcum[j] \in Nat
  BY <1>1, <1>2, PcumRec
<1>4. Parts = IF N = 0 THEN {1} ELSE 1 .. Pcum[N]
  <2>1. CASE N = 0
    <3>1. Pcum[N] = 0
      BY <1>1, <2>1, PcumRec
    <3>2. Max({1, 0}) = 1
      BY DEF Max
    <3> QED
      BY <2>1, <3>1, <3>2 DEF Parts
  <2>2. CASE N # 0
    <3>1. Pcum[0] < Pcum[N] /\ Pcum[0] \in Nat /\ Pcum[N] \in Nat
      BY <1>1, <1>2, <1>3, <2>2, PcumSteps
    <3>2. Max({1, Pcum[N]}) = Pcum[N]
      BY <3>1, MaxOfTwo
    <3> QED
      BY <2>2, <3>2 DEF Parts
  <2> QED
    BY <2>1, <2>2
<1> QED
  BY <1>1, <1>2, <1>3, <1>4

\* What is drawn is an index of the range.
LEMMA IndexInRange ==
  ASSUME range \in Ranges, NEW p \in Parts
  PROVE  GetNextContentIndex(p) \in First .. Second
<1> DEFINE hits == {i \in First .. Second : p <= Pcum[i - First]}
<1>1. First \in Nat /\ Second \in Nat /\ First <= Second
  BY RangeFacts
<1>2. CASE hits = {}
  BY <1>1, <1>2 DEF GetNextContentIndex
<1>3. CASE hits # {}
  <2>1. hits \in SUBSET Nat
    BY <1>1
  <2>2. Min(hits) \in hits
    BY <1>3, <2>1, MinIsLeast
  <2> QED
    BY <1>3, <2>2 DEF GetNextContentIndex
<1> QED
  BY <1>2, <1>3

\* The k-th content behind the first is drawn for the numbers above Pcum[k - 1]
\* and up to Pcum[k].
LEMMA DrawnFor ==
  ASSUME range \in Ranges, NEW k \in 1 .. N, NEW p \in Parts
  PROVE  GetNextContentIndex(p) = First + k <=> p \in Pcum[k - 1] + 1 .. Pcum[k]
<1> DEFINE hits == {i \in First .. Second : p <= Pcum[i - First]}
<1>1. /\ First \in Nat /\ Second \in Nat /\ N \in Nat /\ N <= Len(Weight)
      /\ Len(Weight) \in Nat /\ Second = First + N /\ N # 0
      /\ p \in 1 .. Pcum[N]
  BY RangeFacts
<1>2. \A j \in 0 .. N : Pcum[j] \in Nat
  BY RangeFacts
<1>3. /\ First + k \in First .. Second /\ (First + k) - First = k
      /\ First + (k - 1) \in First .. Second /\ (First + (k - 1)) - First = k - 1
      /\ ~(First + k <= First + (k - 1))
      /\ k \in 0 .. N /\ k - 1 \in 0 .. N /\ N \in 0 .. N
      /\ Second \in First .. Second /\ Second - First = N
  BY <1>1
<1>4. Pcum[k] \in Nat /\ Pcum[k - 1] \in Nat /\ Pcum[N] \in Nat
  BY <1>2, <1>3
<1>5. p \in Nat /\ p <= Pcum[N]
  BY <1>1, <1>4
<1>6. Second \in hits
  BY <1>3, <1>5
<1>7. hits \in SUBSET Nat
  BY <1>1
<1>8. GetNextContentIndex(p) = Min(hits)
  BY <1>6 DEF GetNextContentIndex
<1>9. ASSUME Min(hits) = First + k PROVE p \in Pcum[k - 1] + 1 .. Pcum[k]
  <2>1. Min(hits) \in hits /\ \A i \in hits : Min(hits) <= i
    BY <1>6, <1>7, MinIsLeast
  <2>2. First + k \in hits /\ First + (k - 1) \notin hits
    BY <1>3, <1>9, <2>1
  <2>3. p <= Pcum[k] /\ ~(p <= Pcum[k - 1])
    BY <1>3, <2>2
  <2> QED
    BY <1>4, <1>5, <2>3
<1>10. ASSUME p \in Pcum[k - 1] + 1 .. Pcum[k] PROVE Min(hits) = First + k
  <2>1. p <= Pcum[k] /\ Pcum[k - 1] < p
    BY <1>4, <1>10
  <2>2. First + k \in hits
    BY <1>3, <2>1
  <2>3. ASSUME NEW i \in hits PROVE First + k <= i
    <3>1. i \in Nat /\ i - First \in 0 .. N /\ p <= Pcum[i - First]
      BY <1>1
    <3>2. CASE i - First < k
      <4>1. /\ i - First = k - 1 \/ i - First < k - 1
            /\ i - First \in 0 .. Len(Weight) /\ k - 1 \in 0 .. Len(Weight)
        BY <1>1, <1>3, <3>1, <3>2
      <4>2. Pcum[i - First] \in Nat
        BY <1>2, <3>1
      <4>3. Pcum[i - First] <= Pcum[k - 1]
        BY <1>4, <4>1, <4>2, PcumSteps
      <4> QED
        BY <1>4, <1>5, <2>1, <3>1, <4>2, <4>3
    <3>3. CASE ~(i - First < k)
      BY <1>1, <1>3, <3>1, <3>3
    <3> QED
      BY <3>2, <3>3
  <2> HIDE DEF hits
  <2> QED
    BY <1>7, <2>2, <2>3, MinIs
<1> QED
  BY <1>8, <1>9, <1>10

-----------------------------------------------------------------------------
(* Names. *)

\* A name of an index of at most two digits has one on either side.
LEMMA ShortName ==
  ASSUME NEW i \in Nat, i <= 99
  PROVE  GetContent(i) = Suffix(i, <<10>>, <<1>>)
<1>1. CASE i > 9
  BY <1>1, SMT DEF GetContent
<1>2. CASE ~(i > 9)
  <2>1. GetContent(i) = << <<0>>, Digits(i, <<1>>) >>
    BY <1>2, SMT DEF GetContent
  <2>2. Digit(i, 10) = 0
    BY <1>2, SMT DEF Digit
  <2>3. Digits(i, <<10>>) = <<0>>
    BY <2>2, SMT DEF Digits
  <2> QED
    BY <2>1, <2>3, SMT DEF Suffix
<1> QED
  BY <1>1, <1>2, SMT

\* The weights of the digits before and behind the slash.
Before(i) ==
  IF i > 99999 THEN <<100000, 10000, 1000>>
  ELSE IF i > 9999 THEN <<10000, 1000>>
  ELSE IF i > 999 THEN <<1000, 100>>
  ELSE IF i > 99 THEN <<100>>
  ELSE <<10>>

Behind(i) ==
  IF i > 9999 THEN <<100, 10, 1>> ELSE IF i > 99 THEN <<10, 1>> ELSE <<1>>

LEMMA NameIsSuffix ==
  ASSUME NEW i \in Nat, i <= 999999
  PROVE  GetContent(i) = << Digits(i, Before(i)), Digits(i, Behind(i)) >>
<1>1. CASE i > 99999
  BY <1>1, SMT DEF GetContent, Suffix, Before, Behind
<1>2. CASE i > 9999 /\ i <= 99999
  BY <1>2, SMT DEF GetContent, Suffix, Before, Behind
<1>3. CASE i > 999 /\ i <= 9999
  BY <1>3, SMT DEF GetContent, Suffix, Before, Behind
<1>4. CASE i > 99 /\ i <= 999
  BY <1>4, SMT DEF GetContent, Suffix, Before, Behind
<1>5. CASE i <= 99
  BY <1>5, ShortName, SMT DEF Suffix, Before, Behind
<1> QED
  BY <1>1, <1>2, <1>3, <1>4, <1>5, SMT

\* Digits are told apart by their number.
LEMMA SameLength ==
  ASSUME NEW i, NEW j, NEW v \in Seq(Nat), NEW w \in Seq(Nat),
         Digits(i, v) = Digits(j, w)
  PROVE  Len(v) = Len(w)
<1>1. DOMAIN Digits(i, v) = 1 .. Len(v) /\ DOMAIN Digits(j, w) = 1 .. Len(w)
  BY DEF Digits
<1>2. 1 .. Len(v) = 1 .. Len(w) /\ Len(v) \in Nat /\ Len(w) \in Nat
  BY <1>1
<1> QED
  BY <1>2

\* Digits that are equal are equal one by one.
LEMMA SameDigits ==
  ASSUME NEW i, NEW j, NEW w \in Seq(Nat), Digits(i, w) = Digits(j, w)
  PROVE  \A m \in 1 .. Len(w) : Digit(i, w[m]) = Digit(j, w[m])
<1>1. ASSUME NEW m \in 1 .. Len(w) PROVE Digit(i, w[m]) = Digit(j, w[m])
  <2>1. Digits(i, w)[m] = Digit(i, w[m]) /\ Digits(j, w)[m] = Digit(j, w[m])
    BY DEF Digits
  <2> QED
    BY <2>1
<1> QED
  BY <1>1

\* Equal names have the same digits before and behind the slash.
LEMMA SameParts ==
  ASSUME NEW i \in Nat, NEW j \in Nat, i <= 999999, j <= 999999,
         GetContent(i) = GetContent(j)
  PROVE  /\ i > 99999 <=> j > 99999
         /\ i > 9999 <=> j > 9999
         /\ i > 999 <=> j > 999
         /\ i > 99 <=> j > 99
         /\ Before(i) = Before(j) /\ Behind(i) = Behind(j)
         /\ Digits(i, Before(i)) = Digits(j, Before(i))
         /\ Digits(i, Behind(i)) = Digits(j, Behind(i))
<1>1. /\ Digits(i, Before(i)) = Digits(j, Before(j))
      /\ Digits(i, Behind(i)) = Digits(j, Behind(j))
  BY NameIsSuffix, SMT
<1>2. /\ Before(i) \in Seq(Nat) /\ Before(j) \in Seq(Nat)
      /\ Behind(i) \in Seq(Nat) /\ Behind(j) \in Seq(Nat)
  BY SMT DEF Before, Behind
<1>3. Len(Before(i)) = Len(Before(j)) /\ Len(Behind(i)) = Len(Behind(j))
  BY <1>1, <1>2, SameLength, SMT
<1>4. /\ i > 99999 <=> Len(Before(i)) = 3
      /\ i > 9999 <=> Len(Behind(i)) = 3
      /\ i > 999 <=> Len(Before(i)) # 1
      /\ i > 99 <=> Len(Behind(i)) # 1
  BY SMT DEF Before, Behind
<1>5. /\ j > 99999 <=> Len(Before(j)) = 3
      /\ j > 9999 <=> Len(Behind(j)) = 3
      /\ j > 999 <=> Len(Before(j)) # 1
      /\ j > 99 <=> Len(Behind(j)) # 1
  BY SMT DEF Before, Behind
<1>6. /\ i > 99999 <=> j > 99999
      /\ i > 9999 <=> j > 9999
      /\ i > 999 <=> j > 999
      /\ i > 99 <=> j > 99
  BY <1>3, <1>4, <1>5, SMT
<1>7. Before(i) = Before(j) /\ Behind(i) = Behind(j)
  BY <1>6, SMT DEF Before, Behind
<1> QED
  BY <1>1, <1>6, <1>7, SMT

\* The digits in front of a number are zero.
LEMMA LeadingZeros ==
  ASSUME NEW i \in Nat
  PROVE  /\ i <= 99999 => Digit(i, 100000) = 0
         /\ i <= 9999 => Digit(i, 10000) = 0
         /\ i <= 999 => Digit(i, 1000) = 0
         /\ i <= 99 => Digit(i, 100) = 0
BY SMT DEF Digit

\* Contents with equal names are equal.
LEMMA NamesTell ==
  ASSUME NEW i \in Nat, NEW j \in Nat, i <= 999999, j <= 999999,
         GetContent(i) = GetContent(j)
  PROVE  i = j
<1> DEFINE Same(w) == Digit(i, w) = Digit(j, w)
<1>1. /\ Before(i) = Before(j) /\ Behind(i) = Behind(j)
      /\ Before(i) \in Seq(Nat) /\ Behind(i) \in Seq(Nat)
  BY SameParts, SMT DEF Before, Behind
<1>2. \A m \in 1 .. Len(Before(i)) : Same(Before(i)[m])
  BY <1>1, SameParts, SameDigits, SMT
<1>3. \A m \in 1 .. Len(Behind(i)) : Same(Behind(i)[m])
  BY <1>1, SameParts, SameDigits, SMT
<1> HIDE DEF Same
<1>4. /\ i > 99999 <=> j > 99999
      /\ i > 9999 <=> j > 9999
      /\ i > 999 <=> j > 999
      /\ i > 99 <=> j > 99
  BY SameParts, SMT
<1>5. Same(1) /\ Same(10)
  BY <1>2, <1>3, SMT DEF Before, Behind
<1>6. Same(100)
  <2>1. CASE i > 99
    BY <1>2, <1>3, <2>1, SMT DEF Before, Behind
  <2>2. CASE i <= 99
    <3>1. j <= 99
      BY <1>4, <2>2, SMT
    <3> QED
      BY <2>2, <3>1, LeadingZeros, SMT DEF Same
  <2> QED
    BY <2>1, <2>2, SMT
<1>7. Same(1000)
  <2>1. CASE i > 999
    BY <1>2, <1>3, <2>1, SMT DEF Before, Behind
  <2>2. CASE i <= 999
    <3>1. j <= 999
      BY <1>4, <2>2, SMT
    <3> QED
      BY <2>2, <3>1, LeadingZeros, SMT DEF Same
  <2> QED
    BY <2>1, <2>2, SMT
<1>8. Same(10000)
  <2>1. CASE i > 9999
    BY <1>2, <1>3, <2>1, SMT DEF Before, Behind
  <2>2. CASE i <= 9999
    <3>1. j <= 9999
      BY <1>4, <2>2, SMT
    <3> QED
      BY <2>2, <3>1, LeadingZeros, SMT DEF Same
  <2> QED
    BY <2>1, <2>2, SMT
<1>9. Same(100000)
  <2>1. CASE i > 99999
    BY <1>2, <1>3, <2>1, SMT DEF Before, Behind
  <2>2. CASE i <= 99999
    <3>1. j <= 99999
      BY <1>4, <2>2, SMT
    <3> QED
      BY <2>2, <3>1, LeadingZeros, SMT DEF Same
  <2> QED
    BY <2>1, <2>2, SMT
<1> QED
  BY <1>5, <1>6, <1>7, <1>8, <1>9, DigitsTell, SMT DEF Same

-----------------------------------------------------------------------------
(* The inductive invariant: a packet that is due is one more that may be   *)
(* sent, and every query carries the name of its index.                    *)

ZipfInv ==
  /\ TypeOK
  /\ SocketWhenDue
  /\ scheduled => sent < Max({1, MaxPackets})
  /\ \A q \in queries : q.name = GetContent(q.index)

LEMMA MostPackets ==
  /\ MaxPackets \in Nat /\ Max({1, MaxPackets}) \in Nat
  /\ Max({1, MaxPackets}) >= 1 /\ Max({1, MaxPackets}) >= MaxPackets
<1>1. MaxPackets \in Nat
  BY ZipfAssumption
<1> QED
  BY <1>1, MaxOfTwo

LEMMA ZipfInit == Init => ZipfInv
<1> SUFFICES ASSUME Init PROVE ZipfInv
  OBVIOUS
<1>1. /\ range \in Ranges /\ socket = FALSE /\ scheduled = FALSE /\ sent = 0
      /\ queries = {}
  BY DEF Init
<1>2. 0 \in 0 .. Max({1, MaxPackets})
  BY MostPackets
<1> QED
  BY <1>1, <1>2 DEF ZipfInv, TypeOK, SocketWhenDue

LEMMA ZipfNext == ZipfInv /\ [Next]_vars => ZipfInv'
<1> SUFFICES ASSUME ZipfInv, [Next]_vars PROVE ZipfInv'
  OBVIOUS
<1> DEFINE most == Max({1, MaxPackets})
<1>1. /\ range \in Ranges /\ socket \in BOOLEAN /\ scheduled \in BOOLEAN
      /\ sent \in 0 .. most
      /\ \A q \in queries : q.index \in First .. Second /\ q.name = GetContent(q.index)
      /\ scheduled => socket /\ sent < most
  BY DEF ZipfInv, TypeOK, SocketWhenDue
<1>2. MaxPackets \in Nat /\ most \in Nat /\ most >= 1 /\ most >= MaxPackets
  BY MostPackets
<1> HIDE DEF most
<1>3. ASSUME UNCHANGED range,
             \A q \in queries' : q.index \in First .. Second /\ q.name = GetContent(q.index),
             socket' \in BOOLEAN, scheduled' \in BOOLEAN, sent' \in 0 .. most,
             scheduled' => socket' /\ sent' < most
      PROVE  ZipfInv'
  <2>1. First' = First /\ Second' = Second
    BY <1>3 DEF First, Second
  <2>2. TypeOK'
    BY <1>1, <1>3, <2>1 DEF TypeOK, most
  <2>3. SocketWhenDue'
    BY <1>3 DEF SocketWhenDue
  <2> QED
    BY <1>3, <2>2, <2>3 DEF ZipfInv, most
<1>4. CASE StartApplication
  <2>1. 0 \in 0 .. most /\ 0 < most
    BY <1>2
  <2> QED
    BY <1>1, <1>3, <1>4, <2>1 DEF StartApplication
<1>5. CASE Send
  <2>1. PICK p \in Parts :
          queries' = queries \cup {[random |-> p, index |-> GetNextContentIndex(p),
                                    name |-> GetContent(GetNextContentIndex(p))]}
    BY <1>5 DEF Send
  <2>2. GetNextContentIndex(p) \in First .. Second
    BY <1>1, IndexInRange
  <2>3. \A q \in queries' : q.index \in First .. Second /\ q.name = GetContent(q.index)
    BY <1>1, <2>1, <2>2
  <2>4. /\ scheduled /\ sent' = sent + 1 /\ scheduled' = (sent' < MaxPackets)
        /\ UNCHANGED <<range, socket>>
    BY <1>5 DEF Send
  <2>5. sent' \in 0 .. most /\ (sent' < MaxPackets => sent' < most)
    BY <1>1, <1>2, <2>4
  <2>6. scheduled' \in BOOLEAN /\ (scheduled' => sent' < MaxPackets)
    <3>1. (sent' < MaxPackets) \in BOOLEAN
      OBVIOUS
    <3> QED
      BY <2>4, <3>1, Zenon
  <2> QED
    BY <1>1, <1>3, <2>3, <2>4, <2>5, <2>6
<1>6. CASE StopApplication
  BY <1>1, <1>3, <1>6 DEF StopApplication
<1>7. CASE UNCHANGED vars
  BY <1>1, <1>3, <1>7 DEF vars
<1> QED
  BY <1>4, <1>5, <1>6, <1>7 DEF Next

LEMMA ZipfInvariant == Spec => []ZipfInv
BY ZipfInit, ZipfNext, PTL DEF Spec

\* The counters and the indexes asked for stay in their ranges.
THEOREM TypeCorrect == Spec => []TypeOK
<1>1. ZipfInv => TypeOK
  BY DEF ZipfInv
<1> QED
  BY <1>1, ZipfInvariant, PTL

\* A packet is due only while the sockets are open: StopApplication cancels the
\* event of Send.
THEOREM SocketOpen == Spec => []SocketWhenDue
<1>1. ZipfInv => SocketWhenDue
  BY DEF ZipfInv
<1> QED
  BY <1>1, ZipfInvariant, PTL

\* The ranges whose indexes GetContent has digits for.
SixDigits == \A r \in Ranges : r[2] <= 999999

\* Queries of one client that carry one name are for one content, as long as no
\* index has more than six digits.
THEOREM NamesTold ==
  ASSUME SixDigits
  PROVE  Spec => []NamesTellContents
<1>1. ASSUME ZipfInv PROVE NamesTellContents
  <2>1. /\ range \in Ranges
        /\ \A q \in queries : q.index \in First .. Second /\ q.name = GetContent(q.index)
    BY <1>1 DEF ZipfInv, TypeOK
  <2>2. First \in Nat /\ Second \in Nat /\ Second <= 999999
    BY <2>1, RangeFacts, SMT DEF SixDigits, Second
  <2>3. ASSUME NEW q \in queries, NEW r \in queries, q.name = r.name
        PROVE  q.index = r.index
    <3>1. /\ q.index \in Nat /\ q.index <= 999999
          /\ r.index \in Nat /\ r.index <= 999999
      BY <2>1, <2>2, SMT
    <3>2. GetContent(q.index) = GetContent(r.index)
      BY <2>1, <2>3, SMT
    <3> QED
      BY <3>1, <3>2, NamesTell, SMT
  <2> QED
    BY <2>3, SMT DEF NamesTellContents
<1> QED
  BY <1>1, ZipfInvariant, PTL

\* Every content behind the first of the range is drawn as often as its weight
\* says.
THEOREM WeightsFollowed == Spec => []DrawnByWeight
<1>1. ASSUME ZipfInv PROVE DrawnByWeight
  <2>1. range \in Ranges
    BY <1>1 DEF ZipfInv, TypeOK
  <2>2. ASSUME NEW k \in 1 .. N
        PROVE  Cardinality({p \in Parts : GetNextContentIndex(p) = First + k}) = Weight[k]
    <3>1. /\ N \in Nat /\ Len(Weight) \in Nat /\ N <= Len(Weight) /\ N # 0
          /\ k \in 0 .. N /\ k - 1 \in 0 .. N /\ N \in 0 .. N
          /\ k \in 0 .. Len(Weight) /\ k - 1 \in 0 .. Len(Weight) /\ N \in 0 .. Len(Weight)
          /\ k # 0 /\ k - 1 < k /\ (k = N \/ k < N)
      BY <2>1, RangeFacts
    <3>2. Pcum[k] \in Nat /\ Pcum[k - 1] \in Nat /\ Pcum[N] \in Nat
      BY <2>1, <3>1, RangeFacts
    <3>3. Pcum[k] = Pcum[k - 1] + Weight[k] /\ Pcum[k - 1] < Pcum[k]
      BY <3>1, PcumRec, PcumSteps
    <3>4. Pcum[k] <= Pcum[N]
      BY <3>1, <3>2, PcumSteps
    <3>5. Parts = 1 .. Pcum[N]
      BY <2>1, <3>1, RangeFacts
    <3>6. Pcum[k - 1] + 1 .. Pcum[k] \subseteq Parts
      BY <3>2, <3>4, <3>5
    <3>7. {p \in Parts : GetNextContentIndex(p) = First + k} = Pcum[k - 1] + 1 .. Pcum[k]
      BY <2>1, <3>6, DrawnFor, Zenon
    <3> DEFINE low == Pcum[k - 1] + 1
               high == Pcum[k]
    <3>8. low \in Int /\ high \in Int /\ ~(low > high) /\ high - low + 1 = Weight[k]
      <4>1. Weight[k] \in Nat
        BY <3>1, ZipfAssumption
      <4> QED
        BY <3>2, <3>3, <4>1
    <3>9. {p \in Parts : GetNextContentIndex(p) = First + k} = low .. high
      BY <3>7
    <3> HIDE DEF low, high
    <3>10. Cardinality(low .. high) = high - low + 1
      BY <3>8, FS_Interval
    <3> QED
      BY <3>8, <3>9, <3>10
  <2> QED
    BY <2>2 DEF DrawnByWeight
<1> QED
  BY <1>1, ZipfInvariant, PTL
=============================================================================
