------------------------------ MODULE Bytes_proofs ------------------------------
(***************************************************************************)
(* What the conversions of Bytes keep: numbers and text in a base, varints, *)
(* the length of encoded text and how it is read, halves of pairs and      *)
(* broken bytes included; and the induction their proofs need.             *)
(***************************************************************************)
EXTENDS Bytes, FiniteSetTheorems, SequenceTheorems, TLAPS

\* Every set of natural numbers that is not empty has a least element.
LEMMA LeastNumber ==
  ASSUME NEW S, S \subseteq Nat, S # {}
  PROVE  \E n \in S : \A m \in S : n <= m
<1> DEFINE To(k) == 0..k
           T == {To(k) : k \in S}
           R == StrictSubsetOrdering(Nat)
<1>1. IsWellFoundedOn(R, FiniteSubsetsOf(Nat))
  BY FS_StrictSubsetOrderingWellFounded
<1>2. T \subseteq FiniteSubsetsOf(Nat)
  <2> SUFFICES ASSUME NEW k \in S PROVE To(k) \in FiniteSubsetsOf(Nat)
    OBVIOUS
  <2>1. IsFiniteSet(To(k)) /\ To(k) \subseteq Nat
    BY FS_Interval
  <2> QED
    BY <2>1 DEF FiniteSubsetsOf
<1>3. PICK x \in T : \A y \in T : <<y, x>> \notin R
  <2> HIDE DEF T, R
  <2>1. T # {}
    BY DEF T
  <2> QED
    BY <1>1, <1>2, <2>1, WFMin, Zenon
<1>4. PICK n \in S : x = To(n)
  OBVIOUS
<1>5. ASSUME NEW m \in S, m < n PROVE FALSE
  <2>1. To(m) \in T
    OBVIOUS
  <2>2. To(m) \subseteq Nat /\ To(n) \subseteq Nat /\ To(m) \subseteq To(n)
    BY <1>5
  <2>3. n \in To(n) /\ n \notin To(m)
    BY <1>5
  <2> QED
    BY <1>3, <1>4, <2>1, <2>2, <2>3 DEF StrictSubsetOrdering
<1> QED
  BY <1>5

\* A set of natural numbers to which each belongs when the smaller ones do is
\* all of them.
LEMMA Induction ==
  ASSUME NEW S, \A n \in Nat : (\A m \in 0..(n - 1) : m \in S) => n \in S
  PROVE  Nat \subseteq S
<1> DEFINE Out == {n \in Nat : n \notin S}
<1> SUFFICES ASSUME Out # {} PROVE FALSE
  OBVIOUS
<1>1. PICK n \in Out : \A m \in Out : n <= m
  BY LeastNumber
<1>2. \A m \in 0..(n - 1) : m \in S
  BY <1>1
<1> QED
  BY <1>2

---------------------------------------------------------------------------
(* Division *)

\* What division by a base leaves, and that it makes a number smaller.
LEMMA Quotient ==
  ASSUME NEW base \in Nat, base > 1, NEW n \in Nat
  PROVE  /\ n \div base \in Nat /\ n % base \in 0..(base - 1)
         /\ n = base * (n \div base) + (n % base)
         /\ n > 0 => n \div base < n
<1>1. /\ n \div base \in Nat /\ n % base \in 0..(base - 1)
      /\ n = base * (n \div base) + (n % base)
  OBVIOUS
<1>2. ASSUME NEW q \in Nat PROVE base * q >= 2 * q
  OBVIOUS
<1> QED
  BY <1>1, <1>2

LEMMA QuotientSmaller ==
  ASSUME NEW base \in Nat, base > 1, NEW n \in Nat, n # 0
  PROVE  n \div base \in 0..(n - 1)
<1>1. n \div base \in Nat /\ n \div base < n
  BY Quotient
<1> QED
  BY <1>1

\* A quotient and a remainder are those of the number they make.
LEMMA QuotientOf ==
  ASSUME NEW base \in Nat, base > 1, NEW q \in Nat, NEW r \in 0..(base - 1)
  PROVE  /\ (r + base * q) \div base = q
         /\ (r + base * q) % base = r
         /\ r + base * q \in Nat
         /\ q # 0 \/ r # 0 => r + base * q > 0
<1> DEFINE n == r + base * q
<1>1. n \in Nat
  OBVIOUS
<1>2. PICK p \in Nat : p = n \div base
  BY <1>1, Quotient
<1>3. n = base * p + (n % base) /\ n % base \in 0..(base - 1)
  BY <1>1, <1>2, Quotient
<1>4. base * (q - p) = (n % base) - r
  BY <1>3
<1>5. q - p = 0
  <2>1. ASSUME NEW k \in Nat PROVE base * k >= 0 /\ base * (k + 1) = base * k + base
    OBVIOUS
  <2>2. ASSUME q - p >= 1 PROVE base * (q - p) >= base
    <3> DEFINE k == q - p - 1
    <3>1. k \in Nat /\ q - p = k + 1
      BY <2>2
    <3> HIDE DEF k
    <3> QED
      BY <2>1, <3>1
  <2>3. ASSUME p - q >= 1 PROVE base * (q - p) <= 0 - base
    <3> DEFINE k == p - q - 1
    <3>1. k \in Nat /\ q - p = 0 - (k + 1)
      BY <2>3
    <3>2. base * (0 - (k + 1)) = 0 - base * (k + 1)
      OBVIOUS
    <3> HIDE DEF k
    <3> QED
      BY <2>1, <3>1, <3>2
  <2> QED
    BY <1>3, <1>4, <2>2, <2>3
<1>6. ASSUME q # 0 PROVE base * q > 0
  BY <1>6
<1> QED
  BY <1>1, <1>2, <1>3, <1>4, <1>5, <1>6

---------------------------------------------------------------------------
(* The digits of a number *)

\* What InBase's recursive function is, up to n.
Expands(f, n, base) ==
    f = [m \in 0..n |-> IF m = 0 THEN <<>> ELSE f[m \div base] \o <<m % base>>]

\* What Expands says of one number.
LEMMA ExpandsAt ==
  ASSUME NEW base, NEW n, NEW f, Expands(f, n, base)
  PROVE  /\ \A m \in 0..n : m = 0 => f[m] = <<>>
         /\ \A m \in 0..n : m # 0 => f[m] = f[m \div base] \o <<m % base>>
<1> DEFINE h(m) == IF m = 0 THEN <<>> ELSE f[m \div base] \o <<m % base>>
<1>1. f = [m \in 0..n |-> h(m)]
  BY DEF Expands
<1> HIDE DEF h
<1>2. \A m \in 0..n : f[m] = h(m)
  BY <1>1
<1> QED
  BY <1>2 DEF h

\* The function that InBase() chooses exists, ...
LEMMA ExpansionExists ==
  ASSUME NEW base \in Nat, base > 1
  PROVE  \A n \in Nat : \E f : Expands(f, n, base)
<1> DEFINE S == {n \in Nat : \E f : Expands(f, n, base)}
<1> SUFFICES Nat \subseteq S
  OBVIOUS
<1>1. ASSUME NEW n \in Nat, \A m \in 0..(n - 1) : m \in S PROVE n \in S
  <2>1. CASE n = 0
    <3> DEFINE g == [m \in 0..n |-> <<>>]
    <3>1. Expands(g, n, base)
      BY <2>1 DEF Expands
    <3> QED
      BY <3>1
  <2>2. CASE n # 0
    <3>1. PICK f : Expands(f, n - 1, base)
      BY <1>1, <2>2
    <3> DEFINE g == [m \in 0..n |-> IF m = n THEN f[n \div base] \o <<n % base>> ELSE f[m]]
    <3>2. ASSUME NEW m \in 0..n
          PROVE  g[m] = IF m = 0 THEN <<>> ELSE g[m \div base] \o <<m % base>>
      <4>1. CASE m = 0
        BY <2>2, <3>1, <4>1 DEF Expands
      <4>2. CASE m # 0
        <5>1. m \div base \in 0..(m - 1)
          <6>1. m \in Nat /\ m # 0
            BY <4>2
          <6> QED
            BY <6>1, QuotientSmaller
        <5>2. g[m \div base] = f[m \div base]
          BY <5>1
        <5>3. m # n => f[m] = f[m \div base] \o <<m % base>>
          <6>1. m # n => m \in 0..(n - 1)
            OBVIOUS
          <6> QED
            BY <3>1, <4>2, <6>1, ExpandsAt, Zenon
        <5> QED
          BY <4>2, <5>2, <5>3
      <4> QED
        BY <4>1, <4>2
    <3>3. Expands(g, n, base)
      BY <3>2 DEF Expands
    <3> QED
      BY <3>3
  <2> QED
    BY <2>1, <2>2
<1> HIDE DEF S
<1> QED
  BY <1>1, Induction

\* ... is the only one, ...
LEMMA ExpansionIsUnique ==
  ASSUME NEW base \in Nat, base > 1,
         NEW n \in Nat, NEW k \in Nat, NEW f, NEW g,
         Expands(f, n, base), Expands(g, k, base)
  PROVE  \A m \in Nat : m <= n /\ m <= k => f[m] = g[m]
<1> DEFINE S == {m \in Nat : m <= n /\ m <= k => f[m] = g[m]}
<1> SUFFICES Nat \subseteq S
  OBVIOUS
<1>1. ASSUME NEW m \in Nat, \A l \in 0..(m - 1) : l \in S PROVE m \in S
  <2> SUFFICES ASSUME m <= n, m <= k PROVE f[m] = g[m]
    OBVIOUS
  <2>1. CASE m = 0
    BY <2>1 DEF Expands
  <2>2. CASE m # 0
    <3>1. m \div base \in 0..(m - 1)
      BY <2>2, QuotientSmaller
    <3>2. f[m \div base] = g[m \div base]
      BY <1>1, <3>1
    <3> QED
      <4>1. m \in 0..n /\ m \in 0..k
        OBVIOUS
      <4>2. f[m] = f[m \div base] \o <<m % base>>
        BY <2>2, <4>1, ExpandsAt, Zenon
      <4>3. g[m] = g[m \div base] \o <<m % base>>
        BY <2>2, <4>1, ExpandsAt, Zenon
      <4> QED
        BY <3>2, <4>2, <4>3, Zenon
  <2> QED
    BY <2>1, <2>2
<1> HIDE DEF S
<1> QED
  BY <1>1, Induction

\* ... and so InBase() has its values.
LEMMA InBaseIs ==
  ASSUME NEW base \in Nat, base > 1, NEW n \in Nat, NEW f, Expands(f, n, base)
  PROVE  \A m \in 0..n : f[m] = InBase(m, base)
<1> SUFFICES ASSUME NEW m \in 0..n PROVE f[m] = InBase(m, base)
  OBVIOUS
<1> DEFINE g == CHOOSE g : Expands(g, m, base)
<1>1. Expands(g, m, base)
  BY ExpansionExists
<1>2. InBase(m, base) = g[m]
  BY DEF InBase, Expands
<1> QED
  BY <1>1, <1>2, ExpansionIsUnique

\* The last digit, and before it the digits of the quotient.
LEMMA InBaseUnfolds ==
  ASSUME NEW base \in Nat, base > 1
  PROVE  /\ InBase(0, base) = <<>>
         /\ \A n \in Nat \ {0} : InBase(n, base) = InBase(n \div base, base) \o <<n % base>>
<1>1. ASSUME NEW n \in Nat
      PROVE  InBase(n, base) = IF n = 0 THEN <<>> ELSE InBase(n \div base, base) \o <<n % base>>
  <2>1. PICK f : Expands(f, n, base)
    BY ExpansionExists
  <2>2. n # 0 => n \div base \in 0..n
    BY Quotient
  <2>3. InBase(n, base) = f[n] /\ (n # 0 => InBase(n \div base, base) = f[n \div base])
    BY <2>1, <2>2, InBaseIs
  <2>4. /\ n = 0 => f[n] = <<>>
        /\ n # 0 => f[n] = f[n \div base] \o <<n % base>>
    <3>1. n \in 0..n
      OBVIOUS
    <3>2. n = 0 => f[n] = <<>>
      BY <2>1 DEF Expands
    <3>3. n # 0 => f[n] = f[n \div base] \o <<n % base>>
      BY <2>1, <3>1, ExpandsAt, Zenon
    <3> QED
      BY <3>2, <3>3
  <2> QED
    BY <2>3, <2>4
<1> QED
  BY <1>1

---------------------------------------------------------------------------
(* The number that digits are *)

\* What Number's recursive function is, from place i on.
Sums(v, i, digits, base) ==
    v = [k \in i..(Len(digits) + 1) |-> IF k > Len(digits) THEN 0 ELSE digits[k] + base * v[k + 1]]

\* What Sums says of one place.
LEMMA SumsAt ==
  ASSUME NEW base, NEW i, NEW digits, NEW v, Sums(v, i, digits, base)
  PROVE  /\ \A k \in i..(Len(digits) + 1) : k > Len(digits) => v[k] = 0
         /\ \A k \in i..(Len(digits) + 1) : ~(k > Len(digits)) => v[k] = digits[k] + base * v[k + 1]
<1> DEFINE h(k) == IF k > Len(digits) THEN 0 ELSE digits[k] + base * v[k + 1]
<1>1. v = [k \in i..(Len(digits) + 1) |-> h(k)]
  BY DEF Sums
<1> HIDE DEF h
<1>2. \A k \in i..(Len(digits) + 1) : v[k] = h(k)
  BY <1>1
<1> QED
  BY <1>2 DEF h

\* The function that Number() chooses exists, ...
LEMMA SumsExist ==
  ASSUME NEW base \in Nat, NEW digits \in Seq(Nat)
  PROVE  \A n \in Nat : n <= Len(digits) => \E v : Sums(v, Len(digits) + 1 - n, digits, base)
<1> DEFINE L == Len(digits)
           S == {n \in Nat : n <= L => \E v : Sums(v, L + 1 - n, digits, base)}
<1> SUFFICES Nat \subseteq S
  OBVIOUS
<1>0. L \in Nat
  OBVIOUS
<1>1. ASSUME NEW n \in Nat, \A m \in 0..(n - 1) : m \in S PROVE n \in S
  <2> SUFFICES ASSUME n <= L PROVE \E v : Sums(v, L + 1 - n, digits, base)
    OBVIOUS
  <2>1. CASE n = 0
    <3> DEFINE w == [k \in (L + 1)..(L + 1) |-> 0]
    <3>1. Sums(w, L + 1 - n, digits, base)
      BY <2>1, <1>0 DEF Sums
    <3> QED
      BY <3>1
  <2>2. CASE n # 0
    <3> DEFINE i == L + 1 - n
    <3>1. n - 1 \in 0..(n - 1) /\ n - 1 <= L /\ L + 1 - (n - 1) = i + 1 /\ i \in 1..L
      BY <2>2, <1>0
    <3>2. PICK v : Sums(v, i + 1, digits, base)
      BY <1>1, <3>1
    <3>5. /\ \A k \in (i + 1)..(L + 1) : k > L => v[k] = 0
          /\ \A k \in (i + 1)..(L + 1) : ~(k > L) => v[k] = digits[k] + base * v[k + 1]
      BY <3>2, SumsAt
    <3> HIDE DEF i
    <3> DEFINE w == [k \in i..(L + 1) |-> IF k = i THEN digits[i] + base * v[i + 1] ELSE v[k]]
    <3>3. ASSUME NEW k \in i..(L + 1)
          PROVE  w[k] = IF k > L THEN 0 ELSE digits[k] + base * w[k + 1]
      <4>1. CASE k = i
        BY <4>1, <3>1, <1>0
      <4>2. CASE k # i
        <5>1. k \in (i + 1)..(L + 1) /\ w[k] = v[k]
          BY <4>2, <3>1, <1>0
        <5>2. k > L => v[k] = 0
          BY <5>1, <3>5, Zenon
        <5>3. ~(k > L) => v[k] = digits[k] + base * v[k + 1]
          BY <5>1, <3>5, Zenon
        <5>4. ~(k > L) => w[k + 1] = v[k + 1]
          BY <5>1, <3>1, <1>0
        <5> QED
          BY <5>1, <5>2, <5>3, <5>4
      <4> QED
        BY <4>1, <4>2
    <3>4. Sums(w, i, digits, base)
      BY <3>3 DEF Sums
    <3> QED
      BY <3>4 DEF i
  <2> QED
    BY <2>1, <2>2
<1> HIDE DEF S
<1> QED
  BY <1>1, Induction

LEMMA SumIsNat == \A a, b, c \in Nat : a + b * c \in Nat
OBVIOUS

\* t is s with o digits before it, and v and w sum the same from there.
Shifted(s, t, o) == Len(t) = Len(s) + o /\ \A k \in 1..Len(s) : t[k + o] = s[k]
SumAlike(v, w, n, o) == \A i \in 1..(n + 1) : v[i] \in Nat /\ w[i + o] = v[i]

\* The sums of the same digits, with others before them or not, are the same.
LEMMA SumsAgree ==
  ASSUME NEW base \in Nat, NEW s \in Seq(Nat), NEW t \in Seq(Nat), NEW o \in Nat,
         Shifted(s, t, o), NEW v, NEW w, Sums(v, 1, s, base), Sums(w, 1, t, base)
  PROVE  SumAlike(v, w, Len(s), o)
<1> DEFINE L == Len(s)
           S == {n \in Nat : n <= L => v[L + 1 - n] \in Nat /\ w[L + 1 - n + o] = v[L + 1 - n]}
<1>0. L \in Nat /\ Len(t) = L + o /\ \A k \in 1..L : t[k + o] = s[k]
  BY DEF Shifted
<1>4. /\ \A k \in 1..(L + 1) : k > L => v[k] = 0
      /\ \A k \in 1..(L + 1) : ~(k > L) => v[k] = s[k] + base * v[k + 1]
  BY SumsAt
<1>5. /\ \A k \in 1..(Len(t) + 1) : k > Len(t) => w[k] = 0
      /\ \A k \in 1..(Len(t) + 1) : ~(k > Len(t)) => w[k] = t[k] + base * w[k + 1]
  BY ONLY Sums(w, 1, t, base), SumsAt
<1>1. ASSUME NEW n \in Nat, \A m \in 0..(n - 1) : m \in S PROVE n \in S
  <2> DEFINE i == L + 1 - n
  <2> SUFFICES ASSUME n <= L PROVE v[i] \in Nat /\ w[i + o] = v[i]
    OBVIOUS
  <2>1. /\ i \in 1..(L + 1) /\ i \in Int
        /\ i + o \in 1..(Len(t) + 1)
        /\ i > L <=> n = 0
        /\ i + o > Len(t) <=> n = 0
    BY ONLY <1>0, o \in Nat, n \in Nat, n <= L
  <2>4. CASE n = 0
    BY <1>4, <1>5, <2>1, <2>4
  <2>5. CASE n # 0
    <3>1. n - 1 \in 0..(n - 1) /\ L + 1 - (n - 1) = i + 1 /\ n - 1 <= L /\ n - 1 \in Nat
      BY <2>5, <1>0
    <3>2. v[i + 1] \in Nat /\ w[i + 1 + o] = v[i + 1]
      <4>1. n - 1 \in S
        BY <1>1, <3>1
      <4> QED
        BY <3>1, <4>1
    <3>3. i + 1 + o = i + o + 1 /\ i \in 1..L
      BY <2>1, <2>5, <1>0
    <3> HIDE DEF i, S
    <3>4. t[i + o] = s[i] /\ s[i] \in Nat
      <4>1. t[i + o] = s[i]
        BY <1>0, <3>3, Zenon
      <4> QED
        BY <3>3, <4>1
    <3>5. v[i] = s[i] + base * v[i + 1]
      BY <1>4, <2>1, <2>5
    <3>6. w[i + o] = t[i + o] + base * w[i + o + 1]
      BY <1>5, <2>1, <2>5
    <3>7. w[i + o + 1] = v[i + 1]
      BY <3>2, <3>3
    <3>8. w[i + o] = v[i]
      BY <3>4, <3>5, <3>6, <3>7, Zenon
    <3> QED
      BY <3>2, <3>4, <3>5, <3>8, SumIsNat
  <2> QED
    BY <2>4, <2>5
<1>2. Nat \subseteq S
  <2> HIDE DEF S
  <2> QED
    BY <1>1, Induction
<1> SUFFICES ASSUME NEW i \in 1..(L + 1) PROVE v[i] \in Nat /\ w[i + o] = v[i]
  BY DEF SumAlike
<1>3. L + 1 - i \in Nat /\ L + 1 - (L + 1 - i) = i /\ L + 1 - i <= L
  BY <1>0
<1>6. L + 1 - i \in S
  BY <1>2, <1>3
<1> QED
  BY <1>3, <1>6

\* ... and Number() is its value at the first digit.
LEMMA NumberIs ==
  ASSUME NEW base \in Nat, NEW s \in Seq(Nat)
  PROVE  \E v : Sums(v, 1, s, base) /\ Number(s, base) = v[1]
<1> DEFINE v == CHOOSE v : Sums(v, 1, s, base)
<1>1. \E w : Sums(w, 1, s, base)
  <2>1. Len(s) \in Nat /\ Len(s) <= Len(s) /\ Len(s) + 1 - Len(s) = 1
    OBVIOUS
  <2>2. \E w : Sums(w, Len(s) + 1 - Len(s), s, base)
    BY <2>1, SumsExist
  <2> QED
    BY <2>1, <2>2
<1>2. Sums(v, 1, s, base)
  BY <1>1
<1>3. Number(s, base) = v[1]
  BY DEF Number, Sums
<1> QED
  BY <1>2, <1>3

\* A number has a value, and a digit before the others is the lowest one.
LEMMA NumberUnfolds ==
  ASSUME NEW base \in Nat
  PROVE  /\ Number(<<>>, base) = 0
         /\ \A s \in Seq(Nat) : Number(s, base) \in Nat
         /\ \A s, t \in Seq(Nat) :
              Len(t) = Len(s) + 1 /\ (\A k \in 1..Len(s) : t[k + 1] = s[k]) =>
                  Number(t, base) = t[1] + base * Number(s, base)
<1>1. Number(<<>>, base) = 0
  <2>0. <<>> \in Seq(Nat)
    OBVIOUS
  <2>1. PICK v : Sums(v, 1, <<>>, base) /\ Number(<<>>, base) = v[1]
    BY <2>0, NumberIs, Zenon
  <2> QED
    BY <2>1, SumsAt
<1>2. ASSUME NEW s \in Seq(Nat) PROVE Number(s, base) \in Nat
  <2>1. PICK v : Sums(v, 1, s, base) /\ Number(s, base) = v[1]
    BY NumberIs
  <2>2. Shifted(s, s, 0) /\ 0 \in Nat
    BY DEF Shifted
  <2>3. \A i \in 1..(Len(s) + 1) : v[i] \in Nat
    BY <2>1, <2>2, SumsAgree DEF SumAlike
  <2> QED
    BY <2>1, <2>3
<1>3. ASSUME NEW s \in Seq(Nat), NEW t \in Seq(Nat), Len(t) = Len(s) + 1,
             \A k \in 1..Len(s) : t[k + 1] = s[k]
      PROVE  Number(t, base) = t[1] + base * Number(s, base)
  <2>1. PICK v : Sums(v, 1, s, base) /\ Number(s, base) = v[1]
    BY NumberIs
  <2>2. PICK w : Sums(w, 1, t, base) /\ Number(t, base) = w[1]
    BY NumberIs
  <2>3. \A i \in 1..(Len(s) + 1) : w[i + 1] = v[i]
    <3>1. 1 \in Nat /\ Shifted(s, t, 1)
      BY <1>3 DEF Shifted
    <3>2. SumAlike(v, w, Len(s), 1)
      BY <2>1, <2>2, <3>1, SumsAgree
    <3> QED
      BY <3>2 DEF SumAlike
  <2>4. w[2] = v[1]
    <3>1. 1 \in 1..(Len(s) + 1) /\ 1 + 1 = 2
      OBVIOUS
    <3> QED
      BY <2>3, <3>1
  <2>5. w[1] = t[1] + base * w[2]
    <3>1. 1 \in 1..(Len(t) + 1) /\ ~(1 > Len(t)) /\ 1 + 1 = 2
      BY <1>3
    <3> QED
      BY <2>2, <3>1, SumsAt
  <2> QED
    BY <2>1, <2>2, <2>4, <2>5
<1> QED
  BY <1>1, <1>2, <1>3
---------------------------------------------------------------------------
(* Text in a base, the highest digit first *)

Value(text, base) == Number(Reverse(text), base)

\* The end of a sequence comes first in its reverse.
LEMMA ReverseOf ==
  ASSUME NEW S, NEW t \in Seq(S)
  PROVE  /\ Reverse(t) \in Seq(S) /\ Len(Reverse(t)) = Len(t)
         /\ \A i \in 1..Len(t) : Reverse(t)[i] = t[Len(t) - i + 1]
BY DEF Reverse

\* The value of digits, by the last of them.
LEMMA ValueUnfolds ==
  ASSUME NEW base \in Nat
  PROVE  /\ Value(<<>>, base) = 0
         /\ \A t \in Seq(Nat) : Value(t, base) \in Nat
         /\ \A t \in Seq(Nat), d \in Nat :
              Value(Append(t, d), base) = d + base * Value(t, base)
<1>1. Value(<<>>, base) = 0
  <2>1. Reverse(<<>>) = <<>>
    BY DEF Reverse
  <2> QED
    BY <2>1, NumberUnfolds DEF Value
<1>2. ASSUME NEW t \in Seq(Nat) PROVE Value(t, base) \in Nat
  BY ReverseOf, NumberUnfolds DEF Value
<1>3. ASSUME NEW t \in Seq(Nat), NEW d \in Nat
      PROVE  Value(Append(t, d), base) = d + base * Value(t, base)
  <2> DEFINE u == Append(t, d)
             s == Reverse(t)
             r == Reverse(u)
  <2>1. u \in Seq(Nat) /\ Len(u) = Len(t) + 1 /\ u[Len(t) + 1] = d
        /\ \A k \in 1..Len(t) : u[k] = t[k]
    OBVIOUS
  <2>2. s \in Seq(Nat) /\ Len(s) = Len(t) /\ \A k \in 1..Len(t) : s[k] = t[Len(t) - k + 1]
    BY ReverseOf
  <2>3. r \in Seq(Nat) /\ Len(r) = Len(u) /\ \A k \in 1..Len(u) : r[k] = u[Len(u) - k + 1]
    BY <2>1, ReverseOf
  <2> HIDE DEF u, s, r
  <2>4. r[1] = d
    <3>1. 1 \in 1..Len(u) /\ Len(u) - 1 + 1 = Len(t) + 1
      BY <2>1
    <3> QED
      BY <2>1, <2>3, <3>1
  <2>5. ASSUME NEW k \in 1..Len(s) PROVE r[k + 1] = s[k]
    <3>1. k + 1 \in 1..Len(u) /\ Len(u) - (k + 1) + 1 = Len(t) - k + 1
          /\ Len(t) - k + 1 \in 1..Len(t) /\ k \in 1..Len(t)
      BY <2>1, <2>2
    <3>2. r[k + 1] = u[Len(t) - k + 1]
      <4>1. r[k + 1] = u[Len(u) - (k + 1) + 1]
        BY <2>3, <3>1, Zenon
      <4> QED
        BY <3>1, <4>1
    <3> QED
      BY <2>1, <2>2, <3>1, <3>2
  <2>6. Number(r, base) = r[1] + base * Number(s, base)
    <3>1. Len(r) = Len(s) + 1
      BY <2>1, <2>2, <2>3
    <3> QED
      BY <2>2, <2>3, <2>5, <3>1, NumberUnfolds
  <2> QED
    BY <2>4, <2>6 DEF Value, u, s, r
<1> QED
  BY <1>1, <1>2, <1>3

\* A text that is not empty is its front and its last digit.
LEMMA FrontAndLast ==
  ASSUME NEW S, NEW t \in Seq(S), t # <<>>
  PROVE  \E u \in Seq(S), d \in S :
            /\ t = Append(u, d) /\ Len(u) = Len(t) - 1
            /\ \A k \in 1..Len(u) : u[k] = t[k]
            /\ d = t[Len(t)]
<1> DEFINE u == SubSeq(t, 1, Len(t) - 1)
           d == t[Len(t)]
<1>1. Len(t) \in Nat \ {0}
  OBVIOUS
<1>2. u \in Seq(S) /\ Len(u) = Len(t) - 1 /\ (\A k \in 1..Len(u) : u[k] = t[k]) /\ d \in S
  <2>1. u \in Seq(S) /\ Len(u) = Len(t) - 1
    BY <1>1
  <2>2. \A k \in 1..Len(u) : u[k] = t[k]
    BY <1>1
  <2>3. d \in S
    BY <1>1
  <2> QED
    BY <2>1, <2>2, <2>3
<1>3. t = Append(u, d)
  <2>1. Len(Append(u, d)) = Len(t) /\ Append(u, d) \in Seq(S)
    BY <1>1, <1>2
  <2>2. ASSUME NEW k \in 1..Len(t) PROVE Append(u, d)[k] = t[k]
    <3>1. CASE k = Len(t)
      BY <1>1, <1>2, <3>1
    <3>2. CASE k # Len(t)
      <4>1. k \in 1..Len(u)
        BY <1>1, <1>2, <3>2
      <4> HIDE DEF u, d
      <4> QED
        BY <1>2, <4>1
    <3> QED
      BY <3>1, <3>2
  <2> QED
    BY <2>1, <2>2
<1> QED
  BY <1>2, <1>3

\* Text is the digits of its value, unless it begins with a zero.
LEMMA TextIsItsDigits ==
  ASSUME NEW base \in Nat, base > 1
  PROVE  \A t \in Seq(0..(base - 1)) : t # <<>> /\ t[1] # 0 =>
            InBase(Value(t, base), base) = t /\ Value(t, base) \in Nat \ {0}
<1> DEFINE D == 0..(base - 1)
           Good(t) == InBase(Value(t, base), base) = t /\ Value(t, base) \in Nat \ {0}
           S == {n \in Nat : \A t \in Seq(D) : Len(t) = n /\ t # <<>> /\ t[1] # 0 => Good(t)}
<1> SUFFICES Nat \subseteq S
  <2> SUFFICES ASSUME NEW t \in Seq(D), t # <<>>, t[1] # 0 PROVE Good(t)
    OBVIOUS
  <2>1. Len(t) \in S
    OBVIOUS
  <2> QED
    BY <2>1
<1>1. ASSUME NEW n \in Nat, \A m \in 0..(n - 1) : m \in S PROVE n \in S
  <2> SUFFICES ASSUME NEW t \in Seq(D), Len(t) = n, t # <<>>, t[1] # 0 PROVE Good(t)
    OBVIOUS
  <2>1. PICK u \in Seq(D), d \in D : t = Append(u, d) /\ Len(u) = Len(t) - 1
                                   /\ (\A k \in 1..Len(u) : u[k] = t[k]) /\ d = t[Len(t)]
    <3> HIDE DEF D
    <3> QED
      BY FrontAndLast, Zenon
  <2>2. u \in Seq(Nat) /\ d \in Nat
    <3>1. D \subseteq Nat
      OBVIOUS
    <3> QED
      BY <3>1
  <2> DEFINE q == Value(u, base)
  <2>3. q \in Nat /\ Value(t, base) = d + base * q
    BY <2>1, <2>2, ValueUnfolds
  <2>4. InBase(q, base) = u /\ (q # 0 \/ d # 0)
    <3>1. CASE u = <<>>
      <4>1. q = 0
        BY <3>1, ValueUnfolds
      <4>2. d # 0
        BY <2>1, <3>1
      <4> QED
        BY <3>1, <4>1, <4>2, InBaseUnfolds
    <3>2. CASE u # <<>>
      <4>1. Len(u) \in 0..(n - 1) /\ u[1] # 0
        BY <2>1, <3>2
      <4>2. Len(u) \in S
        BY <1>1, <4>1
      <4>3. Good(u)
        BY <3>2, <4>1, <4>2
      <4> QED
        BY <4>3
    <3> QED
      BY <3>1, <3>2
  <2> HIDE DEF q, S
  <2>5. /\ Value(t, base) \in Nat \ {0}
        /\ Value(t, base) \div base = q
        /\ Value(t, base) % base = d
    <3>1. d \in 0..(base - 1)
      OBVIOUS
    <3>2. /\ (d + base * q) \div base = q /\ (d + base * q) % base = d
          /\ d + base * q \in Nat /\ (q # 0 \/ d # 0 => d + base * q > 0)
      BY <2>3, <3>1, QuotientOf
    <3>3. d + base * q \in Nat \ {0}
      BY <2>4, <3>2
    <3> QED
      BY <2>3, <3>2, <3>3, Zenon
  <2>6. InBase(Value(t, base), base) = u \o <<d>>
    BY <2>4, <2>5, InBaseUnfolds
  <2>7. u \o <<d>> = t
    BY <2>1
  <2> QED
    BY <2>5, <2>6, <2>7
<1> HIDE DEF S
<1> QED
  BY <1>1, Induction

---------------------------------------------------------------------------
(* Sequences *)

LEMMA ElementOf ==
  ASSUME NEW S, NEW s \in Seq(S)
  PROVE  /\ s \in [1..Len(s) -> S] /\ Len(s) \in Nat
         /\ \A i \in DOMAIN s : s[i] \in S
  OBVIOUS

LEMMA FirstPart ==
  ASSUME NEW S, NEW s \in Seq(S), NEW n \in Nat, n <= Len(s)
  PROVE  /\ SubSeq(s, 1, n) \in Seq(S) /\ Len(SubSeq(s, 1, n)) = n
         /\ \A i \in 1..n : SubSeq(s, 1, n)[i] = s[i]
  OBVIOUS

LEMMA SeqOfMore ==
  ASSUME NEW S, NEW T, S \subseteq T, NEW s \in Seq(S)
  PROVE  s \in Seq(T)
OBVIOUS

LEMMA Joined ==
  ASSUME NEW S, NEW s \in Seq(S), NEW t \in Seq(S)
  PROVE  /\ s \o t \in Seq(S) /\ Len(s \o t) = Len(s) + Len(t)
         /\ \A i \in 1..Len(s) : (s \o t)[i] = s[i]
         /\ \A i \in 1..Len(t) : (s \o t)[Len(s) + i] = t[i]
OBVIOUS

LEMMA SameSeq ==
  ASSUME NEW S, NEW s \in Seq(S), NEW t \in Seq(S), Len(s) = Len(t),
         \A i \in 1..Len(s) : s[i] = t[i]
  PROVE  s = t
OBVIOUS

LEMMA CutInTwo ==
  ASSUME NEW S, NEW s \in Seq(S), NEW z \in 0..Len(s)
  PROVE  SubSeq(s, 1, z) \o SubSeq(s, z + 1, Len(s)) = s
<1> DEFINE front == SubSeq(s, 1, z)
           back == SubSeq(s, z + 1, Len(s))
<1>1. Len(s) \in Nat /\ z \in Nat
  OBVIOUS
<1>2. front \in Seq(S) /\ Len(front) = z /\ \A i \in 1..z : front[i] = s[i]
  BY <1>1
<1>3. back \in Seq(S) /\ Len(back) = Len(s) - z /\ \A i \in 1..(Len(s) - z) : back[i] = s[z + i]
  BY <1>1
<1> HIDE DEF front, back
<1> DEFINE whole == front \o back
<1>4. /\ whole \in Seq(S) /\ Len(whole) = Len(front) + Len(back)
      /\ \A i \in 1..Len(front) : whole[i] = front[i]
      /\ \A i \in 1..Len(back) : whole[Len(front) + i] = back[i]
  BY <1>2, <1>3, Joined
<1> HIDE DEF whole
<1>5. ASSUME NEW i \in 1..Len(s) PROVE whole[i] = s[i]
  <2>1. CASE i <= z
    BY <1>1, <1>2, <1>4, <2>1
  <2>2. CASE i > z
    <3>1. i - z \in 1..(Len(s) - z) /\ z + (i - z) = i
      BY <1>1, <2>2
    <3>2. whole[z + (i - z)] = back[i - z]
      BY <1>2, <1>3, <1>4, <3>1
    <3> QED
      BY <1>3, <3>1, <3>2
  <2> QED
    BY <1>1, <2>1, <2>2
<1>6. Len(whole) = Len(s)
  BY <1>1, <1>2, <1>3, <1>4
<1>7. whole = s
  BY <1>4, <1>5, <1>6, SameSeq
<1> QED
  BY <1>7 DEF whole, front, back

\* The digits of a number have that value, and no leading zero.
LEMMA DigitsAreTheNumber ==
  ASSUME NEW base \in Nat, base > 1
  PROVE  \A n \in Nat :
            /\ InBase(n, base) \in Seq(0..(base - 1))
            /\ Value(InBase(n, base), base) = n
            /\ n = 0 => InBase(n, base) = <<>>
            /\ n # 0 => InBase(n, base) # <<>> /\ InBase(n, base)[1] # 0
<1> DEFINE D == 0..(base - 1)
           Good(n) == /\ InBase(n, base) \in Seq(D)
                      /\ Value(InBase(n, base), base) = n
                      /\ n = 0 => InBase(n, base) = <<>>
                      /\ n # 0 => InBase(n, base) # <<>> /\ InBase(n, base)[1] # 0
           S == {n \in Nat : Good(n)}
<1> SUFFICES Nat \subseteq S
  OBVIOUS
<1>1. ASSUME NEW n \in Nat, \A m \in 0..(n - 1) : m \in S PROVE n \in S
  <2>1. CASE n = 0
    <3>1. InBase(n, base) = <<>>
      BY <2>1, InBaseUnfolds
    <3>2. <<>> \in Seq(D) /\ Value(<<>>, base) = 0
      BY ValueUnfolds
    <3> QED
      BY <2>1, <3>1, <3>2
  <2>2. CASE n # 0
    <3> DEFINE q == n \div base
               d == n % base
               u == InBase(q, base)
    <3>1. q \in 0..(n - 1)
      BY <2>2, QuotientSmaller
    <3>2. Good(q)
      BY <1>1, <3>1
    <3>3. d \in D /\ n = base * q + d
      BY Quotient
    <3>4. InBase(n, base) = u \o <<d>>
      BY <2>2, InBaseUnfolds
    <3>5. u \in Seq(D) /\ u \in Seq(Nat) /\ d \in Nat /\ q \in Nat
      <4>1. D \subseteq Nat
        OBVIOUS
      <4>2. u \in Seq(D)
        BY <3>2
      <4>3. q \in Nat
        BY <3>1
      <4> HIDE DEF u, d, D, q
      <4>4. u \in Seq(Nat)
        BY <4>1, <4>2, SeqOfMore
      <4> QED
        BY <3>3, <4>1, <4>2, <4>3, <4>4
    <3> HIDE DEF u, d, q, D
    <3>6. InBase(n, base) = Append(u, d) /\ Append(u, d) \in Seq(D)
      BY <3>3, <3>4, <3>5
    <3>7. Value(Append(u, d), base) = n
      <4>1. Value(Append(u, d), base) = d + base * Value(u, base)
        BY <3>5, ValueUnfolds
      <4>2. Value(u, base) = q
        BY <3>2 DEF u
      <4> QED
        BY <3>3, <3>5, <4>1, <4>2
    <3>8. Append(u, d) # <<>> /\ Append(u, d)[1] # 0
      <4>1. CASE q = 0
        <5>1. u = <<>>
          BY <3>2, <4>1 DEF u
        <5>2. d = n
          BY <3>3, <3>5, <4>1
        <5> QED
          BY <2>2, <5>1, <5>2
      <4>2. CASE q # 0
        <5>1. u # <<>> /\ u[1] # 0
          BY <3>2, <4>2 DEF u
        <5> QED
          BY <3>5, <5>1
      <4> QED
        BY <4>1, <4>2
    <3>9. Good(n)
      BY <2>2, <3>6, <3>7, <3>8
    <3> QED
      BY <3>9
  <2> QED
    BY <2>1, <2>2
<1> HIDE DEF S
<1> QED
  BY <1>1, Induction

---------------------------------------------------------------------------
(* Leading zeros *)

\* Leading zeros are worth nothing.
LEMMA LeadingZeros ==
  ASSUME NEW base \in Nat
  PROVE  \A t \in Seq(Nat), z \in Nat :
            z <= Len(t) /\ (\A i \in 1..z : t[i] = 0) =>
               Value(SubSeq(t, z + 1, Len(t)), base) = Value(t, base)
<1> DEFINE Good(t) == \A z \in 0..Len(t) :
                         (\A i \in 1..z : t[i] = 0) =>
                            Value(SubSeq(t, z + 1, Len(t)), base) = Value(t, base)
           S == {n \in Nat : \A t \in Seq(Nat) : Len(t) = n => Good(t)}
<1> SUFFICES Nat \subseteq S
  <2> SUFFICES ASSUME NEW t \in Seq(Nat) PROVE Good(t)
    OBVIOUS
  <2>1. Len(t) \in S
    OBVIOUS
  <2> QED
    BY <2>1
<1>1. ASSUME NEW n \in Nat, \A m \in 0..(n - 1) : m \in S PROVE n \in S
  <2> SUFFICES ASSUME NEW t \in Seq(Nat), Len(t) = n, NEW z \in 0..n, \A i \in 1..z : t[i] = 0
               PROVE  Value(SubSeq(t, z + 1, n), base) = Value(t, base)
    OBVIOUS
  <2>1. CASE z = 0
    <3>1. SubSeq(t, z + 1, n) = t
      BY <2>1
    <3> QED
      BY <3>1
  <2>2. CASE z # 0
    <3>1. t # <<>>
      BY <2>2
    <3>2. PICK u \in Seq(Nat), d \in Nat : t = Append(u, d) /\ Len(u) = Len(t) - 1
                                   /\ (\A k \in 1..Len(u) : u[k] = t[k]) /\ d = t[Len(t)]
      <4> DEFINE N == Nat
      <4> HIDE DEF S, Good, N
      <4>1. t \in Seq(N)
        BY DEF N
      <4>2. \E u \in Seq(N), d \in N : t = Append(u, d) /\ Len(u) = Len(t) - 1
                                   /\ (\A k \in 1..Len(u) : u[k] = t[k]) /\ d = t[Len(t)]
        BY ONLY <3>1, <4>1, FrontAndLast, Zenon
      <4> QED
        BY <4>2 DEF N
    <3>3. Value(t, base) = d + base * Value(u, base)
      BY <3>2, ValueUnfolds
    <3>4. Len(u) \in S /\ Len(u) = n - 1
      BY <1>1, <2>2, <3>2
    <3>5. Good(u)
      BY <3>4
    <3> HIDE DEF S
    <3>6. CASE z = n
      <4>1. d = 0 /\ n - 1 \in 0..Len(u) /\ \A i \in 1..(n - 1) : u[i] = 0
        BY <2>2, <3>2, <3>6
      <4>2. Value(SubSeq(u, (n - 1) + 1, Len(u)), base) = Value(u, base)
        BY <3>5, <4>1
      <4>3. SubSeq(u, (n - 1) + 1, Len(u)) = <<>> /\ SubSeq(t, z + 1, n) = <<>>
        BY <3>4, <3>6
      <4>4. Value(u, base) = 0
        BY <4>2, <4>3, ValueUnfolds
      <4>5. \A b \in Nat : 0 + b * 0 = 0
        OBVIOUS
      <4>6. Value(t, base) = 0 + base * 0
        BY <3>3, <4>1, <4>4
      <4> QED
        BY <4>3, <4>5, <4>6, ValueUnfolds
    <3>7. CASE z # n
      <4> DEFINE w == SubSeq(u, z + 1, Len(u))
      <4>1. z \in 0..Len(u) /\ \A i \in 1..z : u[i] = 0
        BY <3>2, <3>4, <3>7
      <4>2. Value(w, base) = Value(u, base)
        BY <3>5, <4>1
      <4>3. w \in Seq(Nat) /\ Len(w) = Len(u) - z /\ \A i \in 1..(Len(u) - z) : w[i] = u[i + z]
        BY <4>1
      <4>4. SubSeq(t, z + 1, n) = Append(w, d)
        <5>1. SubSeq(t, z + 1, n) \in Seq(Nat) /\ Len(SubSeq(t, z + 1, n)) = n - z
              /\ \A i \in 1..(n - z) : SubSeq(t, z + 1, n)[i] = t[i + z]
          BY <4>1
        <5>2. Append(w, d) \in Seq(Nat) /\ Len(Append(w, d)) = n - z
              /\ (\A i \in 1..(Len(u) - z) : Append(w, d)[i] = w[i]) /\ Append(w, d)[n - z] = d
          BY <3>4, <4>3, <4>1
        <5>3. \A i \in 1..(n - z) : SubSeq(t, z + 1, n)[i] = Append(w, d)[i]
          <6> SUFFICES ASSUME NEW i \in 1..(n - z) PROVE SubSeq(t, z + 1, n)[i] = Append(w, d)[i]
            OBVIOUS
          <6> HIDE DEF w
          <6>1. CASE i = n - z
            <7>1. i + z = Len(t)
              BY <6>1
            <7> QED
              BY <3>2, <5>1, <5>2, <6>1, <7>1
          <6>2. CASE i # n - z
            <7>1. i \in 1..(Len(u) - z) /\ i + z \in 1..Len(u)
              BY <3>4, <4>1, <6>2
            <7> QED
              BY <3>2, <4>3, <5>1, <5>2, <7>1
          <6> QED
            BY <6>1, <6>2
        <5> HIDE DEF w
        <5> QED
          BY <5>1, <5>2, <5>3, SameSeq
      <4> HIDE DEF w
      <4>5. Value(Append(w, d), base) = d + base * Value(w, base)
        BY <4>3, ValueUnfolds
      <4> QED
        BY <3>3, <4>2, <4>4, <4>5
    <3> QED
      BY <3>6, <3>7
  <2> QED
    BY <2>1, <2>2
<1> HIDE DEF S
<1> QED
  BY <1>1, Induction

Leads(z, text) == z \in 0..Len(text) /\ (\A i \in 1..z : text[i] = 0) /\ (z < Len(text) => text[z + 1] # 0)

\* How many zeros lead a sequence is a number, and one only.
LEMMA LeadsExists ==
  ASSUME NEW t \in Seq(Nat)
  PROVE  \E z : Leads(z, t)
<1> DEFINE I == {i \in 1..Len(t) : t[i] # 0}
<1>0. Len(t) \in Nat
  OBVIOUS
<1>1. CASE I = {}
  <2>1. Leads(Len(t), t)
    BY <1>0, <1>1 DEF Leads
  <2> QED
    BY <2>1
<1>2. CASE I # {}
  <2>1. I \subseteq Nat
    OBVIOUS
  <2>2. PICK n \in I : \A m \in I : n <= m
    BY <1>2, <2>1, LeastNumber
  <2>3. Leads(n - 1, t)
    BY <1>0, <2>2 DEF Leads
  <2> QED
    BY <2>3
<1> QED
  BY <1>1, <1>2

LEMMA LeadsIsUnique ==
  ASSUME NEW t \in Seq(Nat), NEW y, NEW z, Leads(y, t), Leads(z, t)
  PROVE  y = z
BY DEF Leads

\* What a conversion keeps, the leading zeros, and what it converts.
LEMMA ConvertedIs ==
  ASSUME NEW t \in Seq(Nat), NEW z, Leads(z, t), NEW from, NEW to
  PROVE  Converted(t, from, to) =
            SubSeq(t, 1, z) \o InBase(Value(SubSeq(t, z + 1, Len(t)), from), to)
<1> DEFINE y == CHOOSE y : Leads(y, t)
           x == CHOOSE x \in 0..Len(t) : (\A i \in 1..x : t[i] = 0) /\ (x < Len(t) => t[x + 1] # 0)
<1>1. Leads(x, t)
  BY DEF Leads
<1>2. x = z
  <2> HIDE DEF x
  <2> QED
    BY <1>1, LeadsIsUnique
<1>3. Converted(t, from, to) =
            SubSeq(t, 1, x) \o InBase(Value(SubSeq(t, x + 1, Len(t)), from), to)
  BY DEF Converted, Value
<1> QED
  BY <1>2, <1>3

\* Text converted to another base and back is what it was, leading zeros and
\* all: what a base58 address stands for.
THEOREM ConversionRoundTrip ==
  ASSUME NEW a \in Nat, a > 1, NEW b \in Nat, b > 1, NEW t \in Seq(0..(a - 1))
  PROVE  /\ Converted(t, a, b) \in Seq(0..(b - 1))
         /\ Converted(Converted(t, a, b), b, a) = t
<1> DEFINE A == 0..(a - 1)
           B == 0..(b - 1)
<1>0. t \in Seq(Nat) /\ Len(t) \in Nat /\ A \subseteq Nat /\ B \subseteq Nat
  OBVIOUS
<1>1. PICK z : Leads(z, t)
  BY <1>0, LeadsExists
<1> DEFINE r == SubSeq(t, z + 1, Len(t))
           n == Value(r, a)
           zeros == SubSeq(t, 1, z)
           digits == InBase(n, b)
           out == zeros \o digits
<1>2. z \in 0..Len(t) /\ z \in Nat
  BY <1>0, <1>1 DEF Leads
<1>3. /\ zeros \in Seq(A) /\ Len(zeros) = z
      /\ r \in Seq(A) /\ Len(r) = Len(t) - z
      /\ \A i \in 1..z : zeros[i] = t[i]
  BY <1>0, <1>2
<1>4. \A i \in 1..z : zeros[i] = 0
  BY <1>1, <1>3 DEF Leads
<1>5. r # <<>> => r[1] # 0
  <2> SUFFICES ASSUME r # <<>> PROVE r[1] # 0
    OBVIOUS
  <2>1. z < Len(t)
    BY <1>0, <1>2, <1>3
  <2>2. r[1] = t[z + 1]
    BY <1>0, <1>2, <2>1
  <2> QED
    BY <1>1, <2>1, <2>2 DEF Leads
<1>6. InBase(n, a) = r /\ n \in Nat
  <2> HIDE DEF r
  <2>1. CASE r = <<>>
    BY <2>1, ValueUnfolds, InBaseUnfolds
  <2>2. CASE r # <<>>
    BY <1>3, <1>5, <2>2, TextIsItsDigits
  <2> QED
    BY <2>1, <2>2
<1>7. zeros \o r = t
  BY <1>2, CutInTwo
<1>8. Converted(t, a, b) = out
  BY <1>0, <1>1, ConvertedIs
<1> HIDE DEF n, r, zeros
<1>9. /\ digits \in Seq(B) /\ Value(digits, b) = n
      /\ n = 0 => digits = <<>>
      /\ n # 0 => digits # <<>> /\ digits[1] # 0
  BY <1>6, DigitsAreTheNumber
<1>10. digits # <<>> => digits[1] # 0
  BY <1>9
<1> HIDE DEF digits
<1>11. zeros \in Seq(B)
  <2>1. \A i \in 1..z : zeros[i] \in B
    BY <1>4
  <2> QED
    BY <1>2, <1>3, <2>1
<1>12. out \in Seq(B) /\ Len(out) = z + Len(digits) /\ out \in Seq(Nat)
  <2>1. out \in Seq(B) /\ Len(out) = z + Len(digits)
    <3> HIDE DEF B
    <3> QED
      BY <1>3, <1>9, <1>11, Joined
  <2> HIDE DEF out, B
  <2> QED
    BY <1>0, <2>1, SeqOfMore
<1>13. SubSeq(out, 1, z) = zeros /\ SubSeq(out, z + 1, Len(out)) = digits
  BY <1>2, <1>3, <1>9, <1>11
<1>14. Leads(z, out)
  <2>1. \A i \in 1..z : out[i] = 0
    BY <1>2, <1>3, <1>4, <1>9, <1>11
  <2>2. z < Len(out) => out[z + 1] # 0
    BY <1>2, <1>3, <1>9, <1>10, <1>11, <1>12
  <2> QED
    BY <1>2, <1>12, <2>1, <2>2 DEF Leads
<1>15. Converted(out, b, a) = zeros \o InBase(n, a)
  <2> HIDE DEF out
  <2>1. Converted(out, b, a) = SubSeq(out, 1, z) \o InBase(Value(SubSeq(out, z + 1, Len(out)), b), a)
    BY <1>12, <1>14, ConvertedIs
  <2> QED
    BY <1>9, <1>13, <2>1
<1> QED
  BY <1>6, <1>7, <1>8, <1>12, <1>15

---------------------------------------------------------------------------
(* Base58 *)

\* What base58 text stands for, and the text that stands for bytes.
LEMMA Base58RoundTrip ==
  /\ \A text \in Seq(Nat) : IsBase58(text) =>
       DecodeBase58(text) \in Seq(0..255) /\ EncodeBase58(DecodeBase58(text)) = text
  /\ \A bytes \in Seq(0..255) :
       /\ EncodeBase58(bytes) \in Seq(Nat) /\ IsBase58(EncodeBase58(bytes))
       /\ DecodeBase58(EncodeBase58(bytes)) = bytes
  <1> DEFINE a == 58
             b == 256
  <1>1. a \in Nat /\ a > 1 /\ b \in Nat /\ b > 1 /\ 0..(a - 1) = 0..57 /\ 0..(b - 1) = 0..255
    OBVIOUS
  <1> HIDE DEF a, b
  <1>2. \A t \in Seq(0..57) : Converted(t, a, b) \in Seq(0..255) /\ Converted(Converted(t, a, b), b, a) = t
    BY <1>1, ConversionRoundTrip
  <1>3. \A t \in Seq(0..255) : Converted(t, b, a) \in Seq(0..57) /\ Converted(Converted(t, b, a), a, b) = t
    BY <1>1, ConversionRoundTrip
  <1>4. ASSUME NEW text \in Seq(Nat), IsBase58(text)  PROVE text \in Seq(0..57)
    <2>1. Len(text) \in Nat /\ text \in [1..Len(text) -> 0..57]
      <3>1. \A i \in DOMAIN text : text[i] \in 0..57
        BY <1>4 DEF IsBase58
      <3>2. Len(text) \in Nat /\ text \in [1..Len(text) -> Nat]
        OBVIOUS
      <3> QED BY <3>1, <3>2
    <2>2. \A n \in Nat : \A f \in [1..n -> 0..57] : f \in Seq(0..57)
      OBVIOUS
    <2> QED BY <2>1, <2>2
  <1>5. ASSUME NEW text \in Seq(0..57)  PROVE text \in Seq(Nat) /\ IsBase58(text)
    <2>1. 0..57 \subseteq Nat
      OBVIOUS
    <2>2. text \in Seq(Nat)
      BY <2>1, SeqOfMore
    <2>3. \A i \in DOMAIN text : text[i] \in 0..57
      BY ElementOf
    <2> QED BY <2>2, <2>3 DEF IsBase58
  <1>6. \A t : DecodeBase58(t) = Converted(t, a, b) /\ EncodeBase58(t) = Converted(t, b, a)
    BY DEF DecodeBase58, EncodeBase58, a, b
  <1> QED BY <1>2, <1>3, <1>4, <1>5, <1>6

---------------------------------------------------------------------------
(* Varints *)

\* Digits, the lowest first, each with 128 added to it but the last.
Marked(d) ==
    [i \in 1..Len(d) |-> IF i = Len(d) THEN d[1] ELSE VarintBase + d[Len(d) + 1 - i]]

\* What VarintDigits is, by the digits of a number in base 128.
VarintOf(m) == IF m = 0 THEN <<0>> ELSE Marked(InBase(m, VarintBase))
VarintOfMore(m) == <<VarintBase + (m % VarintBase)>> \o VarintOf(m \div VarintBase)

\* The digits of a number in base 128, and those of its quotient.
LEMMA SevenBits ==
  ASSUME NEW m \in Nat \ {0}
  PROVE  LET d == InBase(m, VarintBase)
             e == InBase(m \div VarintBase, VarintBase)
         IN  /\ d \in Seq(0..127) /\ e \in Seq(0..127)
             /\ Len(d) = Len(e) + 1 /\ d[Len(e) + 1] = m % VarintBase
             /\ \A i \in 1..Len(e) : d[i] = e[i]
             /\ m < VarintBase <=> Len(e) = 0
<1> DEFINE d == InBase(m, VarintBase)
           q == m \div VarintBase
           e == InBase(q, VarintBase)
           r == m % VarintBase
<1>1. q \in Nat /\ r \in 0..127 /\ (m < VarintBase <=> q = 0)
  BY DEF VarintBase
<1>0. VarintBase \in Nat /\ VarintBase > 1 /\ VarintBase - 1 = 127
  BY DEF VarintBase
<1>2. d \in Seq(0..127) /\ e \in Seq(0..127) /\ (q = 0 <=> e = <<>>)
  <2> HIDE DEF q
  <2>1. \A n \in Nat : /\ InBase(n, VarintBase) \in Seq(0..(VarintBase - 1))
                       /\ n = 0 => InBase(n, VarintBase) = <<>>
                       /\ n # 0 => InBase(n, VarintBase) # <<>>
    BY <1>0, DigitsAreTheNumber, Zenon
  <2>2. \A n \in Nat : InBase(n, VarintBase) \in Seq(0..127)
    BY <1>0, <2>1
  <2> QED
    BY <1>1, <2>1, <2>2
<1>3. d = e \o <<r>>
  BY <1>0, InBaseUnfolds, Zenon
<1> HIDE DEF d, e, q, r
<1>4. <<r>> \in Seq(0..127) /\ Len(<<r>>) = 1 /\ <<r>>[1] = r
  BY <1>1
<1>5. /\ Len(d) = Len(e) + 1
      /\ \A i \in 1..Len(e) : d[i] = e[i]
      /\ d[Len(e) + 1] = r
  BY <1>2, <1>3, <1>4, Joined
<1>6. e = <<>> <=> Len(e) = 0
  BY <1>2
<1> QED
  BY <1>1, <1>2, <1>5, <1>6 DEF d, e, q, r

LEMMA MarkIsByte == \A x \in 0..127 : x \in 0..255 /\ VarintBase + x \in 0..255
BY DEF VarintBase

LEMMA MarkedIs ==
  ASSUME NEW d \in Seq(0..127), Len(d) > 0
  PROVE  /\ Marked(d) \in Seq(0..255) /\ Len(Marked(d)) = Len(d)
         /\ \A i \in 1..Len(d) : Marked(d)[i] = IF i = Len(d) THEN d[1] ELSE VarintBase + d[Len(d) + 1 - i]
<1> DEFINE L == Len(d)
           at(i) == IF i = L THEN d[1] ELSE VarintBase + d[L + 1 - i]
<1>1. L \in Nat /\ \A k \in 1..L : d[k] \in 0..127
  BY ElementOf
<1> HIDE DEF L
<1>2. ASSUME NEW i \in 1..L PROVE at(i) \in 0..255
  <2>1. L + 1 - i \in 1..L /\ 1 \in 1..L
    BY <1>1
  <2>2. d[1] \in 0..127 /\ d[L + 1 - i] \in 0..127
    BY <1>1, <2>1, Zenon
  <2> QED
    BY <2>2, MarkIsByte, Zenon
<1>3. Marked(d) = [i \in 1..L |-> at(i)]
  BY DEF Marked, L
<1> HIDE DEF at
<1>4. Marked(d) \in [1..L -> 0..255] /\ \A i \in 1..L : Marked(d)[i] = at(i)
  BY <1>2, <1>3
<1>5. Marked(d) \in Seq(0..255) /\ Len(Marked(d)) = L
  BY <1>1, <1>4
<1> QED
  BY <1>4, <1>5 DEF L, at

LEMMA MarkedUnfolds ==
  ASSUME NEW d \in Seq(0..127), NEW e \in Seq(0..127), Len(d) = Len(e) + 1, Len(e) > 0,
         \A i \in 1..Len(e) : d[i] = e[i]
  PROVE  Marked(d) = <<VarintBase + d[Len(d)]>> \o Marked(e)
<1> DEFINE v == Marked(d)
           w == Marked(e)
           h == VarintBase + d[Len(d)]
<1>1. Len(e) \in Nat /\ Len(d) \in Nat
  BY ElementOf
<1>2. /\ v \in Seq(0..255) /\ Len(v) = Len(d)
      /\ \A i \in 1..Len(d) : v[i] = IF i = Len(d) THEN d[1] ELSE VarintBase + d[Len(d) + 1 - i]
  BY <1>1, MarkedIs
<1>3. /\ w \in Seq(0..255) /\ Len(w) = Len(e)
      /\ \A i \in 1..Len(e) : w[i] = IF i = Len(e) THEN e[1] ELSE VarintBase + e[Len(e) + 1 - i]
  BY <1>1, MarkedIs
<1> HIDE DEF v, w
<1>4. h \in 0..255
  <2>1. Len(d) \in DOMAIN d
    BY <1>1
  <2>3. \A k \in DOMAIN d : d[k] \in 0..127
    BY ElementOf, Zenon
  <2>2. d[Len(d)] \in 0..127
    BY <2>1, <2>3, Zenon
  <2> QED
    BY <2>2, MarkIsByte, Zenon
<1>5. v[1] = h
  <2>1. 1 \in 1..Len(d) /\ 1 # Len(d) /\ Len(d) + 1 - 1 = Len(d)
    BY <1>1
  <2> QED
    BY <1>2, <2>1
<1>6. ASSUME NEW i \in 1..Len(e) PROVE v[i + 1] = w[i]
  <2>1. /\ i + 1 \in 1..Len(d) /\ (i + 1 = Len(d) <=> i = Len(e))
        /\ Len(d) + 1 - (i + 1) = Len(e) + 1 - i
        /\ Len(e) + 1 - i \in 1..Len(e) /\ 1 \in 1..Len(e)
    BY <1>1
  <2>2. d[Len(e) + 1 - i] = e[Len(e) + 1 - i] /\ d[1] = e[1]
    BY <2>1
  <2>3. v[i + 1] = IF i = Len(e) THEN d[1] ELSE VarintBase + d[Len(e) + 1 - i]
    BY <1>2, <2>1
  <2>4. w[i] = IF i = Len(e) THEN e[1] ELSE VarintBase + e[Len(e) + 1 - i]
    BY <1>3
  <2> QED
    BY <2>2, <2>3, <2>4, Zenon
<1> DEFINE u == <<h>> \o w
<1> HIDE DEF h
<1>7. <<h>> \in Seq(0..255) /\ Len(<<h>>) = 1 /\ <<h>>[1] = h
  BY <1>4
<1>8. /\ u \in Seq(0..255) /\ Len(u) = 1 + Len(w) /\ u[1] = h
      /\ \A i \in 1..Len(w) : u[1 + i] = w[i]
  BY <1>3, <1>7, Joined
<1> HIDE DEF u
<1>9. ASSUME NEW i \in 1..Len(v) PROVE v[i] = u[i]
  <2>1. CASE i = 1
    BY <1>5, <1>8, <2>1
  <2>2. CASE i # 1
    <3>1. i - 1 \in 1..Len(e) /\ i = (i - 1) + 1 /\ i = 1 + (i - 1)
      BY <1>1, <1>2, <2>2
    <3>2. v[i] = w[i - 1] /\ u[i] = w[i - 1]
      BY <1>3, <1>6, <1>8, <3>1
    <3> QED
      BY <3>2
  <2> QED
    BY <2>1, <2>2
<1>10. v = u
  BY <1>1, <1>2, <1>3, <1>8, <1>9, SameSeq
<1> QED
  BY <1>10 DEF u, v, w, h

\* VarintOf satisfies what VarintDigits is defined by.
LEMMA VarintOfUnfolds ==
  ASSUME NEW m \in Nat
  PROVE  VarintOf(m) = IF m < VarintBase THEN <<m>> ELSE VarintOfMore(m)
<1>1. CASE m = 0
  BY <1>1 DEF VarintOf, VarintBase
<1>2. CASE m # 0
  <2> DEFINE d == InBase(m, VarintBase)
             e == InBase(m \div VarintBase, VarintBase)
  <2>1. /\ d \in Seq(0..127) /\ e \in Seq(0..127)
        /\ Len(d) = Len(e) + 1 /\ d[Len(e) + 1] = m % VarintBase
        /\ \A i \in 1..Len(e) : d[i] = e[i]
        /\ m < VarintBase <=> Len(e) = 0
    BY <1>2, SevenBits
  <2>2. VarintOf(m) = Marked(d)
    BY <1>2 DEF VarintOf
  <2>3. ~(m < VarintBase) => VarintOf(m \div VarintBase) = Marked(e)
    BY DEF VarintOf, VarintBase
  <2>4. m < VarintBase => m % VarintBase = m
    BY DEF VarintBase
  <2> HIDE DEF d, e
  <2>5. CASE m < VarintBase
    <3>1. Len(d) = 1 /\ d[1] = m
      BY <2>1, <2>4, <2>5
    <3>2. Marked(d) = [i \in 1..1 |-> m]
      BY <3>1 DEF Marked
    <3> QED
      BY <2>2, <2>5, <3>2
  <2>6. CASE ~(m < VarintBase)
    <3>1. Len(e) > 0 /\ d[Len(d)] = m % VarintBase
      BY <2>1, <2>6
    <3>2. Marked(d) = <<VarintBase + d[Len(d)]>> \o Marked(e)
      BY <2>1, <3>1, MarkedUnfolds
    <3> QED
      BY <2>2, <2>3, <2>6, <3>1, <3>2 DEF VarintOfMore
  <2> QED
    BY <2>5, <2>6
<1> QED
  BY <1>1, <1>2

\* The lowest digit, and after it the varint of the quotient.
LEMMA VarintUnfolds ==
  \A m \in Nat :
     /\ m < VarintBase => VarintDigits[m] = <<m>>
     /\ ~(m < VarintBase) =>
          VarintDigits[m] = <<VarintBase + (m % VarintBase)>> \o VarintDigits[m \div VarintBase]
<1> DEFINE Table(f) ==
             f = [m \in Nat |-> IF m < VarintBase THEN <<m>>
                                ELSE <<VarintBase + (m % VarintBase)>> \o f[m \div VarintBase]]
           g == [m \in Nat |-> VarintOf(m)]
<1>1. Table(g)
  <2>1. ASSUME NEW m \in Nat
        PROVE  VarintOf(m) = IF m < VarintBase THEN <<m>>
                             ELSE <<VarintBase + (m % VarintBase)>> \o g[m \div VarintBase]
    <3>1. m \div VarintBase \in Nat
      BY DEF VarintBase
    <3>2. g[m \div VarintBase] = VarintOf(m \div VarintBase)
      BY <3>1
    <3> QED
      BY <3>2, VarintOfUnfolds DEF VarintOfMore
  <2> QED
    BY <2>1
<1>2. VarintDigits = CHOOSE f : Table(f)
  BY DEF VarintDigits
<1>3. Table(VarintDigits)
  <2> HIDE DEF Table, g
  <2> QED
    BY <1>1, <1>2
<1> SUFFICES ASSUME NEW m \in Nat
             PROVE  VarintDigits[m] = IF m < VarintBase THEN <<m>>
                        ELSE <<VarintBase + (m % VarintBase)>> \o VarintDigits[m \div VarintBase]
  OBVIOUS
<1> DEFINE t(k) == IF k < VarintBase THEN <<k>>
                   ELSE <<VarintBase + (k % VarintBase)>> \o VarintDigits[k \div VarintBase]
<1>4. VarintDigits = [k \in Nat |-> t(k)]
  BY <1>3
<1> HIDE DEF t
<1>5. VarintDigits[m] = t(m)
  BY <1>4
<1> QED
  BY <1>5 DEF t

\* The seven bits of each byte.
Low(bytes) == [i \in DOMAIN bytes |-> bytes[i] % VarintBase]

LEMMA LowIs ==
  ASSUME NEW w \in Seq(0..255)
  PROVE  /\ Low(w) \in Seq(Nat) /\ Len(Low(w)) = Len(w)
         /\ \A i \in 1..Len(w) : Low(w)[i] = w[i] % VarintBase
<1>1. Len(w) \in Nat /\ DOMAIN w = 1..Len(w) /\ \A i \in 1..Len(w) : w[i] \in 0..255
  BY ElementOf
<1>2. \A x \in 0..255 : x % VarintBase \in Nat
  BY DEF VarintBase
<1> DEFINE L == Len(w)
           at(i) == w[i] % VarintBase
<1>3. Low(w) = [i \in 1..L |-> at(i)] /\ L \in Nat
  BY <1>1 DEF Low
<1>4. \A i \in 1..L : at(i) \in Nat
  BY <1>1, <1>2
<1> HIDE DEF L, at
<1>5. Low(w) \in [1..L -> Nat] /\ \A i \in 1..L : Low(w)[i] = at(i)
  BY <1>3, <1>4
<1>6. Low(w) \in Seq(Nat) /\ Len(Low(w)) = L
  BY <1>3, <1>5
<1> QED
  BY <1>5, <1>6 DEF L, at

\* The last byte of a varint is the only one below 128, and its bits are the
\* number.
IsVarintOf(w, n) ==
    /\ w \in Seq(0..255) /\ Len(w) > 0
    /\ w[Len(w)] < VarintBase /\ \A i \in 1..(Len(w) - 1) : w[i] >= VarintBase
    /\ Number(Low(w), VarintBase) = n

LEMMA OneByte ==
  ASSUME NEW n \in 0..127
  PROVE  IsVarintOf(<<n>>, n)
<1> DEFINE w == <<n>>
<1>1. w \in Seq(0..255) /\ Len(w) = 1 /\ w[1] = n
  OBVIOUS
<1> HIDE DEF w
<1>2. Low(w) \in Seq(Nat) /\ Len(Low(w)) = 1 /\ Low(w)[1] = n % VarintBase
  BY <1>1, LowIs
<1>3. n % VarintBase = n /\ n < VarintBase /\ VarintBase \in Nat
  BY DEF VarintBase
<1>4. <<>> \in Seq(Nat) /\ Len(<<>>) = 0
  OBVIOUS
<1>5. /\ Number(<<>>, VarintBase) = 0
      /\ \A s, t \in Seq(Nat) :
            Len(t) = Len(s) + 1 /\ (\A k \in 1..Len(s) : t[k + 1] = s[k]) =>
                Number(t, VarintBase) = t[1] + VarintBase * Number(s, VarintBase)
  BY <1>3, NumberUnfolds, Zenon
<1>6. Len(Low(w)) = Len(<<>>) + 1 /\ (\A k \in 1..Len(<<>>) : Low(w)[k + 1] = <<>>[k])
  BY <1>2
<1>7. Number(Low(w), VarintBase) = Low(w)[1] + VarintBase * Number(<<>>, VarintBase)
  BY <1>2, <1>4, <1>5, <1>6
<1>8. Number(Low(w), VarintBase) = n
  BY <1>2, <1>3, <1>5, <1>7
<1> QED
  BY <1>1, <1>3, <1>8 DEF IsVarintOf, w

LEMMA OneByteMore ==
  ASSUME NEW n \in Nat, n >= 128, NEW v, IsVarintOf(v, n \div VarintBase)
  PROVE  IsVarintOf(<<VarintBase + (n % VarintBase)>> \o v, n)
<1> DEFINE h == VarintBase + (n % VarintBase)
           q == n \div VarintBase
           w == <<h>> \o v
<1>1. /\ h \in 0..255 /\ h >= VarintBase /\ h % VarintBase = n % VarintBase
      /\ q \in Nat /\ VarintBase \in Nat /\ n = (n % VarintBase) + VarintBase * q
  BY DEF VarintBase
<1>2. /\ v \in Seq(0..255) /\ Len(v) > 0 /\ Len(v) \in Nat
      /\ v[Len(v)] < VarintBase /\ \A i \in 1..(Len(v) - 1) : v[i] >= VarintBase
      /\ Number(Low(v), VarintBase) = q
  BY DEF IsVarintOf
<1>3. <<h>> \in Seq(0..255) /\ Len(<<h>>) = 1 /\ <<h>>[1] = h
  BY <1>1
<1> HIDE DEF h
<1>4. /\ w \in Seq(0..255) /\ Len(w) = 1 + Len(v) /\ w[1] = h
      /\ \A i \in 1..Len(v) : w[1 + i] = v[i]
  BY <1>2, <1>3, Joined
<1> HIDE DEF w, q
<1>5. w[Len(w)] = v[Len(v)]
  BY <1>2, <1>4
<1>6. ASSUME NEW i \in 1..(Len(w) - 1) PROVE w[i] >= VarintBase
  <2>1. CASE i = 1
    BY <1>1, <1>4, <2>1
  <2>2. CASE i # 1
    <3>1. i - 1 \in 1..(Len(v) - 1) /\ i - 1 \in 1..Len(v) /\ 1 + (i - 1) = i
      BY <1>2, <1>4, <2>2
    <3>2. w[i] = v[i - 1]
      BY <1>4, <3>1
    <3> QED
      BY <1>2, <3>1, <3>2
  <2> QED
    BY <2>1, <2>2
<1>7. /\ Low(v) \in Seq(Nat) /\ Len(Low(v)) = Len(v)
      /\ \A i \in 1..Len(v) : Low(v)[i] = v[i] % VarintBase
  BY <1>2, LowIs
<1>8. /\ Low(w) \in Seq(Nat) /\ Len(Low(w)) = Len(w)
      /\ \A i \in 1..Len(w) : Low(w)[i] = w[i] % VarintBase
  BY <1>4, LowIs
<1>9. ASSUME NEW k \in 1..Len(Low(v)) PROVE Low(w)[k + 1] = Low(v)[k]
  <2>1. k \in 1..Len(v) /\ k + 1 \in 1..Len(w) /\ k + 1 = 1 + k
    BY <1>2, <1>4, <1>7
  <2>2. w[k + 1] = v[k]
    BY <1>4, <2>1
  <2> QED
    BY <1>7, <1>8, <2>1, <2>2
<1>10. \A s, t \in Seq(Nat) :
          Len(t) = Len(s) + 1 /\ (\A k \in 1..Len(s) : t[k + 1] = s[k]) =>
              Number(t, VarintBase) = t[1] + VarintBase * Number(s, VarintBase)
  BY <1>1, NumberUnfolds, Zenon
<1>11. Len(Low(w)) = Len(Low(v)) + 1
  BY <1>2, <1>4, <1>7, <1>8
<1>12. Number(Low(w), VarintBase) = Low(w)[1] + VarintBase * Number(Low(v), VarintBase)
  BY <1>7, <1>8, <1>9, <1>10, <1>11, Zenon
<1>13. Low(w)[1] = n % VarintBase
  BY <1>1, <1>2, <1>4, <1>8
<1>14. Number(Low(w), VarintBase) = n
  BY <1>1, <1>2, <1>12, <1>13
<1>15. IsVarintOf(w, n)
  BY <1>2, <1>4, <1>5, <1>6, <1>14 DEF IsVarintOf
<1> QED
  BY <1>15 DEF w, h

LEMMA VarintHolds == \A n \in Nat : IsVarintOf(VarintDigits[n], n)
<1> DEFINE S == {n \in Nat : IsVarintOf(VarintDigits[n], n)}
<1> SUFFICES Nat \subseteq S
  OBVIOUS
<1>1. ASSUME NEW n \in Nat, \A m \in 0..(n - 1) : m \in S PROVE n \in S
  <2>1. CASE n < VarintBase
    <3>1. n \in 0..127
      BY <2>1 DEF VarintBase
    <3> QED
      BY <2>1, <3>1, OneByte, VarintUnfolds
  <2>2. CASE ~(n < VarintBase)
    <3>1. n >= 128 /\ n \div VarintBase \in 0..(n - 1)
      BY <2>2 DEF VarintBase
    <3>2. IsVarintOf(VarintDigits[n \div VarintBase], n \div VarintBase)
      BY <1>1, <3>1
    <3>3. VarintDigits[n] = <<VarintBase + (n % VarintBase)>> \o VarintDigits[n \div VarintBase]
      BY <2>2, VarintUnfolds, Zenon
    <3>4. IsVarintOf(VarintDigits[n], n)
      <4>1. IsVarintOf(<<VarintBase + (n % VarintBase)>> \o VarintDigits[n \div VarintBase], n)
        BY <3>1, <3>2, OneByteMore, Zenon
      <4> QED
        BY <3>3, <4>1, Zenon
    <3> QED
      BY <3>4
  <2> QED
    BY <2>1, <2>2
<1> HIDE DEF S
<1> QED
  BY <1>1, Induction

LEMMA JoinedAmid ==
  ASSUME NEW S, NEW a \in Seq(S), NEW b \in Seq(S), NEW c \in Seq(S)
  PROVE  /\ a \o (b \o c) \in Seq(S)
         /\ Len(a \o (b \o c)) = Len(a) + Len(b) + Len(c)
         /\ \A i \in 1..Len(b) : (a \o (b \o c))[Len(a) + i] = b[i]
<1> DEFINE t == b \o c
<1>1. t \in Seq(S) /\ Len(t) = Len(b) + Len(c) /\ \A i \in 1..Len(b) : t[i] = b[i]
  BY Joined
<1>2. Len(a) \in Nat /\ Len(b) \in Nat /\ Len(c) \in Nat
  BY ElementOf
<1>6. ASSUME NEW x \in Seq(S)
      PROVE  /\ a \o x \in Seq(S) /\ Len(a \o x) = Len(a) + Len(x)
             /\ \A i \in 1..Len(x) : (a \o x)[Len(a) + i] = x[i]
  BY Joined
<1> HIDE DEF t
<1>3. /\ a \o t \in Seq(S) /\ Len(a \o t) = Len(a) + Len(t)
      /\ \A i \in 1..Len(t) : (a \o t)[Len(a) + i] = t[i]
  BY <1>1, <1>6
<1>4. 1..Len(b) \subseteq 1..Len(t)
  BY <1>1, <1>2
<1>5. \A i \in 1..Len(b) : (a \o t)[Len(a) + i] = b[i]
  BY <1>1, <1>3, <1>4
<1> QED
  BY <1>1, <1>2, <1>3, <1>5 DEF t

\* writeVarLong() and readVarLong() (src/core/ans104.js): a number of any size
\* and sign that is written is read back, wherever it stands, and the cursor
\* comes out right behind it ("the varint framing never desyncs").
THEOREM VarLongRoundTrip ==
  ASSUME NEW n \in Int, NEW before \in Seq(0..255), NEW rest \in Seq(0..255)
  PROVE  LET buf == before \o (WriteVarLong(n) \o rest)
             pos == Len(before) + 1
         IN  /\ WriteVarLong(n) \in Seq(0..255)
             /\ HasVarLong(buf, pos)
             /\ VarEnd(buf, pos) = Len(before) + Len(WriteVarLong(n))
             /\ ReadVarLong(buf, pos) = n
<1> DEFINE B == 0..255
           w == WriteVarLong(n)
           m == IF n >= 0 THEN 2 * n ELSE 0 - 2 * n - 1
           buf == before \o (w \o rest)
           p == Len(before)
           pos == p + 1
           L == Len(w)
<1>1. m \in Nat /\ w = VarintDigits[m]
  BY DEF WriteVarLong
<1>2. IF m % 2 = 1 THEN 0 - (m + 1) \div 2 = n ELSE m \div 2 = n
  <2>1. CASE n >= 0
    <3>1. m = 2 * n /\ n \in Nat
      BY <2>1
    <3> HIDE DEF m
    <3> QED
      BY <3>1, SMT
  <2>2. CASE ~(n >= 0)
    <3> DEFINE k == 0 - n - 1
    <3>1. m = 2 * k + 1 /\ k \in Nat /\ n = 0 - (k + 1)
      BY <2>2
    <3> HIDE DEF m, k
    <3>2. m % 2 = 1 /\ (m + 1) \div 2 = k + 1
      BY <3>1, SMT
    <3> QED
      BY <3>1, <3>2
  <2> QED
    BY <2>1, <2>2
<1>0. /\ before \in Seq(B) /\ rest \in Seq(B)
      /\ \A x \in B : x \in Int /\ ~(x >= VarintBase /\ x < VarintBase)
  BY DEF VarintBase
<1> HIDE DEF m, w
<1>3. /\ w \in Seq(B) /\ L > 0 /\ L \in Nat
      /\ w[L] < VarintBase /\ \A i \in 1..(L - 1) : w[i] >= VarintBase
      /\ Number(Low(w), VarintBase) = m
  BY <1>1, VarintHolds DEF IsVarintOf
<1> HIDE DEF B
<1>4. p \in Nat /\ Len(rest) \in Nat
  BY <1>0
<1>5. /\ buf \in Seq(B) /\ Len(buf) = p + L + Len(rest)
      /\ \A i \in 1..L : buf[p + i] = w[i]
  BY <1>0, <1>3, JoinedAmid
<1> HIDE DEF buf, p
<1>8. /\ p + L \in pos..Len(buf) /\ buf[p + L] < VarintBase
      /\ \A j \in pos..(p + L - 1) : buf[j] >= VarintBase
  <2>1. p + L \in pos..Len(buf) /\ buf[p + L] = w[L]
    <3>1. L \in 1..L
      BY <1>3
    <3>2. buf[p + L] = w[L]
      BY <1>5, <3>1, Zenon
    <3>3. p + L \in pos..Len(buf)
      BY <1>3, <1>4, <1>5
    <3> QED
      BY <3>2, <3>3
  <2>2. ASSUME NEW j \in pos..(p + L - 1) PROVE buf[j] >= VarintBase
    <3>1. j - p \in 1..(L - 1) /\ j - p \in 1..L /\ p + (j - p) = j
      BY <1>3, <1>4
    <3>2. buf[j] = w[j - p]
      BY <1>5, <3>1
    <3> QED
      BY <1>3, <3>1, <3>2
  <2> QED
    BY <1>3, <2>1, <2>2
<1>9. HasVarLong(buf, pos)
  BY <1>4, <1>8 DEF HasVarLong
<1>10. VarEnd(buf, pos) = p + L
  <2> DEFINE End(k) == buf[k] < VarintBase /\ \A j \in pos..(k - 1) : buf[j] >= VarintBase
  <2>1. p + L \in pos..Len(buf) /\ End(p + L)
    <3>1. p + L \in pos..Len(buf)
      BY <1>8
    <3>2. buf[p + L] < VarintBase
      BY <1>8
    <3>3. \A j \in pos..((p + L) - 1) : buf[j] >= VarintBase
      <4>1. (p + L) - 1 = p + L - 1
        BY <1>3, <1>4
      <4> QED
        BY <1>8, <4>1, Zenon
    <3> QED
      BY <3>1, <3>2, <3>3
  <2>2. ASSUME NEW k \in pos..Len(buf), End(k) PROVE k = p + L
    <3>1. ASSUME NEW i \in pos..Len(buf) PROVE buf[i] \in B
      <4>1. i \in 1..Len(buf)
        BY <1>4
      <4> QED
        BY <1>5, <4>1
    <3>2. ~(k < p + L)
      <4>1. SUFFICES ASSUME k < p + L PROVE FALSE
        OBVIOUS
      <4>2. k \in pos..(p + L - 1)
        BY <1>3, <1>4, <4>1
      <4>3. buf[k] >= VarintBase /\ buf[k] < VarintBase /\ buf[k] \in B
        BY <1>8, <2>1, <2>2, <3>1, <4>2
      <4> QED
        BY <1>0, <4>3, Zenon
    <3>3. ~(p + L < k)
      <4>1. SUFFICES ASSUME p + L < k PROVE FALSE
        OBVIOUS
      <4>2. p + L \in pos..(k - 1)
        BY <1>3, <1>4, <4>1
      <4>3. buf[p + L] >= VarintBase /\ buf[p + L] < VarintBase /\ buf[p + L] \in B
        BY <1>8, <2>1, <2>2, <3>1, <4>2
      <4> QED
        BY <1>0, <4>3, Zenon
    <3> HIDE DEF pos, End
    <3>4. k \in Int /\ p + L \in Int
      BY <1>3, <1>4, <2>2 DEF pos
    <3> QED
      BY <3>2, <3>3, <3>4
  <2>3. VarEnd(buf, pos) = CHOOSE k \in pos..Len(buf) : End(k)
    BY DEF VarEnd
  <2> HIDE DEF End
  <2> QED
    BY <2>1, <2>2, <2>3
<1>11. SubSeq(buf, pos, p + L) = w
  <2> DEFINE s == SubSeq(buf, pos, p + L)
  <2>1. pos \in 1..(Len(buf) + 1) /\ p + L \in pos..Len(buf)
    BY <1>3, <1>4, <1>5, <1>8
  <2>2. s \in Seq(B) /\ Len(s) = L /\ \A i \in 1..L : s[i] = buf[p + i]
    BY <1>3, <1>4, <1>5, <2>1
  <2> HIDE DEF s
  <2>3. s = w
    BY <1>3, <1>5, <2>2, SameSeq
  <2> QED
    BY <2>3 DEF s
<1>12. ReadVarLong(buf, pos) = n
  <2> DEFINE bytes == SubSeq(buf, pos, VarEnd(buf, pos))
             r == Number([i \in DOMAIN bytes |-> bytes[i] % VarintBase], VarintBase)
  <2>1. bytes = w
    BY <1>10, <1>11
  <2>2. r = m
    BY <1>3, <2>1 DEF Low
  <2>3. ReadVarLong(buf, pos) = IF r % 2 = 1 THEN 0 - (r + 1) \div 2 ELSE r \div 2
    BY DEF ReadVarLong
  <2> HIDE DEF r
  <2> QED
    BY <1>2, <2>2, <2>3
<1> QED
  BY <1>3, <1>9, <1>10, <1>12 DEF B, buf, p, w

---------------------------------------------------------------------------
(* Sequences end to end *)

\* What FlattenSeq's recursive function is, for the first n sequences.
FlatAt(f, i, ss) == IF i = 1 THEN ss[i] ELSE f[i - 1] \o ss[i]
Flattens(f, n, ss) == f = [i \in 1..n |-> FlatAt(f, i, ss)]

LEMMA FlattensAt ==
  ASSUME NEW f, NEW n, NEW ss, Flattens(f, n, ss)
  PROVE  \A i \in 1..n : f[i] = FlatAt(f, i, ss)
BY DEF Flattens

LEMMA FlattensExist ==
  ASSUME NEW ss
  PROVE  \A n \in Nat : \E f : Flattens(f, n, ss)
<1> DEFINE S == {n \in Nat : \E f : Flattens(f, n, ss)}
<1> SUFFICES Nat \subseteq S
  OBVIOUS
<1>1. ASSUME NEW n \in Nat, \A m \in 0..(n - 1) : m \in S PROVE n \in S
  <2>1. CASE n = 0
    <3> DEFINE g == [i \in 1..n |-> 0]
    <3>1. Flattens(g, n, ss)
      BY <2>1 DEF Flattens
    <3> QED
      BY <3>1
  <2>2. CASE n # 0
    <3>1. PICK f : Flattens(f, n - 1, ss)
      BY <1>1, <2>2
    <3> DEFINE last == FlatAt(f, n, ss)
               g == [i \in 1..n |-> IF i = n THEN last ELSE f[i]]
    <3>2. \A i \in 1..(n - 1) : f[i] = FlatAt(f, i, ss)
      BY <3>1, FlattensAt
    <3>3. ASSUME NEW i \in 1..n PROVE g[i] = FlatAt(g, i, ss)
      <4>1. i # 1 => i - 1 \in 1..n /\ i - 1 # n
        OBVIOUS
      <4>2. FlatAt(g, i, ss) = FlatAt(f, i, ss)
        BY <4>1 DEF FlatAt
      <4>3. i # n => i \in 1..(n - 1)
        OBVIOUS
      <4> QED
        BY <3>2, <4>2, <4>3
    <3> HIDE DEF last
    <3>4. Flattens(g, n, ss)
      BY <3>3 DEF Flattens
    <3> QED
      BY <3>4
  <2> QED
    BY <2>1, <2>2
<1> HIDE DEF S
<1> QED
  BY <1>1, Induction

LEMMA FlattenSeqIs ==
  ASSUME NEW S, NEW ss \in Seq(Seq(S))
  PROVE  \E f : /\ Flattens(f, Len(ss), ss)
                /\ Len(ss) = 0 => FlattenSeq(ss) = <<>>
                /\ Len(ss) # 0 => FlattenSeq(ss) = f[Len(ss)]
<1> DEFINE f == CHOOSE f : Flattens(f, Len(ss), ss)
<1>1. Len(ss) \in Nat
  BY ElementOf
<1>2. Flattens(f, Len(ss), ss)
  BY <1>1, FlattensExist
<1>3. Len(ss) # 0 => FlattenSeq(ss) = f[Len(ss)]
  BY DEF FlattenSeq, Flattens, FlatAt
<1>4. Len(ss) = 0 => FlattenSeq(ss) = <<>>
  BY DEF FlattenSeq
<1> QED
  BY <1>2, <1>3, <1>4

\* What comes first in a sequence of sequences comes first in their flattening.
LEMMA FlattenUnfolds ==
  ASSUME NEW S
  PROVE  /\ FlattenSeq(<<>>) = <<>>
         /\ \A ss \in Seq(Seq(S)) : FlattenSeq(ss) \in Seq(S)
         /\ \A ss \in Seq(Seq(S)), x \in Seq(S) : FlattenSeq(<<x>> \o ss) = x \o FlattenSeq(ss)
<1>1. FlattenSeq(<<>>) = <<>>
  BY DEF FlattenSeq
<1>2. ASSUME NEW ss \in Seq(Seq(S)) PROVE FlattenSeq(ss) \in Seq(S)
  <2>1. PICK f : /\ Flattens(f, Len(ss), ss)
                 /\ Len(ss) = 0 => FlattenSeq(ss) = <<>>
                 /\ Len(ss) # 0 => FlattenSeq(ss) = f[Len(ss)]
    BY FlattenSeqIs
  <2> DEFINE n == Len(ss)
             T == {i \in Nat : i \in 1..n => f[i] \in Seq(S)}
  <2>2. \A i \in 1..n : f[i] = FlatAt(f, i, ss)
    BY <2>1, FlattensAt
  <2>3. n \in Nat /\ \A i \in 1..n : ss[i] \in Seq(S)
    BY ElementOf
  <2>4. ASSUME NEW i \in Nat, \A m \in 0..(i - 1) : m \in T PROVE i \in T
    <3> SUFFICES ASSUME i \in 1..n PROVE f[i] \in Seq(S)
      OBVIOUS
    <3>1. CASE i = 1
      BY <2>2, <2>3, <3>1 DEF FlatAt
    <3>2. CASE i # 1
      <4>1. i - 1 \in 0..(i - 1) /\ i - 1 \in 1..n
        BY <2>3, <3>2
      <4>2. f[i - 1] \in Seq(S)
        BY <2>4, <4>1
      <4>3. f[i - 1] \o ss[i] \in Seq(S)
        BY <2>3, <4>2, Joined
      <4> QED
        BY <2>2, <3>2, <4>3 DEF FlatAt
    <3> QED
      BY <3>1, <3>2
  <2>5. Nat \subseteq T
    <3> HIDE DEF T
    <3> QED
      BY <2>4, Induction
  <2>6. n # 0 => n \in 1..n
    BY <2>3
  <2>7. <<>> \in Seq(S)
    OBVIOUS
  <2> QED
    BY <2>1, <2>3, <2>5, <2>6, <2>7
<1>3. ASSUME NEW ss \in Seq(Seq(S)), NEW x \in Seq(S)
      PROVE  FlattenSeq(<<x>> \o ss) = x \o FlattenSeq(ss)
  <2> DEFINE t == <<x>> \o ss
             n == Len(ss)
  <2>1. n \in Nat /\ \A i \in 1..n : ss[i] \in Seq(S)
    BY ElementOf
  <2>2. <<x>> \in Seq(Seq(S)) /\ Len(<<x>>) = 1 /\ <<x>>[1] = x
    OBVIOUS
  <2>3. /\ t \in Seq(Seq(S)) /\ Len(t) = 1 + n /\ t[1] = x
        /\ \A i \in 1..n : t[1 + i] = ss[i]
    BY <2>2, Joined
  <2> HIDE DEF t
  <2>4. PICK f : /\ Flattens(f, Len(t), t)
                 /\ Len(t) = 0 => FlattenSeq(t) = <<>>
                 /\ Len(t) # 0 => FlattenSeq(t) = f[Len(t)]
    BY <2>3, FlattenSeqIs
  <2>5. PICK g : /\ Flattens(g, n, ss)
                 /\ n = 0 => FlattenSeq(ss) = <<>>
                 /\ n # 0 => FlattenSeq(ss) = g[n]
    BY FlattenSeqIs
  <2>6. \A i \in 1..Len(t) : f[i] = FlatAt(f, i, t)
    BY <2>4, FlattensAt
  <2>7. \A i \in 1..n : g[i] = FlatAt(g, i, ss)
    BY <2>5, FlattensAt
  <2>13. \A a, b \in Seq(S) : (x \o a) \o b = x \o (a \o b)
    BY ConcatAssociative
  <2>8. f[1] = x
    BY <2>1, <2>3, <2>6 DEF FlatAt
  <2> DEFINE T == {i \in Nat : i \in 1..n => g[i] \in Seq(S) /\ f[i + 1] = x \o g[i]}
  <2>9. ASSUME NEW i \in Nat, \A m \in 0..(i - 1) : m \in T PROVE i \in T
    <3> SUFFICES ASSUME i \in 1..n PROVE g[i] \in Seq(S) /\ f[i + 1] = x \o g[i]
      OBVIOUS
    <3>1. i + 1 \in 1..Len(t) /\ i + 1 # 1 /\ (i + 1) - 1 = i
      BY <2>1, <2>3
    <3>2. f[i + 1] = f[i] \o ss[i]
      <4>1. f[i + 1] = f[(i + 1) - 1] \o t[i + 1]
        BY <2>6, <3>1 DEF FlatAt
      <4>2. t[i + 1] = ss[i]
        <5>1. t[1 + i] = ss[i] /\ 1 + i = i + 1
          BY <2>3
        <5> QED
          BY <5>1
      <4> QED
        BY <3>1, <4>1, <4>2
    <3>3. CASE i = 1
      BY <2>1, <2>7, <2>8, <3>2, <3>3 DEF FlatAt
    <3>4. CASE i # 1
      <4>1. i - 1 \in 0..(i - 1) /\ i - 1 \in 1..n /\ (i - 1) + 1 = i
        BY <2>1, <3>4
      <4>2. g[i - 1] \in Seq(S) /\ f[(i - 1) + 1] = x \o g[i - 1]
        BY <2>9, <4>1
      <4>3. g[i] = g[i - 1] \o ss[i] /\ ss[i] \in Seq(S)
        BY <2>1, <2>7, <3>4 DEF FlatAt
      <4>4. g[i - 1] \o ss[i] \in Seq(S)
        BY <4>2, <4>3, Joined
      <4>5. (x \o g[i - 1]) \o ss[i] = x \o (g[i - 1] \o ss[i])
        BY <4>2, <4>3, <2>13, Zenon
      <4>6. f[i] = x \o g[i - 1]
        BY <4>1, <4>2
      <4> QED
        BY <3>2, <4>3, <4>4, <4>5, <4>6
    <3> QED
      BY <3>3, <3>4
  <2>10. Nat \subseteq T
    <3> HIDE DEF T
    <3> QED
      BY <2>9, Induction
  <2>11. CASE n = 0
    <3>1. FlattenSeq(t) = x /\ FlattenSeq(ss) = <<>>
      BY <2>3, <2>4, <2>5, <2>8, <2>11
    <3>2. x \o <<>> = x
      OBVIOUS
    <3> QED
      BY <3>1, <3>2 DEF t
  <2>12. CASE n # 0
    <3>1. n \in 1..n /\ Len(t) = n + 1 /\ Len(t) # 0
      BY <2>1, <2>3, <2>12
    <3>2. FlattenSeq(t) = f[n + 1] /\ FlattenSeq(ss) = g[n]
      BY <2>4, <2>5, <2>12, <3>1
    <3>3. f[n + 1] = x \o g[n]
      BY <2>1, <2>10, <3>1
    <3> QED
      BY <3>2, <3>3 DEF t
  <2> QED
    BY <2>11, <2>12
<1> QED
  BY <1>1, <1>2, <1>3

---------------------------------------------------------------------------
(* Text *)

Points == {c \in Nat : c < 1114112}

\* The bytes of a code point, and how many they are.
SizeOf(c) == IF c < 128 THEN 1 ELSE IF c < 2048 THEN 2 ELSE IF c < 65536 THEN 3 ELSE 4

LEMMA BytesOfPoint ==
  ASSUME NEW c \in Points
  PROVE  /\ Utf8Of(c) \in Seq(0..255)
         /\ Len(Utf8Of(c)) = SizeOf(c)
<1>1. ASSUME NEW unit \in {1, 64, 4096} PROVE Continuation(c, unit) \in 0..255
  BY SMT DEF Continuation, Points
<1>2. CASE c < 128
  <2>1. c \in 0..255
    BY <1>2, SMT DEF Points
  <2> QED
    BY <1>2, <2>1, SMT DEF Utf8Of, SizeOf
<1>3. CASE ~(c < 128) /\ c < 2048
  <2>1. 192 + c \div 64 \in 0..255 /\ Continuation(c, 1) \in 0..255
    BY <1>1, <1>3, SMT DEF Points
  <2> QED
    BY <1>3, <2>1, SMT DEF Utf8Of, SizeOf
<1>4. CASE ~(c < 128) /\ ~(c < 2048) /\ c < 65536
  <2>1. 224 + c \div 4096 \in 0..255 /\ Continuation(c, 64) \in 0..255 /\ Continuation(c, 1) \in 0..255
    BY <1>1, <1>4, SMT DEF Points
  <2> QED
    BY <1>4, <2>1, SMT DEF Utf8Of, SizeOf
<1>5. CASE ~(c < 128) /\ ~(c < 2048) /\ ~(c < 65536)
  <2>1. /\ 240 + c \div 262144 \in 0..255 /\ Continuation(c, 4096) \in 0..255
        /\ Continuation(c, 64) \in 0..255 /\ Continuation(c, 1) \in 0..255
    BY <1>1, <1>5, SMT DEF Points
  <2> QED
    BY <1>5, <2>1, SMT DEF Utf8Of, SizeOf
<1> QED
  BY <1>2, <1>3, <1>4, <1>5, SMT

\* The first of the elements that a function is applied to.
LEMMA FirstApplied ==
  ASSUME NEW S, NEW c \in S, NEW p \in Seq(S)
  PROVE  /\ <<c>> \o p \in Seq(S) /\ DOMAIN (<<c>> \o p) = 1..(Len(p) + 1) /\ DOMAIN p = 1..Len(p)
         /\ (<<c>> \o p)[1] = c /\ \A i \in 1..Len(p) : (<<c>> \o p)[i + 1] = p[i]
         /\ Len(p) \in Nat
<1> DEFINE q == <<c>> \o p
<1>1. <<c>> \in Seq(S) /\ Len(<<c>>) = 1 /\ <<c>>[1] = c
  OBVIOUS
<1>2. /\ q \in Seq(S) /\ Len(q) = 1 + Len(p) /\ q[1] = c
      /\ \A i \in 1..Len(p) : q[1 + i] = p[i]
  BY <1>1, Joined
<1>3. Len(p) \in Nat /\ DOMAIN p = 1..Len(p)
  BY ElementOf
<1>4. DOMAIN q = 1..Len(q)
  BY <1>2
<1> HIDE DEF q
<1>5. 1 + Len(p) = Len(p) + 1 /\ \A i \in 1..Len(p) : 1 + i = i + 1
  BY <1>3
<1> QED
  BY <1>2, <1>3, <1>4, <1>5 DEF q

LEMMA FunctionIsSeq ==
  ASSUME NEW S, NEW n \in Nat, NEW e \in [1..n -> S]
  PROVE  e \in Seq(S) /\ Len(e) = n
OBVIOUS

\* Every element of a sequence becomes a sequence, and these are joined.
EachOf(w, p) == FlattenSeq([k \in DOMAIN p |-> w[p[k]]])

LEMMA EachUnfolds ==
  ASSUME NEW S, NEW T, NEW w \in [S -> Seq(T)]
  PROVE  /\ EachOf(w, <<>>) = <<>>
         /\ \A p \in Seq(S) : EachOf(w, p) \in Seq(T)
         /\ \A p \in Seq(S), c \in S : EachOf(w, <<c>> \o p) = w[c] \o EachOf(w, p)
<1> DEFINE each(p) == [k \in DOMAIN p |-> w[p[k]]]
<1>1. EachOf(w, <<>>) = <<>>
  BY DEF EachOf, FlattenSeq
<1>2. ASSUME NEW p \in Seq(S)
      PROVE  each(p) \in Seq(Seq(T)) /\ Len(each(p)) = Len(p) /\ \A i \in 1..Len(p) : each(p)[i] = w[p[i]]
  <2>1. Len(p) \in Nat /\ DOMAIN p = 1..Len(p) /\ \A i \in 1..Len(p) : p[i] \in S
    BY ElementOf
  <2>2. each(p) \in [1..Len(p) -> Seq(T)] /\ \A i \in 1..Len(p) : each(p)[i] = w[p[i]]
    BY <2>1
  <2> DEFINE e == each(p)
  <2> HIDE DEF e
  <2>3. e \in [1..Len(p) -> Seq(T)]
    BY <2>2 DEF e
  <2>4. e \in Seq(Seq(T)) /\ Len(e) = Len(p)
    BY <2>1, <2>3, FunctionIsSeq
  <2> QED
    BY <2>2, <2>4 DEF e
<1>3. ASSUME NEW p \in Seq(S) PROVE EachOf(w, p) \in Seq(T) /\ EachOf(w, p) = FlattenSeq(each(p))
  <2>1. EachOf(w, p) = FlattenSeq(each(p))
    BY DEF EachOf
  <2> HIDE DEF each
  <2> QED
    BY <1>2, <2>1, FlattenUnfolds
<1>4. ASSUME NEW p \in Seq(S), NEW c \in S
      PROVE  EachOf(w, <<c>> \o p) = w[c] \o EachOf(w, p)
  <2> DEFINE q == <<c>> \o p
             u == w[c]
             t == <<u>> \o each(p)
  <2>1. /\ q \in Seq(S) /\ DOMAIN q = 1..(Len(p) + 1) /\ Len(p) \in Nat
        /\ q[1] = c /\ \A i \in 1..Len(p) : q[i + 1] = p[i]
    BY FirstApplied
  <2>2. u \in Seq(T)
    OBVIOUS
  <2> HIDE DEF q, u, each
  <2>3. /\ each(p) \in Seq(Seq(T)) /\ Len(each(p)) = Len(p) /\ \A i \in 1..Len(p) : each(p)[i] = w[p[i]]
        /\ each(q) \in Seq(Seq(T)) /\ Len(each(q)) = Len(q) /\ \A i \in 1..Len(q) : each(q)[i] = w[q[i]]
    BY <1>2, <2>1
  <2>4. /\ t \in Seq(Seq(T)) /\ DOMAIN t = 1..(Len(p) + 1) /\ t[1] = u
        /\ \A i \in 1..Len(p) : t[i + 1] = w[p[i]]
    BY <2>2, <2>3, FirstApplied
  <2> HIDE DEF t
  <2>5. Len(q) = Len(p) + 1 /\ Len(t) = Len(p) + 1
    BY <2>1, <2>4
  <2>6. ASSUME NEW i \in 1..(Len(p) + 1) PROVE each(q)[i] = t[i]
    <3>1. each(q)[i] = w[q[i]]
      BY <2>3, <2>5
    <3>2. CASE i = 1
      BY <2>1, <2>4, <3>1, <3>2 DEF u
    <3>3. CASE i # 1
      <4>1. i - 1 \in 1..Len(p) /\ (i - 1) + 1 = i
        BY <2>1, <3>3
      <4>2. q[i] = p[i - 1] /\ t[i] = w[p[i - 1]]
        BY <2>1, <2>4, <4>1
      <4> QED
        BY <3>1, <4>2
    <3> QED
      BY <3>2, <3>3
  <2>7. each(q) = t
    BY <2>3, <2>4, <2>5, <2>6, SameSeq
  <2>8. FlattenSeq(t) = u \o FlattenSeq(each(p))
    BY <2>2, <2>3, FlattenUnfolds DEF t
  <2> QED
    BY <1>3, <2>1, <2>7, <2>8 DEF q, u
<1> QED
  BY <1>1, <1>3, <1>4

LEMMA EncodedUnfolds ==
  /\ Encoded(<<>>) = <<>>
  /\ \A p \in Seq(Points) : Encoded(p) \in Seq(0..255)
  /\ \A p \in Seq(Points), c \in Points : Encoded(<<c>> \o p) = Utf8Of(c) \o Encoded(p)
<1> DEFINE B == 0..255
           w == [c \in Points |-> Utf8Of(c)]
<1>1. w \in [Points -> Seq(B)] /\ \A c \in Points : w[c] = Utf8Of(c)
  <2>1. \A c \in Points : Utf8Of(c) \in Seq(B)
    BY BytesOfPoint
  <2> HIDE DEF B
  <2> QED
    BY <2>1
<1> HIDE DEF w, B
<1>2. ASSUME NEW p \in Seq(Points) PROVE Encoded(p) = EachOf(w, p)
  <2>1. \A k \in DOMAIN p : p[k] \in Points
    BY ElementOf
  <2> QED
    BY <1>1, <2>1 DEF Encoded, EachOf
<1>3. <<>> \in Seq(Points) /\ \A p \in Seq(Points), c \in Points : <<c>> \o p \in Seq(Points)
  BY FirstApplied
<1>4. /\ EachOf(w, <<>>) = <<>>
      /\ \A p \in Seq(Points) : EachOf(w, p) \in Seq(B)
      /\ \A p \in Seq(Points), c \in Points : EachOf(w, <<c>> \o p) = w[c] \o EachOf(w, p)
  BY <1>1, EachUnfolds
<1> QED
  BY <1>1, <1>2, <1>3, <1>4 DEF B

LEMMA ReplacedUnfolds ==
  /\ Replaced(<<>>) = <<>>
  /\ \A p \in Seq(Points) : Replaced(p) \in Seq(Points)
  /\ \A p \in Seq(Points), c \in Points :
       Replaced(<<c>> \o p) = <<IF IsHalf(c) THEN Replacement ELSE c>> \o Replaced(p)
<1> DEFINE of(c) == IF IsHalf(c) THEN Replacement ELSE c
<1>0. \A c \in Points : of(c) \in Points
  BY SMT DEF Points, Replacement
<1>1. Replaced(<<>>) = <<>>
  BY DEF Replaced
<1>2. ASSUME NEW p \in Seq(Points)
      PROVE  Replaced(p) \in Seq(Points) /\ Len(Replaced(p)) = Len(p) /\ \A i \in 1..Len(p) : Replaced(p)[i] = of(p[i])
  <2>1. Len(p) \in Nat /\ DOMAIN p = 1..Len(p) /\ \A i \in 1..Len(p) : p[i] \in Points
    BY ElementOf
  <2>2. Replaced(p) = [i \in 1..Len(p) |-> of(p[i])]
    BY <2>1 DEF Replaced
  <2> HIDE DEF of
  <2>3. Replaced(p) \in [1..Len(p) -> Points] /\ \A i \in 1..Len(p) : Replaced(p)[i] = of(p[i])
    BY <1>0, <2>1, <2>2
  <2> QED
    BY <2>1, <2>3
<1>3. ASSUME NEW p \in Seq(Points), NEW c \in Points
      PROVE  Replaced(<<c>> \o p) = <<of(c)>> \o Replaced(p)
  <2> DEFINE q == <<c>> \o p
             r == of(c)
             t == <<r>> \o Replaced(p)
  <2>1. /\ q \in Seq(Points) /\ DOMAIN q = 1..(Len(p) + 1) /\ Len(p) \in Nat
        /\ q[1] = c /\ \A i \in 1..Len(p) : q[i + 1] = p[i]
    BY FirstApplied
  <2>2. r \in Points
    BY <1>0
  <2> HIDE DEF q, r, of
  <2>3. /\ Replaced(p) \in Seq(Points) /\ Len(Replaced(p)) = Len(p) /\ \A i \in 1..Len(p) : Replaced(p)[i] = of(p[i])
        /\ Replaced(q) \in Seq(Points) /\ Len(Replaced(q)) = Len(q) /\ \A i \in 1..Len(q) : Replaced(q)[i] = of(q[i])
    BY <1>2, <2>1
  <2>4. /\ t \in Seq(Points) /\ DOMAIN t = 1..(Len(p) + 1) /\ t[1] = r
        /\ \A i \in 1..Len(p) : t[i + 1] = of(p[i])
    BY <2>2, <2>3, FirstApplied
  <2> HIDE DEF t
  <2>5. Len(q) = Len(p) + 1 /\ Len(t) = Len(p) + 1
    BY <2>1, <2>4
  <2>6. ASSUME NEW i \in 1..(Len(p) + 1) PROVE Replaced(q)[i] = t[i]
    <3>1. Replaced(q)[i] = of(q[i])
      BY <2>3, <2>5
    <3>2. CASE i = 1
      BY <2>1, <2>4, <3>1, <3>2 DEF r
    <3>3. CASE i # 1
      <4>1. i - 1 \in 1..Len(p) /\ (i - 1) + 1 = i
        BY <2>1, <3>3
      <4>2. q[i] = p[i - 1] /\ t[i] = of(p[i - 1])
        BY <2>1, <2>4, <4>1
      <4> QED
        BY <3>1, <4>2
    <3> QED
      BY <3>2, <3>3
  <2>7. Replaced(q) = t
    BY <2>3, <2>4, <2>5, <2>6, SameSeq
  <2> QED
    BY <2>7 DEF q, t, r
<1> QED
  BY <1>1, <1>2, <1>3

\* The two halves of a pair, by where they lie.
LEMMA HighLies == \A c \in Int : IsHigh(c) <=> c >= 55296 /\ c <= 56319
BY SMT DEF IsHigh
LEMMA LowLies == \A c \in Int : IsLow(c) <=> c >= 56320 /\ c <= 57343
BY SMT DEF IsLow

\* The code point of a pair.
PairAt(s, i) == 65536 + (s[i] - 55296) * 1024 + (s[i + 1] - 56320)

LEMMA PairIsPoint ==
  ASSUME NEW s \in Seq(CodeUnits), NEW i \in 1..Len(s), IsPair(s, i)
  PROVE  PairAt(s, i) \in Points /\ PairAt(s, i) >= 65536 /\ i < Len(s) /\ s[i] >= 2048
<1>1. i < Len(s) /\ i + 1 \in 1..Len(s) /\ IsHigh(s[i]) /\ IsLow(s[i + 1])
  BY DEF IsPair
<1>2. s[i] \in Int /\ s[i + 1] \in Int
  BY <1>1, ElementOf DEF CodeUnits
<1>3. s[i] >= 55296 /\ s[i] <= 56319
  BY <1>1, <1>2, HighLies, SMT
<1>4. s[i + 1] >= 56320 /\ s[i + 1] <= 57343
  BY <1>1, <1>2, LowLies, SMT
<1> QED
  BY <1>1, <1>2, <1>3, <1>4, SMT DEF PairAt, Points

\* What CodePoints' recursive function is, from place k on.
TextAt(f, i, s) ==
    IF i > Len(s) THEN <<>>
    ELSE IF IsPair(s, i) THEN <<PairAt(s, i)>> \o f[i + 2]
    ELSE <<s[i]>> \o f[i + 1]
ReadsText(f, k, s) == f = [i \in k..(Len(s) + 2) |-> TextAt(f, i, s)]

LEMMA ReadsTextAt ==
  ASSUME NEW f, NEW k, NEW s, ReadsText(f, k, s)
  PROVE  \A i \in k..(Len(s) + 2) : f[i] = TextAt(f, i, s)
BY DEF ReadsText

LEMMA ReadsTextExist ==
  ASSUME NEW s, Len(s) \in Nat
  PROVE  \A n \in Nat : n <= Len(s) + 1 => \E f : ReadsText(f, Len(s) + 2 - n, s)
<1> DEFINE L == Len(s)
           S == {n \in Nat : n <= L + 1 => \E f : ReadsText(f, L + 2 - n, s)}
<1> SUFFICES Nat \subseteq S
  OBVIOUS
<1>0. L \in Nat
  OBVIOUS
<1>1. ASSUME NEW n \in Nat, \A m \in 0..(n - 1) : m \in S PROVE n \in S
  <2> SUFFICES ASSUME n <= L + 1 PROVE \E f : ReadsText(f, L + 2 - n, s)
    OBVIOUS
  <2>1. CASE n = 0
    <3> DEFINE g == [i \in (L + 2)..(L + 2) |-> <<>>]
    <3>1. ReadsText(g, L + 2 - n, s)
      BY <2>1, <1>0 DEF ReadsText, TextAt
    <3> QED
      BY <3>1
  <2>2. CASE n # 0
    <3> DEFINE k == L + 2 - n
    <3>1. n - 1 \in 0..(n - 1) /\ n - 1 <= L + 1 /\ L + 2 - (n - 1) = k + 1 /\ k \in 1..(L + 1)
      BY <2>2, <1>0
    <3>2. PICK f : ReadsText(f, k + 1, s)
      BY <1>1, <3>1
    <3>3. \A i \in (k + 1)..(L + 2) : f[i] = TextAt(f, i, s)
      BY <3>2, ReadsTextAt
    <3> HIDE DEF k
    <3> DEFINE first == TextAt(f, k, s)
               g == [i \in k..(L + 2) |-> IF i = k THEN first ELSE f[i]]
    <3>4. ASSUME NEW i \in k..(L + 2) PROVE g[i] = TextAt(g, i, s)
      <4>1. ~(i > L) => i + 1 \in k..(L + 2) /\ i + 2 \in k..(L + 2) /\ i + 1 # k /\ i + 2 # k
        BY <1>0, <3>1
      <4>2. ~(i > L) => g[i + 1] = f[i + 1] /\ g[i + 2] = f[i + 2]
        BY <4>1
      <4>3. TextAt(g, i, s) = TextAt(f, i, s)
        <5> HIDE DEF g
        <5> QED
          BY <4>2, Zenon DEF TextAt
      <4>4. i # k => i \in (k + 1)..(L + 2)
        BY <1>0, <3>1
      <4> QED
        BY <3>3, <4>3, <4>4
    <3> HIDE DEF first
    <3>5. ReadsText(g, k, s)
      BY <3>4 DEF ReadsText
    <3> QED
      BY <3>5 DEF k
  <2> QED
    BY <2>1, <2>2
<1> HIDE DEF S
<1> QED
  BY <1>1, Induction

LEMMA CodePointsAre ==
  ASSUME NEW s \in Seq(CodeUnits)
  PROVE  \E f : ReadsText(f, 1, s) /\ CodePoints(s) = f[1]
<1> DEFINE f == CHOOSE f : ReadsText(f, 1, s)
<1>1. Len(s) \in Nat /\ Len(s) + 1 \in Nat /\ Len(s) + 1 <= Len(s) + 1 /\ Len(s) + 2 - (Len(s) + 1) = 1
  BY ElementOf
<1>2. \E x : ReadsText(x, 1, s)
  <2>1. \E x : ReadsText(x, Len(s) + 2 - (Len(s) + 1), s)
    BY <1>1, ReadsTextExist, Zenon
  <2> QED
    BY <1>1, <2>1
<1>3. ReadsText(f, 1, s)
  BY <1>2
<1>4. CodePoints(s) = f[1]
  BY SMT DEF CodePoints, ReadsText, TextAt, PairAt
<1> QED
  BY <1>3, <1>4

\* What Utf8ByteLength's recursive function is.
CountAt(g, i, s) ==
    IF i > Len(s) THEN 0
    ELSE IF s[i] < 128 THEN 1 + g[i + 1]
    ELSE IF s[i] < 2048 THEN 2 + g[i + 1]
    ELSE IF IsPair(s, i) THEN 4 + g[i + 2]
    ELSE 3 + g[i + 1]
Counts(g, s) == g = [i \in 1..(Len(s) + 2) |-> CountAt(g, i, s)]

\* Any function that counts so is the one.
LEMMA LengthIs ==
  ASSUME NEW s, Len(s) \in Nat, NEW g, Counts(g, s)
  PROVE  Utf8ByteLength(s) = g[1]
<1> DEFINE L == Len(s)
           h == CHOOSE h : Counts(h, s)
<1>0. L \in Nat
  OBVIOUS
<1>1. Utf8ByteLength(s) = h[1]
  BY Zenon DEF Utf8ByteLength, Counts, CountAt
<1>2. Counts(h, s)
  BY Zenon
<1> HIDE DEF h
<1>3. /\ \A i \in 1..(L + 2) : g[i] = CountAt(g, i, s)
      /\ \A i \in 1..(L + 2) : h[i] = CountAt(h, i, s)
  BY <1>2 DEF Counts
<1> DEFINE S == {n \in Nat : n <= L + 1 => g[L + 2 - n] = h[L + 2 - n]}
<1>4. ASSUME NEW n \in Nat, \A m \in 0..(n - 1) : m \in S PROVE n \in S
  <2> DEFINE i == L + 2 - n
  <2> SUFFICES ASSUME n <= L + 1 PROVE g[i] = h[i]
    OBVIOUS
  <2>1. i \in 1..(L + 2)
    BY <1>0
  <2>2. ~(i > L) => /\ n - 1 \in 0..(n - 1) /\ n - 1 <= L + 1 /\ L + 2 - (n - 1) = i + 1
                    /\ n - 2 \in 0..(n - 1) /\ n - 2 <= L + 1 /\ L + 2 - (n - 2) = i + 2
    BY <1>0
  <2>3. ~(i > L) => g[i + 1] = h[i + 1] /\ g[i + 2] = h[i + 2]
    <3> SUFFICES ASSUME ~(i > L) PROVE g[i + 1] = h[i + 1] /\ g[i + 2] = h[i + 2]
      OBVIOUS
    <3>1. n - 1 \in S /\ n - 2 \in S
      BY <1>4, <2>2
    <3> HIDE DEF i
    <3> QED
      BY <2>2, <3>1
  <2> HIDE DEF i
  <2>4. CountAt(g, i, s) = CountAt(h, i, s)
    BY <2>3, SMT DEF CountAt
  <2> QED
    BY <1>3, <2>1, <2>4
<1>5. Nat \subseteq S
  <2> HIDE DEF S
  <2> QED
    BY <1>4, Induction
<1>6. L + 1 \in S /\ L + 1 <= L + 1 /\ L + 2 - (L + 1) = 1
  BY <1>0, <1>5
<1> QED
  BY <1>1, <1>6

\* The points that are read are the ones of Unicode.
LEMMA PointsRead ==
  ASSUME NEW s \in Seq(CodeUnits), NEW f, ReadsText(f, 1, s)
  PROVE  \A i \in 1..(Len(s) + 2) : f[i] \in Seq(Points)
<1> DEFINE L == Len(s)
           S == {n \in Nat : n <= L + 1 => f[L + 2 - n] \in Seq(Points)}
<1>0. L \in Nat /\ \A i \in 1..L : s[i] \in CodeUnits
  BY ElementOf
<1>1. \A i \in 1..(L + 2) : f[i] = TextAt(f, i, s)
  BY ReadsTextAt
<1>2. \A c \in CodeUnits : c \in Points
  BY SMT DEF CodeUnits, Points
<1>3. ASSUME NEW n \in Nat, \A m \in 0..(n - 1) : m \in S PROVE n \in S
  <2> DEFINE i == L + 2 - n
  <2> SUFFICES ASSUME n <= L + 1 PROVE f[i] \in Seq(Points)
    OBVIOUS
  <2>1. i \in 1..(L + 2)
    BY <1>0
  <2>2. i <= L => /\ n - 1 \in 0..(n - 1) /\ n - 1 <= L + 1 /\ L + 2 - (n - 1) = i + 1
                  /\ n - 2 \in 0..(n - 1) /\ n - 2 <= L + 1 /\ L + 2 - (n - 2) = i + 2
                  /\ i \in 1..L
    BY <1>0
  <2>3. CASE i > L
    <3>1. f[i] = <<>>
      BY <1>1, <2>1, <2>3 DEF TextAt
    <3> HIDE DEF i
    <3> QED
      BY <3>1
  <2>4. CASE ~(i > L)
    <3>0. i <= L
      BY <1>0, <2>1, <2>4
    <3>1. f[i + 1] \in Seq(Points) /\ f[i + 2] \in Seq(Points)
      <4>1. n - 1 \in S /\ n - 2 \in S
        BY <1>3, <2>2, <3>0
      <4> HIDE DEF i
      <4> QED
        BY <2>2, <3>0, <4>1
    <3>2. s[i] \in Points /\ i \in 1..L
      BY <1>0, <1>2, <2>2, <3>0
    <3> HIDE DEF i
    <3>3. CASE IsPair(s, i)
      <4>1. PairAt(s, i) \in Points
        BY <3>2, <3>3, PairIsPoint
      <4>2. <<PairAt(s, i)>> \o f[i + 2] \in Seq(Points)
        BY <3>1, <4>1, FirstApplied
      <4> QED
        BY <1>1, <2>1, <2>4, <3>3, <4>2 DEF TextAt
    <3>4. CASE ~IsPair(s, i)
      <4>1. <<s[i]>> \o f[i + 1] \in Seq(Points)
        BY <3>1, <3>2, FirstApplied
      <4> QED
        BY <1>1, <2>1, <2>4, <3>4, <4>1 DEF TextAt
    <3> QED
      BY <3>3, <3>4
  <2> QED
    BY <2>3, <2>4
<1>4. Nat \subseteq S
  <2> HIDE DEF S
  <2> QED
    BY <1>3, Induction
<1>5. ASSUME NEW i \in 1..(L + 2) PROVE f[i] \in Seq(Points)
  <2>1. L + 2 - i \in Nat /\ L + 2 - i <= L + 1 /\ L + 2 - (L + 2 - i) = i
    BY <1>0
  <2>2. L + 2 - i \in S
    BY <1>4, <2>1
  <2> QED
    BY <2>1, <2>2
<1> QED
  BY <1>5

\* A measure that adds up the sizes of the code points is what
\* utf8ByteLength() counts.
LEMMA SizesAddUp ==
  ASSUME NEW s \in Seq(CodeUnits), NEW f, ReadsText(f, 1, s),
         NEW w, w[<<>>] = 0,
         \A p \in Seq(Points), c \in Points : w[<<c>> \o p] = SizeOf(c) + w[p]
  PROVE  w[f[1]] = Utf8ByteLength(s)
<1> DEFINE L == Len(s)
           g == [i \in 1..(L + 2) |-> w[f[i]]]
<1>1. L \in Nat /\ \A i \in 1..L : s[i] \in CodeUnits
  BY ElementOf
<1>2. \A i \in 1..(L + 2) : f[i] = TextAt(f, i, s) /\ f[i] \in Seq(Points)
  BY ReadsTextAt, PointsRead
<1>3. \A i \in 1..(L + 2) : g[i] = w[f[i]]
  OBVIOUS
<1>4. ASSUME NEW i \in 1..(L + 2) PROVE w[f[i]] = CountAt(g, i, s)
  <2>1. CASE i > L
    BY <1>2, <2>1 DEF TextAt, CountAt
  <2>2. CASE ~(i > L)
    <3>1. i \in 1..L /\ i + 1 \in 1..(L + 2) /\ i + 2 \in 1..(L + 2) /\ ~(i > Len(s))
      BY <1>1, <2>2
    <3>2. s[i] \in CodeUnits /\ s[i] \in Points /\ s[i] \in Int /\ s[i] < 65536
      BY <1>1, <3>1, SMT DEF CodeUnits, Points
    <3> HIDE DEF L
    <3>3. g[i + 1] = w[f[i + 1]] /\ g[i + 2] = w[f[i + 2]]
      BY <1>3, <3>1
    <3>4. f[i + 1] \in Seq(Points) /\ f[i + 2] \in Seq(Points) /\ f[i] = TextAt(f, i, s)
      BY <1>2, <3>1
    <3> HIDE DEF g
    <3>5. CASE IsPair(s, i)
      <4>1. PairAt(s, i) \in Points /\ PairAt(s, i) >= 65536 /\ s[i] >= 2048
        BY <3>1, <3>5, PairIsPoint DEF L
      <4>2. PairAt(s, i) \in Int
        BY <4>1, SMT DEF Points
      <4>3. SizeOf(PairAt(s, i)) = 4
        BY <4>1, <4>2, SMT DEF SizeOf
      <4>4. f[i] = <<PairAt(s, i)>> \o f[i + 2]
        BY <3>1, <3>4, <3>5 DEF TextAt
      <4>5. w[f[i]] = 4 + w[f[i + 2]]
        BY <3>4, <4>1, <4>3, <4>4
      <4>6. CountAt(g, i, s) = 4 + g[i + 2]
        BY <3>1, <3>2, <3>5, <4>1, SMT DEF CountAt
      <4> QED
        BY <3>3, <4>5, <4>6
    <3>6. CASE ~IsPair(s, i)
      <4>1. f[i] = <<s[i]>> \o f[i + 1]
        BY <3>1, <3>4, <3>6 DEF TextAt
      <4>2. w[f[i]] = SizeOf(s[i]) + w[f[i + 1]]
        BY <3>2, <3>4, <4>1
      <4>3. CountAt(g, i, s) = SizeOf(s[i]) + g[i + 1]
        BY <3>1, <3>2, <3>6, SMT DEF CountAt, SizeOf
      <4> QED
        BY <3>3, <4>2, <4>3
    <3> QED
      BY <3>5, <3>6
  <2> QED
    BY <2>1, <2>2
<1>5. Counts(g, s)
  <2> HIDE DEF L
  <2>1. g = [i \in 1..(L + 2) |-> CountAt(g, i, s)]
    BY <1>4
  <2> QED
    BY <2>1 DEF Counts, L
<1>6. g[1] = w[f[1]]
  BY <1>1, <1>3
<1> HIDE DEF g
<1> QED
  BY <1>1, <1>5, <1>6, LengthIs

\* Half of a pair takes the three bytes that its replacement takes.
LEMMA HalfTakesThree ==
  ASSUME NEW c \in Points, IsHalf(c)
  PROVE  SizeOf(c) = 3 /\ SizeOf(Replacement) = 3 /\ Replacement \in Points
<1>1. c \in Int /\ (IsHigh(c) \/ IsLow(c))
  BY DEF IsHalf, Points
<1>2. c >= 55296 /\ c <= 57343
  BY <1>1, HighLies, LowLies, SMT
<1> QED
  BY <1>1, <1>2, SMT DEF SizeOf, Replacement, Points

LEMMA EncodedGrows ==
  ASSUME NEW p \in Seq(Points), NEW c \in Points
  PROVE  /\ Len(Encoded(<<c>> \o p)) = SizeOf(c) + Len(Encoded(p))
         /\ Len(Encoded(Replaced(<<c>> \o p))) = SizeOf(c) + Len(Encoded(Replaced(p)))
<1>1. ASSUME NEW q \in Seq(Points), NEW d \in Points
      PROVE  Len(Encoded(<<d>> \o q)) = SizeOf(d) + Len(Encoded(q))
  <2>1. Utf8Of(d) \in Seq(0..255) /\ Len(Utf8Of(d)) = SizeOf(d)
    BY BytesOfPoint
  <2>2. Encoded(q) \in Seq(0..255) /\ Encoded(<<d>> \o q) = Utf8Of(d) \o Encoded(q)
    BY EncodedUnfolds
  <2>3. Len(Utf8Of(d) \o Encoded(q)) = Len(Utf8Of(d)) + Len(Encoded(q))
    BY <2>1, <2>2, Joined
  <2> QED
    BY <2>1, <2>2, <2>3
<1>2. Replaced(p) \in Seq(Points)
  BY ReplacedUnfolds
<1>3. CASE IsHalf(c)
  <2>1. Replacement \in Points /\ SizeOf(Replacement) = SizeOf(c)
    BY <1>3, HalfTakesThree
  <2>2. Replaced(<<c>> \o p) = <<Replacement>> \o Replaced(p)
    BY <1>3, ReplacedUnfolds
  <2> QED
    BY <1>1, <1>2, <2>1, <2>2
<1>4. CASE ~IsHalf(c)
  <2>1. Replaced(<<c>> \o p) = <<c>> \o Replaced(p)
    BY <1>4, ReplacedUnfolds
  <2> QED
    BY <1>1, <1>2, <2>1
<1> QED
  BY <1>3, <1>4

\* The length that goes before the name or the value of a tag is the length of
\* the bytes that follow it, whichever way the string is encoded, and whatever
\* halves of pairs stand in it.
THEOREM LengthIsDeclared ==
  ASSUME NEW s \in Seq(CodeUnits)
  PROVE  /\ Utf8Encode(s) \in Seq(0..255) /\ Len(Utf8Encode(s)) = Utf8ByteLength(s)
         /\ WtfEncode(s) \in Seq(0..255) /\ Len(WtfEncode(s)) = Utf8ByteLength(s)
<1>1. PICK f : ReadsText(f, 1, s) /\ CodePoints(s) = f[1]
  BY CodePointsAre
<1> DEFINE p == CodePoints(s)
           plain == [q \in Seq(Points) |-> Len(Encoded(q))]
           replaced == [q \in Seq(Points) |-> Len(Encoded(Replaced(q)))]
<1>2. p \in Seq(Points)
  <2>1. 1 \in 1..(Len(s) + 2)
    BY ElementOf
  <2> QED
    BY <1>1, <2>1, PointsRead
<1>3. <<>> \in Seq(Points) /\ Len(<<>>) = 0
  OBVIOUS
<1>4. \A q \in Seq(Points), c \in Points : <<c>> \o q \in Seq(Points)
  BY FirstApplied
<1>5. /\ plain[<<>>] = 0
      /\ \A q \in Seq(Points), c \in Points : plain[<<c>> \o q] = SizeOf(c) + plain[q]
  BY <1>3, <1>4, EncodedUnfolds, EncodedGrows
<1>6. /\ replaced[<<>>] = 0
      /\ \A q \in Seq(Points), c \in Points : replaced[<<c>> \o q] = SizeOf(c) + replaced[q]
  BY <1>3, <1>4, EncodedUnfolds, ReplacedUnfolds, EncodedGrows
<1>7. plain[p] = Len(WtfEncode(s)) /\ replaced[p] = Len(Utf8Encode(s))
  BY <1>2 DEF WtfEncode, Utf8Encode
<1> HIDE DEF plain, replaced
<1>8. plain[p] = Utf8ByteLength(s) /\ replaced[p] = Utf8ByteLength(s)
  BY <1>1, <1>5, <1>6, SizesAddUp
<1>9. WtfEncode(s) \in Seq(0..255)
  BY <1>2, EncodedUnfolds DEF WtfEncode
<1>10. Utf8Encode(s) \in Seq(0..255)
  BY <1>2, EncodedUnfolds, ReplacedUnfolds DEF Utf8Encode
<1> QED
  BY <1>7, <1>8, <1>9, <1>10

---------------------------------------------------------------------------
(* Text, read back *)

\* Code points that a decoder can have written: halves of pairs are none.
Scalars == {c \in Points : ~IsHalf(c)}

LEMMA ScalarLies ==
  ASSUME NEW c \in Scalars
  PROVE  c \in Nat /\ c < 1114112 /\ (c < 55296 \/ c >= 57344)
<1>1. c \in Int /\ ~IsHigh(c) /\ ~IsLow(c) /\ c \in Nat /\ c < 1114112
  BY DEF Scalars, IsHalf, Points
<1>2. ~(c >= 55296 /\ c <= 56319) /\ ~(c >= 56320 /\ c <= 57343)
  BY <1>1, HighLies, LowLies
<1> QED
  BY <1>1, <1>2, SMT

\* The leads of two, three and four bytes, by where they lie.
LEMMA LeadsLie ==
  /\ \A b \in Int : b \in 194..223 <=> b >= 194 /\ b <= 223
  /\ \A b \in Int : b \in 224..239 <=> b >= 224 /\ b <= 239
  /\ \A b \in Int : b \in 240..244 <=> b >= 240 /\ b <= 244
BY SMT

LEMMA LeadIs ==
  ASSUME NEW b \in Int
  PROVE  /\ b < 128 => Lead(b).need = 0 /\ Lead(b).bits = b
         /\ b >= 194 /\ b <= 223 =>
              Lead(b).need = 1 /\ Lead(b).bits = b - 192 /\ Lead(b).low = 128 /\ Lead(b).high = 191
         /\ b >= 224 /\ b <= 239 =>
              /\ Lead(b).need = 2 /\ Lead(b).bits = b - 224
              /\ Lead(b).low = (IF b = 224 THEN 160 ELSE 128)
              /\ Lead(b).high = (IF b = 237 THEN 159 ELSE 191)
         /\ b >= 240 /\ b <= 244 =>
              /\ Lead(b).need = 3 /\ Lead(b).bits = b - 240
              /\ Lead(b).low = (IF b = 240 THEN 144 ELSE 128)
              /\ Lead(b).high = (IF b = 244 THEN 143 ELSE 191)
<1> DEFINE two == b \in 194..223
           three == b \in 224..239
           four == b \in 240..244
<1>1. /\ two <=> b >= 194 /\ b <= 223
      /\ three <=> b >= 224 /\ b <= 239
      /\ four <=> b >= 240 /\ b <= 244
  BY LeadsLie
<1>2. Lead(b) =
        IF two THEN [need |-> 1, low |-> 128, high |-> 191, bits |-> b - 192]
        ELSE IF three
             THEN [need |-> 2, low |-> IF b = 224 THEN 160 ELSE 128,
                   high |-> IF b = 237 THEN 159 ELSE 191, bits |-> b - 224]
        ELSE IF four
             THEN [need |-> 3, low |-> IF b = 240 THEN 144 ELSE 128,
                   high |-> IF b = 244 THEN 143 ELSE 191, bits |-> b - 240]
        ELSE [need |-> 0, low |-> 0, high |-> 0, bits |-> IF b < 128 THEN b ELSE Replacement]
  BY DEF Lead
<1> HIDE DEF two, three, four
<1>3. ASSUME b < 128
      PROVE  Lead(b).need = 0 /\ Lead(b).bits = b
  <2>1. ~two /\ ~three /\ ~four
    BY <1>3, <1>1, SMT
  <2>2. Lead(b) = [need |-> 0, low |-> 0, high |-> 0, bits |-> IF b < 128 THEN b ELSE Replacement]
    BY <1>2, <2>1, Zenon
  <2> QED
    BY <1>3, <2>2
<1>4. ASSUME b >= 194, b <= 223
      PROVE  Lead(b).need = 1 /\ Lead(b).bits = b - 192 /\ Lead(b).low = 128 /\ Lead(b).high = 191
  <2>1. two
    BY <1>4, <1>1, SMT
  <2>2. Lead(b) = [need |-> 1, low |-> 128, high |-> 191, bits |-> b - 192]
    BY <1>2, <2>1, Zenon
  <2> QED
    BY <1>4, <2>2
<1>5. ASSUME b >= 224, b <= 239
      PROVE  /\ Lead(b).need = 2 /\ Lead(b).bits = b - 224
             /\ Lead(b).low = (IF b = 224 THEN 160 ELSE 128)
             /\ Lead(b).high = (IF b = 237 THEN 159 ELSE 191)
  <2>1. ~two /\ three
    BY <1>5, <1>1, SMT
  <2>2. Lead(b) = [need |-> 2, low |-> IF b = 224 THEN 160 ELSE 128,
                  high |-> IF b = 237 THEN 159 ELSE 191, bits |-> b - 224]
    BY <1>2, <2>1, Zenon
  <2> QED
    BY <1>5, <2>2
<1>6. ASSUME b >= 240, b <= 244
      PROVE  /\ Lead(b).need = 3 /\ Lead(b).bits = b - 240
             /\ Lead(b).low = (IF b = 240 THEN 144 ELSE 128)
             /\ Lead(b).high = (IF b = 244 THEN 143 ELSE 191)
  <2>1. ~two /\ ~three /\ four
    BY <1>6, <1>1, SMT
  <2>2. Lead(b) = [need |-> 3, low |-> IF b = 240 THEN 144 ELSE 128,
                  high |-> IF b = 244 THEN 143 ELSE 191, bits |-> b - 240]
    BY <1>2, <2>1, Zenon
  <2> QED
    BY <1>6, <2>2
<1> QED
  BY <1>3, <1>4, <1>5, <1>6

\* The k-th byte after a lead continues what it began.
Follows(bytes, i, k) ==
    /\ i + k <= Len(bytes)
    /\ bytes[i + k] \in IF k = 1 THEN Lead(bytes[i]).low..Lead(bytes[i]).high ELSE 128..191

LEMMA FollowIs ==
  ASSUME NEW bytes, NEW i, NEW need \in Nat, Lead(bytes[i]).need = need,
         \A k \in 1..need : Follows(bytes, i, k)
  PROVE  Follow(bytes, i) = need
<1> DEFINE P(n) == (\A k \in 1..n : Follows(bytes, i, k)) /\ (n < need => ~Follows(bytes, i, n + 1))
<1>1. Follow(bytes, i) = CHOOSE n \in 0..need : P(n)
  BY DEF Follow, Follows
<1>2. P(need) /\ need \in 0..need
  OBVIOUS
<1>3. \A n \in 0..need : P(n) => n = need
  <2> SUFFICES ASSUME NEW n \in 0..need, P(n), n # need PROVE FALSE
    OBVIOUS
  <2>1. n < need /\ n + 1 \in 1..need
    OBVIOUS
  <2> QED
    BY <2>1
<1> HIDE DEF P
<1> QED
  BY <1>1, <1>2, <1>3

\* What PointRead's recursive function is.
BitsAt(f, k, bytes, i) ==
    IF k = 0 THEN Lead(bytes[i]).bits ELSE 64 * f[k - 1] + (bytes[i + k] % 64)

LEMMA PointReadIs ==
  ASSUME NEW bytes, NEW i, NEW need \in 0..3, Lead(bytes[i]).need = need, Follow(bytes, i) = need
  PROVE  LET b0 == Lead(bytes[i]).bits
             b1 == 64 * b0 + (bytes[i + 1] % 64)
             b2 == 64 * b1 + (bytes[i + 2] % 64)
             b3 == 64 * b2 + (bytes[i + 3] % 64)
         IN  PointRead(bytes, i) = IF need = 0 THEN b0 ELSE IF need = 1 THEN b1
                                   ELSE IF need = 2 THEN b2 ELSE b3
<1> DEFINE b0 == Lead(bytes[i]).bits
           b1 == 64 * b0 + (bytes[i + 1] % 64)
           b2 == 64 * b1 + (bytes[i + 2] % 64)
           b3 == 64 * b2 + (bytes[i + 3] % 64)
           g == [k \in 0..need |-> IF k = 0 THEN b0 ELSE IF k = 1 THEN b1
                                   ELSE IF k = 2 THEN b2 ELSE b3]
           f == CHOOSE f : f = [k \in 0..need |-> BitsAt(f, k, bytes, i)]
<1>1. PointRead(bytes, i) = f[need]
  BY DEF PointRead, BitsAt
<1>2. g = [k \in 0..need |-> BitsAt(g, k, bytes, i)]
  <2>1. ASSUME NEW k \in 0..need PROVE g[k] = BitsAt(g, k, bytes, i)
    <3>1. k = 0 \/ k = 1 \/ k = 2 \/ k = 3
      OBVIOUS
    <3>2. k # 0 => k - 1 \in 0..need
      OBVIOUS
    <3> QED
      BY <3>1, <3>2 DEF BitsAt
  <2> QED
    BY <2>1
<1>3. f = [k \in 0..need |-> BitsAt(f, k, bytes, i)]
  BY <1>2
<1> HIDE DEF f, g
<1>4. \A k \in 0..need : f[k] = BitsAt(f, k, bytes, i)
  BY <1>3
<1>5. f[0] = b0
  BY <1>4 DEF BitsAt
<1>6. need >= 1 => f[1] = b1
  BY <1>4, <1>5 DEF BitsAt
<1>7. need >= 2 => f[2] = b2
  BY <1>4, <1>6 DEF BitsAt
<1>8. need >= 3 => f[3] = b3
  BY <1>4, <1>7 DEF BitsAt
<1> HIDE DEF b0, b1, b2, b3
<1> QED
  BY <1>1, <1>5, <1>6, <1>7, <1>8 DEF b0, b1, b2, b3

\* Six bits of a code point, as a byte that continues.
LEMMA ContinuationIs ==
  ASSUME NEW c \in Nat
  PROVE  /\ \A unit \in {1, 64, 4096} : Continuation(c, unit) = 128 + ((c \div unit) % 64)
         /\ \A unit \in {1, 64, 4096} : Continuation(c, unit) >= 128 /\ Continuation(c, unit) <= 191
         /\ \A unit \in {1, 64, 4096} : Continuation(c, unit) % 64 = (c \div unit) % 64
         /\ \A unit \in {1, 64, 4096} : Continuation(c, unit) \in Int
  BY SMT DEF Continuation

LEMMA Continues ==
  ASSUME NEW b \in Int, b >= 128, b <= 191
  PROVE  b \in 128..191
  BY SMT

LEMMA Within ==
  ASSUME NEW b \in Int, NEW low \in Int, NEW high \in Int, b >= low, b <= high
  PROVE  b \in low..high
  OBVIOUS

\* Where the bytes of a code point stand, the code point is read.
LEMMA PointReadBack ==
  ASSUME NEW c \in Scalars, NEW bytes, NEW i \in Nat, Len(bytes) \in Nat,
         i + Len(Utf8Of(c)) <= Len(bytes) + 1,
         \A k \in 0..(Len(Utf8Of(c)) - 1) : bytes[i + k] = Utf8Of(c)[k + 1]
  PROVE  Follow(bytes, i) + 1 = Len(Utf8Of(c)) /\ PointRead(bytes, i) = c
<1>1. c \in Nat /\ c < 1114112 /\ (c < 55296 \/ c >= 57344)
  BY ScalarLies, SMT
<1>2. /\ \A unit \in {1, 64, 4096} : Continuation(c, unit) = 128 + ((c \div unit) % 64)
      /\ \A unit \in {1, 64, 4096} : Continuation(c, unit) >= 128 /\ Continuation(c, unit) <= 191
      /\ \A unit \in {1, 64, 4096} : Continuation(c, unit) % 64 = (c \div unit) % 64
      /\ \A unit \in {1, 64, 4096} : Continuation(c, unit) \in Int
  BY <1>1, ContinuationIs, SMT
<1>3. CASE c < 128
  <2>1. Utf8Of(c) = <<c>>
    BY <1>3, SMT DEF Utf8Of
  <2>2. Len(Utf8Of(c)) = 1 /\ bytes[i + 0] = c /\ i + 0 = i
    BY <2>1, SMT
  <2>3. Lead(bytes[i]).need = 0 /\ Lead(bytes[i]).bits = c
    BY <1>1, <1>3, <2>2, LeadIs, SMT
  <2>4. Follow(bytes, i) = 0
    BY <2>3, FollowIs, SMT
  <2> QED
    BY <2>2, <2>3, <2>4, PointReadIs, SMT
<1>4. CASE ~(c < 128) /\ c < 2048
  <2> DEFINE l == 192 + c \div 64
             x == Continuation(c, 1)
  <2>1. Utf8Of(c) = <<l, x>>
    BY <1>4, SMT DEF Utf8Of
  <2> HIDE DEF l, x
  <2>2. Len(Utf8Of(c)) = 2 /\ bytes[i] = l /\ bytes[i + 1] = x
    BY <2>1, SMT
  <2>3. l \in Int /\ l >= 194 /\ l <= 223 /\ 64 * (l - 192) + (c % 64) = c
    <3>1. c \div 64 \in Int /\ c \div 64 >= 2 /\ c \div 64 < 32 /\ 64 * (c \div 64) + (c % 64) = c
      BY <1>1, <1>4, SMT
    <3>2. l - 192 = c \div 64
      BY <3>1, SMT DEF l
    <3> QED
      BY <3>1, <3>2, SMT DEF l
  <2>4. Lead(bytes[i]).need = 1 /\ Lead(bytes[i]).bits = l - 192 /\ Lead(bytes[i]).low = 128 /\ Lead(bytes[i]).high = 191
    BY <2>2, <2>3, LeadIs, SMT
  <2>5. x >= 128 /\ x <= 191 /\ x % 64 = c % 64 /\ x \in Int
    <3>1. x >= 128 /\ x <= 191 /\ x % 64 = (c \div 1) % 64 /\ x \in Int
      BY <1>2, SMT DEF x
    <3> QED
      BY <1>1, <3>1, SMT
  <2>6. Follows(bytes, i, 1)
    BY <2>2, <2>4, <2>5, Continues, SMT DEF Follows
  <2>7. Follow(bytes, i) = 1
    BY <2>4, <2>6, FollowIs, SMT
  <2>8. PointRead(bytes, i) = 64 * (l - 192) + (x % 64)
    BY <2>2, <2>4, <2>7, PointReadIs, SMT
  <2>9. PointRead(bytes, i) = c
    BY <2>3, <2>5, <2>8
  <2> QED
    BY <2>2, <2>7, <2>9
<1>5. CASE ~(c < 128) /\ ~(c < 2048) /\ c < 65536
  <2> DEFINE l == 224 + c \div 4096
             x == Continuation(c, 64)
             y == Continuation(c, 1)
             low == IF l = 224 THEN 160 ELSE 128
             high == IF l = 237 THEN 159 ELSE 191
  <2>1. Utf8Of(c) = <<l, x, y>>
    BY <1>5, SMT DEF Utf8Of
  <2>2. Len(Utf8Of(c)) = 3 /\ bytes[i] = l /\ bytes[i + 1] = x /\ bytes[i + 2] = y
    <3> HIDE DEF l, x, y
    <3> QED
      BY <2>1, SMT
  <2>3. l \in Int /\ l >= 224 /\ l <= 239
    BY <1>1, <1>5, SMT
  <2>4. 64 * (64 * (l - 224) + ((c \div 64) % 64)) + (c % 64) = c
    <3>1. 64 * (64 * (c \div 4096) + ((c \div 64) % 64)) + (c % 64) = c /\ c \div 4096 \in Int
      BY <1>1, SMT
    <3>2. l - 224 = c \div 4096
      BY <3>1, SMT
    <3> HIDE DEF l
    <3> QED
      BY <3>1, <3>2, SMT
  <2>5. x \in Int /\ x >= low /\ x <= high /\ x % 64 = (c \div 64) % 64 /\ low \in Int /\ high \in Int
    <3>1. x >= 128 /\ x <= 191 /\ x = 128 + ((c \div 64) % 64) /\ x % 64 = (c \div 64) % 64 /\ x \in Int
      BY <1>2, SMT
    <3> HIDE DEF x
    <3>2. l = 224 => (c \div 64) % 64 >= 32
      BY <1>1, <1>5, SMT
    <3>3. l = 237 => (c \div 64) % 64 <= 31
      BY <1>1, <1>5, SMT
    <3> HIDE DEF l
    <3> QED
      BY <3>1, <3>2, <3>3, SMT
  <2>6. y >= 128 /\ y <= 191 /\ y % 64 = c % 64 /\ y \in Int
    <3>1. y >= 128 /\ y <= 191 /\ y % 64 = (c \div 1) % 64 /\ y \in Int
      BY <1>2, SMT
    <3> HIDE DEF y
    <3> QED
      BY <1>1, <3>1, SMT
  <2> HIDE DEF l, x, y
  <2>7. Lead(bytes[i]).need = 2 /\ Lead(bytes[i]).bits = l - 224 /\ Lead(bytes[i]).low = low /\ Lead(bytes[i]).high = high
    BY <2>2, <2>3, LeadIs, SMT
  <2> HIDE DEF low, high
  <2>8. Follows(bytes, i, 1) /\ Follows(bytes, i, 2)
    <3>1. x \in low..high /\ y \in 128..191
      BY <2>5, <2>6, Within, Continues, SMT
    <3> QED
      BY <2>2, <2>7, <3>1, SMT DEF Follows
  <2>9. Follow(bytes, i) = 2
    <3>1. \A k \in 1..2 : k = 1 \/ k = 2
      BY SMT
    <3> QED
      BY <2>7, <2>8, <3>1, FollowIs, SMT
  <2>10. PointRead(bytes, i) = 64 * (64 * (l - 224) + (x % 64)) + (y % 64)
    BY <2>2, <2>7, <2>9, PointReadIs, SMT
  <2>11. PointRead(bytes, i) = c
    BY <2>4, <2>5, <2>6, <2>10
  <2> QED
    BY <2>2, <2>9, <2>11
<1>6. CASE ~(c < 128) /\ ~(c < 2048) /\ ~(c < 65536)
  <2> DEFINE l == 240 + c \div 262144
             x == Continuation(c, 4096)
             y == Continuation(c, 64)
             z == Continuation(c, 1)
             low == IF l = 240 THEN 144 ELSE 128
             high == IF l = 244 THEN 143 ELSE 191
  <2>1. Utf8Of(c) = <<l, x, y, z>>
    BY <1>6, SMT DEF Utf8Of
  <2>2. Len(Utf8Of(c)) = 4 /\ bytes[i] = l /\ bytes[i + 1] = x /\ bytes[i + 2] = y /\ bytes[i + 3] = z
    <3> HIDE DEF l, x, y, z
    <3>1. /\ Len(Utf8Of(c)) = 4 /\ Utf8Of(c)[1] = l /\ Utf8Of(c)[2] = x
          /\ Utf8Of(c)[3] = y /\ Utf8Of(c)[4] = z
      BY ONLY <2>1
    <3>2. \A k \in 0..3 : bytes[i + k] = Utf8Of(c)[k + 1]
      BY <3>1, SMT
    <3>3. bytes[i + 0] = l /\ i + 0 = i
      BY <3>1, <3>2, SMT
    <3>4. bytes[i + 1] = x /\ bytes[i + 2] = y /\ bytes[i + 3] = z
      BY ONLY <3>1, <3>2, SMT
    <3> QED
      BY ONLY <3>1, <3>3, <3>4
  <2>3. l \in Int /\ l >= 240 /\ l <= 244
    BY <1>1, <1>6, SMT
  <2>4. 64 * (64 * (64 * (l - 240) + ((c \div 4096) % 64)) + ((c \div 64) % 64)) + (c % 64) = c
    <3>1. /\ 64 * (64 * (64 * (c \div 262144) + ((c \div 4096) % 64)) + ((c \div 64) % 64)) + (c % 64) = c
          /\ c \div 262144 \in Int
      BY <1>1, SMT
    <3>2. l - 240 = c \div 262144
      BY <3>1, SMT
    <3> HIDE DEF l
    <3> QED
      BY <3>1, <3>2, SMT
  <2>5. x \in Int /\ x >= low /\ x <= high /\ x % 64 = (c \div 4096) % 64 /\ low \in Int /\ high \in Int
    <3>1. x >= 128 /\ x <= 191 /\ x = 128 + ((c \div 4096) % 64) /\ x % 64 = (c \div 4096) % 64 /\ x \in Int
      BY <1>2, SMT
    <3> HIDE DEF x
    <3>2. l = 240 => (c \div 4096) % 64 >= 16
      BY <1>1, <1>6, SMT
    <3>3. l = 244 => (c \div 4096) % 64 <= 15
      BY <1>1, <1>6, SMT
    <3> HIDE DEF l
    <3> QED
      BY <3>1, <3>2, <3>3, SMT
  <2>6. /\ y >= 128 /\ y <= 191 /\ y % 64 = (c \div 64) % 64 /\ y \in Int
        /\ z >= 128 /\ z <= 191 /\ z % 64 = c % 64 /\ z \in Int
    <3>1. /\ y >= 128 /\ y <= 191 /\ y % 64 = (c \div 64) % 64 /\ y \in Int
          /\ z >= 128 /\ z <= 191 /\ z % 64 = (c \div 1) % 64 /\ z \in Int
      BY <1>2, SMT
    <3> HIDE DEF y, z
    <3> QED
      BY <1>1, <3>1, SMT
  <2> HIDE DEF l, x, y, z
  <2>7. Lead(bytes[i]).need = 3 /\ Lead(bytes[i]).bits = l - 240 /\ Lead(bytes[i]).low = low /\ Lead(bytes[i]).high = high
    BY <2>2, <2>3, LeadIs, SMT
  <2> HIDE DEF low, high
  <2>8. Follows(bytes, i, 1) /\ Follows(bytes, i, 2) /\ Follows(bytes, i, 3)
    <3>1. x \in low..high /\ y \in 128..191 /\ z \in 128..191
      BY <2>5, <2>6, Within, Continues, SMT
    <3> QED
      BY <2>2, <2>7, <3>1, SMT DEF Follows
  <2>9. Follow(bytes, i) = 3
    <3>1. \A k \in 1..3 : k = 1 \/ k = 2 \/ k = 3
      BY SMT
    <3> QED
      BY <2>7, <2>8, <3>1, FollowIs, SMT
  <2>10. PointRead(bytes, i) = 64 * (64 * (64 * (l - 240) + (x % 64)) + (y % 64)) + (z % 64)
    BY <2>2, <2>7, <2>9, PointReadIs, SMT
  <2>11. PointRead(bytes, i) = c
    BY <2>4, <2>5, <2>6, <2>10
  <2> QED
    BY <2>2, <2>9, <2>11
<1> QED
  BY <1>3, <1>4, <1>5, <1>6, SMT

\* A lead is followed by as many bytes as are there, or by fewer.
LEMMA FollowLies ==
  ASSUME NEW bytes \in Seq(0..255), NEW i \in 1..Len(bytes)
  PROVE  Follow(bytes, i) \in Nat /\ i + Follow(bytes, i) <= Len(bytes)
<1> DEFINE need == Lead(bytes[i]).need
           P(n) == (\A k \in 1..n : Follows(bytes, i, k)) /\ (n < need => ~Follows(bytes, i, n + 1))
           Ends == {n \in 0..need : n = need \/ ~Follows(bytes, i, n + 1)}
<1>1. need \in Nat
  <2> DEFINE b == bytes[i]
             two == b \in 194..223
             three == b \in 224..239
             four == b \in 240..244
  <2>1. Lead(b).need = IF two THEN 1 ELSE IF three THEN 2 ELSE IF four THEN 3 ELSE 0
    <3>1. Lead(b) =
            IF two THEN [need |-> 1, low |-> 128, high |-> 191, bits |-> b - 192]
            ELSE IF three
                 THEN [need |-> 2, low |-> IF b = 224 THEN 160 ELSE 128,
                       high |-> IF b = 237 THEN 159 ELSE 191, bits |-> b - 224]
            ELSE IF four
                 THEN [need |-> 3, low |-> IF b = 240 THEN 144 ELSE 128,
                       high |-> IF b = 244 THEN 143 ELSE 191, bits |-> b - 240]
            ELSE [need |-> 0, low |-> 0, high |-> 0, bits |-> IF b < 128 THEN b ELSE Replacement]
      BY DEF Lead
    <3> HIDE DEF two, three, four
    <3> QED
      BY <3>1
  <2> HIDE DEF two, three, four, b
  <2>2. Lead(b).need \in Nat
    BY <2>1
  <2> QED
    BY <2>2 DEF b
<1> HIDE DEF need
<1>2. Follow(bytes, i) = CHOOSE n \in 0..need : P(n)
  BY DEF Follow, Follows, need
<1>3. \E n \in 0..need : P(n)
  <2>1. Ends \subseteq Nat /\ need \in Ends
    BY <1>1
  <2>2. PICK n \in Ends : \A m \in Ends : n <= m
    BY <2>1, LeastNumber
  <2>3. ASSUME NEW k \in 1..n PROVE Follows(bytes, i, k)
    <3>1. k - 1 \in 0..need /\ k - 1 # need /\ ~(n <= k - 1) /\ (k - 1) + 1 = k
      BY <1>1, <2>2
    <3> QED
      BY <2>2, <3>1
  <2> QED
    BY <1>1, <2>2, <2>3
<1> DEFINE n == Follow(bytes, i)
<1>4. n \in 0..need /\ P(n)
  <2> HIDE DEF P
  <2> QED
    BY <1>2, <1>3
<1>5. Len(bytes) \in Nat
  BY ElementOf
<1> HIDE DEF n
<1>6. n \in Nat /\ (n # 0 => n \in 1..n)
  BY <1>1, <1>4
<1>7. n # 0 => i + n <= Len(bytes)
  BY <1>4, <1>6 DEF Follows
<1> QED
  BY <1>5, <1>6, <1>7 DEF n

\* What DecodedPoints' recursive function is, from place k on.
DecodeAt(f, i, bytes) ==
    IF i > Len(bytes) THEN <<>>
    ELSE <<PointRead(bytes, i)>> \o f[i + Follow(bytes, i) + 1]
Decodes(f, k, bytes) == f = [i \in k..(Len(bytes) + 1) |-> DecodeAt(f, i, bytes)]

LEMMA DecodesAt ==
  ASSUME NEW f, NEW k, NEW bytes, Decodes(f, k, bytes)
  PROVE  \A i \in k..(Len(bytes) + 1) : f[i] = DecodeAt(f, i, bytes)
BY DEF Decodes

LEMMA DecodesExist ==
  ASSUME NEW bytes \in Seq(0..255)
  PROVE  \E f : Decodes(f, 1, bytes)
<1> DEFINE L == Len(bytes)
           S == {n \in Nat : n <= L => \E f : Decodes(f, L + 1 - n, bytes)}
<1>0. L \in Nat
  BY ElementOf
<1>1. ASSUME NEW n \in Nat, \A m \in 0..(n - 1) : m \in S PROVE n \in S
  <2> SUFFICES ASSUME n <= L PROVE \E f : Decodes(f, L + 1 - n, bytes)
    OBVIOUS
  <2>1. CASE n = 0
    <3> DEFINE g == [i \in (L + 1)..(L + 1) |-> <<>>]
    <3>1. Decodes(g, L + 1 - n, bytes)
      BY <2>1, <1>0 DEF Decodes, DecodeAt
    <3> QED
      BY <3>1
  <2>2. CASE n # 0
    <3> DEFINE k == L + 1 - n
    <3>1. n - 1 \in 0..(n - 1) /\ n - 1 <= L /\ L + 1 - (n - 1) = k + 1 /\ k \in 1..L
      BY <2>2, <1>0
    <3>2. PICK f : Decodes(f, k + 1, bytes)
      BY <1>1, <3>1
    <3>3. \A i \in (k + 1)..(L + 1) : f[i] = DecodeAt(f, i, bytes)
      BY <3>2, DecodesAt
    <3> HIDE DEF k
    <3> DEFINE first == DecodeAt(f, k, bytes)
               g == [i \in k..(L + 1) |-> IF i = k THEN first ELSE f[i]]
    <3>4. ASSUME NEW i \in k..(L + 1) PROVE g[i] = DecodeAt(g, i, bytes)
      <4> DEFINE j == i + Follow(bytes, i) + 1
      <4>1. ~(i > L) => j \in k..(L + 1) /\ j # k
        <5> SUFFICES ASSUME ~(i > L) PROVE j \in k..(L + 1) /\ j # k
          OBVIOUS
        <5>1. i \in 1..L
          BY <1>0, <3>1
        <5>2. Follow(bytes, i) \in Nat /\ i + Follow(bytes, i) <= L
          BY <5>1, FollowLies
        <5> QED
          BY <1>0, <3>1, <5>1, <5>2
      <4> HIDE DEF j
      <4>2. ~(i > L) => g[j] = f[j]
        BY <4>1
      <4>3. DecodeAt(g, i, bytes) = DecodeAt(f, i, bytes)
        <5> HIDE DEF g
        <5> QED
          BY <4>2 DEF DecodeAt, j
      <4>4. i # k => i \in (k + 1)..(L + 1)
        BY <1>0, <3>1
      <4> QED
        BY <3>3, <4>3, <4>4
    <3> HIDE DEF first
    <3>5. Decodes(g, k, bytes)
      BY <3>4 DEF Decodes
    <3> QED
      BY <3>5 DEF k
  <2> QED
    BY <2>1, <2>2
<1>2. L \in S
  <2> HIDE DEF S
  <2> QED
    BY <1>0, <1>1, Induction
<1>3. \E f : Decodes(f, L + 1 - L, bytes)
  BY <1>0, <1>2
<1> QED
  BY <1>0, <1>3

LEMMA DecodedPointsAre ==
  ASSUME NEW bytes \in Seq(0..255)
  PROVE  \E f : Decodes(f, 1, bytes) /\ DecodedPoints(bytes) = f[1]
<1> DEFINE f == CHOOSE f : Decodes(f, 1, bytes)
<1>1. Decodes(f, 1, bytes)
  BY DecodesExist
<1>2. DecodedPoints(bytes) = f[1]
  BY SMT DEF DecodedPoints, Decodes, DecodeAt
<1> QED
  BY <1>1, <1>2

\* A sequence that is not empty is its first element and the rest.
LEMMA HeadAndRest ==
  ASSUME NEW S, NEW p \in Seq(S), Len(p) # 0
  PROVE  \E c \in S, q \in Seq(S) : p = <<c>> \o q /\ Len(q) = Len(p) - 1 /\ c = p[1]
<1> DEFINE q == SubSeq(p, 2, Len(p))
           x == SubSeq(p, 1, 1)
<1>1. Len(p) \in Nat /\ 1 \in 0..Len(p) /\ 1 <= Len(p) /\ p[1] \in S
  BY ElementOf
<1>2. q \in Seq(S) /\ Len(q) = Len(p) - 1
  <2>1. 2 \in 1..(Len(p) + 1) /\ Len(p) \in (2 - 1)..Len(p) /\ Len(p) - 2 + 1 = Len(p) - 1
    BY <1>1
  <2> QED
    BY <2>1, SubSeqProperties
<1>3. x \in Seq(S) /\ Len(x) = 1 /\ x[1] = p[1]
  BY <1>1, FirstPart
<1>4. x = <<p[1]>>
  <2> HIDE DEF x
  <2> QED
    BY <1>1, <1>3
<1>5. x \o q = p
  BY <1>1, CutInTwo
<1> HIDE DEF x, q
<1> QED
  BY <1>1, <1>2, <1>4, <1>5

\* What was encoded is read as it was, wherever it stands at the end of the
\* bytes.
EndIsRead(f, bytes) ==
    \A p \in Seq(Scalars), before \in Seq(0..255) :
        bytes = before \o Encoded(p) => f[Len(before) + 1] = p

LEMMA EncodedIsRead ==
  ASSUME NEW bytes \in Seq(0..255), NEW f, Decodes(f, 1, bytes)
  PROVE  EndIsRead(f, bytes)
<1> DEFINE B == 0..255
           L == Len(bytes)
           S == {n \in Nat : \A p \in Seq(Scalars), before \in Seq(B) :
                   Len(p) = n /\ bytes = before \o Encoded(p) => f[Len(before) + 1] = p}
<1>0. L \in Nat /\ \A i \in 1..(L + 1) : f[i] = DecodeAt(f, i, bytes)
  BY ElementOf, DecodesAt
<1>1. Scalars \subseteq Points
  BY DEF Scalars
<1> HIDE DEF B
<1>2. \A a, b, d \in Seq(B) : (a \o b) \o d = a \o (b \o d)
  BY ConcatAssociative
<1>3. ASSUME NEW n \in Nat, \A m \in 0..(n - 1) : m \in S PROVE n \in S
  <2> SUFFICES ASSUME NEW p \in Seq(Scalars), NEW before \in Seq(B),
                      Len(p) = n, bytes = before \o Encoded(p)
               PROVE  f[Len(before) + 1] = p
    OBVIOUS
  <2> DEFINE i == Len(before) + 1
  <2>1. Len(before) \in Nat
    BY ElementOf
  <2>2. CASE n = 0
    <3>1. p = <<>> /\ Encoded(p) = <<>>
      BY <2>2, EncodedUnfolds
    <3>2. bytes = before
      BY <3>1
    <3>3. i \in 1..(L + 1) /\ i > L
      BY <2>1, <3>2
    <3> HIDE DEF i
    <3>4. f[i] = <<>>
      BY <1>0, <3>3 DEF DecodeAt
    <3> QED
      BY <3>1, <3>4 DEF i
  <2>3. CASE n # 0
    <3>1. PICK c \in Scalars, q \in Seq(Scalars) : p = <<c>> \o q /\ Len(q) = n - 1
      BY <2>3, HeadAndRest
    <3> DEFINE u == Utf8Of(c)
               rest == Encoded(q)
    <3>2. c \in Points /\ q \in Seq(Points)
      BY <1>1, SeqOfMore
    <3>3. u \in Seq(B) /\ rest \in Seq(B) /\ Len(u) \in Nat /\ Len(u) >= 1 /\ Encoded(p) = u \o rest
      <4>1. u \in Seq(B) /\ Len(u) = SizeOf(c)
        BY <3>2, BytesOfPoint DEF B
      <4>2. rest \in Seq(B) /\ Encoded(p) = u \o rest
        BY <3>1, <3>2, EncodedUnfolds DEF B
      <4>3. SizeOf(c) \in Nat /\ SizeOf(c) >= 1
        BY SMT DEF SizeOf
      <4> QED
        BY <4>1, <4>2, <4>3
    <3> HIDE DEF u, rest
    <3>4. /\ L = Len(before) + Len(u) + Len(rest)
          /\ \A k \in 1..Len(u) : bytes[Len(before) + k] = u[k]
      BY <3>3, JoinedAmid
    <3>5. Len(rest) \in Nat
      BY <3>3, ElementOf
    <3>6. \A k \in 0..(Len(u) - 1) : bytes[i + k] = u[k + 1]
      <4> TAKE k \in 0..(Len(u) - 1)
      <4>1. k + 1 \in 1..Len(u) /\ i + k = Len(before) + (k + 1)
        BY <2>1, <3>3
      <4> QED
        BY <3>4, <4>1
    <3>7. i \in Nat /\ i \in 1..(L + 1) /\ ~(i > L) /\ i + Len(u) <= L + 1
      <4> HIDE DEF L
      <4>2. L = Len(before) + Len(u) + Len(rest)
        BY <3>4
      <4> QED
        BY <2>1, <3>3, <3>5, <4>2
    <3>8. Follow(bytes, i) + 1 = Len(u) /\ PointRead(bytes, i) = c
      BY <1>0, <3>6, <3>7, PointReadBack DEF u
    <3>9. Follow(bytes, i) \in Nat
      <4>1. i \in 1..Len(bytes)
        BY <1>0, <3>7
      <4> HIDE DEF i
      <4> QED
        BY <4>1, FollowLies
    <3> DEFINE more == before \o u
    <3>10. more \in Seq(B) /\ Len(more) = Len(before) + Len(u) /\ bytes = more \o rest
      <4>1. more \in Seq(B) /\ Len(more) = Len(before) + Len(u)
        BY <3>3, Joined
      <4>2. more \o rest = before \o (u \o rest)
        BY <1>2, <3>3, Zenon
      <4> QED
        BY <3>3, <4>1, <4>2
    <3> HIDE DEF more
    <3>11. n - 1 \in S
      <4>1. n - 1 \in 0..(n - 1)
        BY <2>3
      <4> HIDE DEF S
      <4> QED
        BY <1>3, <4>1
    <3>12. f[Len(more) + 1] = q
      BY <3>1, <3>10, <3>11 DEF rest
    <3>13. i + Follow(bytes, i) + 1 = Len(more) + 1
      <4> DEFINE j == Follow(bytes, i)
      <4>1. j \in Nat /\ j + 1 = Len(u) /\ Len(u) \in Nat
        BY <3>3, <3>8, <3>9
      <4> HIDE DEF j
      <4>2. i + j + 1 = Len(more) + 1
        BY <2>1, <3>10, <4>1
      <4> QED
        BY <4>2 DEF j
    <3> HIDE DEF i
    <3>14. f[i] = <<c>> \o q
      BY <1>0, <3>7, <3>8, <3>12, <3>13 DEF DecodeAt
    <3> QED
      BY <3>1, <3>14 DEF i
  <2> QED
    BY <2>2, <2>3
<1>4. Nat \subseteq S
  <2> HIDE DEF S
  <2> QED
    BY <1>3, Induction
<1>5. ASSUME NEW p \in Seq(Scalars), NEW before \in Seq(B), bytes = before \o Encoded(p)
      PROVE  f[Len(before) + 1] = p
  <2>1. Len(p) \in S
    BY <1>4, ElementOf
  <2> QED
    BY <1>5, <2>1
<1> QED
  BY <1>5 DEF B, EndIsRead

\* Whatever a string holds, its code points are what utf8Decode() reads from the
\* bytes that utf8Encode() makes of it, with U+FFFD for halves of pairs.
THEOREM TextIsRead ==
  ASSUME NEW s \in Seq(CodeUnits)
  PROVE  DecodedPoints(Utf8Encode(s)) = Replaced(CodePoints(s))
<1> DEFINE p == CodePoints(s)
           r == Replaced(p)
<1>1. p \in Seq(Points)
  <2>1. PICK f : ReadsText(f, 1, s) /\ CodePoints(s) = f[1]
    BY CodePointsAre
  <2>2. 1 \in 1..(Len(s) + 2)
    BY ElementOf
  <2> QED
    BY <2>1, <2>2, PointsRead
<1> HIDE DEF p
<1>2. r \in Seq(Scalars)
  <2>1. Replacement \in Scalars
    <3>1. Replacement \in Int /\ Replacement \in Points
      BY SMT DEF Replacement, Points
    <3>2. ~IsHigh(Replacement) /\ ~IsLow(Replacement)
      <4>1. ~(Replacement <= 57343)
        BY SMT DEF Replacement
      <4>2. ~(Replacement <= 56319)
        BY SMT DEF Replacement
      <4> QED
        BY <3>1, <4>1, <4>2, HighLies, LowLies
    <3> QED
      BY <3>1, <3>2 DEF Scalars, IsHalf
  <2>2. Len(p) \in Nat /\ DOMAIN p = 1..Len(p) /\ \A k \in 1..Len(p) : p[k] \in Points
    BY <1>1, ElementOf
  <2>3. \A k \in 1..Len(p) : (IF IsHalf(p[k]) THEN Replacement ELSE p[k]) \in Scalars
    BY <2>1, <2>2 DEF Scalars
  <2>4. r = [k \in 1..Len(p) |-> IF IsHalf(p[k]) THEN Replacement ELSE p[k]]
    BY <2>2 DEF Replaced
  <2> HIDE DEF r
  <2>5. r \in [1..Len(p) -> Scalars]
    BY <2>3, <2>4
  <2> QED
    BY <2>2, <2>5
<1> HIDE DEF r
<1> DEFINE bytes == Utf8Encode(s)
<1>3. bytes \in Seq(0..255) /\ bytes = Encoded(r)
  BY LengthIsDeclared DEF Utf8Encode, r, p
<1> HIDE DEF bytes
<1>4. PICK f : Decodes(f, 1, bytes) /\ DecodedPoints(bytes) = f[1]
  BY <1>3, DecodedPointsAre
<1>5. f[Len(<<>>) + 1] = r
  <2>1. <<>> \in Seq(0..255) /\ bytes = <<>> \o Encoded(r)
    BY <1>3
  <2>2. EndIsRead(f, bytes)
    BY <1>3, <1>4, EncodedIsRead
  <2> QED
    BY <1>2, <2>1, <2>2 DEF EndIsRead
<1> QED
  BY <1>4, <1>5 DEF bytes, r, p

---------------------------------------------------------------------------
(* Text, written again *)

\* The code units of a sequence of points.
Units(p) == FlattenSeq([k \in DOMAIN p |-> UnitsOf(p[k])])

LEMMA UnitsUnfold ==
  /\ Units(<<>>) = <<>>
  /\ \A p \in Seq(Points) : Units(p) \in Seq(CodeUnits)
  /\ \A p \in Seq(Points), c \in Points : Units(<<c>> \o p) = UnitsOf(c) \o Units(p)
<1> DEFINE w == [c \in Points |-> UnitsOf(c)]
<1>1. w \in [Points -> Seq(CodeUnits)] /\ \A c \in Points : w[c] = UnitsOf(c)
  <2>1. ASSUME NEW c \in Points PROVE UnitsOf(c) \in Seq(CodeUnits)
    <3>1. CASE c < 65536
      <4>1. c \in CodeUnits
        BY <3>1, SMT DEF CodeUnits, Points
      <4>2. UnitsOf(c) = <<c>>
        BY <3>1, SMT DEF UnitsOf
      <4> QED
        BY <4>1, <4>2
    <3>2. CASE ~(c < 65536)
      <4> DEFINE high == 55296 + (c - 65536) \div 1024
                 low == 56320 + ((c - 65536) % 1024)
      <4>1. high \in CodeUnits /\ low \in CodeUnits
        BY <3>2, SMT DEF CodeUnits, Points
      <4>2. UnitsOf(c) = <<high, low>>
        BY <3>2, SMT DEF UnitsOf
      <4> HIDE DEF high, low
      <4> QED
        BY <4>1, <4>2
    <3> QED
      BY <3>1, <3>2
  <2> QED
    BY <2>1
<1> HIDE DEF w
<1>2. ASSUME NEW p \in Seq(Points) PROVE Units(p) = EachOf(w, p)
  <2>1. \A k \in DOMAIN p : p[k] \in Points
    BY ElementOf
  <2> QED
    BY <1>1, <2>1 DEF Units, EachOf
<1>3. <<>> \in Seq(Points) /\ \A p \in Seq(Points), c \in Points : <<c>> \o p \in Seq(Points)
  BY FirstApplied
<1>4. /\ EachOf(w, <<>>) = <<>>
      /\ \A p \in Seq(Points) : EachOf(w, p) \in Seq(CodeUnits)
      /\ \A p \in Seq(Points), c \in Points : EachOf(w, <<c>> \o p) = w[c] \o EachOf(w, p)
  BY <1>1, EachUnfolds
<1> QED
  BY <1>1, <1>2, <1>3, <1>4

\* The units of a point that was read are the ones it was read from.
LEMMA PairIsWritten ==
  ASSUME NEW s \in Seq(CodeUnits), NEW i \in 1..Len(s), IsPair(s, i)
  PROVE  UnitsOf(PairAt(s, i)) = <<s[i], s[i + 1]>>
<1>1. i < Len(s) /\ i + 1 \in 1..Len(s) /\ IsHigh(s[i]) /\ IsLow(s[i + 1])
  BY DEF IsPair
<1>2. s[i] \in Int /\ s[i + 1] \in Int
  BY <1>1, ElementOf DEF CodeUnits
<1> DEFINE a == s[i] - 55296
           b == s[i + 1] - 56320
           c == PairAt(s, i)
<1>3. a \in Nat /\ a < 1024 /\ b \in Nat /\ b < 1024 /\ s[i] = 55296 + a /\ s[i + 1] = 56320 + b
  <2>1. s[i] >= 55296 /\ s[i] <= 56319 /\ s[i + 1] >= 56320 /\ s[i + 1] <= 57343
    BY <1>1, <1>2, HighLies, LowLies
  <2> QED
    BY <1>2, <2>1, SMT
<1>4. c = 65536 + a * 1024 + b
  BY SMT DEF PairAt
<1> HIDE DEF a, b, c
<1>5. (c - 65536) \div 1024 = a /\ (c - 65536) % 1024 = b /\ ~(c < 65536)
  BY <1>3, <1>4, SMT
<1>6. UnitsOf(c) = <<55296 + a, 56320 + b>>
  BY <1>5, SMT DEF UnitsOf
<1> QED
  BY <1>3, <1>6 DEF c

\* Writing what was read of a string gives the string.
LEMMA ReadIsWritten ==
  ASSUME NEW s \in Seq(CodeUnits)
  PROVE  Units(CodePoints(s)) = s
<1> DEFINE L == Len(s)
<1>0. L \in Nat /\ \A i \in 1..L : s[i] \in CodeUnits
  BY ElementOf
<1>1. PICK f : ReadsText(f, 1, s) /\ CodePoints(s) = f[1]
  BY CodePointsAre
<1>2. \A i \in 1..(L + 2) : f[i] = TextAt(f, i, s) /\ f[i] \in Seq(Points)
  BY <1>1, ReadsTextAt, PointsRead
<1> DEFINE From(i) == SubSeq(s, i, L)
           S == {n \in Nat : n <= L + 1 => Units(f[L + 2 - n]) = From(L + 2 - n)}
<1>3. ASSUME NEW i \in 1..L PROVE From(i) = <<s[i]>> \o From(i + 1)
  OBVIOUS
<1>4. ASSUME NEW n \in Nat, \A m \in 0..(n - 1) : m \in S PROVE n \in S
  <2> DEFINE i == L + 2 - n
  <2> SUFFICES ASSUME n <= L + 1 PROVE Units(f[i]) = From(i)
    OBVIOUS
  <2>1. i \in 1..(L + 2)
    BY <1>0
  <2>2. CASE i > L
    <3>1. f[i] = <<>>
      BY <1>2, <2>1, <2>2 DEF TextAt
    <3>2. From(i) = <<>>
      BY <1>0, <2>1, <2>2
    <3> HIDE DEF i
    <3> QED
      BY <3>1, <3>2, UnitsUnfold
  <2>3. CASE ~(i > L)
    <3>1. /\ n - 1 \in 0..(n - 1) /\ n - 1 <= L + 1 /\ L + 2 - (n - 1) = i + 1
          /\ n - 2 \in 0..(n - 1) /\ n - 2 <= L + 1 /\ L + 2 - (n - 2) = i + 2
          /\ i \in 1..L /\ i + 1 \in 1..(L + 2) /\ i + 2 \in 1..(L + 2)
      BY <1>0, <2>3
    <3>2. Units(f[i + 1]) = From(i + 1) /\ Units(f[i + 2]) = From(i + 2)
      <4>1. n - 1 \in S /\ n - 2 \in S
        BY <1>4, <3>1
      <4> HIDE DEF i, From
      <4> QED
        BY <3>1, <4>1
    <3> HIDE DEF i
    <3>3. s[i] \in CodeUnits /\ s[i] \in Points /\ From(i) = <<s[i]>> \o From(i + 1)
      <4>1. s[i] \in CodeUnits
        BY <1>0, <3>1
      <4>2. s[i] \in Points
        BY <4>1, SMT DEF CodeUnits, Points
      <4> QED
        BY <1>3, <3>1, <4>1, <4>2
    <3>4. f[i + 1] \in Seq(Points) /\ f[i + 2] \in Seq(Points) /\ f[i] = TextAt(f, i, s)
      BY <1>2, <2>1, <3>1
    <3>5. CASE IsPair(s, i)
      <4>1. PairAt(s, i) \in Points /\ i < L
        BY <3>1, <3>5, PairIsPoint
      <4>2. f[i] = <<PairAt(s, i)>> \o f[i + 2]
        BY <2>3, <3>4, <3>5 DEF TextAt
      <4>3. Units(f[i]) = <<s[i], s[i + 1]>> \o From(i + 2)
        <5> HIDE DEF From
        <5> QED
          BY <3>1, <3>2, <3>4, <3>5, <4>1, <4>2, UnitsUnfold, PairIsWritten
      <4>4. i + 1 \in 1..L /\ (i + 1) + 1 = i + 2
        BY <1>0, <3>1, <4>1
      <4>5. From(i + 1) = <<s[i + 1]>> \o From(i + 2)
        BY <1>3, <4>4
      <4>6. From(i + 2) \in Seq(CodeUnits) /\ s[i + 1] \in CodeUnits
        BY <1>0, <3>1, <4>4
      <4> HIDE DEF From
      <4>7. <<s[i]>> \o (<<s[i + 1]>> \o From(i + 2)) = <<s[i], s[i + 1]>> \o From(i + 2)
        BY <3>3, <4>6
      <4> QED
        BY <3>3, <4>3, <4>5, <4>7
    <3>6. CASE ~IsPair(s, i)
      <4>1. f[i] = <<s[i]>> \o f[i + 1]
        BY <2>3, <3>4, <3>6 DEF TextAt
      <4>2. UnitsOf(s[i]) = <<s[i]>>
        <5>1. s[i] < 65536
          BY <3>3, SMT DEF CodeUnits
        <5> QED
          BY <5>1, SMT DEF UnitsOf
      <4> HIDE DEF From
      <4> QED
        BY <3>2, <3>3, <3>4, <4>1, <4>2, UnitsUnfold
    <3> QED
      BY <3>5, <3>6
  <2> QED
    BY <2>2, <2>3
<1>5. Nat \subseteq S
  <2> HIDE DEF S
  <2> QED
    BY <1>4, Induction
<1>6. L + 1 \in S /\ L + 1 <= L + 1 /\ L + 2 - (L + 1) = 1
  BY <1>0, <1>5
<1>7. Units(f[1]) = From(1)
  BY <1>6
<1>8. From(1) = s
  BY <1>0
<1> QED
  BY <1>1, <1>7, <1>8

\* Text without lone halves of pairs, and without a mark at its beginning, is
\* what every reader makes of the bytes that it is encoded as.
THEOREM TextIsKept ==
  ASSUME NEW s \in Seq(CodeUnits), \A k \in DOMAIN CodePoints(s) : ~IsHalf(CodePoints(s)[k]),
         s # <<>> => s[1] # Mark
  PROVE  Utf8Decode(Utf8Encode(s)) = s /\ WtfEncode(s) = Utf8Encode(s)
<1> DEFINE p == CodePoints(s)
<1>1. PICK f : ReadsText(f, 1, s) /\ p = f[1]
  BY CodePointsAre
<1>2. 1 \in 1..(Len(s) + 2)
  BY ElementOf
<1>3. p \in Seq(Points) /\ p = TextAt(f, 1, s)
  BY <1>1, <1>2, ReadsTextAt, PointsRead
<1>4. Replaced(p) = p
  <2>1. Replaced(p) = [k \in DOMAIN p |-> p[k]]
    BY DEF Replaced
  <2> HIDE DEF p
  <2> QED
    BY <1>3, <2>1
<1>5. DecodedPoints(Utf8Encode(s)) = p
  BY <1>4, TextIsRead
<1>6. p # <<>> => p[1] # Mark
  <2> SUFFICES ASSUME p # <<>> PROVE p[1] # Mark
    OBVIOUS
  <2>1. Len(s) \in Nat /\ ~(1 > Len(s)) /\ 1 \in 1..Len(s)
    <3>1. Len(s) \in Nat
      BY ElementOf
    <3>2. ~(1 > Len(s))
      BY <1>3 DEF TextAt
    <3> QED
      BY <3>1, <3>2
  <2>2. f[1 + 1] \in Seq(Points) /\ f[1 + 2] \in Seq(Points)
    <3>1. 1 + 1 \in 1..(Len(s) + 2) /\ 1 + 2 \in 1..(Len(s) + 2)
      BY <2>1
    <3> QED
      BY <1>1, <3>1, PointsRead
  <2>3. CASE IsPair(s, 1)
    <3>1. PairAt(s, 1) \in Points /\ PairAt(s, 1) >= 65536
      BY <2>1, <2>3, PairIsPoint
    <3>2. p = <<PairAt(s, 1)>> \o f[1 + 2]
      BY <1>3, <2>1, <2>3 DEF TextAt
    <3> HIDE DEF p
    <3>3. p[1] = PairAt(s, 1)
      BY <2>2, <3>1, <3>2, FirstApplied
    <3> QED
      BY <3>1, <3>3, SMT DEF Mark, Points
  <2>4. CASE ~IsPair(s, 1)
    <3>1. s[1] \in CodeUnits /\ s[1] \in Points
      <4>1. s[1] \in CodeUnits
        BY <2>1, ElementOf
      <4> QED
        BY <4>1, SMT DEF CodeUnits, Points
    <3>2. p = <<s[1]>> \o f[1 + 1]
      BY <1>3, <2>1, <2>4 DEF TextAt
    <3> HIDE DEF p
    <3>3. p[1] = s[1]
      BY <2>2, <3>1, <3>2, FirstApplied
    <3>4. s # <<>>
      BY <2>1
    <3> QED
      BY <3>3, <3>4
  <2> QED
    BY <2>3, <2>4
<1>7. Utf8Decode(Utf8Encode(s)) = Units(p)
  BY <1>5, <1>6 DEF Utf8Decode, Units
<1>8. WtfEncode(s) = Utf8Encode(s)
  BY <1>4 DEF WtfEncode, Utf8Encode
<1> QED
  BY <1>7, <1>8, ReadIsWritten

---------------------------------------------------------------------------
(* Tables *)

\* What is computed a step at a time has a table of its steps.
Steps(f, x, n, g) == f[0] = x /\ \A i \in 1..n : f[i] = g[i][f[i - 1]]

\* There is such a table.
LEMMA TableExists ==
  ASSUME NEW S, NEW x \in S, NEW n \in Nat, NEW g \in [1..n -> [S -> S]]
  PROVE  \E f \in [0..n -> S] : Steps(f, x, n, g)
<1> USE DEF Steps
<1> DEFINE Is(f, k) == f \in [0..k -> S] /\ f[0] = x /\ \A i \in 1..k : f[i] = g[i][f[i - 1]]
           K == {k \in Nat : k <= n => \E f : Is(f, k)}
<1> SUFFICES n \in K
  OBVIOUS
<1>1. ASSUME NEW k \in Nat, \A m \in 0..(k - 1) : m \in K PROVE k \in K
  <2> SUFFICES ASSUME k <= n PROVE \E f : Is(f, k)
    OBVIOUS
  <2>1. CASE k = 0
    <3> DEFINE f == [i \in 0..k |-> x]
    <3>1. Is(f, k)
      BY <2>1
    <3> QED
      BY <3>1
  <2>2. CASE k # 0
    <3>1. k - 1 \in 0..(k - 1) /\ k - 1 \in Nat /\ k - 1 <= n /\ k \in 1..n
      BY <2>2
    <3>2. PICK f : Is(f, k - 1)
      BY <1>1, <3>1
    <3> DEFINE last == g[k][f[k - 1]]
               h == [i \in 0..k |-> IF i = k THEN last ELSE f[i]]
    <3>3. f[k - 1] \in S /\ last \in S
      BY <3>1, <3>2
    <3>4. h \in [0..k -> S] /\ h[0] = x
      <4>1. \A i \in 0..k : i # k => i \in 0..(k - 1)
        BY <3>1
      <4> HIDE DEF last
      <4> QED
        BY <2>2, <3>1, <3>2, <3>3, <4>1
    <3>5. ASSUME NEW i \in 1..k PROVE h[i] = g[i][h[i - 1]]
      <4>1. i - 1 \in 0..k /\ i \in 0..k /\ i - 1 # k
        OBVIOUS
      <4>2. h[i - 1] = f[i - 1]
        BY <4>1
      <4>3. CASE i = k
        BY <4>1, <4>2, <4>3
      <4>4. CASE i # k
        <5>1. i \in 1..(k - 1)
          BY <4>4
        <5>2. h[i] = f[i]
          BY <4>1, <4>4
        <5> QED
          BY <3>2, <4>2, <5>1, <5>2
      <4> QED
        BY <4>3, <4>4
    <3> QED
      BY <3>4, <3>5
  <2> QED
    BY <2>1, <2>2
<1> HIDE DEF K
<1> QED
  BY <1>1, Induction

\* What each step keeps is kept throughout.
LEMMA Stays ==
  ASSUME NEW S, NEW n \in Nat, NEW r, r[0] \in S, \A i \in 1..n : r[i - 1] \in S => r[i] \in S
  PROVE  \A i \in 0..n : r[i] \in S
<1> DEFINE K == {k \in Nat : k <= n => r[k] \in S}
<1>1. ASSUME NEW k \in Nat, \A m \in 0..(k - 1) : m \in K PROVE k \in K
  <2>1. CASE k = 0
    BY <2>1
  <2>2. CASE k # 0 /\ k <= n
    <3>1. k - 1 \in 0..(k - 1) /\ k - 1 <= n /\ k \in 1..n
      BY <2>2
    <3>2. r[k - 1] \in S
      BY <1>1, <3>1
    <3> QED
      BY <3>1, <3>2
  <2> QED
    BY <2>1, <2>2
<1>2. Nat \subseteq K
  <2> HIDE DEF K
  <2> QED
    BY <1>1, Induction
<1> QED
  BY <1>2

---------------------------------------------------------------------------
(* Text that breaks off *)

\* What holds of the empty sequence, and of a longer one if of the rest of it,
\* holds of every sequence.
LEMMA FromTheEnd ==
  ASSUME NEW S, NEW K, <<>> \in K,
         \A q \in Seq(S), c \in S : q \in K => <<c>> \o q \in K
  PROVE  Seq(S) \subseteq K
<1> DEFINE N == {n \in Nat : \A p \in Seq(S) : Len(p) = n => p \in K}
<1>1. ASSUME NEW n \in Nat, \A m \in 0..(n - 1) : m \in N PROVE n \in N
  <2> SUFFICES ASSUME NEW p \in Seq(S), Len(p) = n PROVE p \in K
    OBVIOUS
  <2>1. CASE n = 0
    BY <2>1
  <2>2. CASE n # 0
    <3>1. PICK c \in S, q \in Seq(S) : p = <<c>> \o q /\ Len(q) = n - 1
      BY <2>2, HeadAndRest
    <3>2. n - 1 \in N
      <4>1. n - 1 \in 0..(n - 1)
        BY <2>2
      <4> HIDE DEF N
      <4> QED
        BY <1>1, <4>1
    <3> QED
      BY <3>1, <3>2
  <2> QED
    BY <2>1, <2>2
<1>2. Nat \subseteq N
  <2> HIDE DEF N
  <2> QED
    BY <1>1, Induction
<1>3. \A p \in Seq(S) : Len(p) \in N
  BY <1>2, ElementOf
<1> QED
  BY <1>3

\* As many of the announced bytes follow as continue what the lead began.
LEMMA FollowStops ==
  ASSUME NEW bytes, NEW i, NEW need \in Nat, Lead(bytes[i]).need = need
  PROVE  /\ Follow(bytes, i) \in 0..need
         /\ \A k \in 1..Follow(bytes, i) : Follows(bytes, i, k)
         /\ Follow(bytes, i) < need => ~Follows(bytes, i, Follow(bytes, i) + 1)
<1> DEFINE P(n) == (\A k \in 1..n : Follows(bytes, i, k)) /\ (n < need => ~Follows(bytes, i, n + 1))
           Ends == {n \in 0..need : n = need \/ ~Follows(bytes, i, n + 1)}
<1>1. Follow(bytes, i) = CHOOSE n \in 0..need : P(n)
  BY DEF Follow, Follows
<1>2. \E n \in 0..need : P(n)
  <2>1. Ends \subseteq Nat /\ need \in Ends
    OBVIOUS
  <2>2. PICK n \in Ends : \A m \in Ends : n <= m
    BY <2>1, LeastNumber
  <2>3. ASSUME NEW k \in 1..n PROVE Follows(bytes, i, k)
    <3>1. k - 1 \in 0..need /\ k - 1 # need /\ ~(n <= k - 1) /\ (k - 1) + 1 = k
      BY <2>2
    <3> QED
      BY <2>2, <3>1
  <2> QED
    BY <2>2, <2>3
<1>3. Follow(bytes, i) \in 0..need /\ P(Follow(bytes, i))
  <2> HIDE DEF P
  <2> QED
    BY <1>1, <1>2
<1> QED
  BY <1>3

\* No byte but a lead announces any.
LEMMA LeadElse ==
  ASSUME NEW b \in Int, b >= 128,
         ~(b >= 194 /\ b <= 223), ~(b >= 224 /\ b <= 239), ~(b >= 240 /\ b <= 244)
  PROVE  Lead(b).need = 0 /\ Lead(b).bits = Replacement
<1> DEFINE two == b \in 194..223
           three == b \in 224..239
           four == b \in 240..244
<1>1. ~two /\ ~three /\ ~four
  BY LeadsLie
<1>2. Lead(b) =
        IF two THEN [need |-> 1, low |-> 128, high |-> 191, bits |-> b - 192]
        ELSE IF three
             THEN [need |-> 2, low |-> IF b = 224 THEN 160 ELSE 128,
                   high |-> IF b = 237 THEN 159 ELSE 191, bits |-> b - 224]
        ELSE IF four
             THEN [need |-> 3, low |-> IF b = 240 THEN 144 ELSE 128,
                   high |-> IF b = 244 THEN 143 ELSE 191, bits |-> b - 240]
        ELSE [need |-> 0, low |-> 0, high |-> 0, bits |-> IF b < 128 THEN b ELSE Replacement]
  BY DEF Lead
<1> HIDE DEF two, three, four
<1>3. Lead(b) = [need |-> 0, low |-> 0, high |-> 0, bits |-> IF b < 128 THEN b ELSE Replacement]
  BY <1>1, <1>2, Zenon
<1>4. ~(b < 128)
  OBVIOUS
<1> QED
  BY <1>3, <1>4

\* A lead that is not followed as it says is one U+FFFD.
LEMMA BrokenOff ==
  ASSUME NEW bytes, NEW i, Follow(bytes, i) < Lead(bytes[i]).need
  PROVE  PointRead(bytes, i) = Replacement
BY DEF PointRead

\* What is read anywhere is a code point, and one of two code units only if it
\* takes four bytes.
LEMMA PointIsPoint ==
  ASSUME NEW bytes \in Seq(0..255), NEW i \in 1..Len(bytes)
  PROVE  /\ PointRead(bytes, i) \in Points
         /\ PointRead(bytes, i) >= 65536 => Follow(bytes, i) >= 1
<1> DEFINE b == bytes[i]
           n == Follow(bytes, i)
           need == Lead(b).need
           x1 == bytes[i + 1]
           x2 == bytes[i + 2]
           x3 == bytes[i + 3]
<1>0. Len(bytes) \in Nat /\ \A k \in 1..Len(bytes) : bytes[k] \in Int /\ bytes[k] >= 0 /\ bytes[k] <= 255
  <2>1. Len(bytes) \in Nat /\ \A k \in 1..Len(bytes) : bytes[k] \in 0..255
    BY ElementOf
  <2>2. \A v \in 0..255 : v \in Int /\ v >= 0 /\ v <= 255
    OBVIOUS
  <2> QED
    BY <2>1, <2>2
<1>1. b \in Int /\ b >= 0 /\ b <= 255
  BY <1>0
<1> HIDE DEF b
<1>2. Replacement \in Points /\ Replacement \in Int /\ Replacement < 65536
  BY SMT DEF Replacement, Points
<1>3. \/ need = 0 /\ Lead(b).bits \in Nat /\ Lead(b).bits < 65536
      \/ need = 1 /\ Lead(b).bits \in Nat /\ Lead(b).bits <= 31
      \/ need = 2 /\ Lead(b).bits \in Nat /\ Lead(b).bits <= 15
      \/ need = 3 /\ Lead(b).bits \in Nat /\ Lead(b).bits <= 3
      \/ need = 3 /\ Lead(b).bits = 4 /\ Lead(b).low = 128 /\ Lead(b).high = 143
  <2>1. CASE b < 128
    BY <1>1, <2>1, LeadIs, SMT
  <2>2. CASE b >= 194 /\ b <= 223
    BY <1>1, <2>2, LeadIs, SMT
  <2>3. CASE b >= 224 /\ b <= 239
    BY <1>1, <2>3, LeadIs, SMT
  <2>4. CASE b >= 240 /\ b <= 244
    <3>1. /\ need = 3 /\ Lead(b).bits = b - 240
          /\ Lead(b).low = (IF b = 240 THEN 144 ELSE 128)
          /\ Lead(b).high = (IF b = 244 THEN 143 ELSE 191)
      BY <1>1, <2>4, LeadIs
    <3> HIDE DEF need
    <3> QED
      BY <1>1, <2>4, <3>1, SMT
  <2>5. CASE b >= 128 /\ ~(b >= 194 /\ b <= 223) /\ ~(b >= 224 /\ b <= 239) /\ ~(b >= 240 /\ b <= 244)
    <3>1. need = 0 /\ Lead(b).bits = Replacement
      BY <1>1, <2>5, LeadElse
    <3>2. Replacement \in Nat
      BY SMT DEF Replacement
    <3> HIDE DEF need
    <3> QED
      BY <1>2, <3>1, <3>2
  <2> HIDE DEF need
  <2> QED
    BY <1>1, <2>1, <2>2, <2>3, <2>4, <2>5, SMT
<1>4. need \in 0..3
  <2> HIDE DEF need
  <2> QED
    BY <1>3
<1>5. /\ n \in 0..need
      /\ \A k \in 1..n : Follows(bytes, i, k)
  <2>1. Lead(bytes[i]).need = need /\ need \in Nat
    BY <1>4 DEF b
  <2> HIDE DEF need
  <2> QED
    BY <2>1, FollowStops
<1>6. CASE n < need
  <2>1. PointRead(bytes, i) = Replacement
    <3>1. Follow(bytes, i) < Lead(bytes[i]).need
      BY <1>6 DEF b
    <3> QED
      BY <3>1, BrokenOff
  <2>2. ~(Replacement >= 65536)
    BY <1>2
  <2> QED
    BY <1>2, <2>1, <2>2
<1>7. CASE ~(n < need)
  <2>1. n = need
    <3> HIDE DEF n, need
    <3> QED
      BY <1>4, <1>5, <1>7
  <2>2. \A k \in 1..need : Follows(bytes, i, k)
    BY <1>5, <2>1
  <2>3. \A k \in 1..need : bytes[i + k] \in Int /\ bytes[i + k] >= 0 /\ bytes[i + k] <= 255
    <3> TAKE k \in 1..need
    <3>1. i + k <= Len(bytes)
      BY <2>2 DEF Follows
    <3>2. i + k \in 1..Len(bytes)
      <4>1. k \in Nat
        BY <1>4
      <4> QED
        BY <1>0, <3>1, <4>1
    <3> QED
      BY <1>0, <3>2
  <2> DEFINE b0 == Lead(b).bits
             b1 == 64 * b0 + (x1 % 64)
             b2 == 64 * b1 + (x2 % 64)
             b3 == 64 * b2 + (x3 % 64)
  <2>4. PointRead(bytes, i) = IF need = 0 THEN b0 ELSE IF need = 1 THEN b1
                              ELSE IF need = 2 THEN b2 ELSE b3
    <3>1. need \in 0..3 /\ Lead(bytes[i]).need = need /\ Follow(bytes, i) = need
      BY <1>4, <2>1 DEF b
    <3>2. b0 = Lead(bytes[i]).bits
      BY DEF b
    <3> HIDE DEF need, b0
    <3> QED
      BY <3>1, <3>2, PointReadIs
  <2> HIDE DEF x1, x2, x3, b0
  <2>5. CASE need = 0
    <3>1. PointRead(bytes, i) = b0 /\ b0 \in Nat /\ b0 < 65536
      BY <1>3, <2>4, <2>5 DEF b0
    <3> HIDE DEF need
    <3> QED
      BY <3>1, SMT DEF Points
  <2>6. CASE need = 1
    <3>1. PointRead(bytes, i) = b1 /\ b0 \in Nat /\ b0 <= 31 /\ x1 \in Int
      BY <1>3, <2>3, <2>4, <2>6 DEF b0, x1
    <3>2. b1 \in Nat /\ b1 < 65536
      BY <3>1, SMT
    <3> HIDE DEF need, b1
    <3> QED
      BY <3>1, <3>2, SMT DEF Points
  <2>7. CASE need = 2
    <3>1. PointRead(bytes, i) = b2 /\ b0 \in Nat /\ b0 <= 15 /\ x1 \in Int /\ x2 \in Int
      BY <1>3, <2>3, <2>4, <2>7 DEF b0, x1, x2
    <3>2. b1 \in Nat /\ b1 < 1024
      BY <3>1, SMT
    <3> HIDE DEF b1
    <3>3. b2 \in Nat /\ b2 < 65536
      BY <3>1, <3>2, SMT
    <3> HIDE DEF need, b2
    <3> QED
      BY <3>1, <3>3, SMT DEF Points
  <2>8. CASE need = 3
    <3>1. PointRead(bytes, i) = b3 /\ b0 \in Nat /\ x1 \in Int /\ x2 \in Int /\ x3 \in Int
      <4>1. PointRead(bytes, i) = b3
        BY <2>4, <2>8
      <4>2. x1 \in Int /\ x2 \in Int /\ x3 \in Int
        BY <2>3, <2>8 DEF x1, x2, x3
      <4>3. b0 \in Nat
        BY <1>3 DEF b0
      <4> QED
        BY <4>1, <4>2, <4>3
    <3>2. b1 \in Nat /\ b1 < 272
      <4>1. CASE b0 <= 3
        BY <3>1, <4>1, SMT
      <4>2. CASE ~(b0 <= 3)
        <5>1. b0 = 4 /\ Lead(b).low = 128 /\ Lead(b).high = 143
          BY <1>3, <2>8, <4>2, SMT DEF b0
        <5>2. x1 \in 128..143
          <6>1. Follows(bytes, i, 1)
            BY <2>2, <2>8
          <6> QED
            BY <5>1, <6>1 DEF Follows, x1, b
        <5>3. x1 % 64 <= 15 /\ x1 % 64 >= 0 /\ x1 % 64 \in Int
          <6>1. x1 \in Int /\ x1 >= 128 /\ x1 <= 143
            BY <5>2
          <6> QED
            BY <6>1, SMT
        <5> QED
          BY <5>1, <5>3, SMT
      <4> QED
        BY <4>1, <4>2
    <3> HIDE DEF b1
    <3>3. b2 \in Nat /\ b2 < 17408
      BY <3>1, <3>2, SMT
    <3> HIDE DEF b2
    <3>4. b3 \in Nat /\ b3 < 1114112
      BY <3>1, <3>3, SMT
    <3> HIDE DEF b3
    <3>5. n >= 1
      BY <2>1, <2>8
    <3> QED
      BY <3>1, <3>4, <3>5, SMT DEF Points
  <2> QED
    BY <1>4, <2>5, <2>6, <2>7, <2>8
<1> QED
  BY <1>6, <1>7

\* A byte order mark is dropped.
Unmarked(p) == IF p # <<>> /\ p[1] = Mark THEN Tail(p) ELSE p

\* utf8Decode() in its two parts.
LEMMA DecodeIs == \A bytes : Utf8Decode(bytes) = Units(Unmarked(DecodedPoints(bytes)))
BY DEF Utf8Decode, Units, Unmarked

\* Only the first point counts as a mark.
LEMMA UnmarkedIs ==
  ASSUME NEW S
  PROVE  /\ Unmarked(<<>>) = <<>>
         /\ \A p \in Seq(S) : Unmarked(p) \in Seq(S)
         /\ \A p \in Seq(S), c \in S : Unmarked(<<c>> \o p) = IF c = Mark THEN p ELSE <<c>> \o p
<1>1. Unmarked(<<>>) = <<>>
  BY DEF Unmarked
<1>2. ASSUME NEW p \in Seq(S) PROVE Unmarked(p) \in Seq(S)
  BY DEF Unmarked
<1>3. ASSUME NEW p \in Seq(S), NEW c \in S
      PROVE  Unmarked(<<c>> \o p) = IF c = Mark THEN p ELSE <<c>> \o p
  <2> DEFINE t == <<c>> \o p
  <2>1. t \in Seq(S) /\ t # <<>> /\ t[1] = c /\ Tail(t) = p
    OBVIOUS
  <2> HIDE DEF t
  <2> QED
    BY <2>1 DEF Unmarked, t
<1> QED
  BY <1>1, <1>2, <1>3

\* A code point takes a code unit, or two.
LEMMA UnitsTake ==
  ASSUME NEW c \in Points
  PROVE  Len(UnitsOf(c)) = IF c < 65536 THEN 1 ELSE 2
<1>1. CASE c < 65536
  <2>1. UnitsOf(c) = <<c>>
    BY <1>1, SMT DEF UnitsOf
  <2> QED
    BY <1>1, <2>1
<1>2. CASE ~(c < 65536)
  <2> DEFINE high == 55296 + (c - 65536) \div 1024
             low == 56320 + ((c - 65536) % 1024)
  <2>1. UnitsOf(c) = <<high, low>>
    BY <1>2, SMT DEF UnitsOf
  <2> HIDE DEF high, low
  <2> QED
    BY <1>2, <2>1
<1> QED
  BY <1>1, <1>2

\* What points come to in code units, the first apart.
LEMMA UnitsLength ==
  ASSUME NEW p \in Seq(Points), NEW c \in Points
  PROVE  /\ Len(Units(p)) \in Nat
         /\ Len(Units(<<c>> \o p)) = (IF c < 65536 THEN 1 ELSE 2) + Len(Units(p))
<1>1. Units(p) \in Seq(CodeUnits) /\ UnitsOf(c) \in Seq(CodeUnits)
  <2>1. Units(<<c>>) = UnitsOf(c)
    <3>1. <<>> \in Seq(Points) /\ <<c>> \o <<>> = <<c>> /\ <<c>> \in Seq(Points)
      OBVIOUS
    <3>2. Units(<<c>>) = UnitsOf(c) \o Units(<<>>) /\ Units(<<>>) = <<>>
      BY <3>1, UnitsUnfold
    <3>3. UnitsOf(c) \o <<>> = UnitsOf(c)
      <4>1. CASE c < 65536
        <5>1. UnitsOf(c) = <<c>>
          BY <4>1, SMT DEF UnitsOf
        <5> QED
          BY <5>1
      <4>2. CASE ~(c < 65536)
        <5> DEFINE high == 55296 + (c - 65536) \div 1024
                   low == 56320 + ((c - 65536) % 1024)
        <5>1. UnitsOf(c) = <<high, low>>
          BY <4>2, SMT DEF UnitsOf
        <5> HIDE DEF high, low
        <5> QED
          BY <5>1
      <4> QED
        BY <4>1, <4>2
    <3> QED
      BY <3>2, <3>3
  <2>2. <<c>> \in Seq(Points)
    OBVIOUS
  <2> QED
    BY <2>1, <2>2, UnitsUnfold
<1>2. Units(<<c>> \o p) = UnitsOf(c) \o Units(p)
  BY UnitsUnfold
<1>3. Len(Units(<<c>> \o p)) = Len(UnitsOf(c)) + Len(Units(p))
  BY <1>1, <1>2, Joined
<1>4. Len(Units(p)) \in Nat
  BY <1>1, ElementOf
<1> DEFINE k == IF c < 65536 THEN 1 ELSE 2
<1>5. Len(UnitsOf(c)) = k
  BY UnitsTake
<1> HIDE DEF k
<1>6. Len(Units(<<c>> \o p)) = k + Len(Units(p))
  BY <1>3, <1>5
<1> QED
  BY <1>4, <1>6 DEF k

\* utf8Decode(): however bytes are read, well formed or not, the text is of code
\* points, and has no more code units than there are bytes.
THEOREM DecodedIsShorter ==
  ASSUME NEW bytes \in Seq(0..255)
  PROVE  /\ Utf8Decode(bytes) \in Seq(CodeUnits)
         /\ Len(Utf8Decode(bytes)) <= Len(bytes)
         /\ DecodedPoints(bytes) \in Seq(Points)
<1> DEFINE L == Len(bytes)
<1>1. L \in Nat
  BY ElementOf
<1>2. PICK f : Decodes(f, 1, bytes) /\ DecodedPoints(bytes) = f[1]
  BY DecodedPointsAre
<1>3. \A i \in 1..(L + 1) : f[i] = DecodeAt(f, i, bytes)
  BY <1>2, DecodesAt
<1> DEFINE Good(i) == f[i] \in Seq(Points) /\ Len(Units(f[i])) <= L + 1 - i
           N == {n \in Nat : n <= L => Good(L + 1 - n)}
<1>4. ASSUME NEW n \in Nat, \A m \in 0..(n - 1) : m \in N PROVE n \in N
  <2> DEFINE i == L + 1 - n
  <2> SUFFICES ASSUME n <= L PROVE Good(i)
    OBVIOUS
  <2>0. i \in 1..(L + 1) /\ i \in Nat
    BY <1>1
  <2>1. CASE i > L
    <3>0. L + 1 - i = 0
      BY <1>1, <2>0, <2>1
    <3> HIDE DEF i
    <3>1. f[i] = <<>>
      BY <1>3, <2>0, <2>1 DEF DecodeAt
    <3>2. Units(<<>>) = <<>> /\ Len(<<>>) = 0 /\ <<>> \in Seq(Points)
      BY UnitsUnfold
    <3> QED
      BY <3>0, <3>1, <3>2
  <2>2. CASE ~(i > L)
    <3> DEFINE w == Follow(bytes, i)
               c == PointRead(bytes, i)
               j == i + w + 1
    <3>0. i \in 1..L
      BY <1>1, <2>0, <2>2
    <3>1. w \in Nat /\ i + w <= L
      <4> HIDE DEF i
      <4> QED
        BY <3>0, FollowLies
    <3>2. c \in Points /\ (c >= 65536 => w >= 1)
      <4> HIDE DEF i
      <4> QED
        BY <3>0, PointIsPoint
    <3>3. f[i] = <<c>> \o f[j]
      BY <1>3, <2>0, <2>2 DEF DecodeAt
    <3> HIDE DEF w, c
    <3>4. Good(j)
      <4>1. L + 1 - j \in 0..(n - 1) /\ L + 1 - j <= L /\ L + 1 - (L + 1 - j) = j
        BY <1>1, <3>1, <2>0
      <4>2. L + 1 - j \in N
        BY <1>4, <4>1
      <4> HIDE DEF i, j
      <4> QED
        BY <4>1, <4>2
    <3>5. j \in Nat /\ j = i + w + 1
      BY <2>0, <3>1
    <3> HIDE DEF i, j
    <3>6. /\ Len(Units(f[j])) \in Nat
          /\ Len(Units(f[i])) = (IF c < 65536 THEN 1 ELSE 2) + Len(Units(f[j]))
      BY <3>2, <3>3, <3>4, UnitsLength
    <3>7. c \in Int
      BY <3>2 DEF Points
    <3>8. f[i] \in Seq(Points)
      BY <3>2, <3>3, <3>4, FirstApplied
    <3>9. Len(Units(f[i])) <= L + 1 - i
      <4> DEFINE a == Len(Units(f[i]))
                 d == Len(Units(f[j]))
      <4>1. d \in Nat /\ a = (IF c < 65536 THEN 1 ELSE 2) + d /\ d <= L + 1 - j
        BY <3>4, <3>6
      <4> HIDE DEF a, d, L
      <4>2. a <= L + 1 - i
        <5>1. CASE c < 65536
          <6>1. a = 1 + d
            BY <4>1, <5>1
          <6> QED
            BY <1>1, <2>0, <3>1, <3>5, <4>1, <6>1
        <5>2. CASE ~(c < 65536)
          <6>1. a = 2 + d /\ w >= 1
            <7>1. c >= 65536
              BY <3>7, <5>2, SMT
            <7> QED
              BY <3>2, <4>1, <5>2, <7>1
          <6> QED
            BY <1>1, <2>0, <3>1, <3>5, <4>1, <6>1
        <5> QED
          BY <5>1, <5>2
      <4> QED
        BY <4>2 DEF a
    <3> QED
      BY <3>8, <3>9
  <2> QED
    BY <2>1, <2>2
<1>5. L \in N
  <2> HIDE DEF N
  <2> QED
    BY <1>1, <1>4, Induction
<1>6. Good(1)
  <2>1. L <= L /\ L + 1 - L = 1
    BY <1>1
  <2> HIDE DEF Good
  <2> QED
    BY <1>5, <2>1
<1> DEFINE p == f[1]
<1>7. p \in Seq(Points) /\ Len(Units(p)) <= L
  BY <1>1, <1>6
<1>8. Unmarked(p) \in Seq(Points) /\ Len(Units(Unmarked(p))) <= L
  <2> HIDE DEF p, L
  <2>1. CASE Len(p) = 0
    <3>1. p = <<>>
      BY <1>7, <2>1
    <3> QED
      BY <1>7, <3>1, UnmarkedIs
  <2>2. CASE Len(p) # 0
    <3>1. PICK c \in Points, q \in Seq(Points) : p = <<c>> \o q
      BY <1>7, <2>2, HeadAndRest
    <3>2. CASE c = Mark
      <4>1. Unmarked(p) = q
        BY <3>1, <3>2, UnmarkedIs
      <4>2. Len(Units(q)) \in Nat /\ Len(Units(p)) \in Nat /\ Len(Units(q)) <= Len(Units(p))
        <5>1. Len(Units(q)) \in Nat /\ Len(Units(p)) = (IF c < 65536 THEN 1 ELSE 2) + Len(Units(q))
          BY <3>1, UnitsLength
        <5> DEFINE a == Len(Units(p))
                   d == Len(Units(q))
        <5> HIDE DEF a, d
        <5>2. d \in Nat /\ (a = 1 + d \/ a = 2 + d)
          BY <5>1 DEF a, d
        <5>3. a \in Nat /\ d <= a
          BY <5>2
        <5> QED
          BY <5>2, <5>3 DEF a, d
      <4> QED
        BY <1>1, <1>7, <4>1, <4>2
    <3>3. CASE c # Mark
      BY <1>7, <3>1, <3>3, UnmarkedIs
    <3> QED
      BY <3>2, <3>3
  <2> QED
    BY <2>1, <2>2
<1>9. Utf8Decode(bytes) = Units(Unmarked(p)) /\ DecodedPoints(bytes) = p
  BY <1>2, DecodeIs
<1> HIDE DEF p
<1> QED
  BY <1>7, <1>8, <1>9, UnitsUnfold

---------------------------------------------------------------------------
(* Text with halves of pairs *)

\* What is read of points that were encoded, and how it is written: what half of
\* a pair comes to is given.
Spread(p, lone) == FlattenSeq([k \in DOMAIN p |-> IF IsHalf(p[k]) THEN lone ELSE <<p[k]>>])
Displayed(p, lone) == FlattenSeq([k \in DOMAIN p |-> IF IsHalf(p[k]) THEN lone ELSE UnitsOf(p[k])])
Lone(many) == IF many THEN <<Replacement, Replacement, Replacement>> ELSE <<Replacement>>

\* U+FFFD is a code point of one unit, and not a mark.
LEMMA ReplacementLies ==
  Replacement \in Points /\ Replacement \in CodeUnits /\ Replacement < 65536 /\ Replacement # Mark
BY SMT DEF Replacement, Points, CodeUnits, Mark

\* What half of a pair comes to is points, and is code units.
LEMMA LoneLies ==
  ASSUME NEW many \in BOOLEAN
  PROVE  Lone(many) \in Seq(Points) /\ Lone(many) \in Seq(CodeUnits)
<1> DEFINE r == Replacement
<1>1. r \in Points /\ r \in CodeUnits
  BY ReplacementLies
<1> HIDE DEF r
<1>2. <<r, r, r>> \in Seq(Points) /\ <<r, r, r>> \in Seq(CodeUnits) /\ <<r>> \in Seq(Points) /\ <<r>> \in Seq(CodeUnits)
  BY <1>1
<1>3. Lone(many) = IF many THEN <<r, r, r>> ELSE <<r>>
  BY DEF Lone, r
<1> QED
  BY <1>2, <1>3

\* What is read, the first point apart.
LEMMA SpreadUnfolds ==
  ASSUME NEW lone \in Seq(Points)
  PROVE  /\ Spread(<<>>, lone) = <<>>
         /\ \A p \in Seq(Points) : Spread(p, lone) \in Seq(Points)
         /\ \A p \in Seq(Points), c \in Points :
              Spread(<<c>> \o p, lone) = (IF IsHalf(c) THEN lone ELSE <<c>>) \o Spread(p, lone)
<1> DEFINE w == [c \in Points |-> IF IsHalf(c) THEN lone ELSE <<c>>]
<1>1. w \in [Points -> Seq(Points)] /\ \A c \in Points : w[c] = IF IsHalf(c) THEN lone ELSE <<c>>
  OBVIOUS
<1> HIDE DEF w
<1>2. ASSUME NEW p \in Seq(Points) PROVE Spread(p, lone) = EachOf(w, p)
  <2>1. \A k \in DOMAIN p : p[k] \in Points
    BY ElementOf
  <2>2. [k \in DOMAIN p |-> IF IsHalf(p[k]) THEN lone ELSE <<p[k]>>] = [k \in DOMAIN p |-> w[p[k]]]
    BY <1>1, <2>1
  <2> QED
    BY <2>2 DEF Spread, EachOf
<1>3. <<>> \in Seq(Points) /\ \A p \in Seq(Points), c \in Points : <<c>> \o p \in Seq(Points)
  BY FirstApplied
<1>4. /\ EachOf(w, <<>>) = <<>>
      /\ \A p \in Seq(Points) : EachOf(w, p) \in Seq(Points)
      /\ \A p \in Seq(Points), c \in Points : EachOf(w, <<c>> \o p) = w[c] \o EachOf(w, p)
  <2> DEFINE P == Points
             Q == Points
  <2>1. w \in [P -> Seq(Q)]
    BY <1>1
  <2> HIDE DEF P, Q
  <2>2. /\ EachOf(w, <<>>) = <<>>
        /\ \A p \in Seq(P) : EachOf(w, p) \in Seq(Q)
        /\ \A p \in Seq(P), c \in P : EachOf(w, <<c>> \o p) = w[c] \o EachOf(w, p)
    BY <2>1, EachUnfolds, SMTT(30)
  <2> QED
    BY <2>2 DEF P, Q
<1> QED
  BY <1>1, <1>2, <1>3, <1>4

\* What is shown, the first point apart.
LEMMA DisplayedUnfolds ==
  ASSUME NEW lone \in Seq(CodeUnits)
  PROVE  /\ Displayed(<<>>, lone) = <<>>
         /\ \A p \in Seq(Points) : Displayed(p, lone) \in Seq(CodeUnits)
         /\ \A p \in Seq(Points), c \in Points :
              Displayed(<<c>> \o p, lone) = (IF IsHalf(c) THEN lone ELSE UnitsOf(c)) \o Displayed(p, lone)
<1> DEFINE w == [c \in Points |-> IF IsHalf(c) THEN lone ELSE UnitsOf(c)]
<1>0. ASSUME NEW c \in Points PROVE UnitsOf(c) \in Seq(CodeUnits)
  <2>1. CASE c < 65536
    <3>1. c \in CodeUnits
      BY <2>1, SMT DEF CodeUnits, Points
    <3>2. UnitsOf(c) = <<c>>
      BY <2>1, SMT DEF UnitsOf
    <3> QED
      BY <3>1, <3>2
  <2>2. CASE ~(c < 65536)
    <3> DEFINE high == 55296 + (c - 65536) \div 1024
               low == 56320 + ((c - 65536) % 1024)
    <3>1. high \in CodeUnits /\ low \in CodeUnits
      BY <2>2, SMT DEF CodeUnits, Points
    <3>2. UnitsOf(c) = <<high, low>>
      BY <2>2, SMT DEF UnitsOf
    <3> HIDE DEF high, low
    <3> QED
      BY <3>1, <3>2
  <2> QED
    BY <2>1, <2>2
<1>1. w \in [Points -> Seq(CodeUnits)] /\ \A c \in Points : w[c] = IF IsHalf(c) THEN lone ELSE UnitsOf(c)
  BY <1>0
<1> HIDE DEF w
<1>2. ASSUME NEW p \in Seq(Points) PROVE Displayed(p, lone) = EachOf(w, p)
  <2>1. \A k \in DOMAIN p : p[k] \in Points
    BY ElementOf
  <2>2. [k \in DOMAIN p |-> IF IsHalf(p[k]) THEN lone ELSE UnitsOf(p[k])] = [k \in DOMAIN p |-> w[p[k]]]
    BY <1>1, <2>1
  <2> QED
    BY <2>2 DEF Displayed, EachOf
<1>3. <<>> \in Seq(Points) /\ \A p \in Seq(Points), c \in Points : <<c>> \o p \in Seq(Points)
  BY FirstApplied
<1>4. /\ EachOf(w, <<>>) = <<>>
      /\ \A p \in Seq(Points) : EachOf(w, p) \in Seq(CodeUnits)
      /\ \A p \in Seq(Points), c \in Points : EachOf(w, <<c>> \o p) = w[c] \o EachOf(w, p)
  BY <1>1, EachUnfolds
<1> QED
  BY <1>1, <1>2, <1>3, <1>4

\* One at a time.
LEMMA OneByOne ==
  ASSUME NEW S, NEW r \in S, NEW p \in Seq(S)
  PROVE  /\ <<r>> \o p \in Seq(S)
         /\ <<r, r, r>> \o p = <<r>> \o (<<r>> \o (<<r>> \o p))
OBVIOUS

\* A long string's encoder reads halves as one U+FFFD before it encodes.
LEMMA ReplacedIsSpread ==
  ASSUME NEW p \in Seq(Points)
  PROVE  Replaced(p) = Spread(p, Lone(FALSE))
<1> DEFINE lone == Lone(FALSE)
           K == {q \in Seq(Points) : Replaced(q) = Spread(q, lone)}
<1>0. lone \in Seq(Points) /\ lone = <<Replacement>>
  BY LoneLies DEF Lone
<1> HIDE DEF lone
<1>1. <<>> \in K
  <2>1. Replaced(<<>>) = <<>> /\ Spread(<<>>, lone) = <<>>
    BY <1>0, SpreadUnfolds, ReplacedUnfolds
  <2> QED
    BY <2>1
<1>2. ASSUME NEW q \in Seq(Points), NEW c \in Points, q \in K
      PROVE  <<c>> \o q \in K
  <2>1. <<c>> \o q \in Seq(Points) /\ Replaced(q) = Spread(q, lone)
    BY <1>2, FirstApplied
  <2>2. Replaced(<<c>> \o q) = <<IF IsHalf(c) THEN Replacement ELSE c>> \o Replaced(q)
    BY ReplacedUnfolds
  <2>3. Spread(<<c>> \o q, lone) = (IF IsHalf(c) THEN lone ELSE <<c>>) \o Spread(q, lone)
    BY <1>0, SpreadUnfolds
  <2> QED
    BY <1>0, <2>1, <2>2, <2>3
<1> HIDE DEF K
<1>3. Seq(Points) \subseteq K
  BY <1>1, <1>2, FromTheEnd
<1> QED
  BY <1>3 DEF K, lone

\* What is read, written in code units, is what is shown.
LEMMA SpreadIsDisplayed ==
  ASSUME NEW many \in BOOLEAN, NEW p \in Seq(Points)
  PROVE  Units(Spread(p, Lone(many))) = Displayed(p, Lone(many))
<1> DEFINE lone == Lone(many)
           r == Replacement
           K == {q \in Seq(Points) : Units(Spread(q, lone)) = Displayed(q, lone)}
<1>0. /\ lone \in Seq(Points) /\ lone \in Seq(CodeUnits)
      /\ lone = IF many THEN <<r, r, r>> ELSE <<r>>
  BY LoneLies DEF Lone
<1>r. r \in Points /\ r \in CodeUnits /\ UnitsOf(r) = <<r>>
  BY ReplacementLies DEF UnitsOf
<1> HIDE DEF lone, r
<1>1. <<>> \in K
  <2>1. Spread(<<>>, lone) = <<>>
    BY <1>0, SpreadUnfolds
  <2>2. Displayed(<<>>, lone) = <<>>
    BY <1>0, DisplayedUnfolds
  <2>3. Units(<<>>) = <<>>
    BY UnitsUnfold
  <2> QED
    BY <2>1, <2>2, <2>3
<1>2. ASSUME NEW q \in Seq(Points), NEW c \in Points, q \in K
      PROVE  <<c>> \o q \in K
  <2> DEFINE t == Spread(q, lone)
             u == Displayed(q, lone)
  <2>1. <<c>> \o q \in Seq(Points) /\ Units(t) = u /\ t \in Seq(Points) /\ u \in Seq(CodeUnits)
    BY <1>0, <1>2, FirstApplied, SpreadUnfolds, DisplayedUnfolds
  <2>2. Spread(<<c>> \o q, lone) = (IF IsHalf(c) THEN lone ELSE <<c>>) \o t
    BY <1>0, SpreadUnfolds
  <2>3. Displayed(<<c>> \o q, lone) = (IF IsHalf(c) THEN lone ELSE UnitsOf(c)) \o u
    BY <1>0, DisplayedUnfolds
  <2> HIDE DEF t, u
  <2>4. \A a \in Points, v \in Seq(Points) : Units(<<a>> \o v) = UnitsOf(a) \o Units(v)
    BY UnitsUnfold
  <2>5. Units(lone \o t) = lone \o u
    <3>1. <<r>> \o t \in Seq(Points) /\ <<r>> \o (<<r>> \o t) \in Seq(Points)
      BY <1>r, <2>1, OneByOne
    <3>2. Units(<<r>> \o t) = <<r>> \o u
      BY <1>r, <2>1, <2>4
    <3>3. Units(<<r>> \o (<<r>> \o t)) = <<r>> \o (<<r>> \o u)
      BY <1>r, <2>4, <3>1, <3>2
    <3>4. Units(<<r>> \o (<<r>> \o (<<r>> \o t))) = <<r>> \o (<<r>> \o (<<r>> \o u))
      BY <1>r, <2>4, <3>1, <3>3
    <3>5. <<r, r, r>> \o t = <<r>> \o (<<r>> \o (<<r>> \o t)) /\ <<r, r, r>> \o u = <<r>> \o (<<r>> \o (<<r>> \o u))
      BY <1>r, <2>1, OneByOne
    <3> QED
      BY <1>0, <3>2, <3>4, <3>5, Zenon
  <2>6. Units(<<c>> \o t) = UnitsOf(c) \o u
    BY <2>1, <2>4
  <2>7. Units(Spread(<<c>> \o q, lone)) = Displayed(<<c>> \o q, lone)
    BY <2>2, <2>3, <2>5, <2>6, Zenon
  <2> QED
    BY <2>1, <2>7
<1> HIDE DEF K
<1>3. Seq(Points) \subseteq K
  BY <1>1, <1>2, FromTheEnd
<1> QED
  BY <1>3 DEF K, lone

\* A mark at the beginning is what was encoded, and nothing else shows as one.
LEMMA MarkIsShown ==
  ASSUME NEW many \in BOOLEAN, NEW p \in Seq(Points)
  PROVE  Unmarked(Spread(p, Lone(many))) = Spread(Unmarked(p), Lone(many))
<1> DEFINE lone == Lone(many)
           r == Replacement
<1>0. /\ lone \in Seq(Points)
      /\ lone = IF many THEN <<r, r, r>> ELSE <<r>>
  BY LoneLies DEF Lone
<1>r. r \in Points /\ r # Mark
  BY ReplacementLies
<1>m. ~IsHalf(Mark)
  <2>1. Mark \in Int /\ ~(Mark <= 57343) /\ ~(Mark <= 56319)
    BY SMT DEF Mark
  <2> QED
    BY <2>1, HighLies, LowLies DEF IsHalf
<1> HIDE DEF lone, r
<1>1. CASE Len(p) = 0
  <2>1. p = <<>>
    BY <1>1
  <2> QED
    BY <1>0, <2>1, UnmarkedIs, SpreadUnfolds DEF lone
<1>2. CASE Len(p) # 0
  <2>1. PICK c \in Points, q \in Seq(Points) : p = <<c>> \o q
    BY <1>2, HeadAndRest
  <2> DEFINE t == Spread(q, lone)
  <2>2. /\ Spread(p, lone) = (IF IsHalf(c) THEN lone ELSE <<c>>) \o t
        /\ t \in Seq(Points)
    BY <1>0, <2>1, SpreadUnfolds
  <2> HIDE DEF t
  <2>3. \A v \in Seq(Points), a \in Points : Unmarked(<<a>> \o v) = IF a = Mark THEN v ELSE <<a>> \o v
    BY UnmarkedIs
  <2>4. CASE c = Mark
    <3>1. Unmarked(p) = q /\ Spread(p, lone) = <<c>> \o t
      BY <1>m, <2>1, <2>2, <2>3, <2>4
    <3>2. Unmarked(Spread(p, lone)) = t
      BY <2>2, <2>3, <2>4, <3>1
    <3> QED
      BY <3>1, <3>2 DEF t, lone
  <2>5. CASE c # Mark
    <3>1. Unmarked(p) = p
      BY <2>1, <2>3, <2>5
    <3>2. CASE IsHalf(c)
      <4>1. <<r>> \o t \in Seq(Points) /\ <<r>> \o (<<r>> \o t) \in Seq(Points)
            /\ <<r, r, r>> \o t = <<r>> \o (<<r>> \o (<<r>> \o t))
        BY <1>r, <2>2, OneByOne
      <4>2. Spread(p, lone) = lone \o t
        BY <2>2, <3>2
      <4>3. Unmarked(<<r>> \o t) = <<r>> \o t
        BY <1>r, <2>2, <2>3
      <4>4. Unmarked(<<r>> \o (<<r>> \o (<<r>> \o t))) = <<r>> \o (<<r>> \o (<<r>> \o t))
        BY <1>r, <2>3, <4>1
      <4>5. Unmarked(lone \o t) = lone \o t
        BY <1>0, <4>1, <4>3, <4>4, Zenon
      <4> QED
        BY <3>1, <4>2, <4>5 DEF lone
    <3>3. CASE ~IsHalf(c)
      <4>1. Spread(p, lone) = <<c>> \o t
        BY <2>2, <3>3
      <4>2. Unmarked(<<c>> \o t) = <<c>> \o t
        BY <2>2, <2>3, <2>5
      <4> QED
        BY <3>1, <4>1, <4>2 DEF lone
    <3> QED
      BY <3>2, <3>3
  <2> QED
    BY <2>4, <2>5
<1> QED
  BY <1>1, <1>2, ElementOf

\* The second byte of half a pair is above those that may follow its lead.
LEMMA LowFollows ==
  ASSUME NEW x \in 128..159
  PROVE  ~(x >= 160)
BY SMT

\* The three bytes of half a pair are read one by one: the second does not
\* follow such a lead, and neither it nor the third is one.
LEMMA HalfIsRead ==
  ASSUME NEW c \in Points, IsHalf(c), NEW bytes, NEW i \in Nat, Len(bytes) \in Nat,
         \A k \in 0..2 : bytes[i + k] = Utf8Of(c)[k + 1]
  PROVE  \A k \in 0..2 : Follow(bytes, i + k) = 0 /\ PointRead(bytes, i + k) = Replacement
<1> DEFINE x0 == bytes[i]
           x1 == bytes[i + 1]
           x2 == bytes[i + 2]
<1>1. c \in Nat /\ c >= 55296 /\ c <= 57343
  <2>1. c \in Nat
    BY DEF Points
  <2>2. \/ c >= 55296 /\ c <= 56319
        \/ c >= 56320 /\ c <= 57343
    BY <2>1, HighLies, LowLies DEF IsHalf
  <2> QED
    BY <2>1, <2>2, SMT
<1>2. Utf8Of(c) = <<224 + c \div 4096, Continuation(c, 64), Continuation(c, 1)>>
  BY <1>1, SMT DEF Utf8Of
<1>3. x0 = 224 + c \div 4096 /\ x1 = Continuation(c, 64) /\ x2 = Continuation(c, 1)
  <2> DEFINE y0 == 224 + c \div 4096
             y1 == Continuation(c, 64)
             y2 == Continuation(c, 1)
             u == Utf8Of(c)
  <2>1. u = <<y0, y1, y2>>
    BY <1>2
  <2> HIDE DEF y0, y1, y2, u
  <2>2. u[1] = y0 /\ u[2] = y1 /\ u[3] = y2
    BY <2>1
  <2>3. bytes[i + 0] = u[0 + 1] /\ bytes[i + 1] = u[1 + 1] /\ bytes[i + 2] = u[2 + 1]
    BY DEF u
  <2>4. i + 0 = i /\ 0 + 1 = 1 /\ 1 + 1 = 2 /\ 2 + 1 = 3
    OBVIOUS
  <2> QED
    BY <2>2, <2>3, <2>4 DEF y0, y1, y2
<1>4. x1 \in Int /\ x2 \in Int /\ x1 = 128 + ((c \div 64) % 64) /\ x1 >= 128 /\ x1 <= 191 /\ x2 >= 128 /\ x2 <= 191
  <2>1. ASSUME NEW unit \in {1, 64}
        PROVE  /\ Continuation(c, unit) = 128 + ((c \div unit) % 64)
               /\ Continuation(c, unit) \in Int
               /\ Continuation(c, unit) >= 128 /\ Continuation(c, unit) <= 191
    BY <1>1, SMT DEF Continuation
  <2> QED
    BY <1>3, <2>1
<1>5. x0 = 237
  <2>1. c \div 4096 = 13
    BY <1>1, SMT
  <2> QED
    BY <1>3, <2>1
<1>6. x1 >= 160
  <2> DEFINE d == (c \div 64) % 64
  <2>1. d >= 32 /\ d \in Int
    BY <1>1, SMT
  <2>2. x1 = 128 + d
    BY <1>4
  <2> HIDE DEF d, x1
  <2> QED
    BY <2>1, <2>2, SMT
<1> HIDE DEF x0, x1, x2
<1>7. Lead(x0).need = 2 /\ Lead(x0).low = 128 /\ Lead(x0).high = 159
  BY <1>5, LeadIs
<1>8. Follow(bytes, i) = 0 /\ PointRead(bytes, i) = Replacement
  <2>1. Follow(bytes, i) \in 0..2 /\ \A k \in 1..Follow(bytes, i) : Follows(bytes, i, k)
    BY <1>7, FollowStops DEF x0
  <2>2. ~Follows(bytes, i, 1)
    <3>1. \A x \in 128..159 : ~(x >= 160)
      BY LowFollows
    <3>2. ~(x1 \in 128..159)
      BY <1>6, <3>1
    <3> QED
      BY <1>7, <3>2 DEF Follows, x0, x1
  <2>3. Follow(bytes, i) = 0
    BY <2>1, <2>2
  <2>4. Follow(bytes, i) < Lead(bytes[i]).need
    BY <1>7, <2>3 DEF x0
  <2> QED
    BY <2>3, <2>4, BrokenOff
<1>9. ASSUME NEW j, bytes[j] \in Int, bytes[j] >= 128, bytes[j] <= 191
      PROVE  Follow(bytes, j) = 0 /\ PointRead(bytes, j) = Replacement
  <2>1. Lead(bytes[j]).need = 0 /\ Lead(bytes[j]).bits = Replacement
    BY <1>9, LeadElse
  <2>2. Follow(bytes, j) \in 0..0
    BY <2>1, FollowStops
  <2>3. Follow(bytes, j) = 0
    BY <2>2
  <2>4. 0 \in 0..3
    OBVIOUS
  <2>5. PointRead(bytes, j) = Lead(bytes[j]).bits
    BY <2>1, <2>3, <2>4, PointReadIs
  <2> QED
    BY <2>1, <2>3, <2>5
<1>10. Follow(bytes, i + 1) = 0 /\ PointRead(bytes, i + 1) = Replacement
  BY <1>4, <1>9 DEF x1
<1>11. Follow(bytes, i + 2) = 0 /\ PointRead(bytes, i + 2) = Replacement
  BY <1>4, <1>9 DEF x2
<1>12. \A k \in 0..2 : k = 0 \/ k = 1 \/ k = 2
  OBVIOUS
<1>13. i + 0 = i
  OBVIOUS
<1> QED
  BY <1>8, <1>10, <1>11, <1>12, <1>13

\* Points that were encoded, halves of pairs among them, are read as they show,
\* wherever they stand at the end of the bytes.
EndIsShown(f, bytes) ==
    \A p \in Seq(Points), before \in Seq(0..255) :
        bytes = before \o Encoded(p) => f[Len(before) + 1] = Spread(p, Lone(TRUE))

LEMMA EncodedIsShown ==
  ASSUME NEW bytes \in Seq(0..255), NEW f, Decodes(f, 1, bytes)
  PROVE  EndIsShown(f, bytes)
<1> DEFINE B == 0..255
           L == Len(bytes)
           lone == Lone(TRUE)
           r == Replacement
           K == {p \in Seq(Points) : \A before \in Seq(B) :
                   bytes = before \o Encoded(p) => f[Len(before) + 1] = Spread(p, lone)}
<1>0. L \in Nat /\ \A i \in 1..(L + 1) : f[i] = DecodeAt(f, i, bytes)
  BY ElementOf, DecodesAt
<1>l. lone \in Seq(Points) /\ lone = <<r, r, r>> /\ r \in Points
  BY LoneLies, ReplacementLies DEF Lone
<1> HIDE DEF B, lone, r
<1>2. \A a, b, d \in Seq(B) : (a \o b) \o d = a \o (b \o d)
  BY ConcatAssociative
<1>3. ASSUME NEW before \in Seq(B), bytes = before \o Encoded(<<>>)
      PROVE  f[Len(before) + 1] = Spread(<<>>, lone)
  <2> DEFINE i == Len(before) + 1
  <2>1. Len(before) \in Nat
    BY ElementOf
  <2>2. bytes = before
    BY <1>3, EncodedUnfolds
  <2>3. i \in 1..(L + 1) /\ i > L
    BY <2>1, <2>2
  <2> HIDE DEF i
  <2>4. f[i] = <<>>
    BY <1>0, <2>3 DEF DecodeAt
  <2>5. Spread(<<>>, lone) = <<>>
    BY <1>l, SpreadUnfolds
  <2> QED
    BY <2>4, <2>5 DEF i
<1>4. ASSUME NEW q \in Seq(Points), NEW c \in Points, q \in K,
             NEW before \in Seq(B), bytes = before \o Encoded(<<c>> \o q)
      PROVE  f[Len(before) + 1] = Spread(<<c>> \o q, lone)
  <2> DEFINE i == Len(before) + 1
             u == Utf8Of(c)
             rest == Encoded(q)
             t == Spread(q, lone)
  <2>1. Len(before) \in Nat
    BY ElementOf
  <2>2. u \in Seq(B) /\ rest \in Seq(B) /\ Len(u) \in Nat /\ Len(u) >= 1 /\ bytes = before \o (u \o rest)
    <3>1. u \in Seq(B) /\ Len(u) = SizeOf(c)
      BY BytesOfPoint DEF B
    <3>2. rest \in Seq(B) /\ Encoded(<<c>> \o q) = u \o rest
      BY EncodedUnfolds DEF B
    <3>3. SizeOf(c) \in Nat /\ SizeOf(c) >= 1
      BY SMT DEF SizeOf
    <3> QED
      BY <1>4, <3>1, <3>2, <3>3
  <2>3. t \in Seq(Points) /\ Spread(<<c>> \o q, lone) = (IF IsHalf(c) THEN lone ELSE <<c>>) \o t
    BY <1>l, SpreadUnfolds
  <2> HIDE DEF u, rest
  <2>4. /\ L = Len(before) + Len(u) + Len(rest)
        /\ \A k \in 1..Len(u) : bytes[Len(before) + k] = u[k]
    BY <2>2, JoinedAmid
  <2>5. Len(rest) \in Nat
    BY <2>2, ElementOf
  <2>6. \A k \in 0..(Len(u) - 1) : bytes[i + k] = u[k + 1]
    <3> TAKE k \in 0..(Len(u) - 1)
    <3>1. k + 1 \in 1..Len(u) /\ i + k = Len(before) + (k + 1)
      BY <2>1, <2>2
    <3> QED
      BY <2>4, <3>1
  <2>7. i \in Nat /\ \A k \in 0..(Len(u) - 1) : i + k \in Nat /\ i + k \in 1..L /\ i + k \in 1..(L + 1) /\ ~(i + k > L)
    <3> HIDE DEF L
    <3>1. L = Len(before) + Len(u) + Len(rest)
      BY <2>4
    <3> QED
      BY <2>1, <2>2, <2>5, <3>1
  <2> DEFINE more == before \o u
  <2>8. more \in Seq(B) /\ Len(more) = Len(before) + Len(u) /\ bytes = more \o rest
    <3>1. more \in Seq(B) /\ Len(more) = Len(before) + Len(u)
      BY <2>2, Joined
    <3>2. more \o rest = before \o (u \o rest)
      BY <1>2, <2>2, Zenon
    <3> QED
      BY <2>2, <3>1, <3>2
  <2> HIDE DEF more
  <2>9. f[Len(more) + 1] = t
    BY <1>4, <2>8 DEF K, rest
  <2>10. CASE ~IsHalf(c)
    <3>1. c \in Scalars
      BY <2>10 DEF Scalars
    <3>2. i + Len(u) <= L + 1
      <4> HIDE DEF L
      <4>1. L = Len(before) + Len(u) + Len(rest)
        BY <2>4
      <4> QED
        BY <2>1, <2>2, <2>5, <4>1
    <3>3. Follow(bytes, i) + 1 = Len(u) /\ PointRead(bytes, i) = c
      BY <1>0, <2>6, <2>7, <3>1, <3>2, PointReadBack DEF u
    <3>4. i \in 1..(L + 1) /\ ~(i > L) /\ i \in 1..Len(bytes)
      <4>1. 0 \in 0..(Len(u) - 1) /\ i + 0 = i
        BY <2>1, <2>2
      <4> QED
        BY <2>7, <4>1
    <3>5. Follow(bytes, i) \in Nat
      <4> HIDE DEF i
      <4> QED
        BY <3>4, FollowLies
    <3>6. i + Follow(bytes, i) + 1 = Len(more) + 1
      <4> DEFINE j == Follow(bytes, i)
      <4>1. j \in Nat /\ j + 1 = Len(u) /\ Len(u) \in Nat
        BY <2>2, <3>3, <3>5
      <4> DEFINE b == Len(before)
                 m == Len(more)
                 w == Len(u)
      <4>2. b \in Nat /\ m = b + w /\ w \in Nat
        BY <2>1, <2>2, <2>8
      <4> HIDE DEF j, m, w
      <4>3. b + 1 + j + 1 = m + 1
        BY <4>1, <4>2 DEF w
      <4> QED
        BY <4>3 DEF j, m
    <3> HIDE DEF i, t
    <3>7. f[i] = <<c>> \o t
      BY <1>0, <2>9, <3>3, <3>4, <3>6 DEF DecodeAt
    <3>8. Spread(<<c>> \o q, lone) = <<c>> \o t
      BY <2>3, <2>10
    <3> QED
      BY <3>7, <3>8 DEF i
  <2>11. CASE IsHalf(c)
    <3>1. Len(u) = 3
      BY <2>11, BytesOfPoint, HalfTakesThree DEF u
    <3>2. \A k \in 0..2 : bytes[i + k] = Utf8Of(c)[k + 1]
      <4>1. Len(u) - 1 = 2
        BY <3>1
      <4> QED
        BY <2>6, <4>1 DEF u
    <3>3. \A k \in 0..2 : Follow(bytes, i + k) = 0 /\ PointRead(bytes, i + k) = r
      BY <1>0, <2>7, <2>11, <3>2, HalfIsRead DEF r
    <3>4. \A k \in 0..2 : f[i + k] = <<r>> \o f[i + k + 1]
      <4> TAKE k \in 0..2
      <4> DEFINE j == i + k
      <4>1. j \in Nat /\ j \in 1..(L + 1) /\ ~(j > L)
        <5>1. k \in 0..(Len(u) - 1)
          BY <3>1
        <5> QED
          BY <2>7, <5>1
      <4>2. Follow(bytes, j) = 0 /\ PointRead(bytes, j) = r
        BY <3>3
      <4> HIDE DEF j
      <4>3. j + Follow(bytes, j) + 1 = j + 1
        BY <4>1, <4>2
      <4>4. f[j] = <<r>> \o f[j + 1]
        BY <1>0, <4>1, <4>2, <4>3 DEF DecodeAt
      <4> QED
        BY <4>4 DEF j
    <3>5. f[i] = <<r>> \o f[i + 1] /\ f[i + 1] = <<r>> \o f[i + 2] /\ f[i + 2] = <<r>> \o f[i + 3]
      <4>1. i + 0 = i /\ i + 0 + 1 = i + 1 /\ i + 1 + 1 = i + 2 /\ i + 2 + 1 = i + 3
        BY <2>7
      <4>2. f[i + 0] = <<r>> \o f[i + 0 + 1] /\ f[i + 1] = <<r>> \o f[i + 1 + 1] /\ f[i + 2] = <<r>> \o f[i + 2 + 1]
        BY <3>4
      <4> QED
        BY <4>1, <4>2
    <3>6. Len(more) + 1 = i + 3
      BY <2>1, <2>8, <3>1
    <3> HIDE DEF i, t
    <3>7. f[i] = <<r, r, r>> \o t
      <4>1. <<r, r, r>> \o t = <<r>> \o (<<r>> \o (<<r>> \o t))
        BY <1>l, <2>3, OneByOne
      <4> QED
        BY <2>9, <3>5, <3>6, <4>1
    <3>8. Spread(<<c>> \o q, lone) = <<r, r, r>> \o t
      BY <1>l, <2>3, <2>11
    <3> QED
      BY <3>7, <3>8 DEF i
  <2> QED
    BY <2>10, <2>11
<1>5. <<>> \in K
  BY <1>3
<1>6. ASSUME NEW q \in Seq(Points), NEW c \in Points, q \in K
      PROVE  <<c>> \o q \in K
  <2>1. <<c>> \o q \in Seq(Points)
    BY FirstApplied
  <2>2. \A before \in Seq(B) : bytes = before \o Encoded(<<c>> \o q) =>
           f[Len(before) + 1] = Spread(<<c>> \o q, lone)
    <3> HIDE DEF K
    <3> QED
      BY <1>4, <1>6
  <2> QED
    BY <2>1, <2>2
<1>7. Seq(Points) \subseteq K
  <2> HIDE DEF K
  <2> QED
    BY <1>5, <1>6, FromTheEnd
<1>8. ASSUME NEW p \in Seq(Points), NEW before \in Seq(B), bytes = before \o Encoded(p)
      PROVE  f[Len(before) + 1] = Spread(p, lone)
  <2>1. p \in K
    BY <1>7
  <2> QED
    BY <1>8, <2>1
<1> QED
  BY <1>8 DEF B, lone, EndIsShown

---------------------------------------------------------------------------
(* What stands between other bytes *)

\* Three sequences make the same one either way.
LEMMA Concatenates ==
  ASSUME NEW S, NEW a \in Seq(S), NEW b \in Seq(S), NEW c \in Seq(S)
  PROVE  /\ (a \o b) \o c = a \o (b \o c)
         /\ a \o b \in Seq(S) /\ b \o c \in Seq(S)
         /\ a \o <<>> = a /\ <<>> \o a = a
OBVIOUS

\* What stands between two parts is found there.
LEMMA PartBetween ==
  ASSUME NEW S, NEW a \in Seq(S), NEW b \in Seq(S), NEW c \in Seq(S)
  PROVE  SubSeq(a \o (b \o c), Len(a) + 1, Len(a) + Len(b)) = b
<1> DEFINE s == a \o (b \o c)
           n == Len(a)
           m == Len(b)
           t == SubSeq(s, n + 1, n + m)
<1>1. /\ s \in Seq(S) /\ Len(s) = n + m + Len(c)
      /\ \A k \in 1..m : s[n + k] = b[k]
  BY JoinedAmid
<1>2. n \in Nat /\ m \in Nat /\ Len(c) \in Nat
  BY ElementOf
<1> HIDE DEF s, n, m
<1>3. t \in Seq(S) /\ Len(t) = m /\ \A k \in 1..m : t[k] = s[n + k]
  <2>1. n + 1 \in 1..(Len(s) + 1) /\ n + m \in ((n + 1) - 1)..Len(s)
    BY <1>1, <1>2
  <2>2. /\ t \in Seq(S) /\ Len(t) = (n + m) - (n + 1) + 1
        /\ \A k \in 1..((n + m) - (n + 1) + 1) : t[k] = s[(n + 1) + k - 1]
    BY <1>1, <2>1, SubSeqProperties
  <2>3. (n + m) - (n + 1) + 1 = m
    BY <1>2
  <2>4. \A k \in 1..m : (n + 1) + k - 1 = n + k
    BY <1>2
  <2> QED
    BY <2>2, <2>3, <2>4
<1>4. \A k \in 1..m : t[k] = b[k]
  BY <1>1, <1>3
<1> HIDE DEF t
<1> QED
  BY <1>3, <1>4, SameSeq DEF m, n, s, t

\* A number is written in bytes, in one at least.
LEMMA VarLongLies ==
  ASSUME NEW n \in Int
  PROVE  WriteVarLong(n) \in Seq(0..255) /\ Len(WriteVarLong(n)) \in Nat /\ Len(WriteVarLong(n)) >= 1
<1> DEFINE w == WriteVarLong(n)
           buf == <<>> \o (w \o <<>>)
<1>1. <<>> \in Seq(0..255)
  OBVIOUS
<1>2. w \in Seq(0..255) /\ HasVarLong(buf, Len(<<>>) + 1)
  BY <1>1, VarLongRoundTrip
<1> HIDE DEF w
<1>3. buf = w
  BY <1>2
<1>4. \E k \in (Len(<<>>) + 1)..Len(w) : w[k] < VarintBase
  BY <1>2, <1>3 DEF HasVarLong
<1>5. Len(w) \in Nat
  BY <1>2, ElementOf
<1>6. Len(w) >= 1
  BY <1>4, <1>5
<1> QED
  BY <1>2, <1>5, <1>6 DEF w

\* A number that is there has its last byte there, and is an integer.
LEMMA VarLongIsThere ==
  ASSUME NEW buf \in Seq(0..255), NEW pos \in Nat, HasVarLong(buf, pos)
  PROVE  pos >= 1 /\ VarEnd(buf, pos) \in pos..Len(buf) /\ ReadVarLong(buf, pos) \in Int
<1> DEFINE L == Len(buf)
           Ends == {k \in pos..L : buf[k] < VarintBase}
           P(k) == buf[k] < VarintBase /\ \A j \in pos..(k - 1) : buf[j] >= VarintBase
<1>1. L \in Nat /\ \A k \in 1..L : buf[k] \in 0..255
  BY ElementOf
<1>2. pos >= 1 /\ Ends # {} /\ Ends \subseteq Nat
  BY DEF HasVarLong
<1>3. PICK k \in Ends : \A m \in Ends : k <= m
  <2> HIDE DEF Ends
  <2> QED
    BY <1>2, LeastNumber
<1>4. k \in pos..L /\ P(k)
  <2>1. ASSUME NEW j \in pos..(k - 1) PROVE buf[j] >= VarintBase
    <3>1. j \in pos..L /\ j \in 1..L /\ j < k /\ j \in Nat /\ k \in Nat
      BY <1>1, <1>2, <1>3
    <3>2. j \notin Ends
      <4> HIDE DEF Ends
      <4> QED
        BY <1>3, <3>1
    <3>3. buf[j] \in 0..255 /\ ~(buf[j] < VarintBase)
      BY <1>1, <3>1, <3>2
    <3>4. \A x \in Nat : ~(x < VarintBase) => x >= VarintBase
      BY SMT DEF VarintBase
    <3>5. buf[j] \in Nat
      <4>1. \A x \in 0..255 : x \in Nat
        OBVIOUS
      <4> QED
        BY <3>3, <4>1, Zenon
    <3> QED
      BY <3>3, <3>4, <3>5, Zenon
  <2> QED
    BY <1>3, <2>1
<1>5. VarEnd(buf, pos) = CHOOSE n \in pos..L : P(n)
  BY DEF VarEnd
<1>6. VarEnd(buf, pos) \in pos..L
  <2> HIDE DEF P
  <2> QED
    BY <1>4, <1>5
<1> DEFINE end == VarEnd(buf, pos)
           bytes == SubSeq(buf, pos, end)
           low == [i \in DOMAIN bytes |-> bytes[i] % VarintBase]
           n == Number(low, VarintBase)
<1>7. low \in Seq(Nat)
  <2>1. bytes \in Seq(0..255)
    <3> DEFINE S == 0..255
    <3>1. buf \in Seq(S) /\ pos \in 1..(Len(buf) + 1) /\ end \in (pos - 1)..Len(buf)
      BY <1>1, <1>2, <1>6
    <3> HIDE DEF S, end
    <3>2. SubSeq(buf, pos, end) \in Seq(S)
      BY <3>1, SubSeqProperties
    <3> QED
      BY <3>2 DEF S
  <2> HIDE DEF bytes
  <2>2. Len(bytes) \in Nat /\ DOMAIN bytes = 1..Len(bytes) /\ \A i \in DOMAIN bytes : bytes[i] \in 0..255
    BY <2>1, ElementOf
  <2>3. \A x \in 0..255 : x % VarintBase \in Nat
    BY DEF VarintBase
  <2>4. low \in [1..Len(bytes) -> Nat]
    BY <2>2, <2>3
  <2> HIDE DEF low
  <2> QED
    BY <2>2, <2>4, FunctionIsSeq
<1>8. n \in Nat
  <2> HIDE DEF low
  <2>1. VarintBase \in Nat
    BY DEF VarintBase
  <2> QED
    BY <1>7, <2>1, NumberUnfolds
<1>9. ReadVarLong(buf, pos) = IF n % 2 = 1 THEN 0 - (n + 1) \div 2 ELSE n \div 2
  BY DEF ReadVarLong
<1> HIDE DEF n
<1>10. ReadVarLong(buf, pos) \in Int
  BY <1>8, <1>9
<1> QED
  BY <1>2, <1>6, <1>10

---------------------------------------------------------------------------
(* base64url *)

\* What is left without its padding is of the same kind.
LEMMA UnpaddedLies ==
  ASSUME NEW text \in Seq(Nat)
  PROVE  Unpadded(text) \in Seq(Nat)
<1> DEFINE n == Len(text)
           P(k) == (k > 0 => text[k] # Pad) /\ \A i \in (k + 1)..n : text[i] = Pad
           Ends == {k \in 0..n : \A i \in (k + 1)..n : text[i] = Pad}
           kept == CHOOSE k \in 0..n : P(k)
<1>1. n \in Nat
  BY ElementOf
<1>2. \E k \in 0..n : P(k)
  <2>1. Ends \subseteq Nat /\ n \in Ends
    BY <1>1
  <2>2. PICK k \in Ends : \A m \in Ends : k <= m
    BY <2>1, LeastNumber
  <2>3. k > 0 => text[k] # Pad
    <3> SUFFICES ASSUME k > 0, text[k] = Pad PROVE FALSE
      OBVIOUS
    <3>1. k - 1 \in 0..n /\ ~(k <= k - 1)
      BY <1>1
    <3>2. \A i \in ((k - 1) + 1)..n : i = k \/ i \in (k + 1)..n
      BY <1>1
    <3>3. k - 1 \in Ends
      BY <2>2, <3>1, <3>2
    <3> QED
      BY <2>2, <3>1, <3>3
  <2> QED
    BY <2>2, <2>3
<1>3. kept \in 0..n
  <2> HIDE DEF P
  <2> QED
    BY <1>2
<1>4. Unpadded(text) = SubSeq(text, 1, kept)
  BY DEF Unpadded
<1> HIDE DEF kept
<1>5. kept \in Nat /\ kept <= Len(text)
  BY <1>1, <1>3
<1> QED
  BY <1>4, <1>5, FirstPart

\* What FromBase64Url's recursive function reads.
Reading == [value : Nat, bits : {0, 2, 4, 6}, out : Seq(0..255)]
DigitRead(st, ch) ==
    LET value == (64 * st.value + Digit64(ch)) % 2 ^ 14
        bits == st.bits + 6
    IN  IF bits < 8 THEN [st EXCEPT !.value = value, !.bits = bits]
        ELSE [value |-> value, bits |-> bits - 8,
              out |-> Append(st.out, (value \div 2 ^ (bits - 8)) % 256)]
NoneRead == [value |-> 0, bits |-> 0, out |-> <<>>]
ReadingAt(f, i, clean) == IF i = 0 THEN NoneRead ELSE DigitRead(f[i - 1], clean[i])
IsReading(f, clean) == f = [i \in 0..Len(clean) |-> ReadingAt(f, i, clean)]

\* A digit more leaves a reading that is one.
LEMMA ReadStepLies ==
  ASSUME NEW st \in Reading, NEW ch \in Nat
  PROVE  DigitRead(st, ch) \in Reading
<1> DEFINE value == (64 * st.value + Digit64(ch)) % 2 ^ 14
           bits == st.bits + 6
<1>1. value \in Nat
  <2>1. Digit64(ch) \in Nat
    BY DEF Digit64
  <2>2. st.value \in Nat
    BY DEF Reading
  <2>3. 2 ^ 14 = 16384
    OBVIOUS
  <2>4. (64 * st.value + Digit64(ch)) % 16384 \in Nat
    BY <2>1, <2>2, SMT
  <2> QED
    BY <2>3, <2>4
<1>2. st.bits \in {0, 2, 4, 6} /\ st.out \in Seq(0..255)
  BY DEF Reading
<1> HIDE DEF value
<1>3. CASE st.bits = 0
  <2>1. DigitRead(st, ch) = [st EXCEPT !.value = value, !.bits = 6]
    BY <1>3 DEF DigitRead, value
  <2> QED
    BY <1>1, <2>1 DEF Reading
<1>4. ASSUME NEW k \in {0, 2, 4}, st.bits = k + 2
      PROVE  DigitRead(st, ch) \in Reading
  <2> DEFINE b == (value \div 2 ^ k) % 256
  <2>1. ~(bits < 8) /\ bits - 8 = k
    BY <1>4
  <2>2. DigitRead(st, ch) = [value |-> value, bits |-> k, out |-> Append(st.out, b)]
    BY <2>1 DEF DigitRead, value
  <2>3. b \in 0..255
    <3>1. 2 ^ 0 = 1 /\ 2 ^ 2 = 4 /\ 2 ^ 4 = 16
      OBVIOUS
    <3>2. (value \div 1) % 256 \in 0..255 /\ (value \div 4) % 256 \in 0..255 /\ (value \div 16) % 256 \in 0..255
      BY <1>1, SMT
    <3>3. k = 0 \/ k = 2 \/ k = 4
      BY <1>4
    <3> QED
      BY <3>1, <3>2, <3>3
  <2> HIDE DEF b
  <2>4. Append(st.out, b) \in Seq(0..255)
    BY <1>2, <2>3
  <2>5. k \in {0, 2, 4, 6}
    BY <1>4
  <2> QED
    BY <1>1, <2>2, <2>4, <2>5 DEF Reading
<1>5. st.bits = 0 \/ \E k \in {0, 2, 4} : st.bits = k + 2
  BY <1>2
<1> QED
  BY <1>3, <1>4, <1>5

\* What base64url stands for is bytes.
LEMMA Base64Lies ==
  ASSUME NEW text \in Seq(Nat)
  PROVE  FromBase64Url(text) \in Seq(0..255)
<1> DEFINE clean == Unpadded(text)
           n == Len(clean)
           S == Reading
           g == [i \in 1..n |-> [st \in S |-> DigitRead(st, clean[i])]]
<1>0. clean \in Seq(Nat)
  BY UnpaddedLies
<1> HIDE DEF clean
<1>1. n \in Nat /\ \A i \in 1..n : clean[i] \in Nat
  BY <1>0, ElementOf
<1>2. \A i \in 1..n : \A st \in S : DigitRead(st, clean[i]) \in S
  BY <1>1, ReadStepLies
<1>3. g \in [1..n -> [S -> S]] /\ \A i \in 1..n : \A st \in S : g[i][st] = DigitRead(st, clean[i])
  <2> HIDE DEF S
  <2> QED
    BY <1>2
<1>4. NoneRead \in S
  BY DEF NoneRead, Reading
<1> HIDE DEF g, S
<1>5. PICK F \in [0..n -> S] : Steps(F, NoneRead, n, g)
  BY <1>1, <1>3, <1>4, TableExists
<1>6. IsReading(F, clean)
  <2>1. \A i \in 1..n : i - 1 \in 0..n
    BY <1>1
  <2>2. \A i \in 1..n : F[i] = DigitRead(F[i - 1], clean[i])
    BY <1>3, <1>5, <2>1 DEF Steps
  <2>3. \A i \in 0..n : F[i] = ReadingAt(F, i, clean)
    <3>1. \A i \in 0..n : i = 0 \/ (i # 0 /\ i \in 1..n)
      BY <1>1
    <3>2. F[0] = NoneRead
      BY <1>5 DEF Steps
    <3> QED
      BY <2>2, <3>1, <3>2 DEF ReadingAt
  <2>4. F = [i \in 0..n |-> F[i]]
    OBVIOUS
  <2>5. F = [i \in 0..n |-> ReadingAt(F, i, clean)]
    BY <2>3, <2>4
  <2> QED
    BY <2>5 DEF IsReading
<1> DEFINE r == CHOOSE r : IsReading(r, clean)
<1>7. IsReading(r, clean)
  BY <1>6
<1>8. FromBase64Url(text) = r[n].out
  BY DEF FromBase64Url, IsReading, ReadingAt, DigitRead, NoneRead, clean
<1> HIDE DEF r
<1>9. \A i \in 0..n : r[i] = ReadingAt(r, i, clean)
  BY <1>7 DEF IsReading
<1>10. r[0] \in S
  <2>1. 0 \in 0..n
    BY <1>1
  <2> QED
    BY <1>4, <1>9, <2>1 DEF ReadingAt
<1>11. \A i \in 1..n : r[i - 1] \in S => r[i] \in S
  <2> TAKE i \in 1..n
  <2>1. i \in 0..n /\ i # 0
    BY <1>1
  <2>2. r[i] = DigitRead(r[i - 1], clean[i])
    BY <1>9, <2>1 DEF ReadingAt
  <2> QED
    BY <1>2, <2>2
<1>12. \A i \in 0..n : r[i] \in S
  <2> HIDE DEF n
  <2> QED
    BY <1>1, <1>10, <1>11, Stays
<1>13. r[n] \in S
  BY <1>1, <1>12
<1> QED
  BY <1>8, <1>13 DEF S, Reading
=============================================================================
