------------------------ MODULE StreamUpload_proofs -------------------------
(***************************************************************************)
(* What uploadStream() sends, for a stream of any length in pieces of any  *)
(* length, any header and any chunk size, hashed in blocks of any size;    *)
(* and first what its hasher does: it absorbs bytes, whatever pieces they  *)
(* come in, and tells two messages of one length apart.                    *)
(***************************************************************************)
EXTENDS StreamUpload, Bytes_proofs, SequenceTheorems

\* The bytes are cut into whole blocks and a rest.
Cut(blocks, rest, bytes) ==
    /\ Len(bytes) = Len(blocks) * BlockLength + Len(rest)
    /\ \A k \in 1..Len(blocks) :
         /\ Len(blocks[k]) = BlockLength
         /\ \A i \in 1..BlockLength : blocks[k][i] = bytes[(k - 1) * BlockLength + i]
    /\ \A i \in 1..Len(rest) : rest[i] = bytes[Len(blocks) * BlockLength + i]

\* h has the type of a hasher of bytes of the set S.
IsHasher(h, S) == h \in [blocks : Seq(Seq(S)), rest : Seq(S), total : Nat]

\* h has absorbed the bytes, and keeps less than a block.
IsHashOf(h, bytes, S) ==
    /\ IsHasher(h, S)
    /\ Cut(h.blocks, h.rest, bytes)
    /\ Len(h.rest) < BlockLength
    /\ h.total = Len(bytes)

---------------------------------------------------------------------------
(* Arithmetic and sequences *)

LEMMA BlockIsPositive == BlockLength \in Nat \ {0}
  BY HashAssumption

\* Byte i of block k lies within the first n blocks.
LEMMA WithinBlocks ==
  ASSUME NEW B \in Nat, NEW n \in Nat, NEW k \in 1..n, NEW i \in 1..B
  PROVE  /\ (k - 1) * B + i \in 1..(n * B)
         /\ (k - 1) * B + B = k * B
         /\ k * B <= n * B
  <1>1. k * B <= n * B
    <2>1. n * B = k * B + (n - k) * B
      OBVIOUS
    <2>2. (n - k) * B >= 0
      OBVIOUS
    <2> QED BY <2>1, <2>2
  <1>2. (k - 1) * B + B = k * B /\ (k - 1) * B >= 0
    OBVIOUS
  <1> QED BY <1>1, <1>2

LEMMA Division ==
  ASSUME NEW B \in Nat \ {0}, NEW n \in Nat
  PROVE  /\ n \div B \in Nat
         /\ (n \div B) * B <= n
         /\ n - (n \div B) * B < B
  OBVIOUS

LEMMA Products ==
  ASSUME NEW B \in Nat, NEW a \in Nat, NEW b \in Nat
  PROVE  /\ a * B \in Nat
         /\ b * B \in Nat
         /\ (a + b) * B = a * B + b * B
  OBVIOUS

LEMMA Differences ==
  ASSUME NEW B \in Nat, NEW k \in Int, NEW q \in Int
  PROVE  /\ (k - 1) * B = q * B + (k - q - 1) * B
         /\ (k - 1) * B \in Int
         /\ q * B \in Int
         /\ (k - q - 1) * B \in Int
  OBVIOUS

\* A part of a sequence, from one place to another.
LEMMA PartOf ==
  ASSUME NEW S, NEW s \in Seq(S), NEW m \in Nat, NEW e \in Nat, m <= e, e <= Len(s)
  PROVE  /\ SubSeq(s, m + 1, e) \in Seq(S)
         /\ Len(SubSeq(s, m + 1, e)) = e - m
         /\ \A i \in 1..(e - m) : SubSeq(s, m + 1, e)[i] = s[m + i]
  <1>1. \A i \in (m + 1)..e : s[i] \in S
    OBVIOUS
  <1>2. /\ SubSeq(s, m + 1, e) \in Seq(S)
        /\ Len(SubSeq(s, m + 1, e)) = IF m + 1 <= e THEN e - (m + 1) + 1 ELSE 0
        /\ \A i \in 1..(e - (m + 1) + 1) : SubSeq(s, m + 1, e)[i] = s[m + 1 + i - 1]
    BY <1>1, SubSeqProperties
  <1> QED BY <1>2

\* Three parts, joined in either order.
LEMMA Regrouped ==
  \A a, b, c \in Seq(Int) : (a \o b) \o c = a \o (b \o c)
  <1> DEFINE S == Int
  <1>1. \A a, b, c \in Seq(S) : (a \o b) \o c = a \o (b \o c)
    <2> HIDE DEF S
    <2> QED BY ConcatAssociative
  <1> QED BY <1>1

\* The number of blocks and the length of the rest follow from the whole.
LEMMA UniqueDivision ==
  ASSUME NEW B \in Nat \ {0}, NEW a \in Nat, NEW b \in Nat, NEW r \in Nat, NEW t \in Nat,
         r < B, t < B, a * B + r = b * B + t
  PROVE  a = b /\ r = t
  <1>1. ASSUME NEW x \in Nat, NEW y \in Nat, x < y PROVE x * B + B <= y * B
    <2>1. y * B = x * B + B + (y - x - 1) * B
      OBVIOUS
    <2>2. (y - x - 1) * B >= 0
      BY <1>1
    <2>3. x * B \in Nat /\ y * B \in Nat /\ (y - x - 1) * B \in Int
      OBVIOUS
    <2> QED BY <2>1, <2>2, <2>3
  <1>2. a * B \in Nat /\ b * B \in Nat
    OBVIOUS
  <1>3. ~(a < b)
    <2>1. a < b => a * B + B <= b * B
      BY <1>1
    <2> QED BY <2>1, <1>2
  <1>4. ~(b < a)
    <2>1. b < a => b * B + B <= a * B
      BY <1>1
    <2> QED BY <2>1, <1>2
  <1>5. a = b
    BY <1>3, <1>4
  <1> QED BY <1>2, <1>5

---------------------------------------------------------------------------
(* Powers, quotients and the bytes of a number *)

\* What Power's recursive function is, up to n.
Powers(f, n) == f = [i \in 0..n |-> IF i = 0 THEN 1 ELSE ByteValues * f[i - 1]]

LEMMA PowersAt ==
  ASSUME NEW f, NEW n, Powers(f, n)
  PROVE  \A i \in 0..n : f[i] = IF i = 0 THEN 1 ELSE ByteValues * f[i - 1]
  <1> DEFINE h(i) == IF i = 0 THEN 1 ELSE ByteValues * f[i - 1]
  <1>1. f = [i \in 0..n |-> h(i)]
    BY DEF Powers
  <1> HIDE DEF h
  <1>2. \A i \in 0..n : f[i] = h(i)
    BY <1>1
  <1> QED BY <1>2 DEF h

LEMMA PowersExist == \A n \in Nat : \E f : Powers(f, n)
  <1> DEFINE S == {n \in Nat : \E f : Powers(f, n)}
  <1> SUFFICES Nat \subseteq S
    OBVIOUS
  <1>1. ASSUME NEW n \in Nat, \A m \in 0..(n - 1) : m \in S PROVE n \in S
    <2>1. CASE n = 0
      <3> DEFINE g == [i \in 0..n |-> 1]
      <3>1. g = [i \in 0..n |-> IF i = 0 THEN 1 ELSE ByteValues * g[i - 1]]
        BY <2>1
      <3> HIDE DEF g
      <3>2. Powers(g, n)
        BY <3>1 DEF Powers
      <3> QED BY <3>2
    <2>2. CASE n # 0
      <3>1. n - 1 \in S /\ n - 1 \in Nat
        BY <1>1, <2>2
      <3>2. PICK f : Powers(f, n - 1)
        BY <3>1
      <3> HIDE DEF S
      <3> DEFINE last == ByteValues * f[n - 1]
                 g == [i \in 0..n |-> IF i = n THEN last ELSE f[i]]
      <3>3. \A i \in 0..(n - 1) : f[i] = IF i = 0 THEN 1 ELSE ByteValues * f[i - 1]
        BY <3>2, PowersAt
      <3> HIDE DEF last
      <3>4. g[n] = last /\ \A i \in 0..(n - 1) : g[i] = f[i]
        BY <3>1
      <3>5. g = [i \in 0..n |-> g[i]]
        OBVIOUS
      <3> HIDE DEF g
      <3>6. ASSUME NEW i \in 0..n PROVE g[i] = IF i = 0 THEN 1 ELSE ByteValues * g[i - 1]
        <4>1. CASE i = n
          <5>1. g[n - 1] = f[n - 1]
            BY <3>1, <3>4
          <5> QED BY <2>2, <3>4, <4>1, <5>1 DEF last
        <4>2. CASE i # n
          <5>1. i \in 0..(n - 1) /\ (i # 0 => i - 1 \in 0..(n - 1))
            BY <4>2
          <5> QED BY <3>3, <3>4, <5>1
        <4> QED BY <4>1, <4>2
      <3>7. Powers(g, n)
        BY <3>5, <3>6 DEF Powers
      <3> QED BY <3>7 DEF S
    <2> QED BY <2>1, <2>2
  <1> HIDE DEF S
  <1> QED BY <1>1, Induction

\* The powers up to n are those up to any other number, as far as both go.
LEMMA PowersArePower ==
  ASSUME NEW n \in Nat, NEW f, Powers(f, n)
  PROVE  \A m \in 0..n : Power(m) = f[m]
  <1> SUFFICES ASSUME NEW m \in 0..n PROVE Power(m) = f[m]
    OBVIOUS
  <1> DEFINE g == CHOOSE g : Powers(g, m)
             S == {i \in Nat : i <= m => g[i] = f[i]}
  <1>1. m \in Nat /\ m <= n
    OBVIOUS
  <1>2. Powers(g, m)
    BY <1>1, PowersExist
  <1>3. Power(m) = g[m]
    BY DEF Power, Powers
  <1> HIDE DEF g
  <1>4. \A i \in 0..m : g[i] = IF i = 0 THEN 1 ELSE ByteValues * g[i - 1]
    BY <1>2, PowersAt
  <1>5. \A i \in 0..n : f[i] = IF i = 0 THEN 1 ELSE ByteValues * f[i - 1]
    BY PowersAt
  <1>6. ASSUME NEW i \in Nat, \A j \in 0..(i - 1) : j \in S PROVE i \in S
    <2> SUFFICES ASSUME i <= m PROVE g[i] = f[i]
      OBVIOUS
    <2>1. i \in 0..m /\ i \in 0..n
      BY <1>1
    <2>2. i # 0 => g[i - 1] = f[i - 1]
      <3>1. i # 0 => i - 1 \in 0..(i - 1) /\ i - 1 <= m
        BY <1>1
      <3> QED BY <3>1, <1>6
    <2> QED BY <2>1, <2>2, <1>4, <1>5
  <1>7. m \in S
    <2> HIDE DEF S
    <2> QED BY <1>1, <1>6, Induction
  <1> QED BY <1>1, <1>3, <1>7

LEMMA PowerUnfolds ==
  /\ Power(0) = 1
  /\ \A n \in Nat : Power(n + 1) = ByteValues * Power(n)
  <1>1. Power(0) = 1
    <2>1. PICK f : Powers(f, 0)
      BY PowersExist
    <2>2. Power(0) = f[0]
      BY <2>1, PowersArePower
    <2> QED BY <2>1, <2>2, PowersAt
  <1>2. ASSUME NEW n \in Nat PROVE Power(n + 1) = ByteValues * Power(n)
    <2>1. n + 1 \in Nat /\ n \in 0..(n + 1) /\ n + 1 \in 0..(n + 1) /\ (n + 1) - 1 = n /\ n + 1 # 0
      OBVIOUS
    <2>2. PICK f : Powers(f, n + 1)
      BY <2>1, PowersExist
    <2>3. Power(n + 1) = f[n + 1] /\ Power(n) = f[n]
      BY <2>1, <2>2, PowersArePower
    <2>4. f[n + 1] = IF n + 1 = 0 THEN 1 ELSE ByteValues * f[(n + 1) - 1]
      BY <2>1, <2>2, PowersAt
    <2> QED BY <2>1, <2>3, <2>4
  <1> QED BY <1>1, <1>2

LEMMA PowerIsPositive == \A n \in Nat : Power(n) \in Nat \ {0}
  <1> DEFINE S == {n \in Nat : Power(n) \in Nat \ {0}}
  <1> SUFFICES Nat \subseteq S
    OBVIOUS
  <1>1. ASSUME NEW n \in Nat, \A m \in 0..(n - 1) : m \in S PROVE n \in S
    <2>1. CASE n = 0
      BY <2>1, PowerUnfolds
    <2>2. CASE n # 0
      <3>1. n - 1 \in 0..(n - 1) /\ n - 1 \in Nat /\ n = (n - 1) + 1
        BY <2>2
      <3>2. Power(n - 1) \in Nat \ {0}
        BY <3>1, <1>1
      <3>3. Power((n - 1) + 1) = ByteValues * Power(n - 1)
        BY <3>1, PowerUnfolds
      <3>4. \A a, b \in Nat \ {0} : a * b \in Nat \ {0}
        OBVIOUS
      <3>5. ByteValues * Power(n - 1) \in Nat \ {0}
        BY <3>2, <3>4, HashAssumption
      <3> QED BY <3>1, <3>3, <3>5
    <2> QED BY <2>1, <2>2
  <1> HIDE DEF S
  <1> QED BY <1>1, Induction

LEMMA PowerAdds == \A m, n \in Nat : Power(m + n) = Power(m) * Power(n)
  <1> SUFFICES ASSUME NEW m \in Nat PROVE \A n \in Nat : Power(m + n) = Power(m) * Power(n)
    OBVIOUS
  <1> DEFINE S == {n \in Nat : Power(m + n) = Power(m) * Power(n)}
  <1> SUFFICES Nat \subseteq S
    OBVIOUS
  <1>1. ASSUME NEW n \in Nat, \A k \in 0..(n - 1) : k \in S PROVE n \in S
    <2>1. CASE n = 0
      <3>1. Power(m) \in Nat /\ m + 0 = m
        BY PowerIsPositive
      <3>2. Power(m) * 1 = Power(m)
        BY <3>1
      <3> QED BY <2>1, <3>1, <3>2, PowerUnfolds
    <2>2. CASE n # 0
      <3> DEFINE k == n - 1
      <3>1. k \in 0..(n - 1) /\ k \in Nat /\ n = k + 1 /\ m + n = (m + k) + 1 /\ m + k \in Nat
        BY <2>2
      <3>2. Power(m + k) = Power(m) * Power(k)
        BY <3>1, <1>1
      <3> HIDE DEF k
      <3>3. Power(m + n) = ByteValues * Power(m + k) /\ Power(n) = ByteValues * Power(k)
        BY <3>1, PowerUnfolds
      <3>4. Power(m) \in Nat /\ Power(k) \in Nat /\ ByteValues \in Nat
        BY <3>1, PowerIsPositive, HashAssumption
      <3>5. \A a, b, c \in Nat : a * (b * c) = b * (a * c)
        OBVIOUS
      <3>6. ByteValues * (Power(m) * Power(k)) = Power(m) * (ByteValues * Power(k))
        BY <3>4, <3>5
      <3> QED BY <3>2, <3>3, <3>6
    <2> QED BY <2>1, <2>2
  <1> HIDE DEF S
  <1> QED BY <1>1, Induction

LEMMA PowerGrows ==
  ASSUME NEW m \in Nat, NEW n \in Nat, m <= n
  PROVE  Power(m) <= Power(n)
  <1>1. n - m \in Nat /\ m + (n - m) = n
    OBVIOUS
  <1>2. Power(n) = Power(m) * Power(n - m)
    BY <1>1, PowerAdds
  <1>3. Power(m) \in Nat \ {0} /\ Power(n - m) \in Nat \ {0}
    BY <1>1, PowerIsPositive
  <1>4. \A a, b \in Nat \ {0} : a <= a * b
    OBVIOUS
  <1> QED BY <1>2, <1>3, <1>4

\* A number is its quotient and its remainder.
LEMMA Divided ==
  ASSUME NEW n \in Nat, NEW B \in Nat \ {0}
  PROVE  /\ n \div B \in Nat /\ n % B \in Nat /\ n % B < B
         /\ n = (n \div B) * B + (n % B)
  OBVIOUS

LEMMA DividedIs ==
  ASSUME NEW B \in Nat \ {0}, NEW q \in Nat, NEW r \in Nat, r < B
  PROVE  (q * B + r) \div B = q /\ (q * B + r) % B = r
  <1> DEFINE n == q * B + r
  <1>1. n \in Nat
    OBVIOUS
  <1> HIDE DEF n
  <1>2. /\ n \div B \in Nat /\ n % B \in Nat /\ n % B < B
        /\ n = (n \div B) * B + (n % B)
    BY <1>1, Divided
  <1>3. q * B + r = (n \div B) * B + (n % B)
    BY <1>2 DEF n
  <1>4. q = n \div B /\ r = n % B
    BY <1>2, <1>3, UniqueDivision
  <1> QED BY <1>4 DEF n

\* To divide twice is to divide by the product.
LEMMA DividedTwice ==
  ASSUME NEW n \in Nat, NEW a \in Nat \ {0}, NEW b \in Nat \ {0}
  PROVE  (n \div a) \div b = n \div (a * b)
  <1> DEFINE q == n \div a
             r == n % a
             s == q \div b
             t == q % b
  <1>1. q \in Nat /\ r \in Nat /\ r < a /\ n = q * a + r
    BY Divided
  <1> HIDE DEF q, r
  <1>2. s \in Nat /\ t \in Nat /\ t < b /\ q = s * b + t
    BY <1>1, Divided
  <1> HIDE DEF s, t
  <1>3. n = s * (a * b) + (t * a + r)
    <2>1. (s * b + t) * a = s * (a * b) + t * a
      BY <1>2
    <2> QED BY <2>1, <1>1, <1>2
  <1>4. t * a + r \in Nat /\ t * a + r < a * b
    <2>1. t * a \in Nat /\ a * b = t * a + (b - t) * a /\ b - t \in Nat \ {0}
      BY <1>2
    <2>2. \A x, y \in Nat \ {0} : x <= y * x
      OBVIOUS
    <2>3. a <= (b - t) * a /\ (b - t) * a \in Nat
      BY <2>1, <2>2
    <2> QED BY <2>1, <2>3, <1>1
  <1>5. a * b \in Nat \ {0}
    <2>1. \A x, y \in Nat \ {0} : x * y \in Nat \ {0}
      OBVIOUS
    <2> QED BY <2>1
  <1>6. n \div (a * b) = s
    BY <1>2, <1>3, <1>4, <1>5, DividedIs
  <1> QED BY <1>6 DEF s, q

\* A digit of a remainder is the digit of the number.
LEMMA DigitOfRemainder ==
  ASSUME NEW n \in Nat, NEW d \in Nat \ {0}, NEW base \in Nat \ {0}, NEW e \in Nat \ {0}
  PROVE  ((n % (d * (base * e))) \div d) % base = (n \div d) % base
  <1> DEFINE w == d * (base * e)
             q == n \div w
             r == n % w
             u == r \div d
             v == r % d
  <1>1. base * e \in Nat \ {0} /\ w \in Nat \ {0}
    <2>1. \A x, y \in Nat \ {0} : x * y \in Nat \ {0}
      OBVIOUS
    <2>2. base * e \in Nat \ {0}
      BY <2>1
    <2> QED BY <2>1, <2>2
  <1>2. q \in Nat /\ r \in Nat /\ n = q * w + r
    <2> HIDE DEF w
    <2> QED BY <1>1, Divided
  <1>3. u \in Nat /\ v \in Nat /\ v < d /\ r = u * d + v
    <2> HIDE DEF r
    <2> QED BY <1>2, Divided
  <1> DEFINE x == q * (base * e) + u
  <1> HIDE DEF u, v, r, q
  <1>4. n = x * d + v /\ x \in Nat
    <2>1. q * (base * e) \in Nat
      BY <1>1, <1>2
    <2>2. (q * (base * e) + u) * d = q * w + u * d
      <3>1. \A j, k, l, m \in Nat : (j * k + m) * l = j * (l * k) + m * l
        OBVIOUS
      <3> QED BY <3>1, <1>1, <1>2, <1>3
    <2> QED BY <2>1, <2>2, <1>2, <1>3
  <1>5. n \div d = x
    <2> HIDE DEF x
    <2> QED BY <1>3, <1>4, DividedIs
  <1>6. x % base = u % base
    <2>1. u \div base \in Nat /\ u % base \in Nat /\ u % base < base /\ u = (u \div base) * base + (u % base)
      BY <1>3, Divided
    <2> DEFINE y == q * e + (u \div base)
    <2>2. q * e \in Nat /\ q * (base * e) = (q * e) * base
      BY <1>2
    <2>3. y \in Nat /\ x = y * base + (u % base)
      <3>1. \A j, k, l \in Nat : (j + k) * l = j * l + k * l
        OBVIOUS
      <3>2. y * base = (q * e) * base + (u \div base) * base
        BY <3>1, <2>1, <2>2
      <3> DEFINE high == q * (base * e)
                 low == (u \div base) * base
                 unit == u % base
      <3>3. /\ high \in Nat /\ low \in Nat /\ unit \in Nat
            /\ x = high + u /\ u = low + unit /\ y * base = high + low
        BY <3>2, <1>1, <1>2, <2>1, <2>2
      <3>4. y \in Nat
        BY <2>1, <2>2
      <3> HIDE DEF high, low, unit, x, y
      <3>5. x = y * base + unit
        BY <3>3
      <3> QED BY <3>4, <3>5 DEF unit
    <2> HIDE DEF x, y
    <2> QED BY <2>1, <2>3, DividedIs
  <1> QED BY <1>5, <1>6 DEF u, r, w

---------------------------------------------------------------------------
(* What update() does *)

\* What was cut is cut again when more, cut on its own, follows whole blocks.
LEMMA CutJoined ==
  ASSUME NEW S, NEW bytes \in Seq(S), NEW data \in Seq(S),
         NEW old \in Seq(Seq(S)), NEW new \in Seq(Seq(S)), NEW rest \in Seq(S),
         Cut(old, <<>>, bytes), Cut(new, rest, data)
  PROVE  Cut(old \o new, rest, bytes \o data)
  <1> DEFINE B == BlockLength
             q == Len(old)
             n == Len(new)
             all == old \o new
             message == bytes \o data
  <1>1. B \in Nat /\ q \in Nat /\ n \in Nat
    BY BlockIsPositive
  <1>2. /\ Len(all) = q + n
        /\ \A k \in 1..(q + n) : all[k] = IF k <= q THEN old[k] ELSE new[k - q]
    BY ConcatProperties
  <1>3. /\ Len(message) = Len(bytes) + Len(data)
        /\ \A j \in 1..(Len(bytes) + Len(data)) :
              message[j] = IF j <= Len(bytes) THEN bytes[j] ELSE data[j - Len(bytes)]
    BY ConcatProperties
  <1>4. (q + n) * B = q * B + n * B /\ q * B \in Nat /\ n * B \in Nat
    BY <1>1, Products
  <1>9. \A j \in 1..Len(data) : message[Len(bytes) + j] = data[j]
    <2>1. ASSUME NEW j \in 1..Len(data) PROVE message[Len(bytes) + j] = data[j]
      <3>1. Len(bytes) + j \in 1..(Len(bytes) + Len(data)) /\ ~(Len(bytes) + j <= Len(bytes))
            /\ Len(bytes) + j - Len(bytes) = j
        OBVIOUS
      <3> QED BY <3>1, <1>3
    <2> QED BY <2>1
  <1>5. Len(bytes) = q * B /\ Len(data) = n * B + Len(rest) /\ Len(rest) \in Nat
    BY <1>4 DEF Cut
  <1> HIDE DEF all, message
  <1>6. Len(message) = Len(all) * B + Len(rest)
    BY <1>2, <1>3, <1>4, <1>5
  <1>7. ASSUME NEW k \in 1..Len(all)
        PROVE  /\ Len(all[k]) = B
               /\ \A i \in 1..B : all[k][i] = message[(k - 1) * B + i]
    <2>1. CASE k <= q
      <3>1. k \in 1..q /\ all[k] = old[k]
        BY <2>1, <1>1, <1>2
      <3>2. \A i \in 1..B : (k - 1) * B + i \in 1..(q * B)
        BY <3>1, <1>1, WithinBlocks
      <3>3. \A i \in 1..B : message[(k - 1) * B + i] = bytes[(k - 1) * B + i]
        BY <3>2, <1>3, <1>4, <1>5
      <3> QED BY <3>1, <3>3 DEF Cut
    <2>2. CASE ~(k <= q)
      <3>1. k - q \in 1..n /\ all[k] = new[k - q]
        BY <2>2, <1>1, <1>2
      <3>2. \A i \in 1..B : (k - q - 1) * B + i \in 1..(n * B)
        BY <3>1, <1>1, WithinBlocks
      <3>3. (k - 1) * B = q * B + (k - q - 1) * B /\ (k - q - 1) * B \in Int
        BY <1>1, <3>1, Differences
      <3>4. \A i \in 1..B : message[(k - 1) * B + i] = data[(k - q - 1) * B + i]
        <4>1. ASSUME NEW i \in 1..B
              PROVE  message[(k - 1) * B + i] = data[(k - q - 1) * B + i]
          <5> DEFINE j == (k - q - 1) * B + i
          <5>1. j \in 1..(n * B)
            BY <3>2
          <5>2. (k - 1) * B + i = q * B + j
            BY <3>3, <1>4, <1>1
          <5> HIDE DEF j
          <5>3. j \in 1..Len(data)
            BY <5>1, <1>4, <1>5
          <5>4. message[Len(bytes) + j] = data[j]
            BY <5>3, <1>9
          <5> QED BY <5>2, <5>4, <1>5 DEF j
        <4> QED BY <4>1
      <3>5. \A i \in 1..B : new[k - q][i] = data[(k - q - 1) * B + i]
        BY <3>1 DEF Cut
      <3>6. Len(new[k - q]) = B
        BY <3>1 DEF Cut
      <3> QED BY <3>1, <3>4, <3>5, <3>6
    <2> QED BY <2>1, <2>2
  <1>8. \A i \in 1..Len(rest) : rest[i] = message[Len(all) * B + i]
    <2>1. \A i \in 1..Len(rest) : rest[i] = data[n * B + i]
      BY DEF Cut
    <2>2. \A i \in 1..Len(rest) : message[q * B + n * B + i] = data[n * B + i]
      <3>1. ASSUME NEW i \in 1..Len(rest)
            PROVE  message[q * B + n * B + i] = data[n * B + i]
        <4> DEFINE j == n * B + i
        <4>1. j \in 1..Len(data) /\ q * B + n * B + i = q * B + j
          BY <1>4, <1>5
        <4> HIDE DEF j
        <4>2. message[Len(bytes) + j] = data[j]
          BY <4>1, <1>9
        <4> QED BY <4>1, <4>2, <1>5 DEF j
      <3> QED BY <3>1
    <2> QED BY <2>1, <2>2, <1>2, <1>4
  <1> QED BY <1>6, <1>7, <1>8 DEF Cut, all, message

\* The first n blocks of the data, and what follows them.
LEMMA CutOf ==
  ASSUME NEW S, NEW data \in Seq(S), NEW n \in Nat, n * BlockLength <= Len(data)
  PROVE  LET whole == [k \in 1..n |-> SubSeq(data, (k - 1) * BlockLength + 1, k * BlockLength)]
             rest == SubSeq(data, n * BlockLength + 1, Len(data))
         IN  /\ whole \in Seq(Seq(S)) /\ Len(whole) = n
             /\ rest \in Seq(S) /\ Len(rest) = Len(data) - n * BlockLength
             /\ Cut(whole, rest, data)
  <1> DEFINE B == BlockLength
             whole == [k \in 1..n |-> SubSeq(data, (k - 1) * B + 1, k * B)]
             rest == SubSeq(data, n * B + 1, Len(data))
  <1>1. B \in Nat /\ n * B \in Nat /\ Len(data) \in Nat
    BY BlockIsPositive, Products
  <1>2. ASSUME NEW k \in 1..n
        PROVE  /\ whole[k] \in Seq(S)
               /\ Len(whole[k]) = B
               /\ \A i \in 1..B : whole[k][i] = data[(k - 1) * B + i]
    <2> DEFINE m == (k - 1) * B
    <2>1. m \in Nat /\ k * B = m + B
      BY <1>1
    <2>2. k * B <= n * B
      <3>1. CASE B = 0
        BY <3>1
      <3>2. CASE B # 0
        <4>1. B \in 1..B
          BY <3>2, <1>1
        <4> QED BY <4>1, <1>1, WithinBlocks
      <3> QED BY <3>1, <3>2
    <2>3. whole[k] = SubSeq(data, m + 1, k * B)
      OBVIOUS
    <2> HIDE DEF m, whole
    <2>4. m <= m + B /\ m + B <= Len(data) /\ m + B \in Nat /\ m + B - m = B
      BY <1>1, <2>1, <2>2
    <2> DEFINE e == m + B
    <2>6. e \in Nat /\ m <= e /\ e <= Len(data) /\ e - m = B /\ e = k * B
      BY <1>1, <2>1, <2>4
    <2> HIDE DEF e
    <2>5. /\ SubSeq(data, m + 1, e) \in Seq(S)
          /\ Len(SubSeq(data, m + 1, e)) = e - m
          /\ \A i \in 1..(e - m) : SubSeq(data, m + 1, e)[i] = data[m + i]
      BY <2>1, <2>6, PartOf
    <2>7. \A i \in 1..B : SubSeq(data, m + 1, e)[i] = data[m + i]
      BY <2>5, <2>6
    <2> QED BY <2>3, <2>5, <2>6, <2>7 DEF m
  <1>3. whole \in Seq(Seq(S)) /\ Len(whole) = n
    <2>1. whole \in [1..n -> Seq(S)]
      BY <1>2
    <2> HIDE DEF whole
    <2> QED BY <2>1, FunctionIsSeq
  <1>4. /\ rest \in Seq(S)
        /\ Len(rest) = Len(data) - n * B
        /\ \A i \in 1..(Len(data) - n * B) : rest[i] = data[n * B + i]
    <2> DEFINE m == n * B
               e == Len(data)
    <2>1. m \in Nat /\ e \in Nat /\ m <= e /\ e <= Len(data)
      BY <1>1
    <2> HIDE DEF m, e
    <2>2. /\ SubSeq(data, m + 1, e) \in Seq(S)
          /\ Len(SubSeq(data, m + 1, e)) = e - m
          /\ \A i \in 1..(e - m) : SubSeq(data, m + 1, e)[i] = data[m + i]
      BY <2>1, PartOf
    <2> QED BY <2>2 DEF m, e
  <1> HIDE DEF whole, rest
  <1>5. Len(data) = n * B + Len(rest)
    BY <1>1, <1>4
  <1>6. Cut(whole, rest, data)
    BY <1>2, <1>3, <1>4, <1>5 DEF Cut
  <1> QED BY <1>3, <1>4, <1>6 DEF whole, rest

\* A rest may grow, and when it is a whole block it is one more.
LEMMA CutGrows ==
  ASSUME NEW S, NEW bytes \in Seq(S), NEW data \in Seq(S),
         NEW blocks \in Seq(Seq(S)), NEW rest \in Seq(S), Cut(blocks, rest, bytes)
  PROVE  Cut(blocks, rest \o data, bytes \o data)
  <1> DEFINE q == Len(blocks) * BlockLength
             n == Len(rest)
             message == bytes \o data
             more == rest \o data
  <1>1. q \in Nat /\ n \in Nat /\ BlockLength \in Nat /\ Len(blocks) \in Nat /\ Len(data) \in Nat
    BY BlockIsPositive, Products
  <1>2. /\ Len(message) = Len(bytes) + Len(data)
        /\ \A j \in 1..(Len(bytes) + Len(data)) :
              message[j] = IF j <= Len(bytes) THEN bytes[j] ELSE data[j - Len(bytes)]
    BY ConcatProperties
  <1>3. /\ Len(more) = n + Len(data)
        /\ \A j \in 1..(n + Len(data)) : more[j] = IF j <= n THEN rest[j] ELSE data[j - n]
    BY ConcatProperties
  <1>4. Len(bytes) = q + n
    BY DEF Cut
  <1>5. \A k \in 1..Len(blocks), i \in 1..BlockLength : (k - 1) * BlockLength + i \in 1..q
    BY <1>1, WithinBlocks
  <1>6. \A k \in 1..Len(blocks) :
          /\ Len(blocks[k]) = BlockLength
          /\ \A i \in 1..BlockLength : blocks[k][i] = bytes[(k - 1) * BlockLength + i]
    BY DEF Cut
  <1>7. \A i \in 1..n : rest[i] = bytes[q + i]
    BY DEF Cut
  <1> HIDE DEF q, n, message, more
  <1>8. ASSUME NEW k \in 1..Len(blocks), NEW i \in 1..BlockLength
        PROVE  blocks[k][i] = message[(k - 1) * BlockLength + i]
    <2> DEFINE j == (k - 1) * BlockLength + i
    <2>1. j \in 1..q /\ blocks[k][i] = bytes[j]
      BY <1>5, <1>6
    <2> HIDE DEF j
    <2>2. j \in 1..(Len(bytes) + Len(data)) /\ j <= Len(bytes)
      BY <2>1, <1>1, <1>4
    <2>3. message[j] = bytes[j]
      BY <2>2, <1>2
    <2> QED BY <2>1, <2>3 DEF j
  <1>9. ASSUME NEW i \in 1..Len(more)
        PROVE  more[i] = message[q + i]
    <2>1. CASE i <= n
      <3>1. i \in 1..n /\ i \in 1..(n + Len(data)) /\ q + i <= Len(bytes)
              /\ q + i \in 1..(Len(bytes) + Len(data))
        BY <2>1, <1>1, <1>3, <1>4
      <3>2. more[i] = rest[i] /\ message[q + i] = bytes[q + i]
        BY <3>1, <1>2, <1>3
      <3> QED BY <3>1, <3>2, <1>7
    <2>2. CASE ~(i <= n)
      <3>1. i \in 1..(n + Len(data)) /\ ~(i <= n)
        BY <2>2, <1>3
      <3>2. /\ q + i \in 1..(Len(bytes) + Len(data)) /\ ~(q + i <= Len(bytes))
            /\ i - n = (q + i) - Len(bytes)
        BY <3>1, <1>1, <1>4
      <3>3. more[i] = data[i - n]
        BY <3>1, <1>3
      <3>4. message[q + i] = data[(q + i) - Len(bytes)]
        BY ONLY <3>2, <1>2
      <3> QED BY <3>2, <3>3, <3>4
    <2> QED BY <2>1, <2>2
  <1>10. Len(message) = q + Len(more)
    BY <1>1, <1>2, <1>3, <1>4
  <1> QED BY <1>6, <1>8, <1>9, <1>10 DEF Cut, q, message, more

LEMMA CutFilled ==
  ASSUME NEW S, NEW bytes \in Seq(S), NEW blocks \in Seq(Seq(S)), NEW block \in Seq(S),
         Cut(blocks, block, bytes), Len(block) = BlockLength
  PROVE  Cut(blocks \o <<block>>, <<>>, bytes)
  <1> DEFINE q == Len(blocks)
             all == blocks \o <<block>>
  <1>1. q \in Nat /\ BlockLength \in Nat
    BY BlockIsPositive
  <1>2. /\ Len(all) = q + 1
        /\ \A k \in 1..q : all[k] = blocks[k]
        /\ all[q + 1] = block
    BY ConcatProperties
  <1>3. /\ (q + 1) * BlockLength = q * BlockLength + BlockLength
        /\ (q + 1) - 1 = q
    BY <1>1
  <1> HIDE DEF all
  <1>4. Len(bytes) = Len(all) * BlockLength + Len(<<>>)
    BY <1>1, <1>2, <1>3 DEF Cut
  <1>5. ASSUME NEW k \in 1..Len(all)
        PROVE  /\ Len(all[k]) = BlockLength
               /\ \A i \in 1..BlockLength : all[k][i] = bytes[(k - 1) * BlockLength + i]
    <2>1. CASE k \in 1..q
      <3>1. all[k] = blocks[k]
        BY <2>1, <1>2
      <3>2. /\ Len(blocks[k]) = BlockLength
            /\ \A i \in 1..BlockLength : blocks[k][i] = bytes[(k - 1) * BlockLength + i]
        BY <2>1 DEF Cut
      <3> QED BY <3>1, <3>2
    <2>2. CASE k = q + 1
      <3>1. all[k] = block /\ (k - 1) * BlockLength = q * BlockLength
        BY <2>2, <1>2, <1>3
      <3>2. Len(block) = BlockLength
        OBVIOUS
      <3>3. \A i \in 1..BlockLength : block[i] = bytes[q * BlockLength + i]
        BY <3>2 DEF Cut
      <3> QED BY <3>1, <3>2, <3>3
    <2> QED BY <2>1, <2>2, <1>1, <1>2
  <1>6. \A i \in 1..Len(<<>>) : <<>>[i] = bytes[Len(all) * BlockLength + i]
    OBVIOUS
  <1>7. Cut(all, <<>>, bytes)
    BY ONLY <1>4, <1>5, <1>6 DEF Cut
  <1> QED BY <1>7 DEF all

LEMMA TakeBlocksAbsorbs ==
  ASSUME NEW S, NEW bytes \in Seq(S), NEW data \in Seq(S), NEW h,
         IsHasher(h, S), Cut(h.blocks, <<>>, bytes)
  PROVE  LET g == TakeBlocks(h, data)
         IN  /\ IsHasher(g, S)
             /\ Cut(g.blocks, g.rest, bytes \o data)
             /\ Len(g.rest) < BlockLength
             /\ g.total = h.total
  <1> DEFINE g == TakeBlocks(h, data)
             n == Len(data) \div BlockLength
             whole == [k \in 1..n |-> SubSeq(data, (k - 1) * BlockLength + 1, k * BlockLength)]
             rest == SubSeq(data, n * BlockLength + 1, Len(data))
  <1>1. BlockLength \in Nat \ {0} /\ Len(data) \in Nat
    BY BlockIsPositive
  <1>2. n \in Nat /\ n * BlockLength <= Len(data) /\ Len(data) - n * BlockLength < BlockLength
    BY <1>1, Division
  <1>3. g = [h EXCEPT !.blocks = h.blocks \o whole, !.rest = rest]
    BY DEF TakeBlocks, Compress
  <1> HIDE DEF n
  <1>4. /\ whole \in Seq(Seq(S)) /\ Len(whole) = n
        /\ rest \in Seq(S) /\ Len(rest) = Len(data) - n * BlockLength
        /\ Cut(whole, rest, data)
    BY <1>2, CutOf
  <1> HIDE DEF g, whole, rest
  <1>5. h \in [blocks : Seq(Seq(S)), rest : Seq(S), total : Nat]
    BY DEF IsHasher
  <1>6. /\ g.blocks = h.blocks \o whole /\ g.rest = rest /\ g.total = h.total
        /\ g \in [blocks : Seq(Seq(S)), rest : Seq(S), total : Nat]
    <2>1. h.blocks \o whole \in Seq(Seq(S))
      BY <1>4, <1>5, ConcatProperties
    <2> QED BY <2>1, <1>3, <1>4, <1>5
  <1>7. Cut(h.blocks \o whole, rest, bytes \o data)
    BY <1>4, <1>5, CutJoined
  <1>8. Len(g.rest) < BlockLength
    BY <1>2, <1>4, <1>6
  <1> QED BY <1>6, <1>7, <1>8 DEF IsHasher, g

\* update() of src/core/sha2.js absorbs the data and nothing else, whatever an
\* earlier piece has left in the buffer and wherever the data ends.
THEOREM UpdateAbsorbs ==
  ASSUME NEW S, NEW bytes \in Seq(S), NEW data \in Seq(S), NEW h, IsHashOf(h, bytes, S)
  PROVE  IsHashOf(Update(h, data), bytes \o data, S)
  <1> DEFINE counted == [h EXCEPT !.total = @ + Len(data)]
             take == Smaller(BlockLength - Len(h.rest), Len(data))
             first == SubSeq(data, 1, take)
             last == SubSeq(data, take + 1, Len(data))
             filled == h.rest \o first
  <1>1. /\ h \in [blocks : Seq(Seq(S)), rest : Seq(S), total : Nat]
        /\ Cut(h.blocks, h.rest, bytes)
        /\ Len(h.rest) < BlockLength
        /\ h.total = Len(bytes)
    BY DEF IsHashOf, IsHasher
  <1>2. BlockLength \in Nat \ {0} /\ Len(data) \in Nat /\ Len(h.rest) \in Nat
    BY <1>1, BlockIsPositive
  <1>3. /\ counted \in [blocks : Seq(Seq(S)), rest : Seq(S), total : Nat]
        /\ counted.blocks = h.blocks /\ counted.rest = h.rest
        /\ counted.total = Len(bytes) + Len(data)
    <2>1. h.total + Len(data) \in Nat /\ h.total + Len(data) = Len(bytes) + Len(data)
      BY <1>1, <1>2
    <2>2. counted = [h EXCEPT !.total = h.total + Len(data)]
      OBVIOUS
    <2>3. h \in [blocks : Seq(Seq(S)), rest : Seq(S), total : Nat]
      BY <1>1
    <2> HIDE DEF counted
    <2> QED BY <2>1, <2>2, <2>3
  <1>4. /\ Len(bytes \o data) = Len(bytes) + Len(data)
        /\ bytes \o data \in Seq(S)
    BY ConcatProperties
  <1> HIDE DEF counted
  <1>5. CASE h.rest = <<>>
    <2>1. Update(h, data) = TakeBlocks(counted, data)
      BY <1>5 DEF Update, counted
    <2>2. IsHasher(counted, S) /\ Cut(counted.blocks, <<>>, bytes)
      BY <1>1, <1>3, <1>5 DEF IsHasher
    <2> QED BY <2>1, <2>2, <1>3, <1>4, TakeBlocksAbsorbs DEF IsHashOf
  <1>6. CASE h.rest # <<>>
    <2>1. /\ take \in Nat /\ take <= Len(data) /\ take <= BlockLength - Len(h.rest)
          /\ take = Len(data) \/ take = BlockLength - Len(h.rest)
      BY <1>1, <1>2 DEF Smaller
    <2> HIDE DEF take
    <2>2. first \in Seq(S) /\ Len(first) = take
      <3>1. /\ SubSeq(data, 0 + 1, take) \in Seq(S)
            /\ Len(SubSeq(data, 0 + 1, take)) = take - 0
        BY <2>1, PartOf
      <3> QED BY <3>1, <2>1
    <2>3. last \in Seq(S)
      BY <2>1, <1>2, PartOf
    <2>8. first \o last = data
      <3>1. /\ 1 \in 1..(Len(data) + 1)
            /\ take \in (1 - 1)..Len(data)
            /\ Len(data) \in take..Len(data)
        BY <2>1, <1>2
      <3>2. SubSeq(data, 1, take) \o SubSeq(data, take + 1, Len(data)) = SubSeq(data, 1, Len(data))
        BY <3>1, ConcatAdjacentSubSeq
      <3> QED BY <3>2, SubSeqFull
    <2> HIDE DEF first, last
    <2>4. filled \in Seq(S) /\ Len(filled) = Len(h.rest) + take
      BY <2>2, <1>1, ConcatProperties
    <2>5. Cut(h.blocks, filled, bytes \o first)
      BY <2>2, <1>1, CutGrows
    <2> HIDE DEF filled
    <2>6. CASE Len(filled) < BlockLength
      <3>1. Update(h, data) = [counted EXCEPT !.rest = filled]
        BY <2>6, <1>6 DEF Update, counted, filled, first, take
      <3>2. take = Len(data) /\ first = data
        <4>1. take = Len(data)
          BY <2>1, <2>4, <2>6, <1>2
        <4> QED BY <4>1, <2>1 DEF first
      <3>3. /\ IsHasher([counted EXCEPT !.rest = filled], S)
            /\ [counted EXCEPT !.rest = filled].blocks = h.blocks
            /\ [counted EXCEPT !.rest = filled].rest = filled
            /\ [counted EXCEPT !.rest = filled].total = Len(bytes) + Len(data)
        BY <1>3, <2>4 DEF IsHasher
      <3> QED BY <3>1, <3>2, <3>3, <2>5, <2>6, <1>4 DEF IsHashOf
    <2>7. CASE ~(Len(filled) < BlockLength)
      <3> DEFINE next == [counted EXCEPT !.blocks = h.blocks \o <<filled>>]
      <3>1. Update(h, data) = TakeBlocks(next, last)
        <4>1. Update(h, data) = TakeFilled(counted, filled, last)
          BY <2>7, <1>6 DEF Update, counted, filled, first, last, take
        <4>2. TakeFilled(counted, filled, last) = TakeBlocks(next, last)
          BY <1>3 DEF TakeFilled, Compress
        <4> QED BY <4>1, <4>2
      <3>2. Len(filled) = BlockLength
        BY <2>1, <2>4, <2>7, <1>2
      <3>3. bytes \o first \in Seq(S)
        BY <2>2, ConcatProperties
      <3>4. Cut(h.blocks \o <<filled>>, <<>>, bytes \o first)
        BY <3>2, <3>3, <2>4, <2>5, <1>1, CutFilled
      <3>5. /\ IsHasher(next, S) /\ next.blocks = h.blocks \o <<filled>>
            /\ next.total = Len(bytes) + Len(data)
        <4>1. h.blocks \o <<filled>> \in Seq(Seq(S))
          BY <2>4, <1>1, ConcatProperties
        <4> QED BY <4>1, <1>3 DEF IsHasher
      <3>6. (bytes \o first) \o last = bytes \o data
        <4>1. (bytes \o first) \o last = bytes \o (first \o last)
          BY <2>2, <2>3, ConcatAssociative
        <4> QED BY <4>1, <2>8
      <3>7. /\ IsHasher(TakeBlocks(next, last), S)
            /\ Cut(TakeBlocks(next, last).blocks, TakeBlocks(next, last).rest, (bytes \o first) \o last)
            /\ Len(TakeBlocks(next, last).rest) < BlockLength
            /\ TakeBlocks(next, last).total = next.total
        <4> DEFINE started == bytes \o first
        <4>1. started \in Seq(S) /\ Cut(next.blocks, <<>>, started)
          BY <3>3, <3>4, <3>5
        <4> HIDE DEF started, next
        <4>2. /\ IsHasher(TakeBlocks(next, last), S)
              /\ Cut(TakeBlocks(next, last).blocks, TakeBlocks(next, last).rest, started \o last)
              /\ Len(TakeBlocks(next, last).rest) < BlockLength
              /\ TakeBlocks(next, last).total = next.total
          BY <4>1, <3>5, <2>3, TakeBlocksAbsorbs
        <4> QED BY <4>2 DEF started
      <3> HIDE DEF next
      <3> QED BY <3>1, <3>5, <3>6, <3>7, <1>4 DEF IsHashOf
    <2> QED BY <2>6, <2>7
  <1> QED BY <1>5, <1>6

---------------------------------------------------------------------------
(* What a digest says of the message *)

LEMMA HasherIsOfNothing ==
  ASSUME NEW S
  PROVE  IsHashOf(Hasher, <<>>, S)
  <1>1. Hasher.blocks = <<>> /\ Hasher.rest = <<>> /\ Hasher.total = 0
    BY DEF Hasher
  <1>2. IsHasher(Hasher, S)
    BY DEF Hasher, IsHasher
  <1>3. Len(<<>>) = 0 /\ 0 * BlockLength = 0 /\ 0 < BlockLength
    BY BlockIsPositive
  <1> QED BY <1>1, <1>2, <1>3 DEF IsHashOf, Cut

LEMMA PaddingLength ==
  ASSUME NEW B \in Nat, NEW F \in Nat, NEW W \in Nat, NEW r \in Nat, r < B, F < B, 2 * W <= F,
         NEW n, n = (IF r < B - F THEN B - F ELSE B - F + B) - r + F
  PROVE  /\ r + n = B \/ r + n = B + B
         /\ n - 1 - 2 * W \in Nat
         /\ n = 1 + (n - 1 - 2 * W) + W + W
  <1>1. CASE r < B - F
    BY <1>1
  <1>2. CASE ~(r < B - F)
    BY <1>2
  <1> QED BY <1>1, <1>2

\* The padding depends on the length alone, and fills a block.
LEMMA PaddingFills ==
  ASSUME NEW h, Len(h.rest) \in Nat, Len(h.rest) < BlockLength
  PROVE  \E T :
            /\ Padding(h) \in Seq(T)
            /\ \/ Len(h.rest) + Len(Padding(h)) = BlockLength
               \/ Len(h.rest) + Len(Padding(h)) = BlockLength + BlockLength
  <1> DEFINE room == BlockLength - FieldLength
             length == (IF Len(h.rest) < room THEN room ELSE room + BlockLength)
                         - Len(h.rest) + FieldLength
             high == BigEndian((8 * h.total) \div Power(WordLength), WordLength)
             low == BigEndian((8 * h.total) % Power(WordLength), WordLength)
             zeros == length - 1 - 2 * WordLength
             T == {ByteValues \div 2, 0} \cup {high[i] : i \in 1..WordLength}
                    \cup {low[i] : i \in 1..WordLength}
             one == <<ByteValues \div 2>>
             none == [i \in 1..zeros |-> 0]
  <1>1. /\ Len(h.rest) + length = BlockLength \/ Len(h.rest) + length = BlockLength + BlockLength
        /\ zeros \in Nat
        /\ WordLength \in Nat
        /\ length = 1 + zeros + WordLength + WordLength
    <2>1. /\ BlockLength \in Nat /\ FieldLength \in Nat /\ WordLength \in Nat
          /\ 2 * WordLength <= FieldLength /\ FieldLength < BlockLength
      BY HashAssumption
    <2> DEFINE r == Len(h.rest)
    <2>2. length = (IF r < BlockLength - FieldLength THEN BlockLength - FieldLength
                    ELSE BlockLength - FieldLength + BlockLength) - r + FieldLength
      OBVIOUS
    <2>3. r \in Nat /\ r < BlockLength
      OBVIOUS
    <2> HIDE DEF r, length
    <2>4. /\ r + length = BlockLength \/ r + length = BlockLength + BlockLength
          /\ length - 1 - 2 * WordLength \in Nat
          /\ length = 1 + (length - 1 - 2 * WordLength) + WordLength + WordLength
      BY <2>1, <2>2, <2>3, PaddingLength
    <2> QED BY <2>1, <2>4 DEF r
  <1>2. Padding(h) = one \o none \o high \o low
    BY DEF Padding
  <1>3. one \in Seq(T) /\ Len(one) = 1
    OBVIOUS
  <1>4. none \in Seq(T) /\ Len(none) = zeros
    <2>1. none \in [1..zeros -> T]
      OBVIOUS
    <2> QED BY <2>1, <1>1, FunctionIsSeq
  <1>5. high \in Seq(T) /\ Len(high) = WordLength
    <2>1. high = [i \in 1..WordLength |-> high[i]]
      BY DEF BigEndian
    <2>2. high \in [1..WordLength -> T]
      BY <2>1
    <2> QED BY <2>2, <1>1, FunctionIsSeq
  <1>6. low \in Seq(T) /\ Len(low) = WordLength
    <2>1. low = [i \in 1..WordLength |-> low[i]]
      BY DEF BigEndian
    <2>2. low \in [1..WordLength -> T]
      BY <2>1
    <2> QED BY <2>2, <1>1, FunctionIsSeq
  <1> HIDE DEF one, none, high, low, T, zeros, length
  <1>7. /\ one \o none \in Seq(T) /\ Len(one \o none) = 1 + zeros
        /\ one \o none \o high \in Seq(T) /\ Len(one \o none \o high) = 1 + zeros + WordLength
    <2>1. one \o none \in Seq(T) /\ Len(one \o none) = 1 + zeros
      BY <1>3, <1>4, ConcatProperties
    <2> QED BY <2>1, <1>5, ConcatProperties
  <1>8. one \o none \o high \o low \in Seq(T)
          /\ Len(one \o none \o high \o low) = 1 + zeros + WordLength + WordLength
    BY <1>6, <1>7, ConcatProperties
  <1>9. Padding(h) \in Seq(T) /\ Len(Padding(h)) = length
    BY <1>1, <1>2, <1>8
  <1> QED BY <1>1, <1>9

\* A message that is cut into whole blocks is the blocks.
LEMMA CutTells ==
  ASSUME NEW S, NEW a \in Seq(S), NEW b \in Seq(S), NEW blocks \in Seq(Seq(S)),
         Cut(blocks, <<>>, a), Cut(blocks, <<>>, b)
  PROVE  a = b
  <1> DEFINE B == BlockLength
             n == Len(blocks)
  <1>1. B \in Nat \ {0} /\ n \in Nat /\ Len(a) = n * B /\ Len(b) = n * B /\ n * B \in Nat
    BY BlockIsPositive, Products DEF Cut
  <1>2. ASSUME NEW j \in 1..Len(a) PROVE a[j] = b[j]
    <2> DEFINE k == (j - 1) \div B
               i == j - k * B
    <2>1. j - 1 \in Nat
      OBVIOUS
    <2>2. k \in Nat /\ k * B <= j - 1 /\ (j - 1) - k * B < B
      BY <2>1, <1>1, Division
    <2> HIDE DEF k
    <2>3. k * B \in Nat /\ i \in 1..B /\ j = k * B + i
      BY <2>2, <1>1, Products
    <2>4. k < n
      <3>1. ASSUME n <= k PROVE FALSE
        <4>1. k * B = n * B + (k - n) * B /\ (k - n) * B >= 0 /\ (k - n) * B \in Int
          BY <3>1, <2>2, <1>1
        <4> QED BY <4>1, <2>2, <2>3, <1>1
      <3> QED BY <3>1, <2>2, <1>1
    <2> HIDE DEF i
    <2>5. k + 1 \in 1..n /\ (k + 1) - 1 = k
      BY <2>4, <2>2, <1>1
    <2>6. blocks[k + 1][i] = a[((k + 1) - 1) * B + i] /\ blocks[k + 1][i] = b[((k + 1) - 1) * B + i]
      BY <2>3, <2>5 DEF Cut
    <2> QED BY <2>3, <2>5, <2>6
  <1> QED BY <1>1, <1>2, SeqEqual

\* A digest is the blocks of the message and its padding.
LEMMA DigestCuts ==
  ASSUME NEW S, NEW a \in Seq(S), NEW h, IsHashOf(h, a, S), Padding(h) \in Seq(S),
         NEW n \in Nat, Len(a \o Padding(h)) = n * BlockLength
  PROVE  /\ Digest(h) \in Seq(Seq(S)) /\ Len(Digest(h)) = n
         /\ Cut(Digest(h), <<>>, a \o Padding(h))
  <1> DEFINE B == BlockLength
             p == Padding(h)
             u == Update(h, p)
             c == Len(u.blocks)
             r == Len(u.rest)
  <1>1. B \in Nat \ {0} /\ 0 \in Nat /\ 0 < B
    BY BlockIsPositive
  <1>2. IsHashOf(u, a \o p, S)
    BY UpdateAbsorbs
  <1>3. Digest(h) = u.blocks
    BY DEF Digest
  <1> HIDE DEF u, p
  <1>4. /\ u.blocks \in Seq(Seq(S)) /\ u.rest \in Seq(S) /\ r < B
        /\ Cut(u.blocks, u.rest, a \o p)
    BY <1>2 DEF IsHashOf, IsHasher
  <1>5. c \in Nat /\ r \in Nat /\ c * B + r = n * B + 0
    <2>1. n * B \in Nat
      BY <1>1
    <2> QED BY <1>4, <2>1 DEF Cut, p
  <1>6. c = n /\ r = 0
    <2>1. r < B
      BY <1>4
    <2> HIDE DEF c, r, B
    <2> QED BY <1>1, <1>5, <2>1, UniqueDivision
  <1>7. u.rest = <<>>
    BY <1>4, <1>6, EmptySeq
  <1> QED BY <1>3, <1>4, <1>6, <1>7 DEF p

\* digest() of src/core/sha2.js tells messages of one length apart: two hashers
\* with one digest and one total have absorbed the same bytes, in whatever pieces.
THEOREM DigestTells ==
  ASSUME NEW S, NEW a \in Seq(S), NEW b \in Seq(S), NEW h, NEW g,
         IsHashOf(h, a, S), IsHashOf(g, b, S), h.total = g.total, Digest(h) = Digest(g)
  PROVE  a = b
  <1> DEFINE B == BlockLength
  <1>1. /\ B \in Nat \ {0}
        /\ Len(a) \in Nat /\ Len(a) = Len(b)
        /\ Len(h.blocks) \in Nat /\ Len(g.blocks) \in Nat
        /\ Len(h.rest) \in Nat /\ Len(g.rest) \in Nat
        /\ Len(h.rest) < B /\ Len(g.rest) < B
    BY BlockIsPositive DEF IsHashOf, IsHasher
  <1>2. Len(a) = Len(h.blocks) * B + Len(h.rest) /\ Len(b) = Len(g.blocks) * B + Len(g.rest)
    BY DEF IsHashOf, Cut
  <1>3. Len(h.rest) = Len(g.rest)
    BY <1>1, <1>2, UniqueDivision
  <1> DEFINE p == Padding(h)
  <1>4. Padding(g) = p
    BY <1>3 DEF Padding
  <1>5. PICK T : /\ p \in Seq(T)
                 /\ Len(h.rest) + Len(p) = B \/ Len(h.rest) + Len(p) = B + B
    BY <1>1, PaddingFills
  <1> HIDE DEF p
  <1> DEFINE U == S \cup T
  <1>6. a \in Seq(U) /\ b \in Seq(U) /\ p \in Seq(U)
    BY <1>5, SeqMonotonic
  <1>7. IsHashOf(h, a, U) /\ IsHashOf(g, b, U)
    <2>1. Seq(S) \subseteq Seq(U)
      BY SeqMonotonic
    <2>2. Seq(Seq(S)) \subseteq Seq(Seq(U))
      BY <2>1, SeqMonotonic
    <2> QED BY <2>1, <2>2 DEF IsHashOf, IsHasher
  <1> HIDE DEF U
  <1>8. /\ a \o p \in Seq(U) /\ b \o p \in Seq(U)
        /\ Len(a \o p) = Len(a) + Len(p) /\ Len(b \o p) = Len(b) + Len(p)
        /\ Len(p) \in Nat
    BY <1>6, ConcatProperties
  <1>9. \E n \in Nat : Len(a) + Len(p) = n * B
    <2> DEFINE q == Len(h.blocks)
               x == q * B
    <2>1. q \in Nat /\ x \in Nat /\ (q + 1) * B = x + B /\ (q + 2) * B = x + B + B
      BY <1>1
    <2>2. Len(a) = x + Len(h.rest)
      BY <1>2
    <2> DEFINE r == Len(h.rest)
               l == Len(p)
    <2>5. r \in Nat /\ l \in Nat /\ B \in Nat /\ Len(a) = x + r
      BY <2>2, <1>1, <1>8
    <2>6. r + l = B \/ r + l = B + B
      BY <1>5
    <2> HIDE DEF x, q, r, l
    <2>3. Len(a) + l = x + B \/ Len(a) + l = x + B + B
      BY <2>1, <2>5, <2>6
    <2>4. q + 1 \in Nat /\ q + 2 \in Nat
      BY <2>1
    <2> QED BY <2>1, <2>3, <2>4 DEF l
  <1>10. PICK n \in Nat : Len(a) + Len(p) = n * B
    BY <1>9
  <1>11. Digest(h) \in Seq(Seq(U)) /\ Cut(Digest(h), <<>>, a \o p)
    <2>1. Padding(h) \in Seq(U) /\ Len(a \o Padding(h)) = n * BlockLength
      BY <1>6, <1>8, <1>10 DEF p
    <2> QED BY <1>6, <1>7, <2>1, DigestCuts DEF p
  <1>12. Cut(Digest(g), <<>>, b \o p)
    <2>1. Padding(g) \in Seq(U) /\ Len(b \o Padding(g)) = n * BlockLength
      BY <1>1, <1>4, <1>6, <1>8, <1>10
    <2> QED BY <1>4, <1>6, <1>7, <2>1, DigestCuts
  <1>13. a \o p = b \o p
    BY <1>8, <1>11, <1>12, CutTells
  <1> QED BY <1>6, <1>13, ConcatSimplifications

---------------------------------------------------------------------------
(* The digest is the standard's *)

LEMMA ZerosOf ==
  ASSUME NEW n \in Nat
  PROVE  /\ [i \in 1..n |-> 0] \in Seq(Nat) /\ Len([i \in 1..n |-> 0]) = n
         /\ \A i \in 1..n : [k \in 1..n |-> 0][i] = 0
  <1>1. [i \in 1..n |-> 0] \in [1..n -> Nat]
    OBVIOUS
  <1> QED BY <1>1, FunctionIsSeq

LEMMA BytesOf ==
  ASSUME NEW value \in Nat, NEW n \in Nat
  PROVE  /\ BigEndian(value, n) \in Seq(Nat) /\ Len(BigEndian(value, n)) = n
         /\ \A i \in 1..n : BigEndian(value, n)[i] = (value \div Power(n - i)) % ByteValues
  <1> DEFINE f == [i \in 1..n |-> (value \div Power(n - i)) % ByteValues]
  <1>1. BigEndian(value, n) = f
    BY DEF BigEndian
  <1>2. ASSUME NEW i \in 1..n PROVE f[i] \in Nat
    <2>1. n - i \in Nat
      OBVIOUS
    <2>2. value \div Power(n - i) \in Nat
      BY <2>1, PowerIsPositive, Divided
    <2>3. (value \div Power(n - i)) % ByteValues \in Nat
      BY <2>2, HashAssumption, Divided
    <2> QED BY <2>3
  <1>3. f \in [1..n -> Nat]
    BY <1>2
  <1>4. f \in Seq(Nat) /\ Len(f) = n
    <2> HIDE DEF f
    <2> QED BY <1>3, FunctionIsSeq
  <1> QED BY <1>1, <1>4

\* The bytes of a length that two words hold are zeros and the two words.
LEMMA FieldSplits ==
  ASSUME NEW bits \in Nat, bits < Power(2 * WordLength)
  PROVE  BigEndian(bits, FieldLength) =
           [i \in 1..(FieldLength - 2 * WordLength) |-> 0]
             \o BigEndian(bits \div Power(WordLength), WordLength)
             \o BigEndian(bits % Power(WordLength), WordLength)
  <1> DEFINE W == WordLength
             F == FieldLength
             base == ByteValues
             word == Power(W)
             more == F - 2 * W
             none == [i \in 1..more |-> 0]
             field == BigEndian(bits, F)
             high == BigEndian(bits \div word, W)
             low == BigEndian(bits % word, W)
             upper == none \o high
             whole == upper \o low
  <1>1. W \in Nat /\ F \in Nat /\ base \in Nat \ {0} /\ more \in Nat /\ F = more + W + W
    BY HashAssumption
  <1>2. word \in Nat \ {0}
    BY <1>1, PowerIsPositive
  <1> HIDE DEF word
  <1>3. bits \div word \in Nat /\ bits % word \in Nat
    BY <1>2, Divided
  <1>4. /\ none \in Seq(Nat) /\ Len(none) = more
        /\ \A i \in 1..more : none[i] = 0
    <2> HIDE DEF more
    <2> QED BY <1>1, ZerosOf
  <1>5. /\ field \in Seq(Nat) /\ Len(field) = F
        /\ \A i \in 1..F : field[i] = (bits \div Power(F - i)) % base
    BY <1>1, BytesOf
  <1>6. /\ high \in Seq(Nat) /\ Len(high) = W
        /\ \A i \in 1..W : high[i] = ((bits \div word) \div Power(W - i)) % base
    BY <1>1, <1>3, BytesOf
  <1>7. /\ low \in Seq(Nat) /\ Len(low) = W
        /\ \A i \in 1..W : low[i] = ((bits % word) \div Power(W - i)) % base
    BY <1>1, <1>3, BytesOf
  <1> HIDE DEF none, field, high, low, more
  <1>8. /\ upper \in Seq(Nat) /\ Len(upper) = Len(none) + Len(high)
        /\ \A i \in 1..Len(none) : upper[i] = none[i]
        /\ \A i \in 1..Len(high) : upper[Len(none) + i] = high[i]
    <2>1. none \in Seq(Nat) /\ high \in Seq(Nat)
      BY <1>4, <1>6
    <2> QED BY <2>1, Joined
  <1> HIDE DEF upper
  <1>9. /\ whole \in Seq(Nat) /\ Len(whole) = Len(upper) + Len(low)
        /\ \A i \in 1..Len(upper) : whole[i] = upper[i]
        /\ \A i \in 1..Len(low) : whole[Len(upper) + i] = low[i]
    <2>1. upper \in Seq(Nat) /\ low \in Seq(Nat)
      BY <1>7, <1>8
    <2> QED BY <2>1, Joined
  <1> HIDE DEF whole, W, F, base
  <1>10. Len(upper) = more + W /\ Len(whole) = F
    BY <1>1, <1>4, <1>6, <1>7, <1>8, <1>9
  <1>11. ASSUME NEW i \in 1..F PROVE field[i] = whole[i]
    <2>1. CASE i <= more
      <3>1. F - i \in Nat /\ W + W \in Nat /\ W + W <= F - i /\ i \in 1..more /\ i \in 1..(more + W)
        BY <1>1, <2>1
      <3>2. Power(W + W) <= Power(F - i) /\ Power(F - i) \in Nat \ {0} /\ Power(W + W) \in Nat
        BY <3>1, PowerGrows, PowerIsPositive
      <3>3. bits < Power(W + W)
        <4>1. 2 * WordLength = W + W
          BY <1>1 DEF W
        <4> QED BY <4>1
      <3>4. bits = 0 * Power(F - i) + bits /\ bits < Power(F - i)
        BY <3>2, <3>3
      <3>5. bits \div Power(F - i) = 0
        BY <3>2, <3>4, DividedIs
      <3>6. 0 % base = 0
        <4>1. 0 = 0 * base + 0
          BY <1>1
        <4> QED BY <4>1, <1>1, DividedIs
      <3>7. whole[i] = 0
        BY <3>1, <1>4, <1>8, <1>9, <1>10
      <3> QED BY <3>5, <3>6, <3>7, <1>5
    <2>2. CASE more < i /\ i <= more + W
      <3> DEFINE j == i - more
      <3>1. j \in 1..W /\ i = more + j /\ i \in 1..(more + W) /\ W - j \in Nat /\ F - i = W + (W - j)
        BY <1>1, <2>2
      <3> HIDE DEF j
      <3>2. whole[i] = high[j]
        BY <3>1, <1>4, <1>6, <1>8, <1>9, <1>10
      <3>3. Power(W - j) \in Nat \ {0} /\ Power(F - i) = word * Power(W - j)
        BY <3>1, <1>1, PowerIsPositive, PowerAdds DEF word
      <3>4. (bits \div word) \div Power(W - j) = bits \div Power(F - i)
        BY <3>3, <1>2, DividedTwice
      <3> QED BY <3>1, <3>2, <3>4, <1>5, <1>6
    <2>3. CASE more + W < i
      <3> DEFINE j == i - (more + W)
      <3>1. /\ j \in 1..W /\ i = (more + W) + j /\ W - j \in Nat /\ j - 1 \in Nat /\ 1 \in Nat
            /\ F - i = W - j /\ W = (W - j) + ((j - 1) + 1) /\ (j - 1) + 1 \in Nat
        BY <1>1, <2>3
      <3> HIDE DEF j
      <3>2. whole[i] = low[j]
        BY <3>1, <1>7, <1>9, <1>10
      <3>3. Power(W - j) \in Nat \ {0} /\ Power(j - 1) \in Nat \ {0}
        BY <3>1, PowerIsPositive
      <3>4. Power((j - 1) + 1) = base * Power(j - 1)
        BY <3>1, PowerUnfolds DEF base
      <3>5. word = Power(W - j) * (base * Power(j - 1))
        <4>1. Power((W - j) + ((j - 1) + 1)) = Power(W - j) * Power((j - 1) + 1)
          BY <3>1, PowerAdds
        <4>2. word = Power((W - j) + ((j - 1) + 1))
          BY <3>1 DEF word
        <4> QED BY <3>4, <4>1, <4>2
      <3>6. ((bits % word) \div Power(W - j)) % base = (bits \div Power(W - j)) % base
        BY <3>3, <3>5, <1>1, DigitOfRemainder
      <3> QED BY <3>1, <3>2, <3>6, <1>5, <1>7
    <2> QED BY <2>1, <2>2, <2>3, <1>1
  <1>12. field = whole
    BY <1>5, <1>9, <1>10, <1>11, SameSeq
  <1> QED BY <1>12 DEF whole, upper, none, high, low, field, word, more, W, F

\* The fewest zeros that end a block before the length field.
LEMMA FewestZeros ==
  ASSUME NEW n \in Nat, NEW k \in Nat, NEW z \in Nat, z < BlockLength,
         n + 1 + z + FieldLength = k * BlockLength
  PROVE  z = CHOOSE y \in 0..BlockLength :
                /\ (n + 1 + y + FieldLength) % BlockLength = 0
                /\ \A x \in 0..(y - 1) : ~((n + 1 + x + FieldLength) % BlockLength = 0)
  <1> DEFINE B == BlockLength
             fits(y) == (n + 1 + y + FieldLength) % B = 0
  <1>1. B \in Nat \ {0} /\ FieldLength \in Nat
    BY HashAssumption
  <1>2. fits(z)
    <2> DEFINE l == k * B + 0
    <2>1. 0 \in Nat /\ 0 < B /\ n + 1 + z + FieldLength = l
      BY <1>1
    <2>2. l % B = 0
      <3> HIDE DEF B
      <3> QED BY <2>1, <1>1, DividedIs
    <2> HIDE DEF l
    <2> QED BY <2>1, <2>2
  <1>3. ASSUME NEW y \in Nat, fits(y), y < z PROVE FALSE
    <2> DEFINE l == n + 1 + y + FieldLength
               m == l \div B
    <2>1. l \in Nat /\ l % B = 0 /\ n + 1 + z + FieldLength = l + (z - y)
      BY <1>1, <1>3
    <2> HIDE DEF l
    <2>2. m \in Nat /\ l = m * B + 0
      BY <1>1, <2>1, Divided
    <2> HIDE DEF m
    <2>3. z - y \in Nat /\ z - y < B /\ z - y # 0
      <3> HIDE DEF fits
      <3> QED BY <1>1, <1>3
    <2>4. m * B + (z - y) = k * B + 0
      <3> DEFINE x == m * B
                 w == k * B
                 d == z - y
      <3>1. x \in Nat /\ w \in Nat /\ d \in Nat /\ l = x + 0 /\ w = l + d
        BY <1>1, <2>1, <2>2, <2>3
      <3> HIDE DEF x, w, d
      <3>2. x + d = w + 0
        BY <3>1
      <3> QED BY <3>2 DEF x, w, d
    <2>5. z - y = 0
      <3> DEFINE d == z - y
      <3>1. d \in Nat /\ d < B /\ 0 < B /\ m * B + d = k * B + 0
        BY <1>1, <2>3, <2>4
      <3> HIDE DEF d
      <3>2. d = 0
        BY <1>1, <2>2, <3>1, UniqueDivision
      <3> QED BY <3>2 DEF d
    <2> QED BY <2>3, <2>5
  <1>4. z \in 0..B /\ fits(z) /\ \A x \in 0..(z - 1) : ~fits(x)
    <2>1. z \in 0..B
      BY <1>1
    <2>2. ASSUME NEW x \in 0..(z - 1) PROVE ~fits(x)
      <3>1. x \in Nat /\ x < z
        OBVIOUS
      <3> HIDE DEF fits
      <3> QED BY <3>1, <1>3
    <2> QED BY <1>2, <2>1, <2>2
  <1>5. ASSUME NEW y \in 0..B, fits(y), \A x \in 0..(y - 1) : ~fits(x) PROVE y = z
    <2>1. y \in Nat /\ ~(y < z)
      BY <1>1, <1>3, <1>5
    <2>2. z < y => z \in 0..(y - 1)
      BY <2>1
    <2> HIDE DEF fits
    <2> QED BY <2>1, <2>2, <1>2, <1>5
  <1> DEFINE least(y) == y \in 0..B /\ fits(y) /\ \A x \in 0..(y - 1) : ~fits(x)
  <1>6. (CHOOSE y \in 0..B : fits(y) /\ \A x \in 0..(y - 1) : ~fits(x)) = z
    <2> HIDE DEF fits, B
    <2> QED BY <1>4, <1>5
  <1> QED BY <1>6

\* Six parts, joined in two ways.
LEMMA RegroupedAll ==
  ASSUME NEW a \in Seq(Int), NEW b \in Seq(Int), NEW c \in Seq(Int),
         NEW d \in Seq(Int), NEW e \in Seq(Int), NEW f \in Seq(Int)
  PROVE  a \o b \o c \o (d \o e \o f) = a \o (b \o (c \o d) \o e \o f)
  <1>1. \A x, y \in Seq(Int) : x \o y \in Seq(Int)
    BY Joined
  <1>2. e \o f \in Seq(Int)
    BY <1>1, Zenon
  <1>3. c \o d \in Seq(Int)
    BY <1>1, Zenon
  <1>4. a \o b \in Seq(Int)
    BY <1>1, Zenon
  <1>5. d \o (e \o f) \in Seq(Int)
    BY <1>1, <1>2, Zenon
  <1>6. b \o (c \o d) \in Seq(Int)
    BY <1>1, <1>3, Zenon
  <1>7. c \o (d \o (e \o f)) \in Seq(Int)
    BY <1>1, <1>5, Zenon
  <1>8. (d \o e) \o f = d \o (e \o f)
    BY Regrouped, Zenon
  <1>9. ((a \o b) \o c) \o (d \o (e \o f)) = (a \o b) \o (c \o (d \o (e \o f)))
    <2>1. \A x, y \in Seq(Int) : ((a \o b) \o x) \o y = (a \o b) \o (x \o y)
      BY <1>4, Regrouped, Zenon
    <2> QED BY <1>5, <2>1, Zenon
  <1>10. (a \o b) \o (c \o (d \o (e \o f))) = a \o (b \o (c \o (d \o (e \o f))))
    <2>1. \A x \in Seq(Int) : (a \o b) \o x = a \o (b \o x)
      BY Regrouped, Zenon
    <2> QED BY <1>7, <2>1, Zenon
  <1>11. ((b \o (c \o d)) \o e) \o f = (b \o (c \o d)) \o (e \o f)
    <2>1. \A x, y \in Seq(Int) : ((b \o (c \o d)) \o x) \o y = (b \o (c \o d)) \o (x \o y)
      BY <1>6, Regrouped, Zenon
    <2> QED BY <2>1, Zenon
  <1>12. (b \o (c \o d)) \o (e \o f) = b \o ((c \o d) \o (e \o f))
    <2>1. \A x, y \in Seq(Int) : (b \o x) \o y = b \o (x \o y)
      BY Regrouped, Zenon
    <2> QED BY <1>2, <1>3, <2>1, Zenon
  <1>13. (c \o d) \o (e \o f) = c \o (d \o (e \o f))
    <2>1. \A x \in Seq(Int) : (c \o d) \o x = c \o (d \o x)
      BY Regrouped, Zenon
    <2> QED BY <1>2, <2>1, Zenon
  <1> QED BY <1>8, <1>9, <1>10, <1>11, <1>12, <1>13, Zenon

\* Zeros and zeros are zeros.
LEMMA ZerosJoin ==
  ASSUME NEW m \in Nat, NEW n \in Nat
  PROVE  [i \in 1..m |-> 0] \o [i \in 1..n |-> 0] = [i \in 1..(m + n) |-> 0]
  <1> DEFINE a == [i \in 1..m |-> 0]
             b == [i \in 1..n |-> 0]
             c == [i \in 1..(m + n) |-> 0]
             whole == a \o b
  <1>1. m + n \in Nat
    OBVIOUS
  <1>2. a \in Seq(Nat) /\ Len(a) = m /\ \A i \in 1..m : a[i] = 0
    BY ZerosOf
  <1>3. b \in Seq(Nat) /\ Len(b) = n /\ \A i \in 1..n : b[i] = 0
    BY ZerosOf
  <1>4. c \in Seq(Nat) /\ Len(c) = m + n /\ \A i \in 1..(m + n) : c[i] = 0
    BY <1>1, ZerosOf
  <1> HIDE DEF a, b, c
  <1>5. /\ whole \in Seq(Nat) /\ Len(whole) = Len(a) + Len(b)
        /\ \A i \in 1..Len(a) : whole[i] = a[i]
        /\ \A i \in 1..Len(b) : whole[Len(a) + i] = b[i]
    <2>1. a \in Seq(Nat) /\ b \in Seq(Nat)
      BY <1>2, <1>3
    <2> QED BY <2>1, Joined
  <1> HIDE DEF whole
  <1>6. ASSUME NEW i \in 1..(m + n) PROVE whole[i] = c[i]
    <2>1. CASE i <= m
      BY <2>1, <1>2, <1>4, <1>5
    <2>2. CASE m < i
      <3>1. i - m \in 1..n /\ m + (i - m) = i
        BY <2>2
      <3> QED BY <3>1, <1>2, <1>3, <1>4, <1>5
    <2> QED BY <2>1, <2>2
  <1>7. whole = c
    BY <1>2, <1>3, <1>4, <1>5, <1>6, SameSeq
  <1> QED BY <1>7 DEF whole, a, b, c

\* The standard's padding is the one digest() writes.
LEMMA PaddedIs ==
  ASSUME NEW message \in Seq(Int), NEW h, NEW q \in Nat, NEW r \in Nat, r < BlockLength,
         Len(h.rest) = r, Len(message) = q * BlockLength + r,
         h.total = Len(message), 8 * Len(message) < Power(2 * WordLength)
  PROVE  /\ Padding(h) \in Seq(Nat)
         /\ Padded(message) = message \o Padding(h)
         /\ \E k \in Nat : Len(message \o Padding(h)) = k * BlockLength
  <1> DEFINE B == BlockLength
             F == FieldLength
             W == WordLength
             n == Len(message)
             bits == 8 * n
             z == (IF r < B - F THEN B - F ELSE B - F + B) - r - 1
             more == F - 2 * W
             half == <<ByteValues \div 2>>
             none == [i \in 1..z |-> 0]
             extra == [i \in 1..more |-> 0]
             all == [i \in 1..(z + more) |-> 0]
             high == BigEndian(bits \div Power(W), W)
             low == BigEndian(bits % Power(W), W)
             field == BigEndian(bits, F)
  <1>1. /\ B \in Nat \ {0} /\ F \in Nat /\ W \in Nat /\ F < B /\ more \in Nat /\ F = more + W + W
        /\ ByteValues \div 2 \in Nat
    BY HashAssumption
  <1>2. n \in Nat /\ bits \in Nat
    OBVIOUS
  <1>3. z \in Nat /\ z < B /\ (r + 1 + z + F = B \/ r + 1 + z + F = B + B)
    <2>1. CASE r < B - F
      BY <2>1, <1>1
    <2>2. CASE ~(r < B - F)
      BY <2>2, <1>1
    <2> QED BY <2>1, <2>2
  <1>4. \E k \in Nat : n + 1 + z + F = k * B
    <2> DEFINE x == q * B
    <2>1. x \in Nat /\ (q + 1) * B = x + B /\ (q + 2) * B = x + B + B /\ q + 1 \in Nat /\ q + 2 \in Nat
      BY <1>1
    <2>2. n = x + r
      OBVIOUS
    <2> HIDE DEF x, n, z
    <2>3. n + 1 + z + F = x + B \/ n + 1 + z + F = x + B + B
      BY <1>1, <1>2, <1>3, <2>1, <2>2
    <2> QED BY <2>1, <2>3
  <1>5. Padded(message) = message \o half \o none \o field
    <2>1. PICK k \in Nat : n + 1 + z + F = k * B
      BY <1>4
    <2> HIDE DEF z
    <2>2. z = CHOOSE y \in 0..B :
                /\ (n + 1 + y + F) % B = 0
                /\ \A x \in 0..(y - 1) : ~((n + 1 + x + F) % B = 0)
      BY <1>2, <1>3, <2>1, FewestZeros
    <2> QED BY <2>2, Zenon DEF Padded
  <1>6. Padding(h) = half \o all \o high \o low
    <2> DEFINE length == (IF Len(h.rest) < B - F THEN B - F ELSE B - F + B) - Len(h.rest) + F
    <2>1. length - 1 - 2 * W = z + more
      BY <1>1, <1>3
    <2>2. Padding(h) = half \o [i \in 1..(length - 1 - 2 * W) |-> 0] \o high \o low
      BY Zenon DEF Padding
    <2> HIDE DEF length, z, more, half, high, low
    <2> QED BY <2>1, <2>2
  <1>7. none \in Seq(Nat) /\ Len(none) = z
    <2> HIDE DEF z
    <2> QED BY <1>3, ZerosOf
  <1>8. extra \in Seq(Nat) /\ Len(extra) = more
    <2> HIDE DEF more
    <2> QED BY <1>1, ZerosOf
  <1>9. all = none \o extra
    <2> HIDE DEF z, more
    <2> QED BY <1>1, <1>3, ZerosJoin
  <1>10. field = extra \o high \o low
    BY <1>2, FieldSplits
  <1>11. high \in Seq(Nat) /\ Len(high) = W /\ low \in Seq(Nat) /\ Len(low) = W
    <2>1. Power(W) \in Nat \ {0}
      BY <1>1, PowerIsPositive
    <2> HIDE DEF bits
    <2>2. bits \div Power(W) \in Nat /\ bits % Power(W) \in Nat
      BY <1>2, <2>1, Divided
    <2> QED BY <1>1, <2>2, BytesOf
  <1>12. half \in Seq(Nat) /\ Len(half) = 1
    BY <1>1
  <1> HIDE DEF half, none, extra, all, high, low, field, z, more
  <1>13. message \in Seq(Int) /\ half \in Seq(Int) /\ none \in Seq(Int) /\ extra \in Seq(Int)
           /\ high \in Seq(Int) /\ low \in Seq(Int)
    <2>1. Seq(Nat) \subseteq Seq(Int)
      BY SeqMonotonic
    <2> QED BY <2>1, <1>7, <1>8, <1>11, <1>12
  <1> DEFINE zeros == none \o extra
             begun == half \o zeros
             upper == begun \o high
             whole == upper \o low
  <1>14. zeros \in Seq(Nat) /\ Len(zeros) = z + more
    BY <1>7, <1>8, Joined
  <1> HIDE DEF zeros
  <1>19. begun \in Seq(Nat) /\ Len(begun) = 1 + (z + more)
    <2>1. half \in Seq(Nat) /\ zeros \in Seq(Nat)
      BY <1>12, <1>14
    <2>2. begun \in Seq(Nat) /\ Len(begun) = Len(half) + Len(zeros)
      BY <2>1, Joined
    <2> HIDE DEF begun
    <2> QED BY <2>2, <1>12, <1>14
  <1> HIDE DEF begun
  <1>20. upper \in Seq(Nat) /\ Len(upper) = 1 + (z + more) + W
    BY <1>11, <1>19, Joined
  <1> HIDE DEF upper
  <1>21. whole \in Seq(Nat) /\ Len(whole) = 1 + (z + more) + W + W
    BY <1>11, <1>20, Joined
  <1>15. Padding(h) \in Seq(Nat) /\ Len(Padding(h)) = 1 + (z + more) + W + W
    <2>1. Padding(h) = whole
      BY <1>6, <1>9, Zenon DEF whole, upper, begun, zeros
    <2> HIDE DEF whole
    <2> QED BY <1>21, <2>1
  <1>16. message \o half \o none \o (extra \o high \o low) = message \o (half \o (none \o extra) \o high \o low)
    <2>1. \A d, e, f \in Seq(Int) :
            message \o half \o none \o (d \o e \o f) = message \o (half \o (none \o d) \o e \o f)
      <3>1. \A b, c, d, e, f \in Seq(Int) :
              message \o b \o c \o (d \o e \o f) = message \o (b \o (c \o d) \o e \o f)
        BY RegroupedAll, Zenon
      <3>2. half \in Seq(Int)
        BY <1>13
      <3>3. none \in Seq(Int)
        BY <1>13
      <3> QED BY ONLY <3>1, <3>2, <3>3, Zenon
    <2>2. extra \in Seq(Int)
      BY <1>13
    <2>3. high \in Seq(Int)
      BY <1>13
    <2>4. low \in Seq(Int)
      BY <1>13
    <2> QED BY ONLY <2>1, <2>2, <2>3, <2>4, Zenon
  <1>17. Padded(message) = message \o Padding(h)
    BY ONLY <1>5, <1>6, <1>9, <1>10, <1>16, Zenon
  <1>18. \E k \in Nat : Len(message \o Padding(h)) = k * B
    <2>1. Len(message \o Padding(h)) = n + Len(Padding(h))
      <3>1. Seq(Nat) \subseteq Seq(Int)
        BY SeqMonotonic
      <3>2. Padding(h) \in Seq(Int)
        BY <1>15, <3>1
      <3> QED BY <3>2, ConcatProperties
    <2> HIDE DEF n
    <2>2. n + Len(Padding(h)) = n + 1 + z + F
      BY <1>1, <1>2, <1>3, <1>15
    <2> QED BY <2>1, <2>2, <1>4
  <1> QED BY <1>15, <1>17, <1>18

\* digest() of src/core/sha2.js, over the pieces update() was given, is the
\* digest FIPS 180-4 defines for the message they make up.
THEOREM DigestIsStandard ==
  ASSUME NEW message \in Seq(Int), NEW h, IsHashOf(h, message, Int),
         8 * Len(message) < Power(2 * WordLength)
  PROVE  Digest(h) = DigestOf(message)
  <1> DEFINE B == BlockLength
             q == Len(h.blocks)
             r == Len(h.rest)
             padded == message \o Padding(h)
             f == [k \in 1..(Len(padded) \div B) |-> SubSeq(padded, (k - 1) * B + 1, k * B)]
  <1>1. /\ B \in Nat \ {0} /\ q \in Nat /\ r \in Nat /\ r < B
        /\ h.total = Len(message)
        /\ Len(message) = q * B + r
    BY BlockIsPositive DEF IsHashOf, IsHasher, Cut
  <1>2. /\ Padding(h) \in Seq(Nat)
        /\ Padded(message) = padded
        /\ \E n \in Nat : Len(padded) = n * B
    BY <1>1, PaddedIs
  <1>3. PICK n \in Nat : Len(padded) = n * B
    BY <1>2
  <1>4. Padding(h) \in Seq(Int) /\ padded \in Seq(Int)
    <2>1. Padding(h) \in Seq(Int)
      BY <1>2, SeqMonotonic
    <2> QED BY <2>1, ConcatProperties
  <1>5. /\ Digest(h) \in Seq(Seq(Int)) /\ Len(Digest(h)) = n
        /\ Cut(Digest(h), <<>>, padded)
    BY <1>3, <1>4, DigestCuts
  <1>6. DigestOf(message) = f
    BY <1>2, Zenon DEF DigestOf
  <1> HIDE DEF padded
  <1>7. Len(padded) \div B = n
    <2>1. n * B + 0 = n * B /\ 0 < B /\ 0 \in Nat
      BY <1>1
    <2> HIDE DEF B
    <2>2. (n * B + 0) \div B = n
      BY <1>1, <2>1, DividedIs
    <2> QED BY <1>3, <2>1, <2>2
  <1>8. ASSUME NEW k \in 1..n
        PROVE  Digest(h)[k] = SubSeq(padded, (k - 1) * B + 1, k * B)
    <2> DEFINE m == (k - 1) * B
               e == k * B
               block == Digest(h)[k]
               part == SubSeq(padded, m + 1, e)
    <2>1. m \in Nat /\ e \in Nat /\ e = m + B /\ e <= Len(padded)
      <3>1. B \in Nat /\ n \in Nat
        BY <1>1
      <3>2. (k - 1) * B + B = k * B /\ k * B <= n * B
        BY <3>1, WithinBlocks
      <3>3. k - 1 \in Nat /\ m \in Nat
        BY <1>1
      <3>4. e = m + B
        BY <3>2
      <3> QED BY <1>3, <3>1, <3>2, <3>3, <3>4
    <2> HIDE DEF m, e
    <2>2. part \in Seq(Int) /\ Len(part) = B /\ \A i \in 1..B : part[i] = padded[m + i]
      <3>1. m <= e /\ e - m = B
        BY <1>1, <2>1
      <3>2. /\ SubSeq(padded, m + 1, e) \in Seq(Int)
            /\ Len(SubSeq(padded, m + 1, e)) = e - m
            /\ \A i \in 1..(e - m) : SubSeq(padded, m + 1, e)[i] = padded[m + i]
        BY <1>4, <2>1, <3>1, PartOf, SMTT(30)
      <3> QED BY <3>1, <3>2
    <2>3. block \in Seq(Int) /\ Len(block) = B /\ \A i \in 1..B : block[i] = padded[m + i]
      BY <1>5 DEF Cut, m
    <2> HIDE DEF part, block
    <2>4. block = part
      BY <2>2, <2>3, SeqEqual
    <2> QED BY <2>4 DEF block, part, m, e
  <1>9. Digest(h) = [k \in 1..n |-> Digest(h)[k]]
    BY <1>5
  <1> QED BY <1>6, <1>7, <1>8, <1>9

---------------------------------------------------------------------------
(* Cells and their bytes *)

OwnCells == {"own"} \X Int
Cells == OwnCells \cup ({"buffer"} \X (1..MaxPiece))

\* What cells with values of their own hold.
Values(cells) == [i \in DOMAIN cells |-> cells[i][2]]

LEMMA OwnIsValues ==
  ASSUME NEW bytes \in Seq(Int)
  PROVE  Own(bytes) \in Seq(OwnCells) /\ Len(Own(bytes)) = Len(bytes) /\ Values(Own(bytes)) = bytes
  <1>1. Own(bytes) \in [1..Len(bytes) -> OwnCells]
    BY DEF Own, OwnCells
  <1>2. Own(bytes) \in Seq(OwnCells) /\ Len(Own(bytes)) = Len(bytes)
    BY <1>1, FunctionIsSeq
  <1>3. Values(Own(bytes)) = bytes
    <2>1. DOMAIN Own(bytes) = 1..Len(bytes)
      BY DEF Own
    <2>2. \A i \in 1..Len(bytes) : Own(bytes)[i][2] = bytes[i]
      BY DEF Own
    <2> QED BY <2>1, <2>2 DEF Values
  <1> QED BY <1>2, <1>3

LEMMA ValuesAreBytes ==
  ASSUME NEW cells \in Seq(OwnCells)
  PROVE  Values(cells) \in Seq(Int) /\ Len(Values(cells)) = Len(cells) /\ Bytes(cells) = Values(cells)
  <1>1. \A i \in 1..Len(cells) : cells[i][1] = "own" /\ cells[i][2] \in Int
    BY DEF OwnCells
  <1>2. Values(cells) \in [1..Len(cells) -> Int]
    BY <1>1 DEF Values
  <1>3. Bytes(cells) = Values(cells)
    BY <1>1 DEF Values, Bytes
  <1> QED BY <1>2, <1>3, FunctionIsSeq

LEMMA ValuesJoin ==
  ASSUME NEW a \in Seq(OwnCells), NEW b \in Seq(OwnCells)
  PROVE  Values(a \o b) = Values(a) \o Values(b)
  <1>1. /\ a \o b \in Seq(OwnCells) /\ Len(a \o b) = Len(a) + Len(b)
        /\ \A i \in 1..(Len(a) + Len(b)) : (a \o b)[i] = IF i <= Len(a) THEN a[i] ELSE b[i - Len(a)]
    BY ConcatProperties
  <1>2. /\ Values(a) \in Seq(Int) /\ Len(Values(a)) = Len(a)
        /\ Values(b) \in Seq(Int) /\ Len(Values(b)) = Len(b)
        /\ Values(a \o b) \in Seq(Int) /\ Len(Values(a \o b)) = Len(a) + Len(b)
    BY <1>1, ValuesAreBytes
  <1>3. /\ Values(a) \o Values(b) \in Seq(Int) /\ Len(Values(a) \o Values(b)) = Len(a) + Len(b)
        /\ \A i \in 1..(Len(a) + Len(b)) :
             (Values(a) \o Values(b))[i] = IF i <= Len(a) THEN Values(a)[i] ELSE Values(b)[i - Len(a)]
    <2> DEFINE v == Values(a)
               w == Values(b)
    <2>1. v \in Seq(Int) /\ w \in Seq(Int) /\ Len(v) = Len(a) /\ Len(w) = Len(b)
      BY <1>2
    <2> HIDE DEF v, w
    <2>2. /\ v \o w \in Seq(Int) /\ Len(v \o w) = Len(v) + Len(w)
          /\ \A i \in 1..(Len(v) + Len(w)) : (v \o w)[i] = IF i <= Len(v) THEN v[i] ELSE w[i - Len(v)]
      BY <2>1, ConcatProperties
    <2> QED BY <2>1, <2>2 DEF v, w
  <1>4. ASSUME NEW i \in 1..(Len(a) + Len(b))
        PROVE  Values(a \o b)[i] = (Values(a) \o Values(b))[i]
    <2>1. Values(a \o b)[i] = (a \o b)[i][2]
      BY <1>1 DEF Values
    <2>2. CASE i <= Len(a)
      <3>1. Values(a)[i] = a[i][2]
        BY <2>2 DEF Values
      <3> QED BY <2>1, <2>2, <3>1, <1>1, <1>3
    <2>3. CASE ~(i <= Len(a))
      <3>1. Values(b)[i - Len(a)] = b[i - Len(a)][2]
        BY <2>3 DEF Values
      <3> QED BY <2>1, <2>3, <3>1, <1>1, <1>3
    <2> QED BY <2>2, <2>3
  <1> QED BY <1>2, <1>3, <1>4, SeqEqual

\* The bytes of any cells.
LEMMA BytesAreInts ==
  ASSUME NEW cells \in Seq(Cells), buffer \in [1..MaxPiece -> Int]
  PROVE  Bytes(cells) \in Seq(Int) /\ Len(Bytes(cells)) = Len(cells)
  <1>1. \A i \in 1..Len(cells) :
          \/ cells[i][1] = "own" /\ cells[i][2] \in Int
          \/ cells[i][1] # "own" /\ cells[i][2] \in 1..MaxPiece
    BY DEF Cells, OwnCells
  <1>2. \A i \in 1..Len(cells) :
          (IF cells[i][1] = "own" THEN cells[i][2] ELSE buffer[cells[i][2]]) \in Int
    BY <1>1
  <1>3. Bytes(cells) \in [1..Len(cells) -> Int]
    BY <1>2 DEF Bytes
  <1> QED BY <1>3, FunctionIsSeq

\* The first n cells and the others.
LEMMA CellsSplit ==
  ASSUME NEW T, NEW cells \in Seq(T), NEW n \in 0..Len(cells)
  PROVE  /\ SubSeq(cells, 1, n) \in Seq(T) /\ Len(SubSeq(cells, 1, n)) = n
         /\ SubSeq(cells, n + 1, Len(cells)) \in Seq(T)
         /\ Len(SubSeq(cells, n + 1, Len(cells))) = Len(cells) - n
         /\ SubSeq(cells, 1, n) \o SubSeq(cells, n + 1, Len(cells)) = cells
  <1>1. Len(cells) \in Nat /\ n \in Nat /\ n <= Len(cells) /\ 0 \in Nat /\ 0 <= n
    OBVIOUS
  <1>2. SubSeq(cells, 0 + 1, n) \in Seq(T) /\ Len(SubSeq(cells, 0 + 1, n)) = n - 0
    BY <1>1, PartOf
  <1>3. /\ SubSeq(cells, n + 1, Len(cells)) \in Seq(T)
        /\ Len(SubSeq(cells, n + 1, Len(cells))) = Len(cells) - n
    BY <1>1, PartOf
  <1>4. SubSeq(cells, 1, n) \o SubSeq(cells, n + 1, Len(cells)) = SubSeq(cells, 1, Len(cells))
    <2>1. /\ 1 \in 1..(Len(cells) + 1)
          /\ n \in (1 - 1)..Len(cells)
          /\ Len(cells) \in n..Len(cells)
      BY <1>1
    <2> QED BY <2>1, ConcatAdjacentSubSeq
  <1>5. SubSeq(cells, 1, Len(cells)) = cells
    BY SubSeqFull
  <1>6. SubSeq(cells, 1, n) \in Seq(T) /\ Len(SubSeq(cells, 1, n)) = n
    <2>1. 0 + 1 = 1 /\ n - 0 = n
      BY <1>1
    <2> QED BY <1>2, <2>1
  <1> QED BY <1>3, <1>4, <1>5, <1>6

LEMMA Lengths ==
  /\ Header \in Seq(Int) /\ Len(Header) = HeaderSize
  /\ Signed \in Seq(Int) /\ Len(Signed) = Size
  <1>1. Header \in [1..HeaderSize -> Int] /\ HeaderSize \in Nat
    BY HeaderAssumption DEF Header
  <1>2. Signed \in [1..Size -> Int] /\ Size \in Nat
    BY SizeAssumption DEF Signed
  <1> QED BY <1>1, <1>2, FunctionIsSeq

LEMMA PieceIsBytes ==
  ASSUME NEW p \in Nat, NEW n \in 0..MaxPiece, NEW changed
  PROVE  /\ Piece(p, n, changed) \in Seq(Int) /\ Len(Piece(p, n, changed)) = n
         /\ View(Piece(p, n, changed)) \in Seq(Cells) /\ Len(View(Piece(p, n, changed))) = n
  <1>1. n \in Nat /\ MaxPiece \in Nat /\ Other \in Int
    BY SizeAssumption, MaxPieceAssumption DEF Other
  <1>2. Piece(p, n, changed) \in [1..n -> Int]
    BY <1>1 DEF Piece
  <1>3. View(Piece(p, n, changed)) \in [1..n -> Cells]
    BY <1>1, <1>2 DEF View, Cells
  <1> QED BY <1>1, <1>2, <1>3, FunctionIsSeq

\* Two reads of one length with one digest are one stream.
LEMMA SameIsSigned ==
  ASSUME NEW bytes \in Seq(Int), IsHashOf(hasher, bytes, Int), SameStream
  PROVE  bytes = Signed
  <1> DEFINE first == Update(Hasher, Signed)
  <1>1. IsHashOf(first, <<>> \o Signed, Int)
    BY HasherIsOfNothing, UpdateAbsorbs, EmptySeq, Lengths
  <1>2. <<>> \o Signed = Signed
    BY Lengths, ConcatEmptySeq
  <1>3. Digest(hasher) = Digest(first) /\ hasher.total = Size
    BY DEF SameStream, FirstDigest
  <1> HIDE DEF first
  <1>4. IsHashOf(first, Signed, Int) /\ first.total = Size
    BY <1>1, <1>2, Lengths DEF IsHashOf
  <1> QED BY <1>3, <1>4, Lengths, DigestTells

---------------------------------------------------------------------------
(* The inductive invariant *)

\* The upload has an outcome once it has settled, and not before.
FlagsOK ==
    /\ pc \in {"hash", "sign", "send", "copy", "done"}
    /\ reuses \in BOOLEAN /\ ended \in BOOLEAN
    /\ outcome \in {"pending", "finalized", "posted", "rejected"}
    /\ thrown \in Thrown \cup {"none"}
    /\ pc = "done" <=> outcome # "pending"

DataOK ==
    /\ second \in Seq(Int)
    /\ buffer \in [1..MaxPiece -> Int]
    /\ held \in Seq(Cells)
    /\ sent \in Seq(Int)
    /\ lengths \in Seq(Nat)

\* Nothing is read a second time before the first read is signed.
Unstarted == pc \in {"hash", "sign"} => second = <<>> /\ held = <<>> /\ sent = <<>> /\ lengths = <<>>

\* The hasher has absorbed the second read.
ReadIsHashed == IsHashOf(hasher, second, Int)

\* What is held belongs to the upload, and is what has not been sent yet.
HeldIsOwn == ~reuses \/ pc = "copy" => held \in Seq(OwnCells)
InOrder ==
    /\ pc = "send" /\ ~reuses => sent \o Values(held) = Header \o second
    /\ pc = "copy" => Values(held) = second

\* Every chunk is a whole one, but for the last when nothing follows it.
WholeChunks ==
    pc = "send" =>
        \/ \A k \in 1..Len(lengths) : lengths[k] = ChunkSize
        \/ /\ ended /\ held = <<>>
           /\ \A k \in 1..Len(lengths) : k # Len(lengths) => lengths[k] = ChunkSize

StreamIInv ==
    /\ FlagsOK /\ DataOK
    /\ Unstarted /\ ReadIsHashed /\ HeldIsOwn /\ InOrder /\ WholeChunks
    /\ HeldBounded /\ OnlySignedBytesLeave

LEMMA StreamInitOK == Init => StreamIInv
  <1> SUFFICES ASSUME Init PROVE StreamIInv
    OBVIOUS
  <1>1. FlagsOK /\ Unstarted /\ HeldIsOwn /\ InOrder /\ WholeChunks /\ HeldBounded /\ OnlySignedBytesLeave
    BY ReusingAssumption, EmptySeq
       DEF Init, FlagsOK, Unstarted, HeldIsOwn, InOrder, WholeChunks, HeldBounded, OnlySignedBytesLeave
  <1>2. DataOK
    <2>1. Other \in Int
      BY SizeAssumption DEF Other
    <2> QED BY <2>1, EmptySeq DEF Init, DataOK
  <1>3. ReadIsHashed
    BY HasherIsOfNothing DEF Init, ReadIsHashed
  <1> QED BY <1>1, <1>2, <1>3 DEF StreamIInv

\* A step that ends the upload without sending changes nothing else.
LEMMA ThrowKeeps ==
  ASSUME StreamIInv, NEW e \in Thrown, Throw(e),
         UNCHANGED <<reuses, second, hasher, buffer, held, ended, sentVars>>
  PROVE  StreamIInv'
  <1>1. FlagsOK'
    BY DEF StreamIInv, FlagsOK, Throw, Finish
  <1>2. DataOK' /\ ReadIsHashed'
    BY DEF StreamIInv, DataOK, ReadIsHashed, sentVars
  <1>3. pc' = "done" /\ outcome' = "rejected"
    BY DEF Throw, Finish
  <1>4. HeldIsOwn'
    BY <1>3 DEF StreamIInv, HeldIsOwn
  <1> QED BY <1>1, <1>2, <1>3, <1>4
          DEF StreamIInv, Unstarted, InOrder, WholeChunks, HeldBounded, OnlySignedBytesLeave

LEMMA SignStepKeeps == StreamIInv /\ SignStep => StreamIInv'
  <1> SUFFICES ASSUME StreamIInv, SignStep PROVE StreamIInv'
    OBVIOUS
  <1>1. CASE \E n \in 0..(Size + Excess) : FirstReadEnds(n)
    <2> PICK n \in 0..(Size + Excess) : FirstReadEnds(n)
      BY <1>1
    <2>1. CASE n # Size
      <3>1. Throw("size") /\ UNCHANGED <<reuses, second, hasher, buffer, held, ended, sentVars>>
        BY <2>1 DEF FirstReadEnds
      <3> QED BY <3>1, ThrowKeeps DEF Thrown
    <2>2. CASE n = Size
      <3>1. /\ pc = "hash" /\ pc' = "sign"
            /\ UNCHANGED <<reuses, second, hasher, buffer, held, ended, sentVars, outcome, thrown>>
        BY <2>2 DEF FirstReadEnds
      <3>2. FlagsOK'
        BY <3>1 DEF StreamIInv, FlagsOK
      <3>3. DataOK' /\ ReadIsHashed'
        BY <3>1 DEF StreamIInv, DataOK, ReadIsHashed, sentVars
      <3>4. HeldIsOwn' /\ Unstarted'
        BY <3>1 DEF StreamIInv, HeldIsOwn, Unstarted, sentVars
      <3> QED BY <3>1, <3>2, <3>3, <3>4
              DEF StreamIInv, InOrder, WholeChunks, HeldBounded, OnlySignedBytesLeave, sentVars
    <2> QED BY <2>1, <2>2
  <1>2. CASE SignerThrows
    BY <1>2, ThrowKeeps DEF SignerThrows, Thrown
  <1>3. CASE SignatureMade
    <2>1. /\ pc = "sign" /\ pc' \in {"send", "copy"}
          /\ UNCHANGED <<reuses, second, hasher, buffer, ended, sentVars, outcome, thrown>>
          /\ pc' = "send" => held' = Own(Header)
          /\ pc' = "copy" => held' = held
      BY <1>3 DEF SignatureMade
    <2>2. second = <<>> /\ held = <<>> /\ sent = <<>> /\ lengths = <<>>
      BY <2>1 DEF StreamIInv, Unstarted
    <2>3. Own(Header) \in Seq(OwnCells) /\ Len(Own(Header)) = HeaderSize /\ Values(Own(Header)) = Header
      BY Lengths, OwnIsValues
    <2>4. FlagsOK'
      BY <2>1 DEF StreamIInv, FlagsOK
    <2>5. DataOK'
      <3>1. held' \in Seq(Cells)
        <4>1. Own(Header) \in Seq(Cells)
          BY <2>3, SeqMonotonic DEF Cells
        <4> QED BY <4>1, <2>1, <2>2, EmptySeq
      <3> QED BY <2>1, <3>1 DEF StreamIInv, DataOK, sentVars
    <2>6. Unstarted' /\ ReadIsHashed'
      BY <2>1 DEF StreamIInv, Unstarted, ReadIsHashed
    <2>7. HeldIsOwn'
      BY <2>1, <2>2, <2>3, EmptySeq DEF HeldIsOwn
    <2>8. InOrder'
      <3>1. pc' = "send" => sent' \o Values(held') = Header \o second'
        <4>1. <<>> \o Header = Header \o <<>>
          BY Lengths, ConcatEmptySeq
        <4> QED BY <4>1, <2>1, <2>2, <2>3 DEF sentVars
      <3>2. pc' = "copy" => Values(held') = second'
        <4>1. Values(<<>>) = <<>>
          BY DEF Values
        <4> QED BY <4>1, <2>1, <2>2
      <3> QED BY <3>1, <3>2, <2>1 DEF InOrder
    <2>9. WholeChunks'
      BY <2>1, <2>2 DEF WholeChunks, sentVars
    <2>10. HeldBounded'
      BY <2>1, <2>3, HeaderAssumption, ChunkSizeAssumption, MaxPieceAssumption DEF HeldBounded
    <2>11. OnlySignedBytesLeave'
      BY <2>1 DEF StreamIInv, FlagsOK, OnlySignedBytesLeave
    <2> QED BY <2>4, <2>5, <2>6, <2>7, <2>8, <2>9, <2>10, <2>11 DEF StreamIInv
  <1> QED BY <1>1, <1>2, <1>3 DEF SignStep

\* A piece of the second read is hashed and held, in either way of sending.
LEMMA PieceKeeps ==
  ASSUME StreamIInv, NEW n \in 0..MaxPiece, NEW changed \in SUBSET (1..n), NEW piece,
         piece = Piece(Len(second), n, changed), PullPiece(piece) \/ CopyPiece(piece)
  PROVE  StreamIInv'
  <1> DEFINE cells == IF pc = "send" /\ reuses THEN View(piece) ELSE Own(piece)
  <1>1. /\ pc \in {"send", "copy"} /\ ~ended
        /\ second' = second \o piece
        /\ hasher' = Update(hasher, piece)
        /\ buffer' = IF reuses
                     THEN [i \in 1..MaxPiece |-> IF i \in DOMAIN piece THEN piece[i] ELSE buffer[i]]
                     ELSE buffer
        /\ held' = held \o cells
        /\ UNCHANGED <<pc, reuses, ended, sentVars, outcome, thrown>>
    BY DEF PullPiece, CopyPiece, Yield
  <1>2. /\ second \in Seq(Int) /\ buffer \in [1..MaxPiece -> Int] /\ held \in Seq(Cells)
        /\ sent \in Seq(Int) /\ lengths \in Seq(Nat)
    BY DEF StreamIInv, DataOK
  <1>3. piece \in Seq(Int) /\ Len(piece) = n /\ View(piece) \in Seq(Cells) /\ Len(View(piece)) = n
    BY <1>2, PieceIsBytes
  <1>4. Own(piece) \in Seq(OwnCells) /\ Len(Own(piece)) = n /\ Values(Own(piece)) = piece
    BY <1>3, OwnIsValues
  <1>5. /\ cells \in Seq(Cells) /\ Len(cells) = n
        /\ ~reuses \/ pc = "copy" => cells = Own(piece)
    <2>1. Own(piece) \in Seq(Cells)
      BY <1>4, SeqMonotonic DEF Cells
    <2> QED BY <2>1, <1>3, <1>4
  <1> HIDE DEF cells
  <1>6. FlagsOK'
    BY <1>1 DEF StreamIInv, FlagsOK
  <1>7. held' \in Seq(Cells) /\ Len(held') = Len(held) + n
    BY <1>1, <1>2, <1>5, ConcatProperties
  <1>8. DataOK'
    <2>1. second' \in Seq(Int)
      BY <1>1, <1>2, <1>3, ConcatProperties
    <2>2. buffer' \in [1..MaxPiece -> Int]
      BY <1>1, <1>2, <1>3
    <2> QED BY <2>1, <2>2, <1>1, <1>2, <1>7 DEF DataOK, sentVars
  <1>9. Unstarted'
    BY <1>1 DEF Unstarted
  <1>10. ReadIsHashed'
    <2>1. IsHashOf(hasher, second, Int)
      BY DEF StreamIInv, ReadIsHashed
    <2>2. IsHashOf(Update(hasher, piece), second \o piece, Int)
      BY <2>1, <1>2, <1>3, UpdateAbsorbs
    <2> QED BY <2>2, <1>1 DEF ReadIsHashed
  <1>11. ASSUME ~reuses \/ pc = "copy"
         PROVE  held \in Seq(OwnCells) /\ held' = held \o Own(piece)
                  /\ Values(held') = Values(held) \o piece
    <2>1. held \in Seq(OwnCells) /\ held' = held \o Own(piece)
      BY <1>11, <1>1, <1>5 DEF StreamIInv, HeldIsOwn
    <2> QED BY <2>1, <1>4, ValuesJoin
  <1>12. HeldIsOwn'
    <2>1. ~reuses \/ pc = "copy" => held \o Own(piece) \in Seq(OwnCells)
      BY <1>11, <1>4, ConcatProperties
    <2> QED BY <2>1, <1>1, <1>11 DEF HeldIsOwn
  <1>13. InOrder'
    <2>1. ASSUME pc = "send", ~reuses PROVE sent' \o Values(held') = Header \o second'
      <3>1. sent \o Values(held) = Header \o second
        BY <2>1 DEF StreamIInv, InOrder
      <3>2. Values(held') = Values(held) \o piece /\ Values(held) \in Seq(Int)
        BY <2>1, <1>11, ValuesAreBytes
      <3>3. sent \o (Values(held) \o piece) = (sent \o Values(held)) \o piece
        <4>1. sent \in Seq(Int) /\ Values(held) \in Seq(Int) /\ piece \in Seq(Int)
          BY <1>2, <1>3, <3>2
        <4> QED BY <4>1, Regrouped
      <3>4. (Header \o second) \o piece = Header \o (second \o piece)
        <4>1. Header \in Seq(Int) /\ second \in Seq(Int) /\ piece \in Seq(Int)
          BY <1>2, <1>3, Lengths
        <4> QED BY <4>1, Regrouped
      <3> QED BY <3>1, <3>2, <3>3, <3>4, <1>1 DEF sentVars
    <2>2. pc = "copy" => Values(held') = second'
      BY <1>1, <1>11 DEF StreamIInv, InOrder
    <2> QED BY <2>1, <2>2, <1>1 DEF InOrder
  <1>14. WholeChunks'
    BY <1>1 DEF StreamIInv, WholeChunks, sentVars
  <1>15. HeldBounded'
    <2>1. ASSUME pc = "send" PROVE Len(held) < ChunkSize
      BY <2>1 DEF PullPiece, CopyPiece
    <2>2. Len(held) \in Nat
      BY <1>2
    <2> QED BY <2>1, <2>2, <1>1, <1>7, HeaderAssumption, ChunkSizeAssumption, MaxPieceAssumption
            DEF HeldBounded
  <1>16. OnlySignedBytesLeave'
    BY <1>1 DEF StreamIInv, FlagsOK, OnlySignedBytesLeave
  <1> QED BY <1>6, <1>8, <1>9, <1>10, <1>12, <1>13, <1>14, <1>15, <1>16 DEF StreamIInv

LEMMA ReadStepKeeps == StreamIInv /\ ReadStep => StreamIInv'
  <1> SUFFICES ASSUME StreamIInv, ReadStep PROVE StreamIInv'
    OBVIOUS
  <1>1. CASE PieceArrives
    <2>1. PICK n \in 0..MaxPiece : \E changed \in SUBSET (1..n) :
            LET piece == Piece(Len(second), n, changed) IN PullPiece(piece) \/ CopyPiece(piece)
      BY <1>1 DEF PieceArrives
    <2>2. PICK changed \in SUBSET (1..n) :
            LET piece == Piece(Len(second), n, changed) IN PullPiece(piece) \/ CopyPiece(piece)
      BY <2>1
    <2> QED BY <2>2, PieceKeeps
  <1>2. CASE StreamEnds
    <2>1. /\ pc \in {"send", "copy"} /\ ended' = TRUE
          /\ UNCHANGED <<pc, reuses, second, hasher, buffer, held, sentVars, outcome, thrown>>
      BY <1>2 DEF StreamEnds
    <2>2. FlagsOK'
      BY <2>1 DEF StreamIInv, FlagsOK
    <2>3. DataOK' /\ ReadIsHashed'
      BY <2>1 DEF StreamIInv, DataOK, ReadIsHashed, sentVars
    <2>4. HeldIsOwn' /\ InOrder' /\ Unstarted' /\ HeldBounded'
      BY <2>1 DEF StreamIInv, HeldIsOwn, InOrder, Unstarted, HeldBounded, sentVars
    <2>5. WholeChunks' /\ OnlySignedBytesLeave'
      BY <2>1 DEF StreamIInv, WholeChunks, OnlySignedBytesLeave, sentVars
    <2> QED BY <2>2, <2>3, <2>4, <2>5 DEF StreamIInv
  <1>3. CASE StreamThrows
    BY <1>3, ThrowKeeps DEF StreamThrows, Thrown
  <1> QED BY <1>1, <1>2, <1>3 DEF ReadStep

\* The first n of the bytes held are sent, a whole chunk or the last rest.
LEMMA TakeKeeps ==
  ASSUME StreamIInv, pc = "send", NEW n \in 1..Len(held), Take(n),
         n = ChunkSize \/ (ended /\ n = Len(held) /\ n < ChunkSize)
  PROVE  StreamIInv'
  <1> DEFINE first == SubSeq(held, 1, n)
             last == SubSeq(held, n + 1, Len(held))
  <1>1. /\ second \in Seq(Int) /\ buffer \in [1..MaxPiece -> Int] /\ held \in Seq(Cells)
        /\ sent \in Seq(Int) /\ lengths \in Seq(Nat)
    BY DEF StreamIInv, DataOK
  <1>2. held' = last /\ UNCHANGED <<reuses, second, hasher, buffer, ended>>
    BY DEF Take
  <1>3. n \in 0..Len(held) /\ Len(held) \in Nat /\ n \in Nat
    BY <1>1
  <1>4. /\ first \in Seq(Cells) /\ last \in Seq(Cells) /\ Len(last) = Len(held) - n
    BY <1>1, <1>3, CellsSplit
  <1>5. ReadIsHashed'
    BY <1>2 DEF StreamIInv, ReadIsHashed
  <1>6. ASSUME ~reuses
        PROVE  /\ last \in Seq(OwnCells)
               /\ first \in Seq(OwnCells)
               /\ Values(held) = Values(first) \o Values(last)
    <2>1. held \in Seq(OwnCells)
      BY <1>6 DEF StreamIInv, HeldIsOwn
    <2>2. first \in Seq(OwnCells) /\ last \in Seq(OwnCells) /\ first \o last = held
      BY <1>3, <2>1, CellsSplit
    <2>3. Values(first \o last) = Values(first) \o Values(last)
      BY <2>2, ValuesJoin
    <2> QED BY <2>2, <2>3
  <1>7. CASE Len(sent) + n > ByteCount
    <2>1. Throw("overrun") /\ UNCHANGED sentVars
      BY <1>7 DEF Take
    <2>2. pc' = "done" /\ outcome' = "rejected" /\ FlagsOK'
      BY <1>2, <2>1 DEF Throw, Finish, FlagsOK, StreamIInv, Thrown
    <2>3. DataOK'
      BY <1>1, <1>2, <1>4, <2>1 DEF DataOK, sentVars
    <2>4. HeldIsOwn'
      BY <1>2, <1>6, <2>2 DEF HeldIsOwn
    <2> QED BY <1>5, <2>2, <2>3, <2>4
            DEF StreamIInv, Unstarted, InOrder, WholeChunks, HeldBounded, OnlySignedBytesLeave
  <1>8. CASE ~(Len(sent) + n > ByteCount)
    <2>1. /\ sent' = sent \o Bytes(first)
          /\ lengths' = Append(lengths, n)
          /\ UNCHANGED <<pc, outcome, thrown>>
      BY <1>8 DEF Take
    <2>2. FlagsOK'
      BY <1>2, <2>1 DEF FlagsOK, StreamIInv
    <2>3. DataOK'
      <3>1. Bytes(first) \in Seq(Int)
        BY <1>1, <1>4, BytesAreInts
      <3>2. sent' \in Seq(Int)
        BY <1>1, <2>1, <3>1, ConcatProperties
      <3>3. lengths' \in Seq(Nat)
        BY <1>1, <1>3, <2>1
      <3> QED BY <1>1, <1>2, <1>4, <3>2, <3>3 DEF DataOK
    <2>4. HeldIsOwn' /\ Unstarted'
      BY <1>2, <1>6, <2>1 DEF HeldIsOwn, Unstarted
    <2>5. InOrder'
      <3>1. ASSUME ~reuses PROVE sent' \o Values(held') = Header \o second'
        <4>1. sent \o Values(held) = Header \o second
          BY <3>1 DEF StreamIInv, InOrder
        <4>2. /\ Values(first) \in Seq(Int) /\ Values(last) \in Seq(Int)
              /\ Bytes(first) = Values(first)
          BY <1>6, <3>1, ValuesAreBytes
        <4>3. (sent \o Values(first)) \o Values(last) = sent \o (Values(first) \o Values(last))
          <5>1. sent \in Seq(Int)
            BY <1>1
          <5> QED BY <4>2, <5>1, Regrouped
        <4> QED BY <4>1, <4>2, <4>3, <1>2, <1>6, <2>1, <3>1
      <3> QED BY <3>1, <1>2, <2>1 DEF InOrder
    <2>6. WholeChunks'
      <3>1. /\ Len(lengths') = Len(lengths) + 1
            /\ \A k \in 1..Len(lengths) : lengths'[k] = lengths[k]
            /\ lengths'[Len(lengths) + 1] = n
            /\ Len(lengths) \in Nat
        BY <1>1, <2>1
      <3>2. \A k \in 1..Len(lengths) : lengths[k] = ChunkSize
        <4>1. held # <<>>
          BY <1>3
        <4> QED BY <4>1 DEF StreamIInv, WholeChunks
      <3>3. CASE n = ChunkSize
        BY <3>1, <3>2, <3>3 DEF WholeChunks
      <3>4. CASE ended /\ n = Len(held)
        <4>1. held' = <<>>
          <5>1. Len(last) = 0
            BY <1>3, <1>4, <3>4
          <5> QED BY <1>2, <1>4, <5>1, EmptySeq
        <4> QED BY <3>1, <3>2, <3>4, <4>1, <1>2 DEF WholeChunks
      <3> QED BY <3>3, <3>4
    <2>7. HeldBounded'
      <3>1. Len(held) < ChunkSize + IF HeaderSize > MaxPiece THEN HeaderSize ELSE MaxPiece
        BY DEF StreamIInv, HeldBounded
      <3>2. Len(held') = Len(held) - n
        BY <1>2, <1>4
      <3> QED BY <3>1, <3>2, <1>3, HeaderAssumption, ChunkSizeAssumption, MaxPieceAssumption DEF HeldBounded
    <2>8. OnlySignedBytesLeave'
      BY <2>1 DEF StreamIInv, FlagsOK, OnlySignedBytesLeave
    <2> QED BY <1>5, <2>2, <2>3, <2>4, <2>5, <2>6, <2>7, <2>8 DEF StreamIInv
  <1> QED BY <1>7, <1>8

\* What is finalized has been compared with what was signed.
LEMMA FinalizeKeeps == StreamIInv /\ Finalize => StreamIInv'
  <1> SUFFICES ASSUME StreamIInv, Finalize PROVE StreamIInv'
    OBVIOUS
  <1>1. /\ pc = "send" /\ held = <<>>
        /\ UNCHANGED <<reuses, second, hasher, buffer, held, ended, sentVars>>
    BY DEF Finalize
  <1>2. CASE Len(sent) # ByteCount /\ Throw("short")
    BY <1>1, <1>2, ThrowKeeps DEF Thrown
  <1>3. CASE Throw("changed")
    BY <1>1, <1>3, ThrowKeeps DEF Thrown
  <1>4. CASE SameStream /\ Finish("finalized", "none")
    <2>1. pc' = "done" /\ outcome' = "finalized" /\ thrown' = "none"
      BY <1>4 DEF Finish
    <2>2. FlagsOK'
      BY <1>1, <2>1 DEF StreamIInv, FlagsOK
    <2>3. DataOK' /\ ReadIsHashed'
      BY <1>1 DEF StreamIInv, DataOK, ReadIsHashed, sentVars
    <2>4. HeldIsOwn'
      BY <1>1, <2>1 DEF StreamIInv, HeldIsOwn
    <2>5. OnlySignedBytesLeave'
      <3>1. second = Signed
        BY <1>4, SameIsSigned DEF StreamIInv, ReadIsHashed, DataOK
      <3>2. ~reuses => sent = Header \o second
        <4>1. Values(<<>>) = <<>>
          BY DEF Values
        <4>2. sent \o <<>> = sent
          BY ConcatEmptySeq DEF StreamIInv, DataOK
        <4> QED BY <1>1, <4>1, <4>2 DEF StreamIInv, InOrder
      <3> QED BY <3>1, <3>2, <1>1, <2>1 DEF OnlySignedBytesLeave, SignedItem, sentVars
    <2> QED BY <2>1, <2>2, <2>3, <2>4, <2>5 DEF StreamIInv, Unstarted, InOrder, WholeChunks, HeldBounded
  <1> QED BY <1>2, <1>3, <1>4 DEF Finalize

\* What is posted has been compared with what was signed.
LEMMA PostWholeKeeps == StreamIInv /\ PostWhole => StreamIInv'
  <1> SUFFICES ASSUME StreamIInv, PostWhole PROVE StreamIInv'
    OBVIOUS
  <1>1. /\ pc = "copy"
        /\ UNCHANGED <<reuses, second, hasher, buffer, held, ended>>
    BY DEF PostWhole
  <1>2. CASE ~SameStream
    <2>1. Throw("changed") /\ UNCHANGED sentVars
      BY <1>2 DEF PostWhole
    <2> QED BY <1>1, <2>1, ThrowKeeps DEF Thrown
  <1>3. CASE SameStream
    <2>1. /\ pc' = "done" /\ outcome' = "posted" /\ thrown' = "none"
          /\ sent' = Header \o Bytes(held) /\ lengths' = <<ByteCount>>
      BY <1>3 DEF PostWhole, Finish
    <2>2. FlagsOK'
      BY <1>1, <2>1 DEF StreamIInv, FlagsOK
    <2>3. held \in Seq(OwnCells) /\ Values(held) = second
      BY <1>1 DEF StreamIInv, HeldIsOwn, InOrder
    <2>4. Bytes(held) = second
      BY <2>3, ValuesAreBytes
    <2>5. second = Signed
      BY <1>3, SameIsSigned DEF StreamIInv, ReadIsHashed, DataOK
    <2>6. DataOK'
      <3>1. ByteCount \in Nat
        BY HeaderAssumption, SizeAssumption DEF ByteCount
      <3>2. lengths' \in Seq(Nat)
        BY <2>1, <3>1
      <3>3. sent' \in Seq(Int)
        BY <2>1, <2>4, <2>5, Lengths, ConcatProperties
      <3> QED BY <1>1, <3>2, <3>3 DEF StreamIInv, DataOK
    <2>7. ReadIsHashed' /\ HeldIsOwn'
      BY <1>1, <2>1, <2>3 DEF StreamIInv, ReadIsHashed, HeldIsOwn
    <2>8. OnlySignedBytesLeave'
      BY <2>1, <2>4, <2>5 DEF OnlySignedBytesLeave, SignedItem
    <2> QED BY <2>1, <2>2, <2>6, <2>7, <2>8 DEF StreamIInv, Unstarted, InOrder, WholeChunks, HeldBounded
  <1> QED BY <1>2, <1>3

LEMMA StreamNextKeeps == StreamIInv /\ [Next]_vars => StreamIInv'
  <1> SUFFICES ASSUME StreamIInv, [Next]_vars PROVE StreamIInv'
    OBVIOUS
  <1>1. CASE TakeChunk
    <2>1. ChunkSize \in 1..Len(held)
      BY <1>1, ChunkSizeAssumption DEF TakeChunk, StreamIInv, DataOK
    <2> QED BY <1>1, <2>1, TakeKeeps DEF TakeChunk
  <1>2. CASE TakeRest
    <2>1. Len(held) \in 1..Len(held) /\ Len(held) < ChunkSize
      BY <1>2, ChunkSizeAssumption DEF TakeRest
    <2> QED BY <1>2, <2>1, TakeKeeps DEF TakeRest
  <1>3. CASE UploadFails
    BY <1>3, ThrowKeeps DEF UploadFails, Thrown
  <1>4. CASE UNCHANGED vars
    <2>1. FlagsOK'
      BY <1>4 DEF StreamIInv, FlagsOK, vars
    <2>2. DataOK' /\ ReadIsHashed'
      BY <1>4 DEF StreamIInv, DataOK, ReadIsHashed, vars, sentVars
    <2> QED BY <1>4, <2>1, <2>2
            DEF StreamIInv, Unstarted, HeldIsOwn, InOrder, WholeChunks, HeldBounded, OnlySignedBytesLeave,
                vars, sentVars
  <1> QED BY <1>1, <1>2, <1>3, <1>4, SignStepKeeps, ReadStepKeeps, FinalizeKeeps, PostWholeKeeps
          DEF Next, SendStep, Settled

---------------------------------------------------------------------------
(* The theorems *)

LEMMA StreamInvariant == Spec => []StreamIInv
  <1> QED BY StreamInitOK, StreamNextKeeps, PTL DEF Spec

\* "No item with a bad signature is paid for" (uploadStream() of
\* src/core/client.js): what leaves whole is what was signed, and so is what is
\* finalized of a stream that does not reuse its buffer.
THEOREM SignedBytesLeave == Spec => []OnlySignedBytesLeave
  <1>1. StreamIInv => OnlySignedBytesLeave
    BY DEF StreamIInv
  <1> QED BY <1>1, StreamInvariant, PTL

\* rechunk() of src/core/chunked.js neither loses, repeats nor reorders a byte,
\* and cuts whole chunks.
THEOREM RechunkKeepsBytes == Spec => []NothingLostInRechunk
  <1>1. StreamIInv => NothingLostInRechunk
    <2> SUFFICES ASSUME StreamIInv, pc = "send", ~reuses
                 PROVE  /\ sent \o Bytes(held) = Header \o second
                        /\ \A k \in 1..Len(lengths) : lengths[k] = ChunkSize \/ (k = Len(lengths) /\ ended)
      BY DEF NothingLostInRechunk
    <2>1. Bytes(held) = Values(held)
      BY ValuesAreBytes DEF StreamIInv, HeldIsOwn
    <2> QED BY <2>1 DEF StreamIInv, InOrder, WholeChunks
  <1> QED BY <1>1, StreamInvariant, PTL

\* rechunk() of src/core/chunked.js holds less than a chunk and the longest of
\* what it may be given.
THEOREM RechunkIsBounded == Spec => []HeldBounded
  <1>1. StreamIInv => HeldBounded
    BY DEF StreamIInv
  <1> QED BY <1>1, StreamInvariant, PTL

\* The second read yields no more than a bounded excess.
ReadIsBounded == Len(second) <= Size + Excess

LEMMA BoundKept == ReadIsBounded /\ StreamIInv /\ [Next]_vars => ReadIsBounded'
  <1> SUFFICES ASSUME ReadIsBounded, StreamIInv, [Next]_vars PROVE ReadIsBounded'
    OBVIOUS
  <1>1. CASE PieceArrives
    <2>1. PICK n \in 0..MaxPiece : \E changed \in SUBSET (1..n) :
             /\ Len(second) + n <= Size + Excess
             /\ LET piece == Piece(Len(second), n, changed)
                IN  PullPiece(piece) \/ CopyPiece(piece)
      BY <1>1 DEF PieceArrives
    <2>2. PICK changed \in SUBSET (1..n) :
             PullPiece(Piece(Len(second), n, changed)) \/ CopyPiece(Piece(Len(second), n, changed))
      BY <2>1
    <2> DEFINE piece == Piece(Len(second), n, changed)
    <2>3. second \in Seq(Int) /\ Len(second) \in Nat
      BY DEF StreamIInv, DataOK
    <2>4. piece \in Seq(Int) /\ Len(piece) = n
      BY <2>3, PieceIsBytes
    <2>5. second' = second \o piece
      BY <2>2 DEF PullPiece, CopyPiece, Yield
    <2> HIDE DEF piece
    <2>6. Len(second') = Len(second) + n
      BY <2>3, <2>4, <2>5, ConcatProperties
    <2> QED BY <2>1, <2>6 DEF ReadIsBounded
  <1>2. CASE ~PieceArrives
    <2>1. second' = second
      BY <1>2 DEF Next, SignStep, ReadStep, SendStep, Settled, vars, FirstReadEnds, SignerThrows,
         SignatureMade, StreamEnds, StreamThrows, TakeChunk, TakeRest, Take, UploadFails,
         Finalize, PostWhole
    <2> QED BY <2>1 DEF ReadIsBounded
  <1> QED BY <1>1, <1>2

\* However the second read was cut, the digest it is compared by is the one the
\* standard defines for its bytes, while the read goes on and when it has ended.
THEOREM StreamDigestIsStandard == Spec => []DigestIsOfTheBytes
  <1>1. Init => ReadIsBounded
    <2>1. Len(<<>>) = 0 /\ 0 <= Size + Excess
      BY SizeAssumption, ExcessAssumption
    <2> QED BY <2>1 DEF Init, ReadIsBounded
  <1>2. StreamIInv /\ ReadIsBounded => DigestIsOfTheBytes
    <2> SUFFICES ASSUME StreamIInv, ReadIsBounded PROVE Digest(hasher) = DigestOf(second)
      BY DEF DigestIsOfTheBytes
    <2>1. second \in Seq(Int) /\ Len(second) \in Nat /\ IsHashOf(hasher, second, Int)
      BY DEF StreamIInv, DataOK, ReadIsHashed
    <2>2. 8 * Len(second) <= 8 * (Size + Excess) /\ 8 * (Size + Excess) \in Nat
      BY <2>1, SizeAssumption, ExcessAssumption DEF ReadIsBounded
    <2>3. Power(2 * WordLength) \in Nat
      <3>1. 2 * WordLength \in Nat
        BY HashAssumption
      <3> QED BY <3>1, PowerIsPositive
    <2>4. 8 * Len(second) < Power(2 * WordLength)
      BY <2>1, <2>2, <2>3, LengthAssumption
    <2> QED BY <2>1, <2>4, DigestIsStandard
  <1> QED BY <1>1, <1>2, BoundKept, StreamInitOK, StreamNextKeeps, PTL DEF Spec
=============================================================================
