--------------------------- MODULE DataItem_proofs ---------------------------
(***************************************************************************)
(* What is proved of DataItem, for items of any length and any tags: that  *)
(* what was laid out is what is parsed, that the loops that read tags end, *)
(* and what an item that is accepted says.  The second half is about       *)
(* ReferenceSigner: the reference implementation writes the same items,    *)
(* signs the same messages and reads the same tags.                        *)
(***************************************************************************)
EXTENDS ReferenceSigner, Bytes_proofs

---------------------------------------------------------------------------
(* Integers *)

Halves(f, v, n) == f = [i \in 0..n |-> IF i = 0 THEN v ELSE f[i - 1] \div Base]

\* What is left of a value after each byte.
LEMMA LeftOfUnfolds ==
  ASSUME NEW v \in Nat, NEW n \in Nat
  PROVE  /\ LeftOf(v, n) \in [0..n -> Nat]
         /\ LeftOf(v, n)[0] = v
         /\ \A i \in 1..n : LeftOf(v, n)[i] = LeftOf(v, n)[i - 1] \div Base
<1> DEFINE half == [m \in Nat |-> m \div Base]
           g == [i \in 1..n |-> half]
<1>1. \A m \in Nat : m \div Base \in Nat
  BY DEF Base
<1>2. g \in [1..n -> [Nat -> Nat]] /\ \A i \in 1..n, m \in Nat : g[i][m] = m \div Base
  <2>1. half \in [Nat -> Nat] /\ \A m \in Nat : half[m] = m \div Base
    BY <1>1
  <2> HIDE DEF half
  <2> QED
    BY <2>1
<1> HIDE DEF g, half
<1>3. PICK f \in [0..n -> Nat] : f[0] = v /\ \A i \in 1..n : f[i] = g[i][f[i - 1]]
  <2> DEFINE S == Nat
  <2>1. v \in S /\ g \in [1..n -> [S -> S]]
    BY <1>2
  <2> HIDE DEF S
  <2>2. \E f \in [0..n -> S] : Steps(f, v, n, g)
    BY <2>1, TableExists
  <2> QED
    BY <2>2 DEF S, Steps
<1>4. ASSUME NEW i \in 1..n PROVE i - 1 \in 0..n /\ f[i] = f[i - 1] \div Base
  <2>1. i - 1 \in 0..n
    OBVIOUS
  <2>2. f[i - 1] \in Nat /\ f[i] = g[i][f[i - 1]]
    BY <1>3, <2>1
  <2> QED
    BY <1>2, <2>1, <2>2
<1>5. Halves(f, v, n)
  <2> DEFINE h == [i \in 0..n |-> IF i = 0 THEN v ELSE f[i - 1] \div Base]
  <2>1. \A i \in 0..n : i = 0 \/ i \in 1..n
    OBVIOUS
  <2>2. \A i \in 0..n : f[i] = h[i]
    BY <1>3, <1>4, <2>1
  <2>3. f = [i \in 0..n |-> f[i]]
    BY <1>3
  <2>4. h = [i \in 0..n |-> h[i]]
    OBVIOUS
  <2> HIDE DEF h
  <2>5. f = h
    BY <2>2, <2>3, <2>4
  <2> QED
    BY <2>5 DEF Halves, h
<1> DEFINE l == LeftOf(v, n)
<1>6. Halves(l, v, n)
  BY <1>5 DEF LeftOf, Halves
<1> HIDE DEF l
<1>7. l[0] = v /\ \A i \in 1..n : l[i] = l[i - 1] \div Base
  <2>1. \A i \in 0..n : l[i] = IF i = 0 THEN v ELSE l[i - 1] \div Base
    BY <1>6 DEF Halves
  <2>2. 0 \in 0..n /\ \A i \in 1..n : i \in 0..n /\ i # 0
    OBVIOUS
  <2> QED
    BY <2>1, <2>2
<1>8. \A i \in 0..n : l[i] \in Nat
  <2> DEFINE S == {k \in Nat : k <= n => l[k] \in Nat}
  <2>1. ASSUME NEW k \in Nat, \A m \in 0..(k - 1) : m \in S PROVE k \in S
    <3>1. CASE k = 0
      BY <1>7, <3>1
    <3>2. CASE k # 0 /\ k <= n
      <4>1. k - 1 \in 0..(k - 1) /\ k - 1 <= n /\ k \in 1..n
        BY <3>2
      <4>2. l[k - 1] \in Nat
        BY <2>1, <4>1
      <4> QED
        BY <1>1, <1>7, <4>1, <4>2
    <3> QED
      BY <3>1, <3>2
  <2>2. Nat \subseteq S
    <3> HIDE DEF S
    <3> QED
      BY <2>1, Induction
  <2> QED
    BY <2>2
<1>9. l \in [0..n -> Nat]
  <2>1. l = [i \in 0..n |-> IF i = 0 THEN v ELSE l[i - 1] \div Base]
    BY <1>6 DEF Halves
  <2>2. DOMAIN l = 0..n /\ l = [i \in DOMAIN l |-> l[i]]
    BY <2>1
  <2> QED
    BY <1>8, <2>2
<1> QED
  BY <1>7, <1>9 DEF l

\* What is written in n bytes is n bytes, and when it fits it is read back.
LEMMA LongIsRead ==
  ASSUME NEW n \in Nat, NEW v \in Nat
  PROVE  /\ LongToNByteArray(n, v) \in Seq(0..255) /\ Len(LongToNByteArray(n, v)) = n
         /\ LongFits(n, v) => ByteArrayToLong(LongToNByteArray(n, v)) = v
<1> DEFINE l == LeftOf(v, n)
           B == 0..255
           from(k) == [i \in 1..(n - k) |-> l[k + i - 1] % Base]
<1>1. l \in [0..n -> Nat] /\ l[0] = v /\ \A i \in 1..n : l[i] = l[i - 1] \div Base
  BY LeftOfUnfolds
<1>2. Base \in Nat /\ Base > 1 /\ \A m \in Nat : m % Base \in B /\ m = (m % Base) + Base * (m \div Base)
  BY DEF Base
<1> HIDE DEF l
<1>3. ASSUME NEW k \in 0..n
      PROVE  from(k) \in Seq(B) /\ Len(from(k)) = n - k /\ \A i \in 1..(n - k) : from(k)[i] = l[k + i - 1] % Base
  <2>1. n - k \in Nat /\ \A i \in 1..(n - k) : l[k + i - 1] % Base \in B
    <3>1. n - k \in Nat /\ \A i \in 1..(n - k) : k + i - 1 \in 0..n
      OBVIOUS
    <3>2. \A i \in 1..(n - k) : l[k + i - 1] \in Nat
      BY <1>1, <3>1
    <3> HIDE DEF B
    <3> QED
      BY <1>2, <3>1, <3>2
  <2> DEFINE s == from(k)
  <2>2. s \in [1..(n - k) -> B] /\ \A i \in 1..(n - k) : s[i] = l[k + i - 1] % Base
    <3> HIDE DEF B
    <3> QED
      BY <2>1
  <2> HIDE DEF s, B
  <2>3. s \in Seq(B) /\ Len(s) = n - k
    BY <2>1, <2>2, FunctionIsSeq
  <2> QED
    BY <2>2, <2>3 DEF s
<1>4. LongToNByteArray(n, v) = from(0)
  <2>1. n - 0 = n /\ \A i \in 1..n : 0 + i - 1 = i - 1
    OBVIOUS
  <2> QED
    BY <2>1 DEF LongToNByteArray, l
<1>5. ASSUME l[n] = 0 PROVE \A k \in 0..n : Number(from(n - k), Base) = l[n - k]
  <2> DEFINE S == {k \in Nat : k <= n => Number(from(n - k), Base) = l[n - k]}
  <2>1. ASSUME NEW k \in Nat, \A m \in 0..(k - 1) : m \in S PROVE k \in S
    <3> SUFFICES ASSUME k <= n PROVE Number(from(n - k), Base) = l[n - k]
      OBVIOUS
    <3>1. CASE k = 0
      <4>1. n - k = n /\ n - n = 0 /\ n \in 0..n
        BY <3>1
      <4>2. from(n) = <<>>
        BY <1>3, <4>1
      <4> QED
        BY <1>2, <1>5, <4>1, <4>2, NumberUnfolds
    <3>2. CASE k # 0
      <4> DEFINE j == n - k
      <4>1. k - 1 \in 0..(k - 1) /\ k - 1 <= n /\ n - (k - 1) = j + 1 /\ j \in 0..n /\ j + 1 \in 1..n /\ j + 1 \in 0..n
        BY <3>2
      <4>2. Number(from(j + 1), Base) = l[j + 1]
        <5>1. k - 1 \in S
          BY <2>1, <4>1
        <5> QED
          BY <4>1, <5>1
      <4> HIDE DEF S, j
      <4>3. /\ from(j) \in Seq(B) /\ Len(from(j)) = n - j
            /\ \A i \in 1..(n - j) : from(j)[i] = l[j + i - 1] % Base
        BY <1>3, <4>1
      <4>4. /\ from(j + 1) \in Seq(B) /\ Len(from(j + 1)) = n - (j + 1)
            /\ \A i \in 1..(n - (j + 1)) : from(j + 1)[i] = l[j + 1 + i - 1] % Base
        BY <1>3, <4>1
      <4> DEFINE t == from(j)
                 s == from(j + 1)
      <4> HIDE DEF t, s, from
      <4>5. Len(t) = Len(s) + 1 /\ t[1] = l[j] % Base
        <5>1. 1 \in 1..(n - j) /\ j + 1 - 1 = j /\ n - j = (n - (j + 1)) + 1
          BY <4>1
        <5> QED
          BY <4>3, <4>4, <5>1 DEF t, s
      <4>6. ASSUME NEW i \in 1..Len(s) PROVE t[i + 1] = s[i]
        <5>1. i \in 1..(n - (j + 1)) /\ i + 1 \in 1..(n - j) /\ j + (i + 1) - 1 = j + 1 + i - 1
          BY <4>1, <4>4 DEF s
        <5> QED
          BY <4>3, <4>4, <5>1 DEF t, s
      <4>7. t \in Seq(Nat) /\ s \in Seq(Nat)
        <5>1. B \subseteq Nat /\ t \in Seq(B) /\ s \in Seq(B)
          BY <4>3, <4>4 DEF t, s
        <5> HIDE DEF B
        <5> QED
          BY <5>1, SeqOfMore
      <4>8. Number(t, Base) = t[1] + Base * Number(s, Base)
        BY <1>2, <4>5, <4>6, <4>7, NumberUnfolds
      <4>9. l[j + 1] = l[j] \div Base /\ l[j] \in Nat
        <5>1. (j + 1) - 1 = j
          BY <4>1
        <5> QED
          BY <1>1, <4>1, <5>1
      <4>10. Number(t, Base) = l[j]
        BY <1>2, <4>2, <4>5, <4>8, <4>9 DEF s
      <4> QED
        BY <4>10 DEF t, j
    <3> QED
      BY <3>1, <3>2
  <2>2. Nat \subseteq S
    <3> HIDE DEF S
    <3> QED
      BY <2>1, Induction
  <2> QED
    BY <2>2
<1>6. LongFits(n, v) => ByteArrayToLong(LongToNByteArray(n, v)) = v
  <2>1. n \in 0..n /\ n - n = 0
    OBVIOUS
  <2> SUFFICES ASSUME l[n] = 0 PROVE Number(from(0), Base) = v
    BY <1>4 DEF LongFits, ByteArrayToLong, l
  <2> QED
    BY <1>1, <1>5, <2>1
<1> QED
  <2>1. 0 \in 0..n /\ n - 0 = n
    OBVIOUS
  <2> QED
    BY <1>3, <1>4, <1>6, <2>1

\* What is no larger than what fits, fits.
LEMMA LessFits ==
  ASSUME NEW n \in Nat, NEW v \in Nat, NEW w \in Nat, w <= v, LongFits(n, v)
  PROVE  LongFits(n, w)
<1> DEFINE l == LeftOf(v, n)
           k == LeftOf(w, n)
           S == {i \in Nat : i <= n => k[i] <= l[i]}
<1>1. l \in [0..n -> Nat] /\ l[0] = v /\ \A i \in 1..n : l[i] = l[i - 1] \div Base
  BY LeftOfUnfolds
<1>2. k \in [0..n -> Nat] /\ k[0] = w /\ \A i \in 1..n : k[i] = k[i - 1] \div Base
  BY LeftOfUnfolds
<1>3. \A a, b \in Nat : a <= b => a \div Base <= b \div Base
  BY DEF Base
<1> HIDE DEF l, k
<1>4. ASSUME NEW i \in Nat, \A m \in 0..(i - 1) : m \in S PROVE i \in S
  <2> SUFFICES ASSUME i <= n PROVE k[i] <= l[i]
    OBVIOUS
  <2>1. CASE i = 0
    BY <1>1, <1>2, <2>1
  <2>2. CASE i # 0
    <3>1. i - 1 \in 0..(i - 1) /\ i - 1 <= n /\ i \in 1..n /\ i - 1 \in 0..n
      BY <2>2
    <3>2. k[i - 1] <= l[i - 1] /\ k[i - 1] \in Nat /\ l[i - 1] \in Nat
      BY <1>1, <1>2, <1>4, <3>1
    <3> QED
      BY <1>1, <1>2, <1>3, <3>1, <3>2
  <2> QED
    BY <2>1, <2>2
<1>5. n \in S
  <2> HIDE DEF S
  <2> QED
    BY <1>4, Induction
<1>6. k[n] <= l[n] /\ k[n] \in Nat /\ l[n] = 0
  BY <1>1, <1>2, <1>5 DEF LongFits, l
<1>7. k[n] = 0
  BY <1>6
<1> QED
  BY <1>7 DEF LongFits, k

\* A byte fits wherever there is room for one.
LEMMA ByteFits ==
  ASSUME NEW n \in Nat \ {0}, NEW v \in 0..255
  PROVE  LongFits(n, v)
<1> DEFINE k == LeftOf(v, n)
           S == {i \in Nat : i \in 1..n => k[i] = 0}
<1>1. v \in Nat /\ v \div Base = 0 /\ 0 \div Base = 0
  BY DEF Base
<1>2. k[0] = v /\ \A i \in 1..n : k[i] = k[i - 1] \div Base
  BY <1>1, LeftOfUnfolds
<1> HIDE DEF k
<1>3. ASSUME NEW i \in Nat, \A m \in 0..(i - 1) : m \in S PROVE i \in S
  <2> SUFFICES ASSUME i \in 1..n PROVE k[i] = 0
    OBVIOUS
  <2>1. CASE i = 1
    BY <1>1, <1>2, <2>1
  <2>2. CASE i # 1
    <3>1. i - 1 \in 0..(i - 1) /\ i - 1 \in 1..n
      BY <2>2
    <3>2. k[i - 1] = 0
      BY <1>3, <3>1
    <3> QED
      BY <1>1, <1>2, <3>2
  <2> QED
    BY <2>1, <2>2
<1>4. n \in S
  <2> HIDE DEF S
  <2> QED
    BY <1>3, Induction
<1> QED
  BY <1>4 DEF LongFits, k

\* encodeStringBytes() and utf8Decode(): a tag string of any length is read as
\* AsRead says, whichever of the two conventions it was encoded by.
THEOREM StringIsRead ==
  ASSUME NEW s \in Seq(CodeUnits)
  PROVE  Utf8Decode(EncodeStringBytes(s)) = AsRead(s)
<1> DEFINE p == CodePoints(s)
           many == ~(Utf8ByteLength(s) > ShortString)
           lone == Lone(many)
<1>1. p \in Seq(Points)
  <2>1. PICK f : ReadsText(f, 1, s) /\ CodePoints(s) = f[1]
    BY CodePointsAre
  <2>2. 1 \in 1..(Len(s) + 2)
    BY ElementOf
  <2> QED
    BY <2>1, <2>2, PointsRead
<1>2. AsRead(s) = Displayed(Unmarked(p), lone)
  BY DEF AsRead, Displayed, Unmarked, Lone
<1>3. DecodedPoints(EncodeStringBytes(s)) = Spread(p, lone)
  <2>1. CASE Utf8ByteLength(s) > ShortString
    <3>1. DecodedPoints(Utf8Encode(s)) = Replaced(p)
      BY TextIsRead
    <3>2. lone = Lone(FALSE)
      BY <2>1
    <3> HIDE DEF p, lone
    <3> QED
      BY <1>1, <2>1, <3>1, <3>2, ReplacedIsSpread DEF EncodeStringBytes
  <2>2. CASE ~(Utf8ByteLength(s) > ShortString)
    <3> DEFINE bytes == WtfEncode(s)
    <3>1. bytes \in Seq(0..255) /\ bytes = Encoded(p)
      BY LengthIsDeclared DEF WtfEncode
    <3>2. EncodeStringBytes(s) = bytes
      BY <2>2 DEF EncodeStringBytes
    <3> HIDE DEF bytes
    <3>3. PICK f : Decodes(f, 1, bytes) /\ DecodedPoints(bytes) = f[1]
      BY <3>1, DecodedPointsAre
    <3>4. EndIsShown(f, bytes)
      BY <3>1, <3>3, EncodedIsShown
    <3>5. f[Len(<<>>) + 1] = Spread(p, Lone(TRUE))
      <4>1. <<>> \in Seq(0..255) /\ bytes = <<>> \o Encoded(p)
        BY <3>1
      <4> HIDE DEF p
      <4> QED
        BY <1>1, <3>4, <4>1 DEF EndIsShown
    <3>6. lone = Lone(TRUE)
      BY <2>2
    <3>7. Len(<<>>) + 1 = 1
      OBVIOUS
    <3> HIDE DEF p, lone
    <3> QED
      BY <3>2, <3>3, <3>5, <3>6, <3>7
  <2> QED
    BY <2>1, <2>2
<1> HIDE DEF p
<1>4. Unmarked(p) \in Seq(Points)
  BY <1>1, UnmarkedIs
<1>5. many \in BOOLEAN
  OBVIOUS
<1> HIDE DEF many
<1>6. Units(Unmarked(Spread(p, lone))) = Displayed(Unmarked(p), lone)
  BY <1>1, <1>4, <1>5, MarkIsShown, SpreadIsDisplayed
<1> QED
  BY <1>2, <1>3, <1>6, DecodeIs

---------------------------------------------------------------------------
(* Tags *)

Tag == [name : Seq(CodeUnits), value : Seq(CodeUnits)]
TagBytes(t) == WriteString(t.name) \o WriteString(t.value)
TagsBytes(list) == FlattenSeq([k \in DOMAIN list |-> TagBytes(list[k])])

\* readString(), of any bytes.
FitsIn(buf, at) ==
    /\ HasVarLong(buf, at)
    /\ ReadVarLong(buf, at) >= 0
    /\ VarEnd(buf, at) + ReadVarLong(buf, at) <= Len(buf)
EndIn(buf, at) == VarEnd(buf, at) + ReadVarLong(buf, at) + 1
TextIn(buf, at) ==
    Utf8Decode(SubSeq(buf, VarEnd(buf, at) + 1, VarEnd(buf, at) + ReadVarLong(buf, at)))

\* A tag string is written in bytes, as many as are declared.
LEMMA StringLies ==
  ASSUME NEW s \in Seq(CodeUnits)
  PROVE  /\ EncodeStringBytes(s) \in Seq(0..255)
         /\ Len(EncodeStringBytes(s)) = Utf8ByteLength(s)
         /\ Utf8ByteLength(s) \in Nat
         /\ WriteString(s) \in Seq(0..255)
         /\ Len(WriteString(s)) \in Nat /\ Len(WriteString(s)) >= 1
<1> DEFINE e == EncodeStringBytes(s)
           n == Utf8ByteLength(s)
           w == WriteVarLong(n)
<1>1. e \in Seq(0..255) /\ Len(e) = n
  BY LengthIsDeclared DEF EncodeStringBytes
<1>2. n \in Nat
  BY <1>1, ElementOf
<1> HIDE DEF e, n
<1>3. n \in Int
  BY <1>2
<1>4. w \in Seq(0..255) /\ Len(w) \in Nat /\ Len(w) >= 1
  BY <1>3, VarLongLies
<1>5. WriteString(s) = w \o e
  BY DEF WriteString, w, e, n
<1> HIDE DEF w
<1>6. w \o e \in Seq(0..255) /\ Len(w \o e) = Len(w) + Len(e)
  BY <1>1, <1>4, Joined
<1>7. Len(w \o e) \in Nat /\ Len(w \o e) >= 1
  BY <1>1, <1>2, <1>4, <1>6
<1> QED
  BY <1>1, <1>2, <1>5, <1>6, <1>7 DEF e, n

\* A string is read where it was written, and what is read ends where it does.
LEMMA StringReadBack ==
  ASSUME NEW s \in Seq(CodeUnits), NEW before \in Seq(0..255), NEW rest \in Seq(0..255)
  PROVE  LET buf == before \o (WriteString(s) \o rest)
             at == Len(before) + 1
         IN  /\ FitsIn(buf, at)
             /\ TextIn(buf, at) = AsRead(s)
             /\ EndIn(buf, at) = Len(before) + Len(WriteString(s)) + 1
<1> DEFINE B == 0..255
           e == EncodeStringBytes(s)
           n == Utf8ByteLength(s)
           w == WriteVarLong(n)
           buf == before \o (WriteString(s) \o rest)
           at == Len(before) + 1
<1>1. e \in Seq(B) /\ Len(e) = n /\ n \in Nat /\ WriteString(s) = w \o e
  BY StringLies DEF WriteString
<1>2. n \in Int /\ n >= 0
  BY <1>1
<1> HIDE DEF n
<1>3. w \in Seq(B) /\ Len(w) \in Nat
  BY <1>2, VarLongLies
<1>4. before \in Seq(B) /\ rest \in Seq(B) /\ Len(before) \in Nat /\ Len(rest) \in Nat
  BY ElementOf
<1>5. Utf8Decode(e) = AsRead(s)
  BY StringIsRead
<1>6. /\ HasVarLong(before \o (w \o (e \o rest)), Len(before) + 1)
      /\ VarEnd(before \o (w \o (e \o rest)), Len(before) + 1) = Len(before) + Len(w)
      /\ ReadVarLong(before \o (w \o (e \o rest)), Len(before) + 1) = n
  <2>1. e \o rest \in Seq(0..255)
    BY <1>1, Joined
  <2> QED
    BY <1>2, <2>1, VarLongRoundTrip DEF w
<1> HIDE DEF B, e, w
<1> DEFINE front == before \o w
<1>7. /\ buf = before \o (w \o (e \o rest)) /\ buf = front \o (e \o rest)
      /\ front \in Seq(B) /\ e \o rest \in Seq(B)
  <2>1. (w \o e) \o rest = w \o (e \o rest)
    BY <1>1, <1>3, <1>4, Concatenates, SMTT(30)
  <2>2. front \in Seq(B) /\ e \o rest \in Seq(B)
    BY <1>1, <1>3, <1>4, Concatenates, SMTT(30)
  <2>3. (before \o w) \o (e \o rest) = before \o (w \o (e \o rest))
    <3> DEFINE more == e \o rest
    <3>1. more \in Seq(B)
      BY <2>2
    <3> HIDE DEF more
    <3>2. (before \o w) \o more = before \o (w \o more)
      BY <1>3, <1>4, <3>1, Concatenates, SMTT(30)
    <3> QED
      BY <3>2 DEF more
  <2> QED
    BY <1>1, <2>1, <2>2, <2>3
<1>8. Len(front) = Len(before) + Len(w) /\ Len(WriteString(s)) = Len(w) + Len(e)
  BY <1>1, <1>3, <1>4, Joined
<1>9. /\ Len(front \o (e \o rest)) = Len(front) + Len(e) + Len(rest)
      /\ SubSeq(front \o (e \o rest), Len(front) + 1, Len(front) + Len(e)) = e
  <2> HIDE DEF front
  <2>1. Len(front \o (e \o rest)) = Len(front) + Len(e) + Len(rest)
    BY <1>1, <1>4, <1>7, JoinedAmid
  <2>2. SubSeq(front \o (e \o rest), Len(front) + 1, Len(front) + Len(e)) = e
    BY <1>1, <1>4, <1>7, PartBetween
  <2> QED
    BY <2>1, <2>2
<1> HIDE DEF buf, front
<1>10. HasVarLong(buf, at) /\ VarEnd(buf, at) = Len(front) /\ ReadVarLong(buf, at) = Len(e)
  BY <1>1, <1>6, <1>7, <1>8
<1>11. Len(buf) = Len(front) + Len(e) + Len(rest)
  BY <1>7, <1>9
<1>12. FitsIn(buf, at)
  <2>1. Len(front) + Len(e) <= Len(buf)
    BY <1>1, <1>3, <1>4, <1>8, <1>11
  <2> QED
    BY <1>1, <1>2, <1>10, <2>1 DEF FitsIn
<1>13. TextIn(buf, at) = AsRead(s)
  <2>1. SubSeq(buf, Len(front) + 1, Len(front) + Len(e)) = e
    BY <1>7, <1>9
  <2> QED
    BY <1>5, <1>10, <2>1 DEF TextIn
<1>14. EndIn(buf, at) = Len(before) + Len(WriteString(s)) + 1
  <2>1. EndIn(buf, at) = Len(front) + Len(e) + 1
    BY <1>10 DEF EndIn
  <2> QED
    BY <1>1, <1>3, <1>4, <1>8, <2>1
<1> QED
  BY <1>12, <1>13, <1>14 DEF buf

\* A tag is two strings, and is written in bytes.
LEMMA TagLies ==
  ASSUME NEW t \in Tag
  PROVE  /\ t.name \in Seq(CodeUnits) /\ t.value \in Seq(CodeUnits)
         /\ TagBytes(t) \in Seq(0..255) /\ Len(TagBytes(t)) \in Nat /\ Len(TagBytes(t)) >= 1
<1>1. t.name \in Seq(CodeUnits) /\ t.value \in Seq(CodeUnits)
  BY DEF Tag
<1> DEFINE a == WriteString(t.name)
           b == WriteString(t.value)
<1>2. /\ a \in Seq(0..255) /\ Len(a) \in Nat /\ Len(a) >= 1
      /\ b \in Seq(0..255) /\ Len(b) \in Nat /\ Len(b) >= 1
  BY <1>1, StringLies
<1> HIDE DEF a, b
<1>3. a \o b \in Seq(0..255) /\ Len(a \o b) = Len(a) + Len(b)
  BY <1>2, Joined
<1>4. TagBytes(t) = a \o b
  BY DEF TagBytes, a, b
<1>5. Len(a \o b) \in Nat /\ Len(a \o b) >= 1
  BY <1>2, <1>3
<1> QED
  BY <1>1, <1>3, <1>4, <1>5

\* Both strings of a tag are read where it was written.
TagIsRead(buf, at, t, next) ==
    /\ FitsIn(buf, at) /\ FitsIn(buf, EndIn(buf, at))
    /\ TextIn(buf, at) = AsRead(t.name) /\ TextIn(buf, EndIn(buf, at)) = AsRead(t.value)
    /\ EndIn(buf, EndIn(buf, at)) = next

\* A tag is read where it was written, and the next one stands behind it.
LEMMA TagReadBack ==
  ASSUME NEW t \in Tag, NEW before \in Seq(0..255), NEW rest \in Seq(0..255)
  PROVE  /\ TagIsRead(before \o (TagBytes(t) \o rest), Len(before) + 1, t, Len(before \o TagBytes(t)) + 1)
         /\ before \o (TagBytes(t) \o rest) = (before \o TagBytes(t)) \o rest
         /\ before \o TagBytes(t) \in Seq(0..255)
<1> DEFINE B == 0..255
           a == WriteString(t.name)
           b == WriteString(t.value)
           more == b \o rest
           front == before \o a
           buf == before \o (TagBytes(t) \o rest)
           at == Len(before) + 1
<1>1. /\ t.name \in Seq(CodeUnits) /\ t.value \in Seq(CodeUnits)
      /\ TagBytes(t) \in Seq(B) /\ TagBytes(t) = a \o b
  BY TagLies DEF TagBytes
<1>2. /\ a \in Seq(B) /\ Len(a) \in Nat /\ b \in Seq(B) /\ Len(b) \in Nat
      /\ before \in Seq(B) /\ Len(before) \in Nat /\ rest \in Seq(B)
  BY <1>1, StringLies, ElementOf
<1>3. more \in Seq(B) /\ front \in Seq(B)
  BY <1>2, Joined
<1>4. /\ FitsIn(before \o (a \o more), at)
      /\ TextIn(before \o (a \o more), at) = AsRead(t.name)
      /\ EndIn(before \o (a \o more), at) = Len(before) + Len(a) + 1
  BY <1>1, <1>3, StringReadBack
<1>5. /\ FitsIn(front \o (b \o rest), Len(front) + 1)
      /\ TextIn(front \o (b \o rest), Len(front) + 1) = AsRead(t.value)
      /\ EndIn(front \o (b \o rest), Len(front) + 1) = Len(front) + Len(b) + 1
  <2> HIDE DEF front
  <2> QED
    BY <1>1, <1>3, StringReadBack
<1> HIDE DEF B, a, b, more, front
<1>a. \A x, y, z \in Seq(B) : (x \o y) \o z = x \o (y \o z)
  BY ConcatAssociative
<1>6. buf = before \o (a \o more)
  <2>1. (a \o b) \o rest = a \o (b \o rest)
    BY <1>2, <1>a
  <2> QED
    BY <1>1, <2>1 DEF more
<1>7. before \o (a \o more) = front \o more
  BY <1>2, <1>3, <1>a, Zenon DEF front
<1>8. Len(front) = Len(before) + Len(a) /\ Len(TagBytes(t)) = Len(a) + Len(b)
  BY <1>1, <1>2, Joined DEF front
<1>9. before \o TagBytes(t) \in Seq(B) /\ Len(before \o TagBytes(t)) = Len(before) + Len(TagBytes(t))
  BY <1>1, <1>2, Joined
<1>10. buf = (before \o TagBytes(t)) \o rest
  BY <1>1, <1>2, <1>a, Zenon
<1> DEFINE c == before \o TagBytes(t)
<1> HIDE DEF buf, at, c
<1>11. EndIn(buf, at) = Len(front) + 1
  BY <1>4, <1>6, <1>8
<1>12. Len(c) + 1 = Len(front) + Len(b) + 1
  BY <1>2, <1>8, <1>9 DEF c
<1>13. TagIsRead(buf, at, t, Len(c) + 1)
  BY <1>4, <1>5, <1>6, <1>7, <1>11, <1>12 DEF TagIsRead, more
<1> QED
  BY <1>9, <1>10, <1>13 DEF buf, at, c, B

\* The bytes of tags, the first apart.
LEMMA TagsUnfold ==
  /\ TagsBytes(<<>>) = <<>>
  /\ \A q \in Seq(Tag) : TagsBytes(q) \in Seq(0..255)
  /\ \A q \in Seq(Tag), t \in Tag : TagsBytes(<<t>> \o q) = TagBytes(t) \o TagsBytes(q)
<1> DEFINE w == [t \in Tag |-> TagBytes(t)]
<1>1. w \in [Tag -> Seq(0..255)] /\ \A t \in Tag : w[t] = TagBytes(t)
  BY TagLies
<1> HIDE DEF w
<1>2. ASSUME NEW q \in Seq(Tag) PROVE TagsBytes(q) = EachOf(w, q)
  <2>1. \A k \in DOMAIN q : q[k] \in Tag
    BY ElementOf
  <2>2. [k \in DOMAIN q |-> TagBytes(q[k])] = [k \in DOMAIN q |-> w[q[k]]]
    BY <1>1, <2>1
  <2> QED
    BY <2>2 DEF TagsBytes, EachOf
<1>3. <<>> \in Seq(Tag) /\ \A q \in Seq(Tag), t \in Tag : <<t>> \o q \in Seq(Tag)
  BY FirstApplied
<1>4. /\ EachOf(w, <<>>) = <<>>
      /\ \A q \in Seq(Tag) : EachOf(w, q) \in Seq(0..255)
      /\ \A q \in Seq(Tag), t \in Tag : EachOf(w, <<t>> \o q) = w[t] \o EachOf(w, q)
  BY <1>1, EachUnfolds
<1> QED
  BY <1>1, <1>2, <1>3, <1>4

\* A tag takes a byte at least.
LEMMA TagsTake ==
  ASSUME NEW q \in Seq(Tag)
  PROVE  Len(TagsBytes(q)) \in Nat /\ Len(q) \in Nat /\ Len(q) <= Len(TagsBytes(q))
<1> DEFINE K == {p \in Seq(Tag) : Len(p) <= Len(TagsBytes(p))}
<1>1. <<>> \in K
  <2>1. TagsBytes(<<>>) = <<>> /\ Len(<<>>) <= Len(<<>>) /\ <<>> \in Seq(Tag)
    BY TagsUnfold
  <2> QED
    BY <2>1
<1>2. ASSUME NEW p \in Seq(Tag), NEW t \in Tag, p \in K PROVE <<t>> \o p \in K
  <2> DEFINE a == TagBytes(t)
             b == TagsBytes(p)
  <2>1. a \in Seq(0..255) /\ Len(a) \in Nat /\ Len(a) >= 1
    BY TagLies
  <2>2. b \in Seq(0..255) /\ TagsBytes(<<t>> \o p) = a \o b
    BY TagsUnfold
  <2>3. Len(b) \in Nat /\ Len(p) \in Nat /\ Len(p) <= Len(b)
    BY <1>2, <2>2, ElementOf
  <2> HIDE DEF a, b
  <2>4. Len(a \o b) = Len(a) + Len(b)
    BY <2>1, <2>2, Joined
  <2>5. <<t>> \o p \in Seq(Tag) /\ Len(<<t>> \o p) = Len(p) + 1
    OBVIOUS
  <2>6. Len(<<t>> \o p) <= Len(TagsBytes(<<t>> \o p))
    BY <2>1, <2>2, <2>3, <2>4, <2>5
  <2> QED
    BY <2>5, <2>6
<1>3. Seq(Tag) \subseteq K
  <2> HIDE DEF K
  <2> QED
    BY <1>1, <1>2, FromTheEnd
<1>4. Len(q) <= Len(TagsBytes(q))
  BY <1>3
<1>5. TagsBytes(q) \in Seq(0..255)
  BY TagsUnfold
<1> QED
  BY <1>4, <1>5, ElementOf

\* The region of some tags: their number, they, and a zero.
LEMMA RegionIs ==
  ASSUME NEW q \in Seq(Tag)
  PROVE  /\ q = <<>> => SerializeTags(q) = <<>>
         /\ q # <<>> => SerializeTags(q) = WriteVarLong(Len(q)) \o (TagsBytes(q) \o WriteVarLong(0))
         /\ SerializeTags(q) \in Seq(0..255)
         /\ Len(SerializeTags(q)) \in Nat /\ Len(q) \in Nat /\ Len(q) <= Len(SerializeTags(q))
<1> DEFINE a == WriteVarLong(Len(q))
           b == TagsBytes(q)
           c == WriteVarLong(0)
<1>1. Len(q) \in Nat /\ Len(b) \in Nat /\ Len(q) <= Len(b) /\ b \in Seq(0..255)
  BY TagsTake, TagsUnfold
<1>2. a \in Seq(0..255) /\ c \in Seq(0..255) /\ Len(a) \in Nat /\ Len(c) \in Nat
  BY <1>1, VarLongLies
<1>3. CASE q = <<>>
  <2>1. SerializeTags(q) = <<>>
    BY <1>3 DEF SerializeTags
  <2>2. SerializeTags(q) \in Seq(0..255)
    BY <2>1
  <2>3. Len(SerializeTags(q)) = 0 /\ Len(q) = 0
    BY <1>3, <2>1
  <2>4. Len(SerializeTags(q)) \in Nat /\ Len(q) \in Nat /\ Len(q) <= Len(SerializeTags(q))
    BY <2>3
  <2> HIDE DEF a, b, c
  <2> QED
    BY <1>3, <2>1, <2>2, <2>4
<1>4. CASE q # <<>>
  <2>1. SerializeTags(q) = (a \o b) \o c
    BY <1>4 DEF SerializeTags, TagsBytes, TagBytes
  <2> HIDE DEF a, b, c
  <2>2. (a \o b) \o c = a \o (b \o c)
    BY <1>1, <1>2, Concatenates
  <2>3. a \o (b \o c) \in Seq(0..255) /\ Len(a \o (b \o c)) = Len(a) + Len(b) + Len(c)
    BY <1>1, <1>2, JoinedAmid
  <2>4. Len(a \o (b \o c)) \in Nat /\ Len(q) <= Len(a \o (b \o c))
    BY <1>1, <1>2, <2>3
  <2> QED
    BY <1>1, <1>4, <2>1, <2>2, <2>3, <2>4 DEF a, b, c
<1> QED
  BY <1>3, <1>4

---------------------------------------------------------------------------
(* A target as text *)

\* The digits that Digits64's recursive function keeps.
KeptAt(f, i, text) ==
    IF i = 0 THEN <<>>
    ELSE IF Digit64(text[i]) \in 0..63 THEN Append(f[i - 1], text[i]) ELSE f[i - 1]
Keeps(f, text) == f = [i \in 0..Len(text) |-> KeptAt(f, i, text)]

\* The digits of a text are numbers.
LEMMA DigitsLie ==
  ASSUME NEW text \in Seq(Nat)
  PROVE  Digits64(text) \in Seq(Nat)
<1> DEFINE n == Len(text)
           S == Seq(Nat)
           step(i, kept) == IF Digit64(text[i]) \in 0..63 THEN Append(kept, text[i]) ELSE kept
           g == [i \in 1..n |-> [kept \in S |-> step(i, kept)]]
<1>1. n \in Nat /\ \A i \in 1..n : text[i] \in Nat
  BY ElementOf
<1>2. \A i \in 1..n : \A kept \in S : step(i, kept) \in S
  BY <1>1
<1>3. g \in [1..n -> [S -> S]] /\ \A i \in 1..n : \A kept \in S : g[i][kept] = step(i, kept)
  <2> HIDE DEF step, S
  <2> QED
    BY <1>2
<1>4. <<>> \in S
  OBVIOUS
<1> HIDE DEF g, S
<1>5. PICK F \in [0..n -> S] : Steps(F, <<>>, n, g)
  BY <1>1, <1>3, <1>4, TableExists
<1>6. Keeps(F, text)
  <2>1. \A i \in 1..n : i - 1 \in 0..n
    BY <1>1
  <2>2. \A i \in 1..n : F[i] = step(i, F[i - 1])
    <3> HIDE DEF step
    <3> QED
      BY <1>3, <1>5, <2>1 DEF Steps
  <2>3. \A i \in 0..n : F[i] = KeptAt(F, i, text)
    <3>1. \A i \in 0..n : i = 0 \/ (i # 0 /\ i \in 1..n)
      BY <1>1
    <3>2. F[0] = <<>>
      BY <1>5 DEF Steps
    <3> QED
      BY <2>2, <3>1, <3>2 DEF KeptAt
  <2>4. F = [i \in 0..n |-> F[i]]
    OBVIOUS
  <2>5. F = [i \in 0..n |-> KeptAt(F, i, text)]
    BY <2>3, <2>4
  <2> QED
    BY <2>5 DEF Keeps
<1> DEFINE r == CHOOSE r : Keeps(r, text)
<1>7. Keeps(r, text)
  BY <1>6
<1>8. Digits64(text) = r[n]
  BY DEF Digits64, Keeps, KeptAt
<1> HIDE DEF r
<1>9. \A i \in 0..n : r[i] = KeptAt(r, i, text)
  BY <1>7 DEF Keeps
<1>10. r[0] \in S
  <2>1. 0 \in 0..n
    BY <1>1
  <2> QED
    BY <1>4, <1>9, <2>1 DEF KeptAt
<1>11. \A i \in 1..n : r[i - 1] \in S => r[i] \in S
  <2> TAKE i \in 1..n
  <2>1. i \in 0..n /\ i # 0
    BY <1>1
  <2>2. r[i] = step(i, r[i - 1])
    BY <1>9, <2>1 DEF KeptAt
  <2> HIDE DEF step
  <2> QED
    BY <1>2, <2>2
<1>12. \A i \in 0..n : r[i] \in S
  <2> HIDE DEF n
  <2> QED
    BY <1>1, <1>10, <1>11, Stays
<1>13. n \in 0..n
  BY <1>1
<1> QED
  BY <1>8, <1>12, <1>13 DEF S

---------------------------------------------------------------------------
(* What items are created from *)

\* A field that is absent or full.
IsField(bytes) == bytes \in Seq(0..255) /\ (bytes = <<>> \/ Len(bytes) = FieldLength)

\* What an item can be laid out from.
WellMade(o) ==
    /\ o.type \in DOMAIN SigConfig /\ o.type \in 1..255
    /\ SigConfig[o.type].sigLength \in Nat /\ SigConfig[o.type].ownerLength \in Nat
    /\ o.owner \in Seq(0..255) /\ Len(o.owner) = SigConfig[o.type].ownerLength
    /\ o.data \in Seq(0..255)
    /\ IsField(TargetBytes(o)) /\ IsField(AnchorBytes(o))

\* What createDataItem() does not refuse can be laid out.
LEMMA CreatedLies ==
  ASSUME NEW o \in Options, CanCreate(o)
  PROVE  /\ WellMade(o)
         /\ o.tags \in Seq(Tag)
         /\ o.target = Absent <=> TargetBytes(o) = <<>>
         /\ o.anchor = Absent <=> AnchorBytes(o) = <<>>
         /\ Len(SerializeTags(o.tags)) <= MaxTagBytes
         /\ LongFits(LongLength, Len(SerializeTags(o.tags)))
<1>1. /\ o.type \in DOMAIN SigConfig /\ Len(o.owner) = SigConfig[o.type].ownerLength
      /\ o.target = Absent \/ Len(TargetBytes(o)) = FieldLength
      /\ o.anchor = Absent \/ Len(AnchorBytes(o)) = FieldLength
      /\ Len(SerializeTags(o.tags)) <= MaxTagBytes
      /\ LongFits(LongLength, Len(SerializeTags(o.tags)))
  BY DEF CanCreate
<1>2. o.type \in 1..255 /\ SigConfig[o.type].sigLength \in Nat /\ SigConfig[o.type].ownerLength \in Nat
  <2>1. Base - 1 = 255
    BY DEF Base
  <2>2. o.type \in 1..(Base - 1) /\ SigConfig[o.type].sigLength \in Nat /\ SigConfig[o.type].ownerLength \in Nat
    BY <1>1, SigConfigAssumption
  <2> QED
    BY <2>1, <2>2
<1>3. /\ o.owner \in Seq(0..255) /\ o.data \in Seq(0..255) /\ o.tags \in Seq(Tag)
      /\ o.target = Absent \/ (o.target.form = "bytes" /\ o.target.value \in Seq(0..255))
           \/ (o.target.form = "text" /\ o.target.value \in Seq(Nat))
      /\ o.anchor = Absent \/ (o.anchor.form = "bytes" /\ o.anchor.value \in Seq(0..255))
           \/ (o.anchor.form = "text" /\ o.anchor.value \in Seq(CodeUnits))
  <2>1. Base - 1 = 255
    BY DEF Base
  <2>2. o.owner \in Seq(0..(Base - 1)) /\ o.data \in Seq(0..(Base - 1))
    BY OptionsAssumption
  <2>3. o.tags \in Seq(Tag)
    BY OptionsAssumption DEF Tag
  <2>4. o.target \in Forms(Seq(Nat))
    BY OptionsAssumption
  <2>5. o.anchor \in Forms(Seq(CodeUnits))
    BY OptionsAssumption
  <2> QED
    BY <2>1, <2>2, <2>3, <2>4, <2>5 DEF Forms
<1>4. FieldLength \in Nat \ {0}
  BY WidthsAssumption
<1>5. TargetBytes(o) \in Seq(0..255) /\ (o.target = Absent => TargetBytes(o) = <<>>)
  <2>1. CASE o.target = Absent
    <3>1. TargetBytes(o) = <<>>
      BY <2>1 DEF TargetBytes, Absent
    <3> QED
      BY <3>1
  <2>2. CASE o.target.form = "bytes" /\ o.target.value \in Seq(0..255)
    <3>1. TargetBytes(o) = o.target.value /\ o.target # Absent
      BY <2>2 DEF TargetBytes, Absent
    <3> QED
      BY <2>2, <3>1
  <2>3. CASE o.target.form = "text" /\ o.target.value \in Seq(Nat)
    <3>1. TargetBytes(o) = FromBase64Url(Digits64(o.target.value)) /\ o.target # Absent
      BY <2>3 DEF TargetBytes, Absent
    <3> QED
      BY <2>3, <3>1, DigitsLie, Base64Lies
  <2> QED
    BY <1>3, <2>1, <2>2, <2>3
<1>6. AnchorBytes(o) \in Seq(0..255) /\ (o.anchor = Absent => AnchorBytes(o) = <<>>)
  <2>1. CASE o.anchor = Absent
    <3>1. AnchorBytes(o) = <<>>
      BY <2>1 DEF AnchorBytes, Absent
    <3> QED
      BY <3>1
  <2>2. CASE o.anchor.form = "bytes" /\ o.anchor.value \in Seq(0..255)
    <3>1. AnchorBytes(o) = o.anchor.value /\ o.anchor # Absent
      BY <2>2 DEF AnchorBytes, Absent
    <3> QED
      BY <2>2, <3>1
  <2>3. CASE o.anchor.form = "text" /\ o.anchor.value \in Seq(CodeUnits)
    <3>1. AnchorBytes(o) = Utf8Encode(o.anchor.value) /\ o.anchor # Absent
      BY <2>3 DEF AnchorBytes, Absent
    <3> QED
      BY <2>3, <3>1, LengthIsDeclared
  <2> QED
    BY <1>3, <2>1, <2>2, <2>3
<1>7. o.target # Absent => TargetBytes(o) # <<>>
  BY <1>1, <1>4
<1>8. o.anchor # Absent => AnchorBytes(o) # <<>>
  BY <1>1, <1>4
<1>9. IsField(TargetBytes(o)) /\ IsField(AnchorBytes(o))
  BY <1>1, <1>5, <1>6 DEF IsField
<1> QED
  BY <1>1, <1>2, <1>3, <1>5, <1>6, <1>7, <1>8, <1>9 DEF WellMade

---------------------------------------------------------------------------
(* The parts of an item *)

\* A part of bytes is bytes, wherever it ends.
LEMMA SliceLies ==
  ASSUME NEW S, NEW buf \in Seq(S), NEW from \in Nat, from >= 1, NEW to \in Int
  PROVE  Slice(buf, from, to) \in Seq(S)
<1> DEFINE end == IF to > Len(buf) THEN Len(buf) ELSE to
<1>1. end \in Int /\ end <= Len(buf) /\ Len(buf) \in Nat
  BY ElementOf
<1>2. Slice(buf, from, to) = SubSeq(buf, from, end)
  BY DEF Slice
<1> HIDE DEF end
<1>3. CASE end < from
  <2>1. SubSeq(buf, from, end) = <<>>
    BY <1>1, <1>3
  <2> QED
    BY <1>2, <2>1
<1>4. CASE ~(end < from)
  <2>1. from \in 1..(Len(buf) + 1) /\ end \in (from - 1)..Len(buf)
    BY <1>1, <1>4
  <2> QED
    BY <1>2, <2>1, SubSeqProperties
<1> QED
  BY <1>3, <1>4

\* A part is found between what is before and what is after it.
LEMMA SliceBetween ==
  ASSUME NEW S, NEW a \in Seq(S), NEW b \in Seq(S), NEW c \in Seq(S)
  PROVE  Slice(a \o (b \o c), Len(a) + 1, Len(a) + Len(b)) = b
<1> DEFINE s == a \o (b \o c)
           to == Len(a) + Len(b)
<1>1. Len(s) = Len(a) + Len(b) + Len(c) /\ SubSeq(s, Len(a) + 1, to) = b
  BY JoinedAmid, PartBetween
<1>2. Len(a) \in Nat /\ Len(b) \in Nat /\ Len(c) \in Nat
  BY ElementOf
<1> HIDE DEF s
<1>3. ~(to > Len(s))
  BY <1>1, <1>2
<1>4. Slice(s, Len(a) + 1, to) = b
  BY <1>1, <1>3 DEF Slice
<1> QED
  BY <1>4 DEF s

\* A field is a byte, or a byte and what is in it.
LEMMA FieldLies ==
  ASSUME NEW bytes, IsField(bytes)
  PROVE  /\ Field(bytes) \in Seq(0..255)
         /\ Len(Field(bytes)) = IF bytes = <<>> THEN 1 ELSE 1 + FieldLength
<1>1. bytes \in Seq(0..255) /\ (bytes = <<>> \/ Len(bytes) = FieldLength) /\ FieldLength \in Nat \ {0}
  BY WidthsAssumption DEF IsField
<1>2. CASE bytes = <<>>
  <2>1. Field(bytes) = <<0>> /\ 0 \in 0..255
    BY <1>2 DEF Field
  <2>2. Field(bytes) \in Seq(0..255) /\ Len(Field(bytes)) = 1
    BY <2>1
  <2> QED
    BY <1>2, <2>2, Zenon
<1>3. CASE bytes # <<>>
  <2>1. Field(bytes) = <<1>> \o bytes
    BY <1>3 DEF Field
  <2>2. <<1>> \in Seq(0..255) /\ Len(<<1>>) = 1
    OBVIOUS
  <2>3. <<1>> \o bytes \in Seq(0..255) /\ Len(<<1>> \o bytes) = 1 + Len(bytes)
    BY <1>1, <2>2, Joined
  <2> QED
    BY <1>1, <1>3, <2>1, <2>3
<1> QED
  BY <1>2, <1>3

\* A field is present as it was written, and then it is what was.
LEMMA FieldIsRead ==
  ASSUME NEW a \in Seq(0..255), NEW bytes, IsField(bytes), NEW c \in Seq(0..255),
         NEW at, at = Len(a) + 1
  PROVE  LET buf == a \o (Field(bytes) \o c)
         IN  /\ Present(buf, at) <=> bytes # <<>>
             /\ bytes # <<>> => Slice(buf, at + 1, at + FieldLength) = bytes
<1> DEFINE B == 0..255
           f == Field(bytes)
           buf == a \o (f \o c)
<1>0. a \in Seq(B) /\ c \in Seq(B) /\ f \in Seq(B) /\ Len(a) \in Nat /\ Len(c) \in Nat /\ Len(f) \in Nat
  BY FieldLies, ElementOf
<1>1. bytes \in Seq(B) /\ (bytes = <<>> \/ Len(bytes) = FieldLength) /\ FieldLength \in Nat \ {0}
  BY WidthsAssumption DEF IsField
<1>2. f = (IF bytes = <<>> THEN <<0>> ELSE <<1>> \o bytes) /\ Len(f) >= 1
  <2>1. Len(f) = IF bytes = <<>> THEN 1 ELSE 1 + FieldLength
    BY FieldLies
  <2>2. Len(f) >= 1
    BY <1>1, <2>1
  <2> QED
    BY <2>2 DEF Field
<1>3. f[1] = IF bytes = <<>> THEN 0 ELSE 1
  <2> HIDE DEF f
  <2>1. CASE bytes = <<>>
    <3>1. f = <<0>>
      BY <1>2, <2>1
    <3> QED
      BY <2>1, <3>1
  <2>2. CASE bytes # <<>>
    <3>1. f = <<1>> \o bytes
      BY <1>2, <2>2
    <3>2. f[1] = 1
      BY <1>1, <3>1
    <3> QED
      BY <2>2, <3>2
  <2> QED
    BY <2>1, <2>2
<1> HIDE DEF B, f
<1>4. Len(buf) = Len(a) + Len(f) + Len(c) /\ \A k \in 1..Len(f) : buf[Len(a) + k] = f[k]
  BY <1>0, JoinedAmid
<1>5. at <= Len(buf) /\ buf[at] = f[1]
  <2>1. 1 \in 1..Len(f)
    BY <1>0, <1>2
  <2>2. buf[Len(a) + 1] = f[1]
    BY <1>4, <2>1
  <2> HIDE DEF buf
  <2>3. Len(a) + 1 <= Len(buf)
    BY <1>0, <1>2, <1>4
  <2> QED
    BY <2>2, <2>3
<1>6. Present(buf, at) <=> bytes # <<>>
  <2> HIDE DEF buf
  <2>1. Present(buf, at) <=> f[1] = 1
    BY <1>5 DEF Present
  <2> QED
    BY <1>3, <2>1
<1>7. ASSUME bytes # <<>> PROVE Slice(buf, at + 1, at + FieldLength) = bytes
  <2> DEFINE one == <<1>>
             front == a \o one
  <2>1. one \in Seq(B) /\ Len(one) = 1
    BY DEF B
  <2> HIDE DEF one
  <2>2. front \in Seq(B) /\ Len(front) = Len(a) + 1
    <3>1. a \o one \in Seq(B) /\ Len(a \o one) = Len(a) + Len(one)
      BY <1>0, <2>1, Joined
    <3> QED
      BY <2>1, <3>1
  <2>3. f = one \o bytes
    BY <1>2, <1>7 DEF one
  <2>a. \A x, y, z \in Seq(B) : (x \o y) \o z = x \o (y \o z)
    BY ConcatAssociative
  <2>4. f \o c = one \o (bytes \o c)
    BY <1>0, <1>1, <2>1, <2>3, <2>a
  <2>5. bytes \o c \in Seq(B)
    BY <1>0, <1>1, Joined
  <2>6. a \o (one \o (bytes \o c)) = front \o (bytes \o c)
    BY <1>0, <2>1, <2>5, <2>a
  <2>7. buf = front \o (bytes \o c)
    BY <2>4, <2>6
  <2> HIDE DEF front, buf
  <2>8. at + 1 = Len(front) + 1 /\ at + FieldLength = Len(front) + Len(bytes)
    BY <1>0, <1>1, <1>7, <2>2
  <2>9. Slice(front \o (bytes \o c), at + 1, at + FieldLength) = bytes
    <3>1. front \in Seq(B) /\ bytes \in Seq(B) /\ c \in Seq(B)
      BY <1>0, <1>1, <2>2
    <3>2. Slice(front \o (bytes \o c), Len(front) + 1, Len(front) + Len(bytes)) = bytes
      BY <3>1, SliceBetween
    <3> QED
      BY <2>8, <3>2
  <2> QED
    BY <2>7, <2>9
<1> QED
  BY <1>6, <1>7 DEF f

\* After n bytes, and with more to come, stands this.
PartAt(s, n, b) == \E x, y \in Seq(0..255) : s = x \o (b \o y) /\ Len(x) = n

\* What stands after n bytes is what is cut out from there.
LEMMA PartIsRead ==
  ASSUME NEW s, NEW n, NEW b \in Seq(0..255), PartAt(s, n, b),
         NEW from, NEW to, from = n + 1, to = n + Len(b)
  PROVE  Slice(s, from, to) = b
<1>1. PICK x, y \in Seq(0..255) : s = x \o (b \o y) /\ Len(x) = n
  BY DEF PartAt
<1>2. Slice(x \o (b \o y), Len(x) + 1, Len(x) + Len(b)) = b
  BY SliceBetween
<1> QED
  BY <1>1, <1>2

\* A field that stands after n bytes is read there.
LEMMA FieldPartIsRead ==
  ASSUME NEW s, NEW n, NEW bytes, IsField(bytes), PartAt(s, n, Field(bytes)),
         NEW at, at = n + 1
  PROVE  /\ Present(s, at) <=> bytes # <<>>
         /\ bytes # <<>> => Slice(s, at + 1, at + FieldLength) = bytes
<1>1. PICK x, y \in Seq(0..255) : s = x \o (Field(bytes) \o y) /\ Len(x) = n
  BY DEF PartAt
<1>2. at = Len(x) + 1
  BY <1>1
<1>3. /\ Present(x \o (Field(bytes) \o y), at) <=> bytes # <<>>
      /\ bytes # <<>> => Slice(x \o (Field(bytes) \o y), at + 1, at + FieldLength) = bytes
  BY <1>2, FieldIsRead
<1> QED
  BY <1>1, <1>3

\* What comes after something is after that and what came before it.
LEMMA PartSplits ==
  ASSUME NEW x \in Seq(0..255), NEW b \in Seq(0..255), NEW y \in Seq(0..255)
  PROVE  /\ PartAt((x \o b) \o y, Len(x), b)
         /\ (x \o b) \o y = x \o (b \o y) /\ b \o y \in Seq(0..255)
<1>1. (x \o b) \o y = x \o (b \o y) /\ b \o y \in Seq(0..255)
  BY Concatenates
<1> QED
  BY <1>1 DEF PartAt

\* Nine parts, one after another.
Whole(p) == p[1] \o p[2] \o p[3] \o p[4] \o p[5] \o p[6] \o p[7] \o p[8] \o p[9]
Stands(p) ==
    LET n3 == Len(p[1]) + Len(p[2])
        n4 == n3 + Len(p[3])
        n5 == n4 + Len(p[4])
        n6 == n5 + Len(p[5])
        n7 == n6 + Len(p[6])
        n8 == n7 + Len(p[7])
        n9 == n8 + Len(p[8])
        s == Whole(p)
    IN  /\ s \in Seq(0..255) /\ Len(s) = n9 + Len(p[9])
        /\ PartAt(s, 0, p[1]) /\ PartAt(s, n3, p[3]) /\ PartAt(s, n4, p[4]) /\ PartAt(s, n5, p[5])
        /\ PartAt(s, n6, p[6]) /\ PartAt(s, n7, p[7]) /\ PartAt(s, n8, p[8]) /\ PartAt(s, n9, p[9])

\* Each part stands after as many bytes as the parts before it have.
LEMMA NineParts ==
  ASSUME NEW p, \A k \in 1..9 : p[k] \in Seq(0..255)
  PROVE  Stands(p)
<1> DEFINE a == p[1]
           b == p[2]
           c == p[3]
           d == p[4]
           e == p[5]
           f == p[6]
           g == p[7]
           h == p[8]
           i == p[9]
           B == 0..255
           x2 == a \o b
           x3 == x2 \o c
           x4 == x3 \o d
           x5 == x4 \o e
           x6 == x5 \o f
           x7 == x6 \o g
           x8 == x7 \o h
           s == x8 \o i
           y8 == h \o i
           y7 == g \o y8
           y6 == f \o y7
           y5 == e \o y6
           y4 == d \o y5
           y3 == c \o y4
           y2 == b \o y3
<1>0. \A x, y \in Seq(B) : x \o y \in Seq(B) /\ Len(x \o y) = Len(x) + Len(y)
  BY Joined
<1>1. /\ a \in Seq(B) /\ b \in Seq(B) /\ c \in Seq(B) /\ d \in Seq(B) /\ e \in Seq(B) /\ f \in Seq(B)
      /\ g \in Seq(B) /\ h \in Seq(B) /\ i \in Seq(B)
  OBVIOUS
<1> HIDE DEF B, a, b, c, d, e, f, g, h, i
<1>2. x2 \in Seq(B) /\ Len(x2) = Len(a) + Len(b)
  BY <1>0, <1>1
<1> HIDE DEF x2
<1>3. x3 \in Seq(B) /\ Len(x3) = Len(x2) + Len(c)
  BY <1>0, <1>1, <1>2
<1> HIDE DEF x3
<1>4. x4 \in Seq(B) /\ Len(x4) = Len(x3) + Len(d)
  BY <1>0, <1>1, <1>3
<1> HIDE DEF x4
<1>5. x5 \in Seq(B) /\ Len(x5) = Len(x4) + Len(e)
  BY <1>0, <1>1, <1>4
<1> HIDE DEF x5
<1>6. x6 \in Seq(B) /\ Len(x6) = Len(x5) + Len(f)
  BY <1>0, <1>1, <1>5
<1> HIDE DEF x6
<1>7. x7 \in Seq(B) /\ Len(x7) = Len(x6) + Len(g)
  BY <1>0, <1>1, <1>6
<1> HIDE DEF x7
<1>8. x8 \in Seq(B) /\ Len(x8) = Len(x7) + Len(h)
  BY <1>0, <1>1, <1>7
<1> HIDE DEF x8
<1>9. s \in Seq(B) /\ Len(s) = Len(x8) + Len(i)
  BY <1>0, <1>1, <1>8
<1>10. PartAt(s, Len(x8), i)
  <2>1. <<>> \in Seq(0..255) /\ i \o <<>> = i
    OBVIOUS
  <2> QED
    BY <1>8, <2>1 DEF PartAt, B
<1> HIDE DEF s
<1>11. PartAt(s, Len(x7), h) /\ s = x7 \o y8 /\ y8 \in Seq(B)
  <2>1. s = (x7 \o h) \o i
    BY DEF s, x8
  <2>2. x7 \in Seq(0..255) /\ h \in Seq(0..255) /\ i \in Seq(0..255)
    BY <1>1, <1>7 DEF B
  <2>3. /\ PartAt((x7 \o h) \o i, Len(x7), h)
        /\ (x7 \o h) \o i = x7 \o (h \o i) /\ h \o i \in Seq(0..255)
    BY <2>2, PartSplits
  <2> QED
    BY <2>1, <2>3, Zenon DEF y8, B
<1> HIDE DEF y8
<1>12. PartAt(s, Len(x6), g) /\ s = x6 \o y7 /\ y7 \in Seq(B)
  <2>1. s = (x6 \o g) \o y8
    BY <1>11 DEF x7
  <2>2. x6 \in Seq(0..255) /\ g \in Seq(0..255) /\ y8 \in Seq(0..255)
    BY <1>1, <1>6, <1>11 DEF B
  <2>3. /\ PartAt((x6 \o g) \o y8, Len(x6), g)
        /\ (x6 \o g) \o y8 = x6 \o (g \o y8) /\ g \o y8 \in Seq(0..255)
    BY <2>2, PartSplits
  <2> QED
    BY <2>1, <2>3, Zenon DEF y7, B
<1> HIDE DEF y7
<1>13. PartAt(s, Len(x5), f) /\ s = x5 \o y6 /\ y6 \in Seq(B)
  <2>1. s = (x5 \o f) \o y7
    BY <1>12 DEF x6
  <2>2. x5 \in Seq(0..255) /\ f \in Seq(0..255) /\ y7 \in Seq(0..255)
    BY <1>1, <1>5, <1>12 DEF B
  <2>3. /\ PartAt((x5 \o f) \o y7, Len(x5), f)
        /\ (x5 \o f) \o y7 = x5 \o (f \o y7) /\ f \o y7 \in Seq(0..255)
    BY <2>2, PartSplits
  <2> QED
    BY <2>1, <2>3, Zenon DEF y6, B
<1> HIDE DEF y6
<1>14. PartAt(s, Len(x4), e) /\ s = x4 \o y5 /\ y5 \in Seq(B)
  <2>1. s = (x4 \o e) \o y6
    BY <1>13 DEF x5
  <2>2. x4 \in Seq(0..255) /\ e \in Seq(0..255) /\ y6 \in Seq(0..255)
    BY <1>1, <1>4, <1>13 DEF B
  <2>3. /\ PartAt((x4 \o e) \o y6, Len(x4), e)
        /\ (x4 \o e) \o y6 = x4 \o (e \o y6) /\ e \o y6 \in Seq(0..255)
    BY <2>2, PartSplits
  <2> QED
    BY <2>1, <2>3, Zenon DEF y5, B
<1> HIDE DEF y5
<1>15. PartAt(s, Len(x3), d) /\ s = x3 \o y4 /\ y4 \in Seq(B)
  <2>1. s = (x3 \o d) \o y5
    BY <1>14 DEF x4
  <2>2. x3 \in Seq(0..255) /\ d \in Seq(0..255) /\ y5 \in Seq(0..255)
    BY <1>1, <1>3, <1>14 DEF B
  <2>3. /\ PartAt((x3 \o d) \o y5, Len(x3), d)
        /\ (x3 \o d) \o y5 = x3 \o (d \o y5) /\ d \o y5 \in Seq(0..255)
    BY <2>2, PartSplits
  <2> QED
    BY <2>1, <2>3, Zenon DEF y4, B
<1> HIDE DEF y4
<1>16. PartAt(s, Len(x2), c) /\ s = x2 \o y3 /\ y3 \in Seq(B)
  <2>1. s = (x2 \o c) \o y4
    BY <1>15 DEF x3
  <2>2. x2 \in Seq(0..255) /\ c \in Seq(0..255) /\ y4 \in Seq(0..255)
    BY <1>1, <1>2, <1>15 DEF B
  <2>3. /\ PartAt((x2 \o c) \o y4, Len(x2), c)
        /\ (x2 \o c) \o y4 = x2 \o (c \o y4) /\ c \o y4 \in Seq(0..255)
    BY <2>2, PartSplits
  <2> QED
    BY <2>1, <2>3, Zenon DEF y3, B
<1> HIDE DEF y3
<1>17. s = a \o y2 /\ y2 \in Seq(B)
  <2>1. s = (a \o b) \o y3
    BY <1>16 DEF x2
  <2>2. a \in Seq(0..255) /\ b \in Seq(0..255) /\ y3 \in Seq(0..255)
    BY <1>1, <1>16 DEF B
  <2>3. /\ PartAt((a \o b) \o y3, Len(a), b)
        /\ (a \o b) \o y3 = a \o (b \o y3) /\ b \o y3 \in Seq(0..255)
    BY <2>2, PartSplits
  <2> QED
    BY <2>1, <2>3, Zenon DEF y2, B
<1> HIDE DEF y2
<1>18. PartAt(s, 0, a)
  <2>1. <<>> \in Seq(0..255) /\ Len(<<>>) = 0 /\ <<>> \o (a \o y2) = a \o y2
    <3>1. a \o y2 \in Seq(B)
      BY <1>0, <1>1, <1>17
    <3> QED
      BY <3>1
  <2>2. s = <<>> \o (a \o y2)
    BY <1>17, <2>1
  <2> QED
    BY <1>17, <2>1, <2>2 DEF PartAt, B
<1>19. s = Whole(p)
  BY DEF s, x8, x7, x6, x5, x4, x3, x2, Whole, a, b, c, d, e, f, g, h, i
<1> QED
  BY <1>2, <1>3, <1>4, <1>5, <1>6, <1>7, <1>8, <1>9, <1>10, <1>11, <1>12, <1>13, <1>14, <1>15,
     <1>16, <1>18, <1>19, Zenon DEF B, Stands, a, b, c, d, e, f, g, h, i

\* The starts that parseDataItem() works out.
TargetStart(buf) == 3 + SigConfig[SigType(buf)].sigLength + SigConfig[SigType(buf)].ownerLength
AnchorStart(buf) == TargetStart(buf) + (IF Present(buf, TargetStart(buf)) THEN 1 + FieldLength ELSE 1)
CountStart(buf) == AnchorStart(buf) + (IF Present(buf, AnchorStart(buf)) THEN 1 + FieldLength ELSE 1)
TagsStart(buf) == CountStart(buf) + 2 * LongLength
DeclaredIn(buf) == ByteArrayToLong(Slice(buf, CountStart(buf) + LongLength, TagsStart(buf) - 1))

\* What is parsed, by the starts.
LEMMA ParsedIs ==
  ASSUME NEW buf
  PROVE  ParseDataItem(buf) =
    [type |-> SigType(buf),
     owner |-> Slice(buf, TargetStart(buf) - SigConfig[SigType(buf)].ownerLength, TargetStart(buf) - 1),
     target |-> IF Present(buf, TargetStart(buf))
                THEN Slice(buf, TargetStart(buf) + 1, TargetStart(buf) + FieldLength) ELSE <<>>,
     anchor |-> IF Present(buf, AnchorStart(buf))
                THEN Slice(buf, AnchorStart(buf) + 1, AnchorStart(buf) + FieldLength) ELSE <<>>,
     tagCount |-> ByteArrayToLong(Slice(buf, CountStart(buf), CountStart(buf) + LongLength - 1)),
     declared |-> DeclaredIn(buf),
     rawTags |-> Slice(buf, TagsStart(buf), TagsStart(buf) + DeclaredIn(buf) - 1),
     data |-> Slice(buf, TagsStart(buf) + DeclaredIn(buf), Len(buf))]
BY DEF ParseDataItem, TargetStart, AnchorStart, CountStart, TagsStart, DeclaredIn

\* The bytes of a field, its mark among them.
FieldSize(bytes) == IF bytes = <<>> THEN 1 ELSE 1 + FieldLength

\* What an item was laid out from is what is parsed of it.
Says(o, count, region) ==
    [type |-> o.type, owner |-> o.owner, target |-> TargetBytes(o), anchor |-> AnchorBytes(o),
     tagCount |-> count, declared |-> Len(region), rawTags |-> region, data |-> o.data]

\* createDataItem() and parseDataItem() (src/core/ans104.js), whatever is in the
\* fields, of any length: every part of an item is found where it was laid out.
THEOREM LayoutIsParsed ==
  ASSUME NEW o, WellMade(o), NEW count \in Nat, LongFits(LongLength, count),
         NEW region \in Seq(0..255), LongFits(LongLength, Len(region))
  PROVE  LET buf == Layout(o, count, Len(region), region)
         IN  /\ buf \in Seq(0..255)
             /\ Len(buf) = 2 + SigConfig[o.type].sigLength + SigConfig[o.type].ownerLength
                             + FieldSize(TargetBytes(o)) + FieldSize(AnchorBytes(o))
                             + LongLength + LongLength + Len(region) + Len(o.data)
             /\ Parseable(buf)
             /\ ParseDataItem(buf) = Says(o, count, region)
<1> DEFINE sig == SigConfig[o.type].sigLength
           own == SigConfig[o.type].ownerLength
           T == TargetBytes(o)
           A == AnchorBytes(o)
           a == LongToNByteArray(2, o.type)
           b == [i \in 1..sig |-> 0]
           c == o.owner
           d == Field(T)
           e == Field(A)
           f == LongToNByteArray(LongLength, count)
           g == LongToNByteArray(LongLength, Len(region))
           i == o.data
           LL == LongLength
           s == Layout(o, count, Len(region), region)
<1>1. /\ o.type \in DOMAIN SigConfig /\ o.type \in 1..255 /\ sig \in Nat /\ own \in Nat
      /\ c \in Seq(0..255) /\ Len(c) = own /\ i \in Seq(0..255)
      /\ IsField(T) /\ IsField(A)
  BY DEF WellMade
<1>2. LL \in Nat /\ LL >= 1 /\ FieldLength \in Nat /\ FieldLength >= 1 /\ MinBinarySize \in Nat
      /\ MinBinarySize <= 4 + sig + own + 2 * LL
  BY <1>1, WidthsAssumption
<1>3. Len(region) \in Nat /\ Len(i) \in Nat
  BY <1>1, ElementOf
<1>4. a \in Seq(0..255) /\ Len(a) = 2 /\ ByteArrayToLong(a) = o.type
  <2>0. \A x \in 1..255 : x \in Nat /\ x \in 0..255
    BY SMT
  <2>a. o.type \in Nat /\ o.type \in 0..255
    BY <1>1, <2>0, Zenon
  <2>1. o.type \in Nat /\ o.type \in 0..255 /\ 2 \in Nat /\ 2 \in Nat \ {0}
    BY <2>a
  <2>2. LongFits(2, o.type)
    BY <2>1, ByteFits
  <2> QED
    BY <2>1, <2>2, LongIsRead
<1>5. b \in Seq(0..255) /\ Len(b) = sig
  <2> HIDE DEF sig
  <2> DEFINE B == 0..255
  <2>1. b \in [1..sig -> B]
    OBVIOUS
  <2> HIDE DEF b, B
  <2>2. b \in Seq(B) /\ Len(b) = sig
    BY <1>1, <2>1, FunctionIsSeq
  <2> QED
    BY <2>2 DEF B
<1>6. /\ d \in Seq(0..255) /\ Len(d) = FieldSize(T)
      /\ e \in Seq(0..255) /\ Len(e) = FieldSize(A)
  BY <1>1, FieldLies DEF FieldSize
<1>7. /\ f \in Seq(0..255) /\ Len(f) = LL /\ ByteArrayToLong(f) = count
      /\ g \in Seq(0..255) /\ Len(g) = LL /\ ByteArrayToLong(g) = Len(region)
  BY <1>2, <1>3, LongIsRead
<1>8. s = a \o b \o c \o d \o e \o f \o g \o region \o i
  BY DEF Layout
<1>9. /\ FieldSize(T) \in Nat /\ FieldSize(T) >= 1 /\ FieldSize(A) \in Nat /\ FieldSize(A) >= 1
      /\ FieldSize(T) = (IF T # <<>> THEN 1 + FieldLength ELSE 1)
      /\ FieldSize(A) = (IF A # <<>> THEN 1 + FieldLength ELSE 1)
  BY <1>2 DEF FieldSize
<1> DEFINE n3 == 2 + sig
           n4 == n3 + own
           n5 == n4 + FieldSize(T)
           n6 == n5 + FieldSize(A)
           n7 == n6 + LL
           n8 == n7 + LL
           n9 == n8 + Len(region)
<1> HIDE DEF sig, own, T, A, a, b, c, d, e, f, g, i, LL, s
<1>10. /\ s \in Seq(0..255) /\ Len(s) = n9 + Len(i)
       /\ PartAt(s, 0, a) /\ PartAt(s, n3, c) /\ PartAt(s, n4, d) /\ PartAt(s, n5, e)
       /\ PartAt(s, n6, f) /\ PartAt(s, n7, g) /\ PartAt(s, n8, region) /\ PartAt(s, n9, i)
  <2> DEFINE m3 == Len(a) + Len(b)
             m4 == m3 + Len(c)
             m5 == m4 + Len(d)
             m6 == m5 + Len(e)
             m7 == m6 + Len(f)
             m8 == m7 + Len(g)
             m9 == m8 + Len(region)
             p == <<a, b, c, d, e, f, g, region, i>>
             t == Whole(p)
  <2>0. /\ p[1] = a /\ p[2] = b /\ p[3] = c /\ p[4] = d /\ p[5] = e /\ p[6] = f /\ p[7] = g
        /\ p[8] = region /\ p[9] = i
    OBVIOUS
  <2>1. /\ a \in Seq(0..255) /\ b \in Seq(0..255) /\ c \in Seq(0..255) /\ d \in Seq(0..255)
        /\ e \in Seq(0..255) /\ f \in Seq(0..255) /\ g \in Seq(0..255) /\ i \in Seq(0..255)
        /\ region \in Seq(0..255)
    BY <1>1, <1>4, <1>5, <1>6, <1>7
  <2>2. /\ t \in Seq(0..255) /\ Len(t) = m9 + Len(i)
        /\ PartAt(t, 0, a) /\ PartAt(t, m3, c) /\ PartAt(t, m4, d) /\ PartAt(t, m5, e)
        /\ PartAt(t, m6, f) /\ PartAt(t, m7, g) /\ PartAt(t, m8, region) /\ PartAt(t, m9, i)
    <3>1. \A k \in 1..9 : p[k] \in Seq(0..255)
      <4>1. \A k \in 1..9 : k = 1 \/ k = 2 \/ k = 3 \/ k = 4 \/ k = 5 \/ k = 6 \/ k = 7 \/ k = 8 \/ k = 9
        OBVIOUS
      <4> QED
        BY <2>0, <2>1, <4>1
    <3>2. Stands(p)
      <4> HIDE DEF p
      <4> QED
        BY <3>1, NineParts
    <3> QED
      BY <2>0, <3>2 DEF Stands
  <2>3. /\ Len(a) = 2 /\ Len(b) = sig /\ Len(c) = own /\ Len(d) = FieldSize(T)
        /\ Len(e) = FieldSize(A) /\ Len(f) = LL /\ Len(g) = LL
    BY <1>1, <1>4, <1>5, <1>6, <1>7
  <2>4. /\ m3 = n3 /\ m4 = n4 /\ m5 = n5 /\ m6 = n6 /\ m7 = n7 /\ m8 = n8 /\ m9 = n9
    BY <2>3
  <2> HIDE DEF m3, m4, m5, m6, m7, m8, m9, n3, n4, n5, n6, n7, n8, n9, t
  <2>5. s = t
    BY <1>8, <2>0 DEF t, Whole
  <2> QED
    BY <2>2, <2>4, <2>5
<1>11. /\ n3 \in Nat /\ n4 \in Nat /\ n5 \in Nat /\ n6 \in Nat /\ n7 \in Nat /\ n8 \in Nat /\ n9 \in Nat
  BY <1>1, <1>2, <1>3, <1>9
<1>12. SigType(s) = o.type
  <2> DEFINE from == 1
             to == 2
             zero == 0
  <2>1. from = zero + 1 /\ to = zero + Len(a) /\ PartAt(s, zero, a)
    BY <1>4, <1>10
  <2> HIDE DEF from, to, zero
  <2>4. a \in Seq(0..255)
    BY <1>4
  <2>3. Slice(s, from, to) = a
    BY <2>1, <2>4, PartIsRead
  <2>2. Slice(s, 1, 2) = a
    BY <2>3 DEF from, to
  <2> QED
    BY <1>4, <2>2 DEF SigType
<1>13. Parseable(s)
  <2>1. Len(s) >= MinBinarySize
    BY <1>1, <1>2, <1>3, <1>9, <1>10
  <2> QED
    BY <1>1, <1>12, <2>1 DEF Parseable
<1>14. TargetStart(s) = n4 + 1
  <2>1. TargetStart(s) = 3 + sig + own
    BY <1>12 DEF TargetStart, sig, own
  <2> QED
    BY <1>1, <2>1
<1>15. /\ Present(s, TargetStart(s)) <=> T # <<>>
       /\ T # <<>> => Slice(s, TargetStart(s) + 1, TargetStart(s) + FieldLength) = T
  <2> HIDE DEF n4
  <2>1. PartAt(s, n4, Field(T))
    BY <1>10 DEF d
  <2> QED
    BY <1>1, <1>14, <2>1, FieldPartIsRead
<1>16. AnchorStart(s) = n5 + 1
  <2>1. AnchorStart(s) = TargetStart(s) + FieldSize(T)
    BY <1>9, <1>15 DEF AnchorStart
  <2> HIDE DEF n4
  <2>2. FieldSize(T) \in Nat /\ n5 = n4 + FieldSize(T)
    BY <1>9
  <2> HIDE DEF n5
  <2> QED
    BY <1>11, <1>14, <2>1, <2>2
<1>17. /\ Present(s, AnchorStart(s)) <=> A # <<>>
       /\ A # <<>> => Slice(s, AnchorStart(s) + 1, AnchorStart(s) + FieldLength) = A
  <2> HIDE DEF n5
  <2>1. PartAt(s, n5, Field(A))
    BY <1>10 DEF e
  <2> QED
    BY <1>1, <1>16, <2>1, FieldPartIsRead
<1>18. CountStart(s) = n6 + 1 /\ TagsStart(s) = n8 + 1
  <2>1. CountStart(s) = AnchorStart(s) + FieldSize(A)
    BY <1>9, <1>17 DEF CountStart
  <2> HIDE DEF n5
  <2>2. CountStart(s) = n6 + 1
    BY <1>9, <1>11, <1>16, <2>1
  <2>3. TagsStart(s) = CountStart(s) + 2 * LL
    BY DEF TagsStart, LL
  <2> HIDE DEF n6
  <2> QED
    BY <1>2, <1>11, <2>2, <2>3
<1> HIDE DEF n3, n4, n5, n6
<1>19. ByteArrayToLong(Slice(s, CountStart(s), CountStart(s) + LongLength - 1)) = count
  <2> DEFINE from == CountStart(s)
             to == CountStart(s) + LongLength - 1
  <2>1. from = n6 + 1 /\ to = n6 + Len(f)
    BY <1>2, <1>7, <1>11, <1>18 DEF LL
  <2> HIDE DEF from, to
  <2>2. Slice(s, from, to) = f
    BY <1>7, <1>10, <2>1, PartIsRead
  <2> QED
    BY <1>7, <2>2 DEF from, to
<1>20. DeclaredIn(s) = Len(region)
  <2> DEFINE from == CountStart(s) + LongLength
             to == TagsStart(s) - 1
  <2>1. from = n7 + 1 /\ to = n7 + Len(g)
    BY <1>2, <1>7, <1>11, <1>18 DEF LL
  <2> HIDE DEF from, to
  <2>2. Slice(s, from, to) = g
    BY <1>7, <1>10, <2>1, PartIsRead
  <2> QED
    BY <1>7, <2>2 DEF DeclaredIn, from, to
<1>21. Slice(s, TagsStart(s), TagsStart(s) + DeclaredIn(s) - 1) = region
  <2> DEFINE from == TagsStart(s)
             to == TagsStart(s) + DeclaredIn(s) - 1
  <2>1. from = n8 + 1 /\ to = n8 + Len(region)
    <3> HIDE DEF n8
    <3> QED
      BY <1>3, <1>11, <1>18, <1>20
  <2> HIDE DEF from, to
  <2>2. Slice(s, from, to) = region
    BY <1>10, <2>1, PartIsRead
  <2> QED
    BY <2>2 DEF from, to
<1>22. Slice(s, TagsStart(s) + DeclaredIn(s), Len(s)) = i
  <2> DEFINE from == TagsStart(s) + DeclaredIn(s)
             to == Len(s)
  <2>1. from = n9 + 1 /\ to = n9 + Len(i)
    <3>1. n9 = n8 + Len(region)
      OBVIOUS
    <3> HIDE DEF n8, n9
    <3> QED
      BY <1>3, <1>10, <1>11, <1>18, <1>20, <3>1
  <2> HIDE DEF from, to, n9
  <2>2. Slice(s, from, to) = i
    BY <1>1, <1>10, <2>1, PartIsRead
  <2> QED
    BY <2>2 DEF from, to
<1>23. Slice(s, TargetStart(s) - SigConfig[SigType(s)].ownerLength, TargetStart(s) - 1) = c
  <2> DEFINE from == TargetStart(s) - SigConfig[SigType(s)].ownerLength
             to == TargetStart(s) - 1
  <2>1. SigConfig[SigType(s)].ownerLength = own
    BY <1>12 DEF own
  <2>2. from = n3 + 1 /\ to = n3 + Len(c)
    <3>1. n4 = n3 + own
      BY DEF n4
    <3> QED
      BY <1>1, <1>11, <1>14, <2>1, <3>1
  <2> HIDE DEF from, to
  <2>3. Slice(s, from, to) = c
    BY <1>1, <1>10, <2>2, PartIsRead
  <2> QED
    BY <2>3 DEF from, to
<1>24. ParseDataItem(s) = Says(o, count, region)
  <2>1. (IF Present(s, TargetStart(s)) THEN Slice(s, TargetStart(s) + 1, TargetStart(s) + FieldLength) ELSE <<>>) = T
    BY <1>15
  <2>2. (IF Present(s, AnchorStart(s)) THEN Slice(s, AnchorStart(s) + 1, AnchorStart(s) + FieldLength) ELSE <<>>) = A
    BY <1>17
  <2>3. ParseDataItem(s) =
          [type |-> o.type, owner |-> c, target |-> T, anchor |-> A,
           tagCount |-> count, declared |-> Len(region), rawTags |-> region, data |-> i]
    BY <1>12, <1>19, <1>20, <1>21, <1>22, <1>23, <2>1, <2>2, ParsedIs, Zenon
  <2> QED
    BY <2>3 DEF Says, c, T, A, i
<1>25. Len(s) = 2 + sig + own + FieldSize(T) + FieldSize(A) + LL + LL + Len(region) + Len(i)
  BY <1>10 DEF n3, n4, n5, n6
<1> QED
  BY <1>10, <1>13, <1>24, <1>25, Zenon DEF s, sig, own, T, A, LL, i

---------------------------------------------------------------------------
(* What was created *)

\* The message is made of what an item says, and nothing else.
LEMMA MessageIs ==
  ASSUME NEW p, NEW q, p.type = q.type, p.owner = q.owner, p.target = q.target,
         p.anchor = q.anchor, p.rawTags = q.rawTags, p.data = q.data
  PROVE  SignatureData(p) = SignatureData(q)
<1>1. SignatureDataChunks(p) = SignatureDataChunks(q)
  BY DEF SignatureDataChunks
<1> QED
  BY <1>1 DEF SignatureData

\* The item that is built to be measured differs in bytes and not in lengths.
LEMMA MeasuredLies ==
  ASSUME NEW o \in Options, CanCreate(o), NEW owner \in Seq(0..255),
         Len(owner) = SigConfig[o.type].ownerLength
  PROVE  LET m == [o EXCEPT !.data = <<>>, !.owner = owner]
         IN  /\ WellMade(m) /\ m.type = o.type /\ m.tags = o.tags /\ m.data = <<>>
             /\ TargetBytes(m) = TargetBytes(o) /\ AnchorBytes(m) = AnchorBytes(o)
<1> DEFINE m == [o EXCEPT !.data = <<>>, !.owner = owner]
<1>1. /\ m.type = o.type /\ m.tags = o.tags /\ m.target = o.target /\ m.anchor = o.anchor
      /\ m.owner = owner /\ m.data = <<>>
  BY OptionsAssumption
<1> HIDE DEF m
<1>2. TargetBytes(m) = TargetBytes(o) /\ AnchorBytes(m) = AnchorBytes(o)
  BY <1>1 DEF TargetBytes, AnchorBytes
<1>3. WellMade(o) /\ <<>> \in Seq(0..255)
  BY CreatedLies
<1>4. WellMade(m)
  BY <1>1, <1>2, <1>3 DEF WellMade
<1> QED
  BY <1>1, <1>2, <1>4 DEF m

\* createDataItem(), dataItemByteLength() and getDataItemSize(): every item that
\* is created is parsed as what it was created from, and is as long as it was
\* said to be.
THEOREM CreatedIsParsed ==
  ASSUME NEW o \in Options, CanCreate(o)
  PROVE  LET buf == CreateDataItem(o)
         IN  /\ buf \in Seq(0..255)
             /\ Parseable(buf)
             /\ ParseDataItem(buf) = Says(o, Len(o.tags), SerializeTags(o.tags))
             /\ Len(buf) = DataItemByteLength(o)
             /\ \A revealed \in BOOLEAN : Len(buf) = GetDataItemSize(o, revealed)
<1> DEFINE region == SerializeTags(o.tags)
           count == Len(o.tags)
           buf == CreateDataItem(o)
           sig == SigConfig[o.type].sigLength
           own == SigConfig[o.type].ownerLength
           T == FieldSize(TargetBytes(o))
           A == FieldSize(AnchorBytes(o))
           n == Len(region)
           k == Len(o.data)
           LL == LongLength
<1>1. /\ WellMade(o) /\ o.tags \in Seq(Tag)
      /\ o.target = Absent <=> TargetBytes(o) = <<>>
      /\ o.anchor = Absent <=> AnchorBytes(o) = <<>>
      /\ LongFits(LL, n)
  BY CreatedLies
<1>2. region \in Seq(0..255) /\ n \in Nat /\ count \in Nat /\ count <= n
  BY <1>1, RegionIs
<1>3. LL \in Nat /\ FieldLength \in Nat
  BY WidthsAssumption
<1> HIDE DEF region, count, n, LL
<1>4. LongFits(LL, count)
  BY <1>1, <1>2, <1>3, LessFits
<1>5. /\ buf \in Seq(0..255)
      /\ Len(buf) = 2 + sig + own + T + A + LL + LL + n + k
      /\ Parseable(buf)
      /\ ParseDataItem(buf) = Says(o, count, region)
  <2>1. LongFits(LongLength, count) /\ LongFits(LongLength, Len(region))
    BY <1>1, <1>4 DEF LL, n
  <2>2. LET s == Layout(o, count, Len(region), region)
        IN  /\ s \in Seq(0..255)
            /\ Len(s) = 2 + SigConfig[o.type].sigLength + SigConfig[o.type].ownerLength
                            + FieldSize(TargetBytes(o)) + FieldSize(AnchorBytes(o))
                            + LongLength + LongLength + Len(region) + Len(o.data)
            /\ Parseable(s)
            /\ ParseDataItem(s) = Says(o, count, region)
    BY <1>1, <1>2, <2>1, LayoutIsParsed
  <2>3. buf = Layout(o, count, Len(region), region)
    BY DEF CreateDataItem, region, count
  <2> HIDE DEF buf
  <2> QED
    BY <2>2, <2>3 DEF LL, n
<1>6. sig \in Nat /\ own \in Nat /\ k \in Nat /\ T \in Nat /\ A \in Nat
  <2>1. sig \in Nat /\ own \in Nat /\ o.data \in Seq(0..255)
    BY <1>1 DEF WellMade
  <2>2. T \in Nat /\ A \in Nat
    BY <1>3 DEF FieldSize
  <2> QED
    BY <2>1, <2>2, ElementOf
<1>7. Len(buf) = DataItemByteLength(o)
  <2>1. T = (IF o.target = Absent THEN 1 ELSE 1 + FieldLength)
    BY <1>1 DEF FieldSize
  <2>2. A = (IF o.anchor = Absent THEN 1 ELSE 1 + FieldLength)
    BY <1>1 DEF FieldSize
  <2>3. DataItemByteLength(o) = 2 + sig + own + T + A + 2 * LL + n + k
    BY <2>1, <2>2 DEF DataItemByteLength, LL, n, region
  <2> HIDE DEF sig, own, T, A, k, buf
  <2> QED
    BY <1>2, <1>3, <1>5, <1>6, <2>3
<1>8. ASSUME NEW revealed \in BOOLEAN PROVE Len(buf) = GetDataItemSize(o, revealed)
  <2> DEFINE owner == IF revealed THEN o.owner ELSE [i \in 1..SigConfig[o.type].ownerLength |-> 0]
             m == [o EXCEPT !.data = <<>>, !.owner = owner]
  <2>1. owner \in Seq(0..255) /\ Len(owner) = SigConfig[o.type].ownerLength
    <3>1. CASE revealed
      BY <1>1, <3>1 DEF WellMade
    <3>2. CASE ~revealed
      <4> DEFINE B == 0..255
                 z == [i \in 1..own |-> 0]
      <4>1. z \in [1..own -> B]
        OBVIOUS
      <4>2. owner = z
        BY <3>2
      <4> HIDE DEF z, B, own, owner
      <4>3. z \in Seq(B) /\ Len(z) = own
        BY <1>6, <4>1, FunctionIsSeq
      <4> QED
        BY <4>2, <4>3 DEF B, own
    <3> QED
      BY <3>1, <3>2
  <2> HIDE DEF owner
  <2>2. /\ WellMade(m) /\ m.type = o.type /\ m.tags = o.tags /\ m.data = <<>>
        /\ TargetBytes(m) = TargetBytes(o) /\ AnchorBytes(m) = AnchorBytes(o)
    BY <2>1, MeasuredLies
  <2>3. GetDataItemSize(o, revealed) = Len(CreateDataItem(m)) + k
    BY DEF GetDataItemSize, owner
  <2> HIDE DEF m
  <2>4. Len(CreateDataItem(m)) = 2 + sig + own + T + A + LL + LL + n + 0
    <3>1. LongFits(LongLength, count) /\ LongFits(LongLength, Len(region))
      BY <1>1, <1>4 DEF LL, n
    <3>2. LET s == Layout(m, count, Len(region), region)
          IN  Len(s) = 2 + SigConfig[m.type].sigLength + SigConfig[m.type].ownerLength
                          + FieldSize(TargetBytes(m)) + FieldSize(AnchorBytes(m))
                          + LongLength + LongLength + Len(region) + Len(m.data)
      BY <1>2, <2>2, <3>1, LayoutIsParsed
    <3>3. CreateDataItem(m) = Layout(m, count, Len(region), region)
      BY <2>2 DEF CreateDataItem, region, count
    <3>4. Len(m.data) = 0
      BY <2>2
    <3> QED
      BY <2>2, <3>2, <3>3, <3>4 DEF LL, n
  <2> HIDE DEF sig, own, T, A, k, buf
  <2> QED
    BY <1>2, <1>3, <1>5, <1>6, <2>3, <2>4
<1> QED
  BY <1>5, <1>7, <1>8 DEF region, count

\* The signature of a created item covers what it was created from.
LEMMA CreatedIsSigned ==
  ASSUME NEW o \in Options, CanCreate(o)
  PROVE  SignatureData(ParseDataItem(CreateDataItem(o))) =
           SignatureData([type |-> o.type, owner |-> o.owner,
                          target |-> TargetBytes(o),
                          anchor |-> IF o.anchor.form = "text" THEN Utf8Encode(o.anchor.value)
                                     ELSE IF o.anchor = Absent THEN <<>> ELSE o.anchor.value,
                          rawTags |-> SerializeTags(o.tags), data |-> o.data])
<1> DEFINE p == Says(o, Len(o.tags), SerializeTags(o.tags))
           anchor == IF o.anchor.form = "text" THEN Utf8Encode(o.anchor.value)
                     ELSE IF o.anchor = Absent THEN <<>> ELSE o.anchor.value
           q == [type |-> o.type, owner |-> o.owner, target |-> TargetBytes(o), anchor |-> anchor,
                 rawTags |-> SerializeTags(o.tags), data |-> o.data]
<1>1. ParseDataItem(CreateDataItem(o)) = p
  BY CreatedIsParsed
<1>2. anchor = AnchorBytes(o)
  <2>1. o.anchor \in Forms(Seq(CodeUnits))
    BY OptionsAssumption
  <2>2. CASE o.anchor = Absent
    BY <2>2 DEF Absent, AnchorBytes
  <2>3. CASE o.anchor.form = "bytes" /\ o.anchor # Absent
    BY <2>3 DEF Absent, AnchorBytes
  <2>4. CASE o.anchor.form = "text" /\ o.anchor # Absent
    BY <2>4 DEF Absent, AnchorBytes
  <2> QED
    BY <2>1, <2>2, <2>3, <2>4 DEF Forms
<1> HIDE DEF anchor
<1>3. /\ p.type = q.type /\ p.owner = q.owner /\ p.target = q.target
      /\ p.anchor = q.anchor /\ p.rawTags = q.rawTags /\ p.data = q.data
  BY <1>2 DEF Says
<1> HIDE DEF p, q
<1>4. SignatureData(p) = SignatureData(q)
  BY <1>3, MessageIs
<1> QED
  BY <1>1, <1>4 DEF q, anchor

---------------------------------------------------------------------------
(* Any item *)

\* A string that fits ends in the bytes, past its length, and is no longer than
\* what is left of them.
LEMMA StringIsThere ==
  ASSUME NEW buf \in Seq(0..255), NEW at \in Nat, FitsIn(buf, at)
  PROVE  /\ at >= 1
         /\ TextIn(buf, at) \in Seq(CodeUnits) /\ Len(TextIn(buf, at)) \in Nat
         /\ EndIn(buf, at) \in Nat
         /\ EndIn(buf, at) >= at + 1 + Len(TextIn(buf, at))
         /\ EndIn(buf, at) <= Len(buf) + 1
<1> DEFINE end == VarEnd(buf, at)
           n == ReadVarLong(buf, at)
           bytes == SubSeq(buf, end + 1, end + n)
<1>1. at >= 1 /\ end \in at..Len(buf) /\ n \in Int /\ n >= 0 /\ end + n <= Len(buf) /\ Len(buf) \in Nat
  BY VarLongIsThere, ElementOf DEF FitsIn
<1>2. TextIn(buf, at) = Utf8Decode(bytes) /\ EndIn(buf, at) = end + n + 1
  BY DEF TextIn, EndIn
<1> HIDE DEF end, n
<1>3. end \in Nat /\ n \in Nat /\ end >= at
  BY <1>1
<1>4. bytes \in Seq(0..255) /\ Len(bytes) = n
  <2> DEFINE S == 0..255
             from == end + 1
             to == end + n
  <2>1. buf \in Seq(S) /\ from \in 1..(Len(buf) + 1) /\ to \in (from - 1)..Len(buf)
    BY <1>1, <1>3
  <2>2. to - from + 1 = n
    BY <1>3
  <2> HIDE DEF S, from, to
  <2>3. SubSeq(buf, from, to) \in Seq(S) /\ Len(SubSeq(buf, from, to)) = to - from + 1
    BY <2>1, SubSeqProperties
  <2> QED
    BY <2>2, <2>3 DEF S, from, to
<1>5. Utf8Decode(bytes) \in Seq(CodeUnits) /\ Len(Utf8Decode(bytes)) <= Len(bytes)
  <2> HIDE DEF bytes
  <2> QED
    BY <1>4, DecodedIsShorter
<1> HIDE DEF bytes
<1>6. Len(TextIn(buf, at)) \in Nat /\ Len(TextIn(buf, at)) <= n
  BY <1>2, <1>4, <1>5, ElementOf
<1> QED
  BY <1>1, <1>2, <1>3, <1>5, <1>6

\* Whatever is laid out is bytes.
LEMMA LayoutLies ==
  ASSUME NEW o, WellMade(o), NEW count \in Nat, NEW declared \in Nat, NEW region \in Seq(0..255)
  PROVE  Layout(o, count, declared, region) \in Seq(0..255)
<1> DEFINE B == 0..255
           a == LongToNByteArray(2, o.type)
           b == [i \in 1..SigConfig[o.type].sigLength |-> 0]
           c == o.owner
           d == Field(TargetBytes(o))
           e == Field(AnchorBytes(o))
           f == LongToNByteArray(LongLength, count)
           g == LongToNByteArray(LongLength, declared)
           i == o.data
<1>1. /\ o.type \in 1..255 /\ SigConfig[o.type].sigLength \in Nat
      /\ c \in Seq(B) /\ i \in Seq(B) /\ IsField(TargetBytes(o)) /\ IsField(AnchorBytes(o))
  BY DEF WellMade
<1>2. a \in Seq(B)
  <2>0. \A x \in 1..255 : x \in Nat
    OBVIOUS
  <2>1. o.type \in Nat /\ 2 \in Nat
    BY <1>1, <2>0, Zenon
  <2> QED
    BY <2>1, LongIsRead
<1>3. b \in Seq(B)
  <2> DEFINE n == SigConfig[o.type].sigLength
  <2>1. b \in [1..n -> B]
    OBVIOUS
  <2>2. n \in Nat
    BY <1>1
  <2> HIDE DEF b, B, n
  <2> QED
    BY <2>1, <2>2, FunctionIsSeq
<1>4. d \in Seq(B) /\ e \in Seq(B)
  BY <1>1, FieldLies
<1>5. f \in Seq(B) /\ g \in Seq(B)
  BY WidthsAssumption, LongIsRead
<1>6. region \in Seq(B)
  OBVIOUS
<1>7. Layout(o, count, declared, region) = a \o b \o c \o d \o e \o f \o g \o region \o i
  BY DEF Layout
<1> HIDE DEF B, a, b, c, d, e, f, g, i
<1>8. \A x, y \in Seq(B) : x \o y \in Seq(B)
  BY Joined
<1>9. a \o b \o c \o d \in Seq(B)
  BY <1>1, <1>2, <1>3, <1>4, <1>8
<1>10. a \o b \o c \o d \o e \o f \in Seq(B)
  <2> DEFINE x == a \o b \o c \o d
  <2> HIDE DEF x
  <2>1. x \in Seq(B)
    BY <1>9 DEF x
  <2>2. x \o e \o f \in Seq(B)
    BY <1>4, <1>5, <1>8, <2>1
  <2> QED
    BY <2>2 DEF x
<1>11. a \o b \o c \o d \o e \o f \o g \o region \o i \in Seq(B)
  <2> DEFINE x == a \o b \o c \o d \o e \o f
  <2> HIDE DEF x
  <2>1. x \in Seq(B)
    BY <1>10 DEF x
  <2>2. x \o g \o region \o i \in Seq(B)
    BY <1>1, <1>5, <1>6, <1>8, <2>1
  <2> QED
    BY <2>2 DEF x
<1> QED
  BY <1>7, <1>11 DEF B

\* A number of bytes is a number.
LEMMA SliceIsNumber ==
  ASSUME NEW buf \in Seq(0..255), NEW from \in Nat, from >= 1, NEW to \in Int
  PROVE  ByteArrayToLong(Slice(buf, from, to)) \in Nat
<1> DEFINE s == Slice(buf, from, to)
<1>1. s \in Seq(0..255)
  BY SliceLies
<1> HIDE DEF s
<1>2. s \in Seq(Nat)
  <2> DEFINE B == 0..255
  <2>1. s \in Seq(B) /\ B \subseteq Nat
    BY <1>1
  <2> HIDE DEF B
  <2> QED
    BY <2>1, SeqOfMore
<1>3. Base \in Nat
  BY DEF Base
<1> QED
  BY <1>2, <1>3, NumberUnfolds DEF ByteArrayToLong, s

\* What is read of an item's header.
LEMMA HeaderLies ==
  ASSUME NEW buf \in Seq(0..255), Parseable(buf)
  PROVE  /\ ParseDataItem(buf).tagCount \in Nat
         /\ ParseDataItem(buf).rawTags \in Seq(0..255)
<1> DEFINE sig == SigConfig[SigType(buf)].sigLength
           own == SigConfig[SigType(buf)].ownerLength
<1>1. sig \in Nat /\ own \in Nat
  BY SigConfigAssumption DEF Parseable
<1>2. FieldLength \in Nat /\ LongLength \in Nat
  BY WidthsAssumption
<1>3. TargetStart(buf) = 3 + sig + own
  BY DEF TargetStart
<1> HIDE DEF sig, own
<1>4. TargetStart(buf) \in Nat /\ TargetStart(buf) >= 1
  BY <1>1, <1>3
<1>5. AnchorStart(buf) \in Nat /\ AnchorStart(buf) >= 1
  BY <1>2, <1>4 DEF AnchorStart
<1>6. CountStart(buf) \in Nat /\ CountStart(buf) >= 1
  BY <1>2, <1>5 DEF CountStart
<1>7. TagsStart(buf) \in Nat /\ TagsStart(buf) >= 1
  BY <1>2, <1>6 DEF TagsStart
<1>8. DeclaredIn(buf) \in Nat
  <2> DEFINE from == CountStart(buf) + LongLength
             to == TagsStart(buf) - 1
  <2>1. from \in Nat /\ from >= 1 /\ to \in Int
    BY <1>2, <1>6, <1>7
  <2> HIDE DEF from, to
  <2>2. ByteArrayToLong(Slice(buf, from, to)) \in Nat
    BY <2>1, SliceIsNumber
  <2> QED
    BY <2>2 DEF DeclaredIn, from, to
<1>9. ByteArrayToLong(Slice(buf, CountStart(buf), CountStart(buf) + LongLength - 1)) \in Nat
  <2> DEFINE from == CountStart(buf)
             to == CountStart(buf) + LongLength - 1
  <2>1. from \in Nat /\ from >= 1 /\ to \in Int
    BY <1>2, <1>6
  <2> HIDE DEF from, to
  <2>2. ByteArrayToLong(Slice(buf, from, to)) \in Nat
    BY <2>1, SliceIsNumber
  <2> QED
    BY <2>2 DEF from, to
<1>10. Slice(buf, TagsStart(buf), TagsStart(buf) + DeclaredIn(buf) - 1) \in Seq(0..255)
  <2> DEFINE from == TagsStart(buf)
             to == TagsStart(buf) + DeclaredIn(buf) - 1
  <2>1. from \in Nat /\ from >= 1 /\ to \in Int
    BY <1>7, <1>8
  <2> HIDE DEF from, to
  <2>2. Slice(buf, from, to) \in Seq(0..255)
    BY <2>1, SliceLies
  <2> QED
    BY <2>2 DEF from, to
<1> QED
  BY <1>9, <1>10, ParsedIs

---------------------------------------------------------------------------
(* What tags come to *)

\* SizeSaid's recursive function.
SizeAt(f, i, list) == IF i = 0 THEN 0 ELSE f[i - 1] + Len(list[i].name) + Len(list[i].value) + 2
Sizes(f, list) == f = [i \in 0..Len(list) |-> SizeAt(f, i, list)]

\* SizeSaid is the last of sums that each add one tag.
LEMMA SizesUnfold ==
  ASSUME NEW list \in Seq(Tag)
  PROVE  \E f : /\ SizeSaid(list) = f[Len(list)] /\ f[0] = 0
                /\ \A i \in 0..Len(list) : f[i] \in Nat
                /\ \A i \in 1..Len(list) :
                     f[i] = f[i - 1] + Len(list[i].name) + Len(list[i].value) + 2
<1> DEFINE n == Len(list)
           S == Nat
           step(i, said) == said + Len(list[i].name) + Len(list[i].value) + 2
           g == [i \in 1..n |-> [said \in S |-> step(i, said)]]
<1>1. n \in Nat /\ \A i \in 1..n : Len(list[i].name) \in Nat /\ Len(list[i].value) \in Nat
  <2>1. n \in Nat /\ \A i \in 1..n : list[i] \in Tag
    BY ElementOf
  <2>2. \A t \in Tag : Len(t.name) \in Nat /\ Len(t.value) \in Nat
    BY TagLies, ElementOf
  <2> QED
    BY <2>1, <2>2
<1>2. \A i \in 1..n : \A said \in S : step(i, said) \in S
  <2> TAKE i \in 1..n
  <2> TAKE said \in S
  <2> DEFINE a == Len(list[i].name)
             b == Len(list[i].value)
  <2>1. a \in Nat /\ b \in Nat
    BY <1>1
  <2> HIDE DEF a, b
  <2>2. said + a + b + 2 \in Nat
    BY <2>1
  <2> QED
    BY <2>2 DEF a, b
<1>3. g \in [1..n -> [S -> S]] /\ \A i \in 1..n : \A said \in S : g[i][said] = step(i, said)
  <2> HIDE DEF step, S
  <2> QED
    BY <1>2
<1>4. 0 \in S
  OBVIOUS
<1> HIDE DEF g, S
<1>5. PICK F \in [0..n -> S] : Steps(F, 0, n, g)
  BY <1>1, <1>3, <1>4, TableExists
<1>6. Sizes(F, list)
  <2>1. \A i \in 1..n : i - 1 \in 0..n
    BY <1>1
  <2>2. \A i \in 1..n : F[i] = step(i, F[i - 1])
    <3> HIDE DEF step
    <3> QED
      BY <1>3, <1>5, <2>1 DEF Steps
  <2>3. \A i \in 0..n : F[i] = SizeAt(F, i, list)
    <3>1. \A i \in 0..n : i = 0 \/ (i # 0 /\ i \in 1..n)
      BY <1>1
    <3>2. F[0] = 0
      BY <1>5 DEF Steps
    <3> QED
      BY <2>2, <3>1, <3>2 DEF SizeAt
  <2>4. F = [i \in 0..n |-> F[i]]
    OBVIOUS
  <2>5. F = [i \in 0..n |-> SizeAt(F, i, list)]
    BY <2>3, <2>4
  <2> QED
    BY <2>5 DEF Sizes
<1> DEFINE r == CHOOSE r : Sizes(r, list)
<1>7. Sizes(r, list)
  BY <1>6
<1>8. SizeSaid(list) = r[n]
  BY DEF SizeSaid, Sizes, SizeAt
<1> HIDE DEF r
<1>9. \A i \in 0..n : r[i] = SizeAt(r, i, list)
  BY <1>7 DEF Sizes
<1>10. r[0] = 0
  <2>1. 0 \in 0..n
    BY <1>1
  <2> QED
    BY <1>9, <2>1 DEF SizeAt
<1>11. \A i \in 1..n : r[i] = step(i, r[i - 1])
  <2>1. \A i \in 1..n : i \in 0..n /\ i # 0
    BY <1>1
  <2> QED
    BY <1>9, <2>1 DEF SizeAt
<1>12. \A i \in 0..n : r[i] \in S
  <2>1. \A i \in 1..n : r[i - 1] \in S => r[i] \in S
    <3> HIDE DEF step
    <3> QED
      BY <1>2, <1>11
  <2>2. r[0] \in S
    BY <1>4, <1>10
  <2> HIDE DEF n, step
  <2> QED
    BY <1>1, <2>1, <2>2, Stays
<1> QED
  BY <1>8, <1>10, <1>11, <1>12 DEF S

\* The same steps come to the same.
LEMMA SizesAgree ==
  ASSUME NEW n \in Nat, NEW f, NEW h, f[0] = h[0],
         \A i \in 1..n : f[i - 1] = h[i - 1] => f[i] = h[i]
  PROVE  f[n] = h[n]
<1> DEFINE K == {k \in Nat : k <= n => f[k] = h[k]}
<1>1. ASSUME NEW k \in Nat, \A m \in 0..(k - 1) : m \in K PROVE k \in K
  <2>1. CASE k = 0
    BY <2>1
  <2>2. CASE k # 0 /\ k <= n
    <3>1. k - 1 \in 0..(k - 1) /\ k - 1 <= n /\ k \in 1..n
      BY <2>2
    <3>2. f[k - 1] = h[k - 1]
      BY <1>1, <3>1
    <3> QED
      BY <3>1, <3>2
  <2> QED
    BY <2>1, <2>2
<1>2. Nat \subseteq K
  <2> HIDE DEF K
  <2> QED
    BY <1>1, Induction
<1> QED
  BY <1>2

\* A tag more is what it says more.
LEMMA SizeGrows ==
  /\ SizeSaid(<<>>) = 0
  /\ \A list \in Seq(Tag) : SizeSaid(list) \in Nat
  /\ \A list \in Seq(Tag), t \in Tag :
       SizeSaid(Append(list, t)) = SizeSaid(list) + Len(t.name) + Len(t.value) + 2
<1>1. SizeSaid(<<>>) = 0
  <2>1. <<>> \in Seq(Tag) /\ Len(<<>>) = 0
    OBVIOUS
  <2> QED
    BY <2>1, SizesUnfold
<1>2. ASSUME NEW list \in Seq(Tag) PROVE SizeSaid(list) \in Nat
  <2>1. Len(list) \in 0..Len(list)
    BY ElementOf
  <2> QED
    BY <2>1, SizesUnfold
<1>3. ASSUME NEW list \in Seq(Tag), NEW t \in Tag
      PROVE  SizeSaid(Append(list, t)) = SizeSaid(list) + Len(t.name) + Len(t.value) + 2
  <2> DEFINE n == Len(list)
             more == Append(list, t)
  <2>1. /\ more \in Seq(Tag) /\ Len(more) = n + 1 /\ n \in Nat
        /\ more[n + 1] = t /\ \A i \in 1..n : more[i] = list[i]
    OBVIOUS
  <2> HIDE DEF more
  <2>2. PICK f : /\ SizeSaid(list) = f[n] /\ f[0] = 0
                 /\ \A i \in 1..n : f[i] = f[i - 1] + Len(list[i].name) + Len(list[i].value) + 2
    BY SizesUnfold
  <2>3. PICK h : /\ SizeSaid(more) = h[n + 1] /\ h[0] = 0
                 /\ \A i \in 1..(n + 1) : h[i] = h[i - 1] + Len(more[i].name) + Len(more[i].value) + 2
    BY <2>1, SizesUnfold
  <2>4. f[n] = h[n]
    <3>1. f[0] = h[0]
      BY <2>2, <2>3
    <3>2. \A i \in 1..n : f[i - 1] = h[i - 1] => f[i] = h[i]
      <4>1. \A i \in 1..n : i \in 1..(n + 1)
        BY <2>1
      <4> QED
        BY <2>1, <2>2, <2>3, <4>1
    <3> HIDE DEF n
    <3> QED
      BY <2>1, <3>1, <3>2, SizesAgree
  <2>5. h[n + 1] = h[n] + Len(t.name) + Len(t.value) + 2
    <3>1. n + 1 \in 1..(n + 1) /\ (n + 1) - 1 = n
      BY <2>1
    <3> QED
      BY <2>1, <2>3, <3>1
  <2> QED
    BY <2>2, <2>3, <2>4, <2>5 DEF more
<1> QED
  BY <1>1, <1>2, <1>3

---------------------------------------------------------------------------
(* Type correctness *)

Inputs == opts \in Created /\ Input

TypeOK ==
    /\ Inputs
    /\ it \in [tagCount : Nat, rawTags : Seq(0..255)]
    /\ pc \in {"header", "count", "tags", "done"}
    /\ pos \in Nat /\ pos >= 1
    /\ left \in Nat /\ (pc = "tags" => left >= 1)
    /\ tags \in Seq(Tag)
    /\ verdict \in {"pending", "accepted", "refused"}

\* Every item that is checked is bytes.
LEMMA ItemLies ==
  ASSUME Inputs
  PROVE  item \in Seq(0..255)
<1>1. opts \in Options /\ CanCreate(opts)
  BY DEF Inputs, Created
<1>2. WellMade(opts) /\ opts.tags \in Seq(Tag)
  BY <1>1, CreatedLies
<1>3. CreateDataItem(opts) \in Seq(0..255)
  BY <1>1, CreatedIsParsed
<1>4. CASE item = CreateDataItem(opts)
  BY <1>3, <1>4
<1>5. CASE \E count \in 0..3 :
              LET tagBytes == SerializeTags(opts.tags)
              IN  item = Layout(opts, count, Len(tagBytes), tagBytes)
  <2> DEFINE tagBytes == SerializeTags(opts.tags)
  <2>1. PICK count \in 0..3 : item = Layout(opts, count, Len(tagBytes), tagBytes)
    BY <1>5
  <2>2. tagBytes \in Seq(0..255) /\ Len(tagBytes) \in Nat
    BY <1>2, RegionIs
  <2>3. count \in Nat
    OBVIOUS
  <2> HIDE DEF tagBytes
  <2> QED
    BY <1>2, <2>1, <2>2, <2>3, LayoutLies
<1>6. CASE \E n \in 0..Len(CreateDataItem(opts)) : item = SubSeq(CreateDataItem(opts), 1, n)
  <2> DEFINE s == CreateDataItem(opts)
  <2>1. PICK n \in 0..Len(s) : item = SubSeq(s, 1, n)
    BY <1>6
  <2>2. s \in Seq(0..255) /\ Len(s) \in Nat
    BY <1>3, ElementOf
  <2> HIDE DEF s
  <2>3. n \in Nat /\ n <= Len(s)
    BY <2>2
  <2>4. SubSeq(s, 1, n) \in Seq(0..255)
    BY <2>2, <2>3, FirstPart
  <2> QED
    BY <2>1, <2>4
<1>7. CASE \E region \in Regions, count \in 0..2, more \in {0, 1, MaxTagBytes} :
              item = Layout(opts, count, Len(region) + more, region)
  <2>1. PICK region \in Regions, count \in 0..2, more \in {0, 1, MaxTagBytes} :
             item = Layout(opts, count, Len(region) + more, region)
    BY <1>7
  <2>2. region \in Seq(0..255)
    BY RegionsAssumption DEF Base
  <2>3. count \in Nat /\ Len(region) + more \in Nat
    <3>1. Len(region) \in Nat /\ MaxTagBytes \in Nat
      BY <2>2, ElementOf, WidthsAssumption
    <3> QED
      BY <3>1
  <2> QED
    BY <1>2, <2>1, <2>2, <2>3, LayoutLies
<1> QED
  BY <1>4, <1>5, <1>6, <1>7 DEF Inputs, Input

\* What a turn reads is in the region, and the cursor comes out past it.
CountRead ==
    \/ pc' = "done" /\ verdict' = "refused" /\ UNCHANGED <<pos, left, tags>>
    \/ /\ pc' = "tags" /\ UNCHANGED <<tags, verdict>>
       /\ left' \in Nat /\ left' >= 1
       /\ pos' \in Nat /\ pos' >= pos + 1 /\ pos' <= Len(it.rawTags) + 1

\* A turn that reads a count, of either sign.
LEMMA CountIsThere ==
  ASSUME TypeOK, ReadCount
  PROVE  CountRead /\ UNCHANGED <<inputVars, it>>
<1> DEFINE buf == it.rawTags
           n == ReadVarLong(buf, pos)
           next == VarEnd(buf, pos) + 1
<1>1. /\ HasVarLong(buf, pos) /\ UNCHANGED it
      /\ \/ n > 0 /\ Block(n, next)
         \/ /\ n < 0
            /\ IF HasVarLong(buf, next)
               THEN Block(0 - n, VarEnd(buf, next) + 1)
               ELSE Finish("refused")
  BY DEF ReadCount
<1>2. buf \in Seq(0..255) /\ pos \in Nat /\ Len(buf) \in Nat
  BY ElementOf DEF TypeOK
<1> HIDE DEF buf
<1>3. pos >= 1 /\ VarEnd(buf, pos) \in pos..Len(buf) /\ n \in Int
  BY <1>1, <1>2, VarLongIsThere
<1> HIDE DEF n
<1>4. next \in Nat /\ next >= pos + 1 /\ next <= Len(buf) + 1
  BY <1>2, <1>3
<1> HIDE DEF next
<1>5. CASE n > 0 /\ Block(n, next)
  BY <1>1, <1>3, <1>4, <1>5 DEF Block, CountRead, buf
<1>6. CASE n < 0 /\ HasVarLong(buf, next) /\ Block(0 - n, VarEnd(buf, next) + 1)
  <2>1. VarEnd(buf, next) \in next..Len(buf)
    BY <1>2, <1>4, <1>6, VarLongIsThere
  <2> DEFINE after == VarEnd(buf, next) + 1
  <2>2. after \in Nat /\ after >= pos + 1 /\ after <= Len(buf) + 1
    BY <1>2, <1>4, <2>1
  <2> HIDE DEF after
  <2>3. 0 - n \in Nat /\ 0 - n >= 1
    BY <1>3, <1>6
  <2>4. Block(0 - n, after)
    BY <1>6 DEF after
  <2> QED
    BY <1>1, <2>2, <2>3, <2>4 DEF Block, CountRead, buf
<1>7. CASE Finish("refused")
  BY <1>1, <1>7 DEF Finish, CountRead
<1> QED
  BY <1>1, <1>5, <1>6, <1>7

\* The tag that is read next.
NextTag ==
    [name |-> TextIn(it.rawTags, pos), value |-> TextIn(it.rawTags, EndIn(it.rawTags, pos))]

\* A turn that reads a tag.
LEMMA TagIsThere ==
  ASSUME TypeOK, ReadTag
  PROVE  /\ NextTag \in Tag /\ tags' = Append(tags, NextTag)
         /\ Len(NextTag.name) \in Nat /\ Len(NextTag.value) \in Nat
         /\ pos' \in Nat /\ pos' >= pos + Len(NextTag.name) + Len(NextTag.value) + 2
         /\ pos' >= pos + 2 /\ pos' <= Len(it.rawTags) + 1
<1> DEFINE buf == it.rawTags
           mid == EndIn(buf, pos)
<1>1. buf \in Seq(0..255) /\ pos \in Nat /\ Len(buf) \in Nat
  BY ElementOf DEF TypeOK
<1>2. /\ FitsIn(buf, pos) /\ FitsIn(buf, mid)
      /\ tags' = Append(tags, NextTag) /\ pos' = EndIn(buf, mid)
  BY DEF ReadTag, TagFits, StringFits, StringEnd, StringAt, FitsIn, EndIn, TextIn, NextTag
<1> HIDE DEF buf, mid
<1>3. /\ TextIn(buf, pos) \in Seq(CodeUnits) /\ Len(TextIn(buf, pos)) \in Nat
      /\ mid \in Nat /\ mid >= pos + 1 + Len(TextIn(buf, pos))
  BY <1>1, <1>2, StringIsThere DEF mid
<1>4. /\ TextIn(buf, mid) \in Seq(CodeUnits) /\ Len(TextIn(buf, mid)) \in Nat
      /\ pos' \in Nat /\ pos' >= mid + 1 + Len(TextIn(buf, mid)) /\ pos' <= Len(buf) + 1
  BY <1>1, <1>2, <1>3, StringIsThere
<1>5. NextTag = [name |-> TextIn(buf, pos), value |-> TextIn(buf, mid)]
  BY DEF NextTag, buf, mid
<1>6. NextTag \in Tag
  BY <1>3, <1>4, <1>5 DEF Tag
<1>7. NextTag.name = TextIn(buf, pos) /\ NextTag.value = TextIn(buf, mid)
  BY <1>5
<1>8. pos' >= pos + Len(TextIn(buf, pos)) + Len(TextIn(buf, mid)) + 2 /\ pos' >= pos + 2
  BY <1>1, <1>3, <1>4
<1> QED
  BY <1>2, <1>3, <1>4, <1>6, <1>7, <1>8 DEF buf

\* What an item says of its tags.
LEMMA HeaderIsThere ==
  ASSUME Inputs, ParseHeader
  PROVE  /\ it' = [tagCount |-> ParseDataItem(item).tagCount, rawTags |-> ParseDataItem(item).rawTags]
         /\ it' \in [tagCount : Nat, rawTags : Seq(0..255)]
         /\ \/ it'.tagCount = 0 /\ Finish("accepted")
            \/ it'.tagCount # 0 /\ pc' = "count" /\ UNCHANGED <<inputVars, pos, left, tags, verdict>>
<1> DEFINE parsed == ParseDataItem(item)
<1>1. /\ it' = [tagCount |-> parsed.tagCount, rawTags |-> parsed.rawTags]
      /\ IF parsed.tagCount = 0 THEN Finish("accepted")
         ELSE pc' = "count" /\ UNCHANGED <<inputVars, pos, left, tags, verdict>>
  BY DEF ParseHeader
<1>2. parsed.tagCount \in Nat /\ parsed.rawTags \in Seq(0..255)
  BY ItemLies, HeaderLies DEF ParseHeader
<1> HIDE DEF parsed
<1>3. it'.tagCount = parsed.tagCount
  BY <1>1
<1> QED
  BY <1>1, <1>2, <1>3 DEF parsed

\* The inputs are never altered, so they stay what they were.
LEMMA InputsStay ==
  ASSUME Inputs, UNCHANGED inputVars
  PROVE  Inputs'
BY DEF Inputs, Input, inputVars

\* The check begins well typed ...
LEMMA TypeInit == Init => TypeOK
<1> SUFFICES ASSUME Init PROVE TypeOK
  OBVIOUS
<1>1. <<>> \in Seq(0..255) /\ <<>> \in Seq(Tag)
  OBVIOUS
<1> QED
  BY <1>1 DEF Init, TypeOK, Inputs

\* ... and every turn keeps it so.
LEMMA TypeStep == TypeOK /\ [Next]_vars => TypeOK'
<1> SUFFICES ASSUME TypeOK, [Next]_vars PROVE TypeOK'
  OBVIOUS
<1>0. Inputs
  BY DEF TypeOK
<1>1. CASE RefuseHeader
  BY <1>0, <1>1, InputsStay DEF TypeOK, RefuseHeader, Finish
<1>2. CASE ParseHeader
  <2>1. it' \in [tagCount : Nat, rawTags : Seq(0..255)]
    BY <1>0, <1>2, HeaderIsThere
  <2>2. UNCHANGED <<inputVars, pos, left, tags>> /\ pc' \in {"count", "done"}
        /\ verdict' \in {"accepted", verdict}
    BY <1>0, <1>2, HeaderIsThere DEF Finish
  <2>3. Inputs'
    BY <1>0, <2>2, InputsStay
  <2> QED
    BY <2>1, <2>2, <2>3 DEF TypeOK
<1>3. CASE EndOfTags
  BY <1>0, <1>3, InputsStay DEF TypeOK, EndOfTags, Finish
<1>4. CASE ReadCount
  <2>1. CountRead /\ UNCHANGED <<inputVars, it>>
    BY <1>4, CountIsThere
  <2>2. Inputs'
    BY <1>0, <2>1, InputsStay
  <2>3. CASE pc' = "done" /\ verdict' = "refused" /\ UNCHANGED <<pos, left, tags>>
    BY <2>1, <2>2, <2>3 DEF TypeOK
  <2>4. CASE /\ pc' = "tags" /\ UNCHANGED <<tags, verdict>>
             /\ left' \in Nat /\ left' >= 1
             /\ pos' \in Nat /\ pos' >= pos + 1 /\ pos' <= Len(it.rawTags) + 1
    BY <2>1, <2>2, <2>4 DEF TypeOK
  <2> QED
    BY <2>1, <2>3, <2>4 DEF CountRead
<1>5. CASE CountRunsOff
  BY <1>0, <1>5, InputsStay DEF TypeOK, CountRunsOff, Finish
<1>6. CASE ReadTag
  <2>1. NextTag \in Tag /\ tags' = Append(tags, NextTag) /\ pos' \in Nat /\ pos' >= pos + 2
    BY <1>6, TagIsThere
  <2>2. /\ UNCHANGED <<inputVars, it, verdict>> /\ pc = "tags" /\ left' = left - 1
        /\ pc' = IF left = 1 THEN "count" ELSE "tags"
    BY <1>6 DEF ReadTag
  <2>3. Inputs'
    BY <1>0, <2>2, InputsStay
  <2>4. tags' \in Seq(Tag)
    BY <2>1 DEF TypeOK
  <2>5. left' \in Nat /\ (pc' = "tags" => left' >= 1)
    BY <2>2 DEF TypeOK
  <2>6. pos' \in Nat /\ pos' >= 1
    BY <2>1 DEF TypeOK
  <2> QED
    BY <2>2, <2>3, <2>4, <2>5, <2>6 DEF TypeOK
<1>7. CASE TagRunsOff
  BY <1>0, <1>7, InputsStay DEF TypeOK, TagRunsOff, Finish
<1>8. CASE Checked
  BY <1>0, <1>8, InputsStay DEF TypeOK, Checked, vars
<1>9. CASE UNCHANGED vars
  BY <1>0, <1>9, InputsStay DEF TypeOK, vars
<1> QED
  BY <1>1, <1>2, <1>3, <1>4, <1>5, <1>6, <1>7, <1>8, <1>9 DEF Next

\* parseAndCheckStructure() keeps its cursor a position from 1 on, its count of
\* tags left positive while it reads one, and a list of names and values.
THEOREM TypeCorrect == Spec => []TypeOK
<1>1. Init => TypeOK
  BY TypeInit
<1>2. TypeOK /\ [Next]_vars => TypeOK'
  BY TypeStep
<1> QED
  BY <1>1, <1>2, PTL DEF Spec

\* Every turn of the loops that read tags moves the cursor forward, within the
\* region, or is the last ("A malformed item hung verifyDataItem rather than
\* failing", src/core/ans104.js).
THEOREM CheckGetsOn == Spec => CheckAdvances
<1>1. TypeOK /\ [Next]_vars => [TurnAdvances]_vars
  <2> SUFFICES ASSUME TypeOK, Next PROVE TurnAdvances
    OBVIOUS
  <2>1. CASE pc \notin {"count", "tags"} \/ pc' = "done"
    BY <2>1 DEF TurnAdvances
  <2>2. CASE pc \in {"count", "tags"} /\ pc' # "done" /\ ReadCount
    <3>1. pos' \in Nat /\ pos' >= pos + 1 /\ pos' <= Len(it.rawTags) + 1
      BY <2>2, CountIsThere DEF CountRead
    <3>2. pos \in Nat /\ Len(it.rawTags) \in Nat
      BY ElementOf DEF TypeOK
    <3> QED
      BY <3>1, <3>2 DEF TurnAdvances
  <2>3. CASE pc \in {"count", "tags"} /\ pc' # "done" /\ ReadTag
    <3>1. pos' \in Nat /\ pos' >= pos + 2 /\ pos' <= Len(it.rawTags) + 1
      BY <2>3, TagIsThere
    <3>2. pos \in Nat /\ Len(it.rawTags) \in Nat
      BY ElementOf DEF TypeOK
    <3> QED
      BY <3>1, <3>2 DEF TurnAdvances
  <2>4. RefuseHeader \/ ParseHeader \/ Checked => pc \notin {"count", "tags"}
    BY DEF RefuseHeader, ParseHeader, Checked
  <2>5. EndOfTags \/ CountRunsOff \/ TagRunsOff => pc' = "done"
    BY DEF EndOfTags, CountRunsOff, TagRunsOff, Finish
  <2> QED
    BY <2>1, <2>2, <2>3, <2>4, <2>5 DEF Next
<1> QED
  BY <1>1, TypeCorrect, PTL DEF Spec, CheckAdvances

---------------------------------------------------------------------------
(* What is accepted *)

\* How the turns follow one another.
Progress ==
    /\ pc = "header" => tags = <<>> /\ pos = 1
    /\ pc # "done" => verdict = "pending"
    /\ pc \in {"count", "tags"} => it.tagCount # 0
    /\ verdict = "accepted" /\ it.tagCount = 0 => tags = <<>>

\* The cursor has passed all that the tags read say, and the count before them.
Sized ==
    /\ pc \in {"count", "tags"} => (pc = "count" /\ tags = <<>>) \/ SizeSaid(tags) + 2 <= pos
    /\ verdict = "accepted" /\ it.tagCount > 0 =>
           Len(tags) = it.tagCount /\ SizeSaid(tags) + 2 <= Len(it.rawTags)

\* Every turn keeps the order of the turns.
LEMMA ProgressStep == TypeOK /\ Progress /\ [Next]_vars => Progress'
<1> SUFFICES ASSUME TypeOK, Progress, [Next]_vars PROVE Progress'
  OBVIOUS
<1>1. CASE RefuseHeader
  BY <1>1 DEF Progress, RefuseHeader, Finish
<1>2. CASE ParseHeader
  <2>1. /\ pc = "header"
        /\ \/ it'.tagCount = 0 /\ Finish("accepted")
           \/ it'.tagCount # 0 /\ pc' = "count" /\ UNCHANGED <<inputVars, pos, left, tags, verdict>>
    BY <1>2, HeaderIsThere DEF ParseHeader, TypeOK
  <2> QED
    BY <2>1 DEF Progress, Finish
<1>3. CASE EndOfTags
  BY <1>3 DEF Progress, EndOfTags, Finish
<1>4. CASE ReadCount
  <2>1. CountRead /\ UNCHANGED it /\ pc = "count"
    BY <1>4, CountIsThere DEF ReadCount
  <2> QED
    BY <2>1 DEF Progress, CountRead
<1>5. CASE CountRunsOff
  BY <1>5 DEF Progress, CountRunsOff, Finish
<1>6. CASE ReadTag
  BY <1>6 DEF Progress, ReadTag
<1>7. CASE TagRunsOff
  BY <1>7 DEF Progress, TagRunsOff, Finish
<1>8. CASE UNCHANGED vars
  BY <1>8 DEF Progress, vars
<1> QED
  BY <1>1, <1>2, <1>3, <1>4, <1>5, <1>6, <1>7, <1>8 DEF Next, Checked

\* Every turn keeps the cursor past what the tags say.
LEMMA SizedStep == TypeOK /\ Progress /\ Sized /\ [Next]_vars => Sized'
<1> SUFFICES ASSUME TypeOK, Progress, Sized, [Next]_vars PROVE Sized'
  OBVIOUS
<1>0. /\ SizeSaid(<<>>) = 0 /\ SizeSaid(tags) \in Nat /\ pos \in Nat /\ Len(it.rawTags) \in Nat
      /\ tags \in Seq(Tag) /\ it.rawTags \in Seq(0..255)
  BY SizeGrows, ElementOf DEF TypeOK
<1>1. CASE RefuseHeader
  BY <1>1 DEF Sized, RefuseHeader, Finish
<1>2. CASE ParseHeader
  <2>1. /\ pc = "header"
        /\ \/ it'.tagCount = 0 /\ Finish("accepted")
           \/ it'.tagCount # 0 /\ pc' = "count" /\ UNCHANGED <<inputVars, pos, left, tags, verdict>>
    BY <1>2, HeaderIsThere DEF ParseHeader, TypeOK
  <2>2. CASE it'.tagCount = 0 /\ Finish("accepted")
    BY <2>2 DEF Sized, Finish
  <2>3. CASE it'.tagCount # 0 /\ pc' = "count" /\ UNCHANGED <<inputVars, pos, left, tags, verdict>>
    BY <2>1, <2>3 DEF Sized, Progress
  <2> QED
    BY <2>1, <2>2, <2>3
<1>3. CASE EndOfTags
  <2>1. /\ HasVarLong(it.rawTags, pos) /\ pc = "count" /\ pc' = "done" /\ UNCHANGED <<it, tags>>
        /\ verdict' = IF Len(tags) = it.tagCount THEN "accepted" ELSE "refused"
    BY <1>3 DEF EndOfTags, Finish
  <2>2. CASE Len(tags) = it.tagCount /\ it.tagCount > 0
    <3>1. pos <= Len(it.rawTags)
      <4>1. VarEnd(it.rawTags, pos) \in pos..Len(it.rawTags)
        BY <1>0, <2>1, VarLongIsThere
      <4> QED
        BY <1>0, <4>1
    <3>2. tags # <<>>
      BY <2>2
    <3>3. SizeSaid(tags) + 2 <= pos
      BY <2>1, <3>2 DEF Sized
    <3>4. SizeSaid(tags) + 2 <= Len(it.rawTags)
      BY <1>0, <3>1, <3>3
    <3> QED
      BY <2>1, <2>2, <3>4 DEF Sized
  <2>3. CASE ~(Len(tags) = it.tagCount /\ it.tagCount > 0)
    BY <2>1, <2>3 DEF Sized
  <2> QED
    BY <2>2, <2>3
<1>4. CASE ReadCount
  <2>1. CountRead /\ UNCHANGED it /\ pc = "count"
    BY <1>4, CountIsThere DEF ReadCount
  <2>2. CASE pc' = "done" /\ verdict' = "refused"
    BY <2>2 DEF Sized
  <2>3. CASE /\ pc' = "tags" /\ UNCHANGED <<tags, verdict>>
             /\ pos' \in Nat /\ pos' >= pos + 1
    <3>1. SizeSaid(tags) + 2 <= pos'
      <4>1. CASE tags = <<>>
        BY <1>0, <2>3, <4>1 DEF TypeOK
      <4>2. CASE tags # <<>>
        <5>1. SizeSaid(tags) + 2 <= pos
          BY <2>1, <4>2 DEF Sized
        <5> QED
          BY <1>0, <2>3, <5>1
      <4> QED
        BY <4>1, <4>2
    <3>2. verdict = "pending"
      BY <2>1 DEF Progress
    <3> QED
      BY <2>3, <3>1, <3>2 DEF Sized
  <2> QED
    BY <2>1, <2>2, <2>3 DEF CountRead
<1>5. CASE CountRunsOff
  BY <1>5 DEF Sized, CountRunsOff, Finish
<1>6. CASE ReadTag
  <2> DEFINE a == Len(NextTag.name)
             b == Len(NextTag.value)
  <2>1. /\ NextTag \in Tag /\ tags' = Append(tags, NextTag) /\ a \in Nat /\ b \in Nat
        /\ pos' \in Nat /\ pos' >= pos + a + b + 2
    BY <1>6, TagIsThere
  <2>2. SizeSaid(tags') = SizeSaid(tags) + a + b + 2
    BY <1>0, <2>1, SizeGrows
  <2>3. pc = "tags" /\ verdict' = verdict
    BY <1>6 DEF ReadTag
  <2>4. SizeSaid(tags) + 2 <= pos
    BY <2>3 DEF Sized
  <2> HIDE DEF a, b
  <2>5. SizeSaid(tags') + 2 <= pos'
    BY <1>0, <2>1, <2>2, <2>4
  <2>6. verdict' = "pending"
    BY <2>3 DEF Progress
  <2> QED
    BY <2>5, <2>6 DEF Sized
<1>7. CASE TagRunsOff
  BY <1>7 DEF Sized, TagRunsOff, Finish
<1>8. CASE UNCHANGED vars
  BY <1>8 DEF Sized, vars
<1> QED
  BY <1>1, <1>2, <1>3, <1>4, <1>5, <1>6, <1>7, <1>8 DEF Next, Checked

---------------------------------------------------------------------------
(* What was created is read back *)

Shown(list) == [i \in DOMAIN list |-> [name |-> AsRead(list[i].name), value |-> AsRead(list[i].value)]]

\* Some tags of the region are read, and the rest stand before its end.
Cursor(before, done, todo) ==
    /\ opts.tags = done \o todo
    /\ it.rawTags = before \o (TagsBytes(todo) \o WriteVarLong(0))
    /\ tags = Shown(done)
    /\ pos = Len(before) + 1
    /\ IF todo = <<>> THEN pc = "count" ELSE pc = "tags" /\ left = Len(todo)

AmongTags == \E before \in Seq(0..255), done, todo \in Seq(Tag) : Cursor(before, done, todo)
AtStart == pc = "count" /\ pos = 1 /\ tags = <<>> /\ it.rawTags = SerializeTags(opts.tags)

\* The tag count may be anyone's, the region is the creator's.
Faithful ==
    origin \in {"created", "recounted"} =>
        /\ pc \in {"count", "tags"} => AtStart \/ AmongTags
        /\ verdict = "accepted" /\ it.tagCount > 0 => tags = Shown(opts.tags)
        /\ origin = "created" /\ pc # "header" => it.tagCount = Len(opts.tags)
        /\ origin = "created" /\ pc = "done" => verdict = "accepted"

\* How tags show, the last apart.
LEMMA ShownIs ==
  /\ Shown(<<>>) = <<>>
  /\ \A list : Len(list) \in Nat /\ DOMAIN list = 1..Len(list) => Len(Shown(list)) = Len(list)
  /\ \A list \in Seq(Tag), t \in Tag :
       Shown(list \o <<t>>) = Append(Shown(list), [name |-> AsRead(t.name), value |-> AsRead(t.value)])
<1>1. Shown(<<>>) = <<>>
  <2>1. DOMAIN <<>> = {}
    OBVIOUS
  <2>2. Shown(<<>>) = [i \in {} |-> [name |-> AsRead(<<>>[i].name), value |-> AsRead(<<>>[i].value)]]
    BY <2>1, Zenon DEF Shown
  <2> QED
    BY <2>2
<1>2. ASSUME NEW list, Len(list) \in Nat, DOMAIN list = 1..Len(list) PROVE Len(Shown(list)) = Len(list)
  BY <1>2 DEF Shown
<1>3. ASSUME NEW list \in Seq(Tag), NEW t \in Tag
      PROVE  Shown(list \o <<t>>) = Append(Shown(list), [name |-> AsRead(t.name), value |-> AsRead(t.value)])
  <2> DEFINE shown(x) == [name |-> AsRead(x.name), value |-> AsRead(x.value)]
             n == Len(list)
             more == list \o <<t>>
             s == Shown(list)
  <2>1. /\ n \in Nat /\ DOMAIN list = 1..n /\ Len(more) = n + 1 /\ DOMAIN more = 1..(n + 1)
        /\ more[n + 1] = t /\ \A i \in 1..n : more[i] = list[i]
    OBVIOUS
  <2>2. s = [i \in 1..n |-> shown(list[i])] /\ Shown(more) = [i \in 1..(n + 1) |-> shown(more[i])]
    BY <2>1 DEF Shown
  <2> HIDE DEF shown, n, more, s
  <2> DEFINE V == {shown(list[i]) : i \in 1..n} \cup {shown(t)}
             r == Shown(more)
             last == shown(t)
             front == Append(s, last)
  <2>3. \A i \in 1..(n + 1) : i = n + 1 \/ i \in 1..n
    BY <2>1
  <2>4. s \in [1..n -> V] /\ last \in V /\ \A i \in 1..n : s[i] = shown(list[i])
    BY <2>2
  <2>5. r \in [1..(n + 1) -> V] /\ r[n + 1] = last /\ \A i \in 1..n : r[i] = s[i]
    <3>1. \A i \in 1..(n + 1) : r[i] = shown(more[i])
      BY <2>2
    <3>2. n + 1 \in 1..(n + 1) /\ \A i \in 1..n : i \in 1..(n + 1)
      BY <2>1
    <3>3. r[n + 1] = last /\ \A i \in 1..n : r[i] = s[i]
      BY <2>1, <2>4, <3>1, <3>2
    <3>4. \A i \in 1..(n + 1) : r[i] \in V
      BY <2>3, <2>4, <3>3
    <3>5. r = [i \in 1..(n + 1) |-> r[i]]
      BY <2>2
    <3> HIDE DEF r, V
    <3> QED
      BY <3>3, <3>4, <3>5
  <2> HIDE DEF r, V, last
  <2>6. r \in Seq(V) /\ Len(r) = n + 1 /\ s \in Seq(V) /\ Len(s) = n
    <3>1. n + 1 \in Nat
      BY <2>1
    <3> QED
      BY <2>1, <2>4, <2>5, <3>1, FunctionIsSeq
  <2>7. front \in Seq(V) /\ Len(front) = n + 1 /\ front[n + 1] = last /\ \A i \in 1..n : front[i] = s[i]
    BY <2>4, <2>6, AppendProperties
  <2> HIDE DEF front
  <2>8. \A i \in 1..Len(r) : r[i] = front[i]
    BY <2>3, <2>5, <2>6, <2>7
  <2>9. r = front
    BY <2>6, <2>7, <2>8, SameSeq
  <2> QED
    BY <2>9 DEF r, front, last, shown, more, s
<1> QED
  BY <1>1, <1>2, <1>3

\* The header of an item that was created, whatever count stands in it.
LEMMA HeaderSays ==
  ASSUME Inputs, origin \in {"created", "recounted"}
  PROVE  /\ opts.tags \in Seq(Tag)
         /\ Parseable(item)
         /\ ParseDataItem(item).rawTags = SerializeTags(opts.tags)
         /\ ~(ParseDataItem(item).declared > MaxTagBytes)
         /\ origin = "created" => ParseDataItem(item).tagCount = Len(opts.tags)
<1> DEFINE region == SerializeTags(opts.tags)
<1>1. opts \in Options /\ CanCreate(opts)
  BY DEF Inputs, Created
<1>2. /\ WellMade(opts) /\ opts.tags \in Seq(Tag)
      /\ Len(region) <= MaxTagBytes /\ LongFits(LongLength, Len(region))
  BY <1>1, CreatedLies
<1>3. region \in Seq(0..255) /\ ~(Len(region) > MaxTagBytes)
  <2>1. region \in Seq(0..255) /\ Len(region) \in Nat
    BY <1>2, RegionIs
  <2> HIDE DEF region
  <2> QED
    BY <1>2, <2>1, WidthsAssumption
<1>4. CASE origin = "created"
  <2>1. item = CreateDataItem(opts)
    BY <1>4 DEF Inputs, Input
  <2>2. Parseable(item) /\ ParseDataItem(item) = Says(opts, Len(opts.tags), region)
    BY <1>1, <2>1, CreatedIsParsed
  <2> HIDE DEF region
  <2> QED
    BY <1>2, <1>3, <1>4, <2>2 DEF Says, region
<1>5. CASE origin = "recounted"
  <2>1. PICK count \in 0..3 : item = Layout(opts, count, Len(region), region)
    BY <1>5 DEF Inputs, Input
  <2>2. count \in Nat /\ LongFits(LongLength, count)
    <3>1. \A x \in 0..3 : x \in Nat /\ x \in 0..255
      OBVIOUS
    <3>2. LongLength \in Nat \ {0}
      BY WidthsAssumption
    <3> QED
      BY <3>1, <3>2, ByteFits
  <2> HIDE DEF region
  <2>3. Parseable(item) /\ ParseDataItem(item) = Says(opts, count, region)
    BY <1>2, <1>3, <2>1, <2>2, LayoutIsParsed
  <2> QED
    BY <1>2, <1>3, <1>5, <2>3 DEF Says, region
<1> QED
  BY <1>4, <1>5

\* The region begins with the number of its tags, if it has any.
LEMMA StartIsRead ==
  ASSUME NEW q \in Seq(Tag)
  PROVE  /\ q = <<>> => ~HasVarLong(SerializeTags(q), 1)
         /\ q # <<>> => /\ HasVarLong(SerializeTags(q), 1)
                        /\ ReadVarLong(SerializeTags(q), 1) = Len(q)
                        /\ VarEnd(SerializeTags(q), 1) = Len(WriteVarLong(Len(q)))
<1>1. CASE q = <<>>
  <2>1. SerializeTags(q) = <<>> /\ Len(<<>>) = 0
    BY <1>1, RegionIs
  <2>2. 1..Len(SerializeTags(q)) = {}
    BY <2>1
  <2> QED
    BY <1>1, <2>2 DEF HasVarLong
<1>2. CASE q # <<>>
  <2> DEFINE n == Len(q)
             rest == TagsBytes(q) \o WriteVarLong(0)
             region == WriteVarLong(n) \o rest
             none == <<>>
  <2>1. n \in Nat /\ SerializeTags(q) = region /\ region \in Seq(0..255)
    BY <1>2, RegionIs
  <2>2. rest \in Seq(0..255)
    BY TagsUnfold, VarLongLies, Joined
  <2>a. none \in Seq(0..255)
    OBVIOUS
  <2>3. Len(none) + 1 = 1 /\ Len(none) = 0 /\ none \o region = region
    BY <2>1
  <2>4. Len(WriteVarLong(n)) \in Nat
    BY <2>1, VarLongLies
  <2>5. n \in Int
    BY <2>1
  <2> HIDE DEF n, rest, none
  <2>6. /\ HasVarLong(none \o region, Len(none) + 1)
        /\ VarEnd(none \o region, Len(none) + 1) = Len(none) + Len(WriteVarLong(n))
        /\ ReadVarLong(none \o region, Len(none) + 1) = n
    BY <2>2, <2>a, <2>5, VarLongRoundTrip
  <2> HIDE DEF region
  <2> QED
    BY <1>2, <2>1, <2>3, <2>4, <2>6 DEF n
<1> QED
  BY <1>1, <1>2

\* Behind the last tag stands the zero that ends the region.
LEMMA LastIsRead ==
  ASSUME NEW before \in Seq(0..255), NEW done, Cursor(before, done, <<>>)
  PROVE  /\ HasVarLong(it.rawTags, pos) /\ ReadVarLong(it.rawTags, pos) = 0
         /\ opts.tags = done \o <<>>
<1> DEFINE w == WriteVarLong(0)
           none == <<>>
           buf == before \o (w \o none)
<1>0. none \in Seq(0..255) /\ 0 \in Int
  OBVIOUS
<1>1. w \in Seq(0..255) /\ none \in Seq(0..255)
  BY <1>0, VarLongLies
<1>2. it.rawTags = buf /\ pos = Len(before) + 1
  <2>1. TagsBytes(<<>>) = <<>>
    BY TagsUnfold
  <2>2. <<>> \o w = w /\ w \o none = w
    BY <1>1
  <2> QED
    BY <2>1, <2>2 DEF Cursor
<1>3. HasVarLong(buf, Len(before) + 1) /\ ReadVarLong(buf, Len(before) + 1) = 0
  <2> HIDE DEF none
  <2> QED
    BY <1>0, VarLongRoundTrip
<1>4. opts.tags = done \o <<>>
  BY DEF Cursor
<1> HIDE DEF buf, none
<1>5. HasVarLong(it.rawTags, pos) /\ ReadVarLong(it.rawTags, pos) = 0
  <2> DEFINE at == Len(before) + 1
  <2>1. it.rawTags = buf /\ pos = at /\ HasVarLong(buf, at) /\ ReadVarLong(buf, at) = 0
    BY <1>2, <1>3
  <2> HIDE DEF at
  <2> QED
    BY <2>1, Zenon
<1> QED
  BY <1>4, <1>5, Zenon

\* The tag at the cursor is the next of those that were written.
LEMMA CursorIsAtTag ==
  ASSUME NEW before \in Seq(0..255), NEW done \in Seq(Tag), NEW todo \in Seq(Tag),
         todo # <<>>, Cursor(before, done, todo)
  PROVE  \E t \in Tag, rest \in Seq(Tag) :
           /\ todo = <<t>> \o rest /\ Len(todo) = Len(rest) + 1 /\ Len(rest) \in Nat
           /\ opts.tags = (done \o <<t>>) \o rest /\ done \o <<t>> \in Seq(Tag)
           /\ TagIsRead(it.rawTags, pos, t, Len(before \o TagBytes(t)) + 1)
           /\ it.rawTags = (before \o TagBytes(t)) \o (TagsBytes(rest) \o WriteVarLong(0))
           /\ before \o TagBytes(t) \in Seq(0..255)
<1>1. PICK t \in Tag, rest \in Seq(Tag) : todo = <<t>> \o rest
  <2>1. Len(todo) # 0
    OBVIOUS
  <2> QED
    BY <2>1, HeadAndRest
<1>2. Len(todo) = Len(rest) + 1 /\ Len(rest) \in Nat
  BY <1>1
<1>3. opts.tags = (done \o <<t>>) \o rest /\ done \o <<t>> \in Seq(Tag)
  <2> DEFINE one == <<t>>
  <2>1. one \in Seq(Tag)
    OBVIOUS
  <2> HIDE DEF one
  <2>2. (done \o one) \o rest = done \o (one \o rest) /\ done \o one \in Seq(Tag)
    BY <2>1, Concatenates
  <2> QED
    BY <1>1, <2>2 DEF one, Cursor
<1> DEFINE a == TagBytes(t)
           b == TagsBytes(rest)
           w == WriteVarLong(0)
           more == b \o w
<1>4. TagsBytes(todo) = a \o b /\ a \in Seq(0..255) /\ b \in Seq(0..255) /\ w \in Seq(0..255)
  <2>1. 0 \in Int
    OBVIOUS
  <2>2. w \in Seq(0..255)
    BY <2>1, VarLongLies
  <2>3. a \in Seq(0..255)
    BY TagLies
  <2>4. b \in Seq(0..255) /\ TagsBytes(todo) = a \o b
    BY <1>1, TagsUnfold
  <2> QED
    BY <2>2, <2>3, <2>4
<1>5. more \in Seq(0..255) /\ TagsBytes(todo) \o w = a \o more
  <2>1. (a \o b) \o w = a \o (b \o w) /\ b \o w \in Seq(0..255)
    <3> HIDE DEF a, b, w
    <3> QED
      BY <1>4, Concatenates
  <2> QED
    BY <1>4, <2>1
<1>6. it.rawTags = before \o (a \o more) /\ pos = Len(before) + 1
  BY <1>5 DEF Cursor
<1> HIDE DEF more
<1>7. /\ TagIsRead(before \o (TagBytes(t) \o more), Len(before) + 1, t, Len(before \o TagBytes(t)) + 1)
      /\ before \o (TagBytes(t) \o more) = (before \o TagBytes(t)) \o more
      /\ before \o TagBytes(t) \in Seq(0..255)
  BY <1>5, TagReadBack
<1> QED
  BY <1>1, <1>2, <1>3, <1>6, <1>7 DEF more

\* Every turn keeps what was created and what is read of it in step.
LEMMA FaithfulStep == TypeOK /\ Progress /\ Faithful /\ [Next]_vars => Faithful'
<1> SUFFICES ASSUME TypeOK, Progress, Faithful, [Next]_vars,
                    origin' \in {"created", "recounted"}
             PROVE  Faithful'
  BY DEF Faithful
<1> DEFINE q == opts.tags
<1>0. UNCHANGED inputVars
  BY DEF Next, RefuseHeader, ParseHeader, EndOfTags, ReadCount, Block, CountRunsOff, ReadTag, TagRunsOff,
         Checked, Finish, vars
<1>a. /\ origin' = origin /\ origin \in {"created", "recounted"} /\ q' = q /\ opts' = opts /\ Inputs
  BY <1>0 DEF inputVars, TypeOK
<1>b. /\ q \in Seq(Tag) /\ Parseable(item)
      /\ ParseDataItem(item).rawTags = SerializeTags(q)
      /\ ~(ParseDataItem(item).declared > MaxTagBytes)
      /\ origin = "created" => ParseDataItem(item).tagCount = Len(q)
  BY <1>a, HeaderSays
<1>1. CASE RefuseHeader
  BY <1>1, <1>b DEF RefuseHeader
<1>2. CASE ParseHeader
  <2>1. /\ pc = "header"
        /\ it' = [tagCount |-> ParseDataItem(item).tagCount, rawTags |-> ParseDataItem(item).rawTags]
        /\ \/ it'.tagCount = 0 /\ Finish("accepted")
           \/ it'.tagCount # 0 /\ pc' = "count" /\ UNCHANGED <<inputVars, pos, left, tags, verdict>>
    BY <1>2, <1>a, HeaderIsThere DEF ParseHeader
  <2>2. it'.rawTags = SerializeTags(q) /\ (origin = "created" => it'.tagCount = Len(q))
    BY <1>b, <2>1
  <2>3. CASE it'.tagCount = 0 /\ Finish("accepted")
    BY <1>a, <2>2, <2>3 DEF Faithful, Finish
  <2>4. CASE it'.tagCount # 0 /\ pc' = "count" /\ UNCHANGED <<inputVars, pos, left, tags, verdict>>
    <3>1. AtStart'
      BY <1>a, <2>1, <2>2, <2>4 DEF AtStart, Progress
    <3>2. verdict' = "pending"
      BY <2>1, <2>4 DEF Progress
    <3> QED
      BY <1>a, <2>2, <2>4, <3>1, <3>2 DEF Faithful
  <2> QED
    BY <2>1, <2>3, <2>4
<1>3. CASE EndOfTags
  <2>1. /\ HasVarLong(it.rawTags, pos) /\ ReadVarLong(it.rawTags, pos) = 0
        /\ pc = "count" /\ pc' = "done" /\ UNCHANGED <<it, tags>>
        /\ verdict' = IF Len(tags) = it.tagCount THEN "accepted" ELSE "refused"
    BY <1>3 DEF EndOfTags, Finish
  <2>2. tags = Shown(q) /\ Len(Shown(q)) = Len(q)
    <3>1. ~AtStart
      <4> SUFFICES ASSUME AtStart PROVE FALSE
        OBVIOUS
      <4>1. it.rawTags = SerializeTags(q) /\ pos = 1
        BY DEF AtStart
      <4>2. q # <<>> /\ Len(q) = 0
        BY <1>b, <2>1, <4>1, StartIsRead
      <4> QED
        BY <1>b, <4>2
    <3>2. PICK before \in Seq(0..255), done \in Seq(Tag), todo \in Seq(Tag) : Cursor(before, done, todo)
      BY <1>a, <2>1, <3>1 DEF Faithful, AmongTags
    <3>3. todo = <<>> /\ tags = Shown(done)
      BY <2>1, <3>2 DEF Cursor
    <3>4. q = done
      <4>1. q = done \o <<>>
        BY <3>2, <3>3 DEF Cursor
      <4> QED
        BY <4>1
    <3>5. Len(q) \in Nat /\ DOMAIN q = 1..Len(q)
      BY <1>b
    <3> QED
      BY <3>3, <3>4, <3>5, ShownIs
  <2>3. origin = "created" => it.tagCount = Len(q)
    BY <1>a, <2>1 DEF Faithful
  <2> QED
    BY <1>a, <2>1, <2>2, <2>3 DEF Faithful
<1>4. CASE ReadCount
  <2>1. pc = "count" /\ HasVarLong(it.rawTags, pos)
    BY <1>4 DEF ReadCount
  <2>2. CASE AtStart
    <3>1. it.rawTags = SerializeTags(q) /\ pos = 1 /\ tags = <<>>
      BY <2>2 DEF AtStart
    <3>2. /\ q # <<>> /\ ReadVarLong(it.rawTags, pos) = Len(q)
          /\ VarEnd(it.rawTags, pos) = Len(WriteVarLong(Len(q)))
      BY <1>b, <2>1, <3>1, StartIsRead
    <3>3. Len(q) \in Nat /\ Len(q) > 0
      BY <1>b, <3>2
    <3>4. UNCHANGED it /\ Block(Len(q), Len(WriteVarLong(Len(q))) + 1)
      <4> DEFINE n == Len(q)
      <4>1. ReadVarLong(it.rawTags, pos) = n /\ n > 0 /\ n \in Nat
        BY <3>2, <3>3
      <4> HIDE DEF n
      <4>2. Block(n, VarEnd(it.rawTags, pos) + 1) /\ UNCHANGED it
        BY <1>4, <4>1 DEF ReadCount
      <4> QED
        BY <3>2, <4>2 DEF n
    <3>5. /\ left' = Len(q) /\ pos' = Len(WriteVarLong(Len(q))) + 1 /\ pc' = "tags"
          /\ UNCHANGED <<it, tags, verdict>>
      BY <3>4 DEF Block
    <3> DEFINE before == WriteVarLong(Len(q))
               none == <<>>
    <3>6. before \in Seq(0..255)
      BY <3>3, VarLongLies
    <3>7. it.rawTags = before \o (TagsBytes(q) \o WriteVarLong(0))
      BY <1>b, <3>1, <3>2, RegionIs
    <3>8. none \in Seq(Tag) /\ q = none \o q /\ tags = Shown(none)
      BY <1>b, <3>1, ShownIs
    <3> HIDE DEF before, none
    <3>a. PICK list \in Seq(Tag) : list = q
      BY <1>b
    <3>b. PICK bytes \in Seq(0..255) : bytes = before
      BY <3>6
    <3>c. Cursor(bytes, none, list)'
      BY <1>a, <3>2, <3>5, <3>7, <3>8, <3>a, <3>b DEF Cursor, before
    <3>10. AmongTags'
      BY <3>8, <3>c DEF AmongTags
    <3>11. verdict' = "pending"
      BY <2>1, <3>5 DEF Progress
    <3>12. origin = "created" => it'.tagCount = Len(q)
      BY <1>a, <2>1, <3>5 DEF Faithful
    <3> QED
      BY <1>a, <3>5, <3>10, <3>11, <3>12 DEF Faithful
  <2>3. CASE AmongTags
    <3>1. PICK before \in Seq(0..255), done \in Seq(Tag), todo \in Seq(Tag) : Cursor(before, done, todo)
      BY <2>3 DEF AmongTags
    <3>2. todo = <<>>
      BY <2>1, <3>1 DEF Cursor
    <3>3. ReadVarLong(it.rawTags, pos) = 0
      BY <3>1, <3>2, LastIsRead
    <3>4. ReadVarLong(it.rawTags, pos) > 0 \/ ReadVarLong(it.rawTags, pos) < 0
      BY <1>4 DEF ReadCount
    <3> QED
      BY <3>3, <3>4
  <2> QED
    BY <1>a, <2>1, <2>2, <2>3 DEF Faithful
<1>5. CASE CountRunsOff
  <2>1. /\ pc = "count" /\ ~HasVarLong(it.rawTags, pos)
        /\ pc' = "done" /\ verdict' = "refused" /\ UNCHANGED <<it, tags>>
    BY <1>5 DEF CountRunsOff, Finish
  <2>2. CASE AtStart
    <3>1. it.rawTags = SerializeTags(q) /\ pos = 1
      BY <2>2 DEF AtStart
    <3>2. q = <<>>
      BY <1>b, <2>1, <3>1, StartIsRead
    <3>3. origin = "created" => it.tagCount = 0
      <4>1. origin = "created" => it.tagCount = Len(q)
        BY <1>a, <2>1 DEF Faithful
      <4> QED
        BY <3>2, <4>1
    <3>4. origin # "created"
      BY <2>1, <3>3 DEF Progress
    <3> QED
      BY <1>a, <2>1, <3>4 DEF Faithful
  <2>3. CASE AmongTags
    <3>1. PICK before \in Seq(0..255), done \in Seq(Tag), todo \in Seq(Tag) : Cursor(before, done, todo)
      BY <2>3 DEF AmongTags
    <3>2. todo = <<>>
      BY <2>1, <3>1 DEF Cursor
    <3> QED
      BY <2>1, <3>1, <3>2, LastIsRead
  <2> QED
    BY <1>a, <2>1, <2>2, <2>3 DEF Faithful
<1>6. CASE ReadTag \/ TagRunsOff
  <2>1. pc = "tags"
    BY <1>6 DEF ReadTag, TagRunsOff
  <2>2. AmongTags
    BY <1>a, <2>1 DEF Faithful, AtStart
  <2>3. PICK before \in Seq(0..255), done \in Seq(Tag), todo \in Seq(Tag) : Cursor(before, done, todo)
    BY <2>2 DEF AmongTags
  <2>4. todo # <<>> /\ left = Len(todo) /\ tags = Shown(done)
    BY <2>1, <2>3 DEF Cursor
  <2>5. PICK t \in Tag, rest \in Seq(Tag) :
           /\ Len(todo) = Len(rest) + 1 /\ Len(rest) \in Nat
           /\ q = (done \o <<t>>) \o rest /\ done \o <<t>> \in Seq(Tag)
           /\ TagIsRead(it.rawTags, pos, t, Len(before \o TagBytes(t)) + 1)
           /\ it.rawTags = (before \o TagBytes(t)) \o (TagsBytes(rest) \o WriteVarLong(0))
           /\ before \o TagBytes(t) \in Seq(0..255)
    BY <2>3, <2>4, CursorIsAtTag
  <2>6. TagFits
    BY <2>5 DEF TagIsRead, TagFits, StringFits, StringEnd, FitsIn, EndIn
  <2>7. ReadTag
    BY <1>6, <2>6 DEF TagRunsOff
  <2> DEFINE front == before \o TagBytes(t)
             ahead == done \o <<t>>
             shown == [name |-> AsRead(t.name), value |-> AsRead(t.value)]
  <2>8. /\ tags' = Append(tags, shown) /\ pos' = Len(front) + 1
        /\ left' = left - 1 /\ pc' = (IF left = 1 THEN "count" ELSE "tags")
        /\ UNCHANGED <<it, verdict>>
    <3>1. tags' = Append(tags, NextTag) /\ NextTag = shown
      BY <2>5, <2>7, TagIsThere DEF TagIsRead, NextTag
    <3>2. pos' = EndIn(it.rawTags, EndIn(it.rawTags, pos))
      BY <2>7 DEF ReadTag, StringEnd, EndIn
    <3> QED
      BY <2>5, <2>7, <3>1, <3>2 DEF ReadTag, TagIsRead
  <2>9. tags' = Shown(ahead)
    <3>1. Shown(ahead) = Append(Shown(done), shown)
      BY ShownIs
    <3> QED
      BY <2>4, <2>8, <3>1
  <2>10. IF rest = <<>> THEN pc' = "count" ELSE pc' = "tags" /\ left' = Len(rest)
    <3>1. left = Len(rest) + 1 /\ left' = Len(rest) /\ (left = 1 <=> Len(rest) = 0)
      BY <2>4, <2>5, <2>8
    <3>2. rest = <<>> <=> Len(rest) = 0
      OBVIOUS
    <3> QED
      BY <2>8, <3>1, <3>2
  <2> HIDE DEF front, ahead, shown
  <2>11. Cursor(front, ahead, rest)'
    BY <1>a, <2>5, <2>8, <2>9, <2>10 DEF Cursor, front, ahead
  <2>12. AmongTags'
    BY <2>5, <2>11 DEF AmongTags, front, ahead
  <2>13. verdict' = "pending" /\ pc' # "done" /\ pc' # "header"
    BY <2>1, <2>8 DEF Progress
  <2>14. origin = "created" => it'.tagCount = Len(q)
    BY <1>a, <2>1, <2>8 DEF Faithful
  <2> QED
    BY <1>a, <2>12, <2>13, <2>14 DEF Faithful
<1>7. CASE UNCHANGED vars
  BY <1>a, <1>7 DEF Faithful, AtStart, AmongTags, Cursor, vars
<1> QED
  BY <1>1, <1>2, <1>3, <1>4, <1>5, <1>6, <1>7 DEF Next, Checked

\* The inductive invariant.
IInv == TypeOK /\ Progress /\ Sized /\ Faithful

\* It holds of every item before it is read ...
LEMMA IInvInit == Init => IInv
<1> SUFFICES ASSUME Init PROVE IInv
  OBVIOUS
<1>1. TypeOK
  BY TypeInit
<1>2. Progress /\ Sized /\ Faithful
  BY DEF Init, Progress, Sized, Faithful
<1> QED
  BY <1>1, <1>2 DEF IInv

\* ... and every turn keeps it.
LEMMA IInvStep == IInv /\ [Next]_vars => IInv'
  BY TypeStep, ProgressStep, SizedStep, FaithfulStep DEF IInv

\* "Two implementations disagree about what the item SAYS while both agree the
\* signature is valid" (src/core/ans104.js): an item that counts tags is
\* accepted with that many of them, which is the signed number, and what is read
\* into them is no more than the region the signature covers holds.
THEOREM AcceptedAgree == Spec => []AcceptedSaysOneThing
<1>1. IInv => AcceptedSaysOneThing
  <2> SUFFICES ASSUME IInv, verdict = "accepted", it.tagCount > 0
               PROVE  /\ Len(tags) = it.tagCount
                      /\ origin = "recounted" => it.tagCount = Len(opts.tags)
                      /\ SizeSaid(tags) + 2 <= Len(it.rawTags)
    BY DEF AcceptedSaysOneThing
  <2>1. Len(tags) = it.tagCount /\ SizeSaid(tags) + 2 <= Len(it.rawTags)
    BY DEF IInv, Sized
  <2>2. ASSUME origin = "recounted" PROVE Len(tags) = Len(opts.tags)
    <3>1. tags = Shown(opts.tags)
      BY <2>2 DEF IInv, Faithful
    <3>2. opts.tags \in Seq(Tag)
      BY <2>2, HeaderSays DEF IInv, TypeOK
    <3>3. Len(opts.tags) \in Nat /\ DOMAIN opts.tags = 1..Len(opts.tags)
      BY <3>2
    <3> QED
      BY <3>1, <3>3, ShownIs
  <2> QED
    BY <2>1, <2>2
<1> QED
  BY <1>1, IInvInit, IInvStep, PTL DEF Spec

\* Every item createDataItem() makes is accepted by the check, is parsed as what
\* it was made from - so what it is signed as is what it is verified as - shows
\* the tags it was given, and is as long as dataItemByteLength() and
\* getDataItemSize() priced it.
THEOREM CreatedAccepted == Spec => []CreatedIsAccepted
<1>1. IInv => CreatedIsAccepted
  <2> SUFFICES ASSUME IInv, origin = "created"
               PROVE  CreatedIsAccepted
    BY DEF CreatedIsAccepted
  <2>1. opts \in Options /\ CanCreate(opts) /\ item = CreateDataItem(opts) /\ Inputs
    BY DEF IInv, TypeOK, Inputs, Created, Input
  <2>2. /\ Len(item) = DataItemByteLength(opts)
        /\ \A revealed \in BOOLEAN : Len(item) = GetDataItemSize(opts, revealed)
    BY <2>1, CreatedIsParsed
  <2>3. SignatureData(ParseDataItem(item)) =
               SignatureData([type |-> opts.type, owner |-> opts.owner,
                              target |-> TargetBytes(opts),
                              anchor |-> IF opts.anchor.form = "text" THEN Utf8Encode(opts.anchor.value)
                                         ELSE IF opts.anchor = Absent THEN <<>> ELSE opts.anchor.value,
                              rawTags |-> SerializeTags(opts.tags), data |-> opts.data])
    BY <2>1, CreatedIsSigned
  <2>4. ASSUME pc = "done" PROVE verdict = "accepted" /\ tags = Shown(opts.tags)
    <3>1. verdict = "accepted" /\ it.tagCount = Len(opts.tags)
      BY <2>4 DEF IInv, Faithful
    <3>2. opts.tags \in Seq(Tag) /\ it.tagCount \in Nat
      BY <2>1, HeaderSays DEF IInv, TypeOK
    <3>3. CASE it.tagCount = 0
      <4>1. tags = <<>>
        BY <3>1, <3>3 DEF IInv, Progress
      <4>2. opts.tags = <<>>
        <5>1. Len(opts.tags) = 0
          BY <3>1, <3>3
        <5> QED
          BY <3>2, <5>1
      <4> QED
        BY <3>1, <4>1, <4>2, ShownIs
    <3>4. CASE it.tagCount # 0
      <4>1. it.tagCount > 0
        BY <3>2, <3>4
      <4> QED
        BY <3>1, <4>1 DEF IInv, Faithful
    <3> QED
      BY <3>3, <3>4
  <2> QED
    BY <2>2, <2>3, <2>4 DEF CreatedIsAccepted, Shown
<1> QED
  BY <1>1, IInvInit, IInvStep, PTL DEF Spec

---------------------------------------------------------------------------
(* The reference implementation: numbers *)

\* RefLongToNByteArray's recursive function.
RefRestAt(f, v, i) == IF i = 1 THEN v ELSE (f[i - 1] - (f[i - 1] % 256)) \div 256
RefRests(f, v, n) == f = [i \in 1..n |-> RefRestAt(f, v, i)]

\* What is left once a byte is taken off.
LEMMA RefRestIs ==
  ASSUME NEW v \in Nat
  PROVE  (v - (v % 256)) \div 256 = v \div Base
BY DEF Base

\* What is left of a value before each byte, in either implementation.
LEMMA RefLongIs ==
  ASSUME NEW v \in Nat, NEW n \in Nat
  PROVE  RefLongToNByteArray(n, v) = LongToNByteArray(n, v)
<1> DEFINE l == LeftOf(v, n)
           g == [i \in 1..n |-> l[i - 1]]
           h == CHOOSE h : RefRests(h, v, n)
<1>1. l \in [0..n -> Nat] /\ l[0] = v /\ \A i \in 1..n : l[i] = l[i - 1] \div Base
  BY LeftOfUnfolds
<1> HIDE DEF l
<1>2. ASSUME NEW i \in 1..n PROVE g[i] = RefRestAt(g, v, i) /\ g[i] = l[i - 1]
  <2>1. CASE i = 1
    BY <1>1, <2>1 DEF RefRestAt
  <2>2. CASE i # 1
    <3>1. i - 1 \in 1..n /\ (i - 1) - 1 \in 0..n
      BY <2>2
    <3>2. l[(i - 1) - 1] \in Nat /\ l[i - 1] = l[(i - 1) - 1] \div Base /\ g[i - 1] = l[(i - 1) - 1]
      BY <1>1, <3>1
    <3>3. (l[(i - 1) - 1] - (l[(i - 1) - 1] % 256)) \div 256 = l[(i - 1) - 1] \div Base
      BY <3>2, RefRestIs
    <3> QED
      BY <2>2, <3>2, <3>3 DEF RefRestAt
  <2> QED
    BY <2>1, <2>2
<1>3. RefRests(g, v, n)
  <2>1. g = [i \in 1..n |-> g[i]]
    OBVIOUS
  <2> HIDE DEF g
  <2>2. g = [i \in 1..n |-> RefRestAt(g, v, i)]
    BY <1>2, <2>1
  <2> QED
    BY <2>2 DEF RefRests
<1>4. RefRests(h, v, n)
  BY <1>3
<1>5. RefLongToNByteArray(n, v) = [i \in 1..n |-> h[i] % 256]
  BY Zenon DEF RefLongToNByteArray, RefRests, RefRestAt
<1> HIDE DEF h
<1>6. \A i \in 1..n : h[i] = RefRestAt(h, v, i)
  BY <1>4 DEF RefRests
<1> DEFINE S == {k \in Nat : k \in 1..n => h[k] = g[k]}
<1>7. ASSUME NEW k \in Nat, \A m \in 0..(k - 1) : m \in S PROVE k \in S
  <2> SUFFICES ASSUME k \in 1..n PROVE h[k] = g[k]
    OBVIOUS
  <2>1. k # 1 => k - 1 \in 0..(k - 1) /\ k - 1 \in 1..n
    OBVIOUS
  <2>2. k # 1 => h[k - 1] = g[k - 1]
    BY <1>7, <2>1
  <2> HIDE DEF g
  <2>3. RefRestAt(h, v, k) = RefRestAt(g, v, k)
    BY <2>2 DEF RefRestAt
  <2> QED
    BY <1>2, <1>6, <2>3
<1>8. Nat \subseteq S
  <2> HIDE DEF S
  <2> QED
    BY <1>7, Induction
<1>9. \A i \in 1..n : h[i] % 256 = l[i - 1] % Base
  <2>1. \A i \in 1..n : i \in S
    <3>1. \A i \in 1..n : i \in Nat
      OBVIOUS
    <3> HIDE DEF S
    <3> QED
      BY <1>8, <3>1
  <2>2. \A i \in 1..n : h[i] = l[i - 1]
    BY <1>2, <2>1
  <2> QED
    BY <2>2 DEF Base
<1>10. LongToNByteArray(n, v) = [i \in 1..n |-> l[i - 1] % Base]
  BY DEF LongToNByteArray, l
<1> QED
  BY <1>5, <1>9, <1>10

\* RefByteArrayToLong's recursive function.
RefValueAt(f, i, s) == IF i = 0 THEN 0 ELSE f[i - 1] * 256 + s[Len(s) + 1 - i]
RefValues(f, s) == f = [i \in 0..Len(s) |-> RefValueAt(f, i, s)]

\* One byte more, at the lowest place.
LEMMA RefValueStep ==
  ASSUME NEW d \in Nat, NEW w \in Nat
  PROVE  w * 256 + d = d + Base * w
BY DEF Base

\* From the highest byte down, a number is what it is from the lowest up.
LEMMA RefNumberIs ==
  ASSUME NEW s \in Seq(Nat)
  PROVE  RefByteArrayToLong(s) = ByteArrayToLong(s)
<1> DEFINE L == Len(s)
           h == CHOOSE h : RefValues(h, s)
<1>0. L \in Nat /\ Base \in Nat /\ \A i \in 1..L : s[i] \in Nat
  BY ElementOf DEF Base
<1>1. PICK v : Sums(v, 1, s, Base) /\ Number(s, Base) = v[1]
  BY <1>0, NumberIs
<1>2. \A k \in 1..(L + 1) : v[k] \in Nat
  <2>1. Shifted(s, s, 0)
    BY <1>0 DEF Shifted
  <2>2. SumAlike(v, v, Len(s), 0)
    BY <1>0, <1>1, <2>1, SumsAgree
  <2> QED
    BY <2>2 DEF SumAlike
<1>3. v[L + 1] = 0 /\ \A k \in 1..L : v[k] = s[k] + Base * v[k + 1]
  <2>1. /\ \A k \in 1..(L + 1) : k > L => v[k] = 0
        /\ \A k \in 1..(L + 1) : ~(k > L) => v[k] = s[k] + Base * v[k + 1]
    BY <1>1, SumsAt
  <2>2. L + 1 \in 1..(L + 1) /\ L + 1 > L /\ \A k \in 1..L : k \in 1..(L + 1) /\ ~(k > L)
    BY <1>0
  <2> QED
    BY <2>1, <2>2
<1> DEFINE g == [i \in 0..L |-> v[L + 1 - i]]
<1>4. ASSUME NEW i \in 0..L PROVE g[i] = RefValueAt(g, i, s)
  <2>1. CASE i = 0
    BY <1>0, <1>3, <2>1 DEF RefValueAt
  <2>2. CASE i # 0
    <3> DEFINE k == L + 1 - i
    <3>1. k \in 1..L /\ k + 1 \in 1..(L + 1) /\ i - 1 \in 0..L /\ L + 1 - (i - 1) = k + 1
      BY <1>0, <2>2
    <3>2. g[i - 1] = v[k + 1] /\ g[i] = v[k]
      BY <3>1
    <3> HIDE DEF k, g
    <3>3. v[k] = s[k] + Base * v[k + 1] /\ v[k + 1] \in Nat /\ s[k] \in Nat
      BY <1>0, <1>2, <1>3, <3>1
    <3>4. v[k + 1] * 256 + s[k] = s[k] + Base * v[k + 1]
      BY <3>3, RefValueStep
    <3> QED
      BY <2>2, <3>2, <3>3, <3>4 DEF RefValueAt, k
  <2> QED
    BY <2>1, <2>2
<1>5. RefValues(g, s)
  <2>1. g = [i \in 0..L |-> g[i]]
    OBVIOUS
  <2> HIDE DEF g
  <2>2. g = [i \in 0..L |-> RefValueAt(g, i, s)]
    BY <1>4, <2>1
  <2> QED
    BY <2>2 DEF RefValues
<1>6. RefValues(h, s)
  BY <1>5
<1>7. RefByteArrayToLong(s) = h[L]
  BY Zenon DEF RefByteArrayToLong, RefValues, RefValueAt
<1> HIDE DEF h
<1>8. \A i \in 0..L : h[i] = RefValueAt(h, i, s)
  BY <1>6 DEF RefValues
<1> DEFINE S == {k \in Nat : k \in 0..L => h[k] = g[k]}
<1>9. ASSUME NEW k \in Nat, \A m \in 0..(k - 1) : m \in S PROVE k \in S
  <2> SUFFICES ASSUME k \in 0..L PROVE h[k] = g[k]
    OBVIOUS
  <2>1. k # 0 => k - 1 \in 0..(k - 1) /\ k - 1 \in 0..L
    BY <1>0
  <2>2. k # 0 => h[k - 1] = g[k - 1]
    BY <1>9, <2>1
  <2> HIDE DEF g
  <2>3. RefValueAt(h, k, s) = RefValueAt(g, k, s)
    BY <2>2 DEF RefValueAt
  <2> QED
    BY <1>4, <1>8, <2>3
<1>10. Nat \subseteq S
  <2> HIDE DEF S
  <2> QED
    BY <1>9, Induction
<1>11. h[L] = v[1]
  <2>1. L \in S /\ L \in 0..L /\ L + 1 - L = 1
    <3>1. L \in 0..L /\ L + 1 - L = 1
      BY <1>0
    <3> HIDE DEF S
    <3> QED
      BY <1>0, <1>10, <3>1
  <2>2. h[L] = g[L]
    BY <2>1
  <2> QED
    BY <2>1, <2>2
<1> QED
  BY <1>1, <1>7, <1>11 DEF ByteArrayToLong

---------------------------------------------------------------------------
(* The reference implementation: deepHash() *)

RefHashAt(f, i, chunks) ==
    IF i = 0 THEN <<"sha384", <<"list", Len(chunks)>>>>
    ELSE <<"sha384", <<f[i - 1], RefDeepHashBlob(chunks[i])>>>>
RefHashes(f, chunks) == f = [i \in 0..Len(chunks) |-> RefHashAt(f, i, chunks)]

\* Blob for blob, the digests are folded in the same order.
LEMMA RefHashIs ==
  ASSUME NEW chunks, Len(chunks) \in Nat, DOMAIN chunks = 1..Len(chunks)
  PROVE  RefDeepHash(chunks) = DeepHashList([i \in DOMAIN chunks |-> Blob(chunks[i])])
<1> DEFINE n == Len(chunks)
           hashes == [i \in DOMAIN chunks |-> Blob(chunks[i])]
<1>1. Len(hashes) = n /\ \A i \in 1..n : hashes[i] = RefDeepHashBlob(chunks[i])
  BY DEF Blob, RefDeepHashBlob, DeepHashBlob, Sha384
<1> HIDE DEF hashes
<1>2. RefDeepHash(chunks) = (CHOOSE f : RefHashes(f, chunks))[n]
  BY Zenon DEF RefDeepHash, RefHashes, RefHashAt
<1>3. ASSUME NEW f
      PROVE  [i \in 0..n |-> RefHashAt(f, i, chunks)]
               = [i \in 0..Len(hashes) |->
                     IF i = 0 THEN Sha384(<<"list", Len(hashes)>>) ELSE Sha384(<<f[i - 1], hashes[i]>>)]
  <2>1. \A i \in 0..n : i # 0 => i \in 1..n
    OBVIOUS
  <2> HIDE DEF n
  <2> QED
    BY <1>1, <2>1 DEF RefHashAt, Sha384, n
<1>4. DeepHashList(hashes) = (CHOOSE f : RefHashes(f, chunks))[n]
  BY <1>1, <1>3, Zenon DEF DeepHashList, RefHashes
<1> QED
  BY <1>2, <1>4 DEF hashes

---------------------------------------------------------------------------
(* The reference implementation: the message that is signed *)

\* A digit is one byte.
LEMMA DigitIsByte ==
  ASSUME NEW c \in Nat, c < 128
  PROVE  Utf8Encode(<<c>>) = <<c>>
<1> DEFINE s == <<c>>
           none == <<>>
<1>1. c \in CodeUnits /\ c \in Points /\ ~IsHigh(c) /\ ~IsHalf(c)
  <2>1. ~IsHigh(c) /\ ~IsLow(c)
    BY HighLies, LowLies
  <2> QED
    BY <2>1, SMT DEF CodeUnits, Points, IsHalf
<1>2. s \in Seq(CodeUnits) /\ Len(s) = 1 /\ s[1] = c
  BY <1>1
<1>3. none \in Seq(Points) /\ s \o none = s /\ none \o none = none
  OBVIOUS
<1> HIDE DEF s, none
<1>4. PICK f : ReadsText(f, 1, s) /\ CodePoints(s) = f[1]
  BY <1>2, CodePointsAre
<1>5. \A i \in 1..(Len(s) + 2) : f[i] = TextAt(f, i, s)
  BY <1>4, ReadsTextAt
<1>6. f[2] = none
  <2>1. 2 \in 1..(Len(s) + 2) /\ 2 > Len(s)
    BY <1>2
  <2> QED
    BY <1>5, <2>1 DEF TextAt, none
<1>7. f[1] = <<c>> \o none
  <2>1. 1 \in 1..(Len(s) + 2) /\ ~(1 > Len(s)) /\ 1 + 1 = 2
    BY <1>2
  <2>2. ~IsPair(s, 1)
    BY <1>1, <1>2 DEF IsPair
  <2> QED
    BY <1>2, <1>5, <1>6, <2>1, <2>2 DEF TextAt
<1>8. Replaced(<<c>> \o none) = <<c>> \o none
  <2>1. Replaced(none) = none
    BY ReplacedUnfolds DEF none
  <2> QED
    BY <1>1, <1>3, <2>1, ReplacedUnfolds
<1>9. Encoded(<<c>> \o none) = <<c>> \o none
  <2>1. Encoded(none) = none /\ Utf8Of(c) = <<c>>
    BY EncodedUnfolds DEF none, Utf8Of
  <2> QED
    BY <1>1, <1>3, <2>1, EncodedUnfolds
<1> QED
  BY <1>3, <1>4, <1>7, <1>8, <1>9 DEF Utf8Encode, s

\* Nothing is cut out between a place and the one before it.
LEMMA SliceEmpty ==
  ASSUME NEW buf \in Seq(0..255), NEW from \in Nat, NEW to \in Int, to < from
  PROVE  Slice(buf, from, to) = <<>>
<1> DEFINE end == IF to > Len(buf) THEN Len(buf) ELSE to
<1>1. Len(buf) \in Nat /\ end \in Int /\ end < from
  BY ElementOf
<1> HIDE DEF end
<1>2. SubSeq(buf, from, end) = <<>>
  BY <1>1
<1> QED
  BY <1>2 DEF Slice, end

\* Offsets from 0 and places from 1 are the same places.
LEMMA RefPlaces ==
  ASSUME NEW buf \in Seq(0..255), RefParseable(buf), 1 \in DOMAIN SigConfig
  PROVE  /\ Parseable(buf) /\ SigType(buf) = 1
         /\ RefOffsets(buf).owner = TargetStart(buf) - SigConfig[1].ownerLength - 1
         /\ RefOffsets(buf).target = TargetStart(buf) - 1
         /\ RefOffsets(buf).anchor = AnchorStart(buf) - 1
         /\ RefOffsets(buf).tags = CountStart(buf) - 1
<1> DEFINE sig == SigConfig[1].sigLength
           own == SigConfig[1].ownerLength
           L == Len(buf)
           set(at) == at < L /\ buf[at + 1] = 1
           target == 2 + sig + own
           anchor == target + (IF set(target) THEN FieldLength + 1 ELSE 1)
           tagsAt == anchor + (IF set(anchor) THEN FieldLength + 1 ELSE 1)
<1>1. sig \in Nat /\ own \in Nat /\ FieldLength \in Nat /\ L \in Nat
  BY SigConfigAssumption, WidthsAssumption, ElementOf
<1>2. SigType(buf) = 1
  <2> DEFINE s == Slice(buf, 1, 2)
             B == 0..255
  <2>1. s \in Seq(B)
    BY SliceLies
  <2>2. B \subseteq Nat
    OBVIOUS
  <2> HIDE DEF s, B
  <2>3. s \in Seq(Nat)
    BY <2>1, <2>2, SeqOfMore
  <2>4. RefByteArrayToLong(s) = ByteArrayToLong(s)
    BY <2>3, RefNumberIs
  <2> QED
    BY <2>4 DEF RefParseable, SIG_TYPE_ARWEAVE, SigType, s
<1>3. Parseable(buf)
  BY <1>2 DEF Parseable, RefParseable
<1>4. RefOffsets(buf) = [owner |-> 2 + sig, target |-> target, anchor |-> anchor, tags |-> tagsAt]
  BY DEF RefOffsets, SIG_TYPE_ARWEAVE
<1>5. TargetStart(buf) = target + 1 /\ target \in Nat
  BY <1>1, <1>2 DEF TargetStart
<1>6. \A at \in Nat : set(at) <=> Present(buf, at + 1)
  BY <1>1 DEF Present
<1> HIDE DEF set
<1>7. AnchorStart(buf) = anchor + 1 /\ anchor \in Nat
  <2> HIDE DEF target
  <2>1. set(target) <=> Present(buf, TargetStart(buf))
    BY <1>5, <1>6
  <2>2. CASE set(target)
    <3>1. anchor = target + (FieldLength + 1)
      BY <2>2
    <3>2. AnchorStart(buf) = TargetStart(buf) + (1 + FieldLength)
      BY <2>1, <2>2 DEF AnchorStart
    <3> HIDE DEF anchor
    <3> QED
      BY <1>1, <1>5, <3>1, <3>2
  <2>3. CASE ~set(target)
    BY <1>1, <1>5, <2>1, <2>3 DEF AnchorStart
  <2> QED
    BY <2>2, <2>3
<1>8. CountStart(buf) = tagsAt + 1 /\ tagsAt \in Nat
  <2> HIDE DEF anchor
  <2>1. set(anchor) <=> Present(buf, AnchorStart(buf))
    BY <1>6, <1>7
  <2>2. CASE set(anchor)
    <3>1. tagsAt = anchor + (FieldLength + 1)
      BY <2>2
    <3>2. CountStart(buf) = AnchorStart(buf) + (1 + FieldLength)
      BY <2>1, <2>2 DEF CountStart
    <3> HIDE DEF tagsAt
    <3> QED
      BY <1>1, <1>7, <3>1, <3>2
  <2>3. CASE ~set(anchor)
    BY <1>1, <1>7, <2>1, <2>3 DEF CountStart
  <2> QED
    BY <2>2, <2>3
<1>9. /\ RefOffsets(buf).owner = 2 + sig /\ RefOffsets(buf).target = target
      /\ RefOffsets(buf).anchor = anchor /\ RefOffsets(buf).tags = tagsAt
  BY <1>4
<1>10. 2 + sig = target + 1 - own - 1
  BY <1>1
<1>11. tagsAt \in Int
  BY <1>8
<1> HIDE DEF target, anchor, tagsAt
<1>12. RefOffsets(buf).owner = TargetStart(buf) - own - 1
  <2> HIDE DEF own
  <2> QED
    BY <1>1, <1>5, <1>9, <1>10
<1>13. /\ RefOffsets(buf).target = TargetStart(buf) - 1
       /\ RefOffsets(buf).anchor = AnchorStart(buf) - 1
       /\ RefOffsets(buf).tags = CountStart(buf) - 1
  BY <1>5, <1>7, <1>8, <1>9
<1> QED
  BY <1>2, <1>3, <1>12, <1>13

\* What stands in the bytes is a number, and the same to both.
LEMMA RefSliceNumber ==
  ASSUME NEW buf \in Seq(0..255), NEW from \in Nat, from >= 1, NEW to \in Int
  PROVE  RefByteArrayToLong(Slice(buf, from, to)) = ByteArrayToLong(Slice(buf, from, to))
<1> DEFINE s == Slice(buf, from, to)
           B == 0..255
<1>1. s \in Seq(B) /\ B \subseteq Nat
  BY SliceLies
<1> HIDE DEF s, B
<1>2. s \in Seq(Nat)
  BY <1>1, SeqOfMore
<1>3. RefByteArrayToLong(s) = ByteArrayToLong(s)
  BY <1>2, RefNumberIs
<1> QED
  BY <1>3 DEF s

\* The places that follow one another.
LEMMA StartsLie ==
  ASSUME NEW buf \in Seq(0..255), Parseable(buf)
  PROVE  /\ SigConfig[SigType(buf)].ownerLength \in Nat
         /\ TargetStart(buf) \in Nat /\ TargetStart(buf) - SigConfig[SigType(buf)].ownerLength >= 3
         /\ AnchorStart(buf) \in Nat /\ AnchorStart(buf) > TargetStart(buf)
         /\ CountStart(buf) \in Nat /\ CountStart(buf) > AnchorStart(buf)
         /\ LongLength \in Nat /\ TagsStart(buf) = CountStart(buf) + 2 * LongLength
         /\ TagsStart(buf) \in Nat /\ DeclaredIn(buf) \in Nat
<1> DEFINE sig == SigConfig[SigType(buf)].sigLength
           own == SigConfig[SigType(buf)].ownerLength
<1>1. sig \in Nat /\ own \in Nat /\ FieldLength \in Nat /\ LongLength \in Nat
  BY SigConfigAssumption, WidthsAssumption DEF Parseable
<1>2. TargetStart(buf) = 3 + sig + own
  BY DEF TargetStart
<1> HIDE DEF sig, own
<1>3. TargetStart(buf) \in Nat /\ TargetStart(buf) - own >= 3
  BY <1>1, <1>2
<1>4. AnchorStart(buf) \in Nat /\ AnchorStart(buf) > TargetStart(buf)
  BY <1>1, <1>3 DEF AnchorStart
<1>5. CountStart(buf) \in Nat /\ CountStart(buf) > AnchorStart(buf)
  BY <1>1, <1>4 DEF CountStart
<1>6. TagsStart(buf) = CountStart(buf) + 2 * LongLength /\ TagsStart(buf) \in Nat
  BY <1>1, <1>5 DEF TagsStart
<1>7. DeclaredIn(buf) \in Nat
  <2> DEFINE from == CountStart(buf) + LongLength
             to == TagsStart(buf) - 1
  <2>1. from \in Nat /\ from >= 1 /\ to \in Int
    BY <1>1, <1>3, <1>4, <1>5, <1>6
  <2> HIDE DEF from, to
  <2>2. ByteArrayToLong(Slice(buf, from, to)) \in Nat
    BY <2>1, SliceIsNumber
  <2> QED
    BY <2>2 DEF DeclaredIn, from, to
<1> QED
  BY <1>1, <1>3, <1>4, <1>5, <1>6, <1>7 DEF own

\* A field's bytes, or none, are between the offsets of it and of the next.
LEMMA RefFieldIs ==
  ASSUME NEW buf \in Seq(0..255), NEW at \in Nat, at >= 1,
         NEW next, next = at + (IF Present(buf, at) THEN 1 + FieldLength ELSE 1)
  PROVE  Part(buf, (at - 1) + 1, next - 1) =
            IF Present(buf, at) THEN Slice(buf, at + 1, at + FieldLength) ELSE <<>>
<1>0. FieldLength \in Nat
  BY WidthsAssumption
<1>1. CASE Present(buf, at)
  <2>1. (at - 1) + 1 + 1 = at + 1 /\ next - 1 = at + FieldLength
    BY <1>0, <1>1
  <2> QED
    BY <1>1, <2>1 DEF Part
<1>2. CASE ~Present(buf, at)
  <2>1. (at - 1) + 1 + 1 = at + 1 /\ next - 1 = at /\ at + 1 \in Nat /\ at \in Int /\ at < at + 1
    BY <1>2
  <2>2. Slice(buf, at + 1, at) = <<>>
    BY <2>1, SliceEmpty
  <2> QED
    BY <1>2, <2>1, <2>2 DEF Part
<1> QED
  BY <1>1, <1>2

\* verifyDataItem() of the reference finds the tags where the package does.
LEMMA RefTagsAre ==
  ASSUME NEW buf \in Seq(0..255), RefParseable(buf), 1 \in DOMAIN SigConfig
  PROVE  /\ RefTagCount(buf) = ParseDataItem(buf).tagCount
         /\ RefTagBytesLen(buf) = ParseDataItem(buf).declared
         /\ RefRawTags(buf) = ParseDataItem(buf).rawTags
<1> DEFINE C == CountStart(buf)
           T == TagsStart(buf)
           LL == LongLength
<1>1. Parseable(buf) /\ RefOffsets(buf).tags = C - 1
  BY RefPlaces
<1>2. C \in Nat /\ C >= 1 /\ LL \in Nat /\ T = C + 2 * LL /\ T \in Nat /\ DeclaredIn(buf) \in Nat
  BY <1>1, StartsLie
<1> HIDE DEF C, T, LL
<1>3. RefTagCount(buf) = ByteArrayToLong(Slice(buf, C, C + LL - 1))
  <2>1. C - 1 + 1 = C /\ C - 1 + LL = C + LL - 1 /\ C + LL - 1 \in Int
    BY <1>2
  <2>2. RefByteArrayToLong(Slice(buf, C, C + LL - 1)) = ByteArrayToLong(Slice(buf, C, C + LL - 1))
    BY <1>2, <2>1, RefSliceNumber
  <2> QED
    BY <1>1, <2>1, <2>2 DEF RefTagCount, Part, LL
<1>4. RefTagBytesLen(buf) = DeclaredIn(buf)
  <2>1. C - 1 + LL + 1 = C + LL /\ C - 1 + LL + LL = T - 1 /\ T - 1 \in Int /\ C + LL \in Nat /\ C + LL >= 1
    BY <1>2
  <2>2. RefByteArrayToLong(Slice(buf, C + LL, T - 1)) = ByteArrayToLong(Slice(buf, C + LL, T - 1))
    BY <2>1, RefSliceNumber
  <2> QED
    BY <1>1, <2>1, <2>2 DEF RefTagBytesLen, Part, DeclaredIn, LL, C, T
<1>5. RefRawTags(buf) = Slice(buf, T, T + DeclaredIn(buf) - 1)
  <2>1. C - 1 + 2 * LL + 1 = T /\ C - 1 + 2 * LL + DeclaredIn(buf) = T + DeclaredIn(buf) - 1
    BY <1>2
  <2> QED
    BY <1>1, <1>4, <2>1 DEF RefRawTags, Part, LL
<1> QED
  BY <1>3, <1>4, <1>5, ParsedIs DEF C, T, LL

\* getSignatureData() of either, for any binary that both can parse: the same
\* bytes are hashed in the same order, an absent target or anchor as an empty
\* blob.
THEOREM SameMessage ==
  ASSUME NEW buf \in Seq(0..255), RefParseable(buf), 1 \in DOMAIN SigConfig
  PROVE  SignatureData(ParseDataItem(buf)) = RefSignatureData(buf)
<1> DEFINE A == AnchorStart(buf)
           C == CountStart(buf)
           T == TagsStart(buf)
           S == TargetStart(buf)
           own == SigConfig[1].ownerLength
           p == ParseDataItem(buf)
           at == RefOffsets(buf)
           rest == at.tags + 2 * LongLength + RefTagBytesLen(buf)
           text == Utf8Encode(<<100, 97, 116, 97, 105, 116, 101, 109>>)
           one == <<49>>
           said == <<text, one, one, p.owner, p.target, p.anchor, p.rawTags, p.data>>
<1>1. /\ Parseable(buf) /\ SigType(buf) = 1
      /\ at.owner = S - own - 1 /\ at.target = S - 1 /\ at.anchor = A - 1 /\ at.tags = C - 1
  BY RefPlaces
<1>2. /\ own \in Nat /\ S \in Nat /\ S - own >= 3 /\ A \in Nat /\ A > S /\ C \in Nat /\ C > A
      /\ LongLength \in Nat /\ T = C + 2 * LongLength /\ T \in Nat /\ DeclaredIn(buf) \in Nat
  BY <1>1, StartsLie
<1>3. /\ p.type = 1
      /\ p.owner = Slice(buf, S - own, S - 1)
      /\ p.target = IF Present(buf, S) THEN Slice(buf, S + 1, S + FieldLength) ELSE <<>>
      /\ p.anchor = IF Present(buf, A) THEN Slice(buf, A + 1, A + FieldLength) ELSE <<>>
      /\ p.declared = DeclaredIn(buf)
      /\ p.data = Slice(buf, T + DeclaredIn(buf), Len(buf))
  BY <1>1, ParsedIs
<1>4. Part(buf, at.owner, at.target) = p.owner
  <2>1. S - own - 1 + 1 = S - own
    BY <1>2
  <2> HIDE DEF p, at, S, own
  <2> QED
    BY <1>1, <1>3, <2>1 DEF Part
<1>5. Part(buf, at.target + 1, at.anchor) = p.target
  <2>1. A = S + (IF Present(buf, S) THEN 1 + FieldLength ELSE 1) /\ S >= 1
    BY <1>2 DEF AnchorStart
  <2> HIDE DEF p, at, S, A
  <2>2. Part(buf, (S - 1) + 1, A - 1) = IF Present(buf, S) THEN Slice(buf, S + 1, S + FieldLength) ELSE <<>>
    BY <1>2, <2>1, RefFieldIs
  <2> QED
    BY <1>1, <1>3, <2>2
<1>6. Part(buf, at.anchor + 1, at.tags) = p.anchor
  <2>1. C = A + (IF Present(buf, A) THEN 1 + FieldLength ELSE 1) /\ A >= 1
    BY <1>2 DEF CountStart
  <2> HIDE DEF p, at, A, C
  <2>2. Part(buf, (A - 1) + 1, C - 1) = IF Present(buf, A) THEN Slice(buf, A + 1, A + FieldLength) ELSE <<>>
    BY <1>2, <2>1, RefFieldIs
  <2> QED
    BY <1>1, <1>3, <2>2
<1>7. RefRawTags(buf) = p.rawTags /\ RefTagBytesLen(buf) = DeclaredIn(buf)
  BY <1>3, RefTagsAre
<1>8. Part(buf, rest, Len(buf)) = p.data
  <2>1. C - 1 + 2 * LongLength + DeclaredIn(buf) + 1 = T + DeclaredIn(buf)
    BY <1>2
  <2>2. rest + 1 = T + DeclaredIn(buf)
    BY <1>1, <1>7, <2>1
  <2> HIDE DEF p, rest
  <2> QED
    BY <1>3, <2>2 DEF Part
<1> HIDE DEF at, rest
<1>9. RefSignatureData(buf) = RefDeepHash(said)
  <2> HIDE DEF p
  <2> QED
    BY <1>4, <1>5, <1>6, <1>7, <1>8, Zenon DEF RefSignatureData, at, rest
<1>10. Utf8Encode(<<49>>) = one /\ Utf8Encode(<<48 + p.type>>) = one
  <2>1. 48 + p.type = 49
    BY <1>3
  <2>2. Utf8Encode(<<49>>) = <<49>>
    BY DigitIsByte
  <2> HIDE DEF p
  <2> QED
    BY <2>1, <2>2
<1>11. SignatureDataChunks(p) = said
  <2> HIDE DEF p
  <2> QED
    BY <1>10, Zenon DEF SignatureDataChunks
<1>12. Len(said) = 8 /\ Len(said) \in Nat /\ DOMAIN said = 1..Len(said)
  <2> HIDE DEF p, text, one
  <2> QED
    OBVIOUS
<1> HIDE DEF p, said
<1>13. RefDeepHash(said) = DeepHashList([i \in DOMAIN said |-> Blob(said[i])])
  BY <1>12, RefHashIs
<1> QED
  BY <1>9, <1>11, <1>13 DEF SignatureData, p

---------------------------------------------------------------------------
(* The reference implementation: what it writes of tags *)

\* RefWriteVarLong's recursive function.
RefVarintAt(f, m) == IF m \div 128 = 0 THEN <<m % 128>> ELSE <<128 + (m % 128)>> \o f[m \div 128]
RefVarints(f) == f = [m \in Nat |-> RefVarintAt(f, m)]

\* Nothing is left of a number of seven bits, and less than the number of a
\* longer one.
LEMMA RefVarintStep ==
  ASSUME NEW m \in Nat
  PROVE  /\ m < 128 => m \div 128 = 0 /\ m % 128 = m
         /\ ~(m < 128) => m \div 128 # 0 /\ m \div 128 \in 0..(m - 1)
         /\ m \div 128 \in Nat
  OBVIOUS

\* writeVarLong() of either writes the same bytes.
LEMMA RefWriteIs ==
  ASSUME NEW n \in Int
  PROVE  RefWriteVarLong(n) = WriteVarLong(n)
<1> DEFINE g == VarintDigits
           h == CHOOSE h : RefVarints(h)
           v == [m \in Nat |-> g[m]]
           z == IF n >= 0 THEN n * 2 ELSE 0 - n * 2 - 1
<1>1. ASSUME NEW m \in Nat PROVE g[m] = RefVarintAt(g, m)
  <2>1. CASE m < 128
    <3>1. m \div 128 = 0 /\ m % 128 = m
      BY <2>1, RefVarintStep
    <3>2. g[m] = <<m>>
      BY <2>1, VarintUnfolds DEF VarintBase
    <3> QED
      BY <3>1, <3>2 DEF RefVarintAt
  <2>2. CASE ~(m < 128)
    <3>1. m \div 128 # 0
      BY <2>2, RefVarintStep
    <3>2. g[m] = <<128 + (m % 128)>> \o g[m \div 128]
      BY <2>2, VarintUnfolds DEF VarintBase
    <3> QED
      BY <3>1, <3>2 DEF RefVarintAt
  <2> QED
    BY <2>1, <2>2
<1> HIDE DEF g
<1>2. RefVarints(v)
  <2>1. ASSUME NEW m \in Nat PROVE v[m] = RefVarintAt(v, m)
    <3>1. m \div 128 \in Nat
      BY RefVarintStep
    <3>2. v[m \div 128] = g[m \div 128] /\ v[m] = g[m]
      BY <3>1
    <3> HIDE DEF v
    <3>3. RefVarintAt(v, m) = RefVarintAt(g, m)
      BY <3>2 DEF RefVarintAt
    <3> QED
      BY <1>1, <3>2, <3>3
  <2>2. v = [m \in Nat |-> v[m]]
    OBVIOUS
  <2> HIDE DEF v
  <2>3. v = [m \in Nat |-> RefVarintAt(v, m)]
    BY <2>1, <2>2
  <2> QED
    BY <2>3 DEF RefVarints
<1>3. RefVarints(h)
  BY <1>2
<1>4. RefWriteVarLong(n) = h[z]
  BY Zenon DEF RefWriteVarLong, RefVarints, RefVarintAt
<1> HIDE DEF h
<1>5. \A m \in Nat : h[m] = RefVarintAt(h, m)
  BY <1>3 DEF RefVarints
<1> DEFINE S == {m \in Nat : h[m] = g[m]}
<1>6. ASSUME NEW m \in Nat, \A k \in 0..(m - 1) : k \in S PROVE m \in S
  <2>1. m \div 128 # 0 => m \div 128 \in S
    BY <1>6, RefVarintStep
  <2>2. m \div 128 # 0 => h[m \div 128] = g[m \div 128]
    BY <2>1
  <2>3. RefVarintAt(h, m) = RefVarintAt(g, m)
    BY <2>2 DEF RefVarintAt
  <2> QED
    BY <1>1, <1>5, <2>3
<1>7. Nat \subseteq S
  <2> HIDE DEF S
  <2> QED
    BY <1>6, Induction
<1>8. z \in Nat /\ z = IF n >= 0 THEN 2 * n ELSE 0 - 2 * n - 1
  OBVIOUS
<1> HIDE DEF z
<1>9. h[z] = g[z]
  BY <1>7, <1>8
<1>10. WriteVarLong(n) = g[z]
  BY <1>8 DEF WriteVarLong, g
<1> QED
  BY <1>4, <1>9, <1>10

\* RefHandRolled's recursive function.
RefLow(n) == 128 + (n % 64)
RefPair(s, i) == 65536 + (s[i] % 1024) * 1024 + (s[i + 1] % 1024)
RefTwo(c) == <<192 + c \div 64, RefLow(c)>>
RefThree(c) == <<224 + c \div 4096, RefLow(c \div 64), RefLow(c)>>
RefFour(c) == <<240 + c \div 262144, RefLow(c \div 4096), RefLow(c \div 64), RefLow(c)>>
Cat(a, b) == a \o b
RefBytesAt(f, i, s) ==
    IF i > Len(s) THEN <<>>
    ELSE IF s[i] < 128 THEN Cat(<<s[i]>>, f[i + 1])
    ELSE IF s[i] < 2048 THEN Cat(RefTwo(s[i]), f[i + 1])
    ELSE IF IsPair(s, i) THEN Cat(RefFour(RefPair(s, i)), f[i + 2])
    ELSE Cat(RefThree(s[i]), f[i + 1])
RefBytes(f, s) == f = [i \in 1..(Len(s) + 2) |-> RefBytesAt(f, i, s)]

\* The ten low bits of the halves of a pair.
LEMMA RefPairIs ==
  ASSUME NEW s \in Seq(CodeUnits), NEW i \in 1..Len(s), IsPair(s, i)
  PROVE  RefPair(s, i) = PairAt(s, i)
<1>1. i < Len(s) /\ i + 1 \in 1..Len(s) /\ IsHigh(s[i]) /\ IsLow(s[i + 1])
  BY DEF IsPair
<1>2. s[i] \in Int /\ s[i + 1] \in Int
  BY <1>1, ElementOf DEF CodeUnits
<1>3. s[i] >= 55296 /\ s[i] <= 56319 /\ s[i + 1] >= 56320 /\ s[i + 1] <= 57343
  BY <1>1, <1>2, HighLies, LowLies, SMT
<1>4. s[i] % 1024 = s[i] - 55296 /\ s[i + 1] % 1024 = s[i + 1] - 56320
  BY <1>2, <1>3, SMT
<1> QED
  BY <1>4 DEF RefPair, PairAt

\* One code point's bytes, as Utf8Of has them.
LEMMA RefPointBytes ==
  ASSUME NEW c \in Points
  PROVE  /\ c < 128 => Utf8Of(c) = <<c>>
         /\ ~(c < 128) /\ c < 2048 => Utf8Of(c) = RefTwo(c)
         /\ ~(c < 128) /\ ~(c < 2048) /\ c < 65536 => Utf8Of(c) = RefThree(c)
         /\ ~(c < 128) /\ ~(c < 2048) /\ ~(c < 65536) => Utf8Of(c) = RefFour(c)
<1>1. \A unit \in {1, 64, 4096} : Continuation(c, unit) = RefLow(c \div unit)
  BY DEF Continuation, RefLow
<1>2. c \div 1 = c
  BY DEF Points
<1>3. Continuation(c, 1) = RefLow(c)
  BY <1>1, <1>2
<1> QED
  BY <1>1, <1>3 DEF Utf8Of, RefTwo, RefThree, RefFour

\* The bytes of the first code point, and of the rest.
LEMMA FirstEncoded ==
  ASSUME NEW p \in Seq(Points), NEW c \in Points, NEW q, q = Cat(<<c>>, p)
  PROVE  Encoded(q) = Cat(Utf8Of(c), Encoded(p))
BY EncodedUnfolds, Zenon DEF Cat

\* The step of the reference's loop, when what follows is encoded.
LEMMA RefBytesStep ==
  ASSUME NEW s \in Seq(CodeUnits), NEW i \in 1..Len(s), NEW f, NEW g,
         f[i] = TextAt(f, i, s), f[i + 1] \in Seq(Points), f[i + 2] \in Seq(Points),
         g[i + 1] = Encoded(f[i + 1]), g[i + 2] = Encoded(f[i + 2])
  PROVE  Encoded(f[i]) = RefBytesAt(g, i, s)
<1>1. ~(i > Len(s)) /\ s[i] \in Nat /\ s[i] < 65536 /\ s[i] \in Points
  BY ElementOf DEF CodeUnits, Points
<1>2. CASE IsPair(s, i)
  <2> DEFINE c == RefPair(s, i)
  <2>1. c = PairAt(s, i) /\ c \in Points /\ c >= 65536 /\ s[i] >= 2048
    BY <1>2, PairIsPoint, RefPairIs
  <2>2. f[i] = Cat(<<c>>, f[i + 2])
    BY <1>1, <1>2, <2>1 DEF TextAt, Cat
  <2> HIDE DEF c
  <2>3. ~(c < 65536) /\ ~(c < 128) /\ ~(c < 2048) /\ ~(s[i] < 128) /\ ~(s[i] < 2048)
    BY <1>1, <2>1 DEF Points
  <2>4. Encoded(f[i]) = Cat(Utf8Of(c), Encoded(f[i + 2]))
    BY <2>1, <2>2, FirstEncoded
  <2>5. Utf8Of(c) = RefFour(c)
    BY <2>1, <2>3, RefPointBytes
  <2>6. RefBytesAt(g, i, s) = Cat(RefFour(c), g[i + 2])
    BY <1>1, <1>2, <2>3 DEF RefBytesAt, c
  <2> QED
    BY <2>4, <2>5, <2>6
<1>3. CASE ~IsPair(s, i)
  <2>1. f[i] = Cat(<<s[i]>>, f[i + 1])
    BY <1>1, <1>3 DEF TextAt, Cat
  <2>2. Encoded(f[i]) = Cat(Utf8Of(s[i]), Encoded(f[i + 1]))
    BY <1>1, <2>1, FirstEncoded
  <2>3. CASE s[i] < 128
    BY <1>1, <2>2, <2>3, RefPointBytes DEF RefBytesAt
  <2>4. CASE ~(s[i] < 128) /\ s[i] < 2048
    BY <1>1, <2>2, <2>4, RefPointBytes DEF RefBytesAt
  <2>5. CASE ~(s[i] < 128) /\ ~(s[i] < 2048)
    BY <1>1, <1>3, <2>2, <2>5, RefPointBytes DEF RefBytesAt
  <2> QED
    BY <2>3, <2>4, <2>5
<1> QED
  BY <1>2, <1>3

\* The reference's loop over code units writes the bytes of the code points.
LEMMA RefHandRolledIs ==
  ASSUME NEW s \in Seq(CodeUnits)
  PROVE  RefHandRolled(s) = WtfEncode(s)
<1> DEFINE L == Len(s)
           h == CHOOSE h : RefBytes(h, s)
<1>0. L \in Nat /\ \A i \in 1..L : s[i] \in CodeUnits
  BY ElementOf
<1>1. PICK f : ReadsText(f, 1, s) /\ CodePoints(s) = f[1]
  BY CodePointsAre
<1>2. /\ \A i \in 1..(L + 2) : f[i] = TextAt(f, i, s)
      /\ \A i \in 1..(L + 2) : f[i] \in Seq(Points)
  BY <1>1, ReadsTextAt, PointsRead
<1> DEFINE g == [i \in 1..(L + 2) |-> Encoded(f[i])]
<1>3. ASSUME NEW i \in 1..(L + 2) PROVE g[i] = RefBytesAt(g, i, s)
  <2>1. CASE i > L
    <3>1. f[i] = <<>>
      BY <1>2, <2>1 DEF TextAt
    <3>2. g[i] = <<>>
      BY <3>1, EncodedUnfolds
    <3> QED
      BY <2>1, <3>2 DEF RefBytesAt
  <2>2. CASE ~(i > L)
    <3>1. /\ i \in 1..L /\ i + 1 \in 1..(L + 2) /\ i + 2 \in 1..(L + 2)
          /\ s[i] \in CodeUnits
      BY <1>0, <2>2
    <3>2. /\ g[i] = Encoded(f[i]) /\ g[i + 1] = Encoded(f[i + 1]) /\ g[i + 2] = Encoded(f[i + 2])
          /\ f[i + 1] \in Seq(Points) /\ f[i + 2] \in Seq(Points)
      BY <1>2, <3>1
    <3> HIDE DEF g
    <3> QED
      BY <1>2, <3>1, <3>2, RefBytesStep
  <2> QED
    BY <2>1, <2>2
<1>4. RefBytes(g, s)
  <2>1. g = [i \in 1..(L + 2) |-> g[i]]
    OBVIOUS
  <2> HIDE DEF g
  <2>2. g = [i \in 1..(L + 2) |-> RefBytesAt(g, i, s)]
    BY <1>3, <2>1
  <2> QED
    BY <2>2 DEF RefBytes
<1>5. RefBytes(h, s)
  BY <1>4
<1>6. RefHandRolled(s) = h[1]
  BY SMT DEF RefHandRolled, RefBytes, RefBytesAt, RefLow, RefPair, RefTwo, RefThree, RefFour, Cat
<1> HIDE DEF h
<1>7. \A i \in 1..(L + 2) : h[i] = RefBytesAt(h, i, s)
  BY <1>5 DEF RefBytes
<1> DEFINE S == {n \in Nat : n <= L + 1 => g[L + 2 - n] = h[L + 2 - n]}
<1>8. ASSUME NEW n \in Nat, \A m \in 0..(n - 1) : m \in S PROVE n \in S
  <2> DEFINE i == L + 2 - n
  <2> SUFFICES ASSUME n <= L + 1 PROVE g[i] = h[i]
    OBVIOUS
  <2>1. i \in 1..(L + 2)
    BY <1>0
  <2>2. ~(i > L) => /\ n - 1 \in 0..(n - 1) /\ n - 1 <= L + 1 /\ L + 2 - (n - 1) = i + 1
                    /\ n - 2 \in 0..(n - 1) /\ n - 2 <= L + 1 /\ L + 2 - (n - 2) = i + 2
    BY <1>0
  <2> HIDE DEF g
  <2>3. ~(i > L) => g[i + 1] = h[i + 1] /\ g[i + 2] = h[i + 2]
    <3> SUFFICES ASSUME ~(i > L) PROVE g[i + 1] = h[i + 1] /\ g[i + 2] = h[i + 2]
      OBVIOUS
    <3>1. n - 1 \in S /\ n - 2 \in S
      BY <1>8, <2>2
    <3> HIDE DEF i
    <3> QED
      BY <2>2, <3>1
  <2> HIDE DEF i
  <2>4. RefBytesAt(g, i, s) = RefBytesAt(h, i, s)
    BY <2>3 DEF RefBytesAt
  <2> QED
    BY <1>3, <1>7, <2>1, <2>4
<1>9. Nat \subseteq S
  <2> HIDE DEF S
  <2> QED
    BY <1>8, Induction
<1>10. h[1] = g[1]
  <2>1. L + 1 \in Nat /\ L + 1 <= L + 1 /\ L + 2 - (L + 1) = 1
    BY <1>0
  <2>2. L + 1 \in S
    <3> HIDE DEF S
    <3> QED
      BY <1>9, <2>1
  <2> HIDE DEF g
  <2> QED
    BY <2>1, <2>2
<1>11. 1 \in 1..(L + 2)
  BY <1>0
<1> QED
  BY <1>1, <1>6, <1>10, <1>11 DEF WtfEncode

\* Bytes put together in either order.
LEMMA CatIs ==
  ASSUME NEW a \in Seq(0..255), NEW b \in Seq(0..255)
  PROVE  /\ Cat(a, b) \in Seq(0..255)
         /\ \A c \in Seq(0..255) : Cat(Cat(a, b), c) = Cat(a, Cat(b, c))
BY Concatenates DEF Cat

\* A string is pushed with its length: the bytes that WriteString has for it.
RefPushed(out, s) == out \o RefWriteVarLong(Len(Utf8Encode(s))) \o RefEncodeStringBytes(s)

\* What is pushed for a string, after what was pushed before.
LEMMA RefPushedIs ==
  ASSUME NEW s \in Seq(CodeUnits), NEW out \in Seq(0..255)
  PROVE  RefPushed(out, s) = Cat(out, WriteString(s)) /\ WriteString(s) \in Seq(0..255)
<1> DEFINE a == RefWriteVarLong(Len(Utf8Encode(s)))
           b == RefEncodeStringBytes(s)
<1>1. Len(Utf8Encode(s)) = Utf8ByteLength(s) /\ Utf8ByteLength(s) \in Nat
  BY LengthIsDeclared, StringLies
<1>2. a = WriteVarLong(Utf8ByteLength(s)) /\ a \in Seq(0..255)
  <2>1. RefWriteVarLong(Utf8ByteLength(s)) = WriteVarLong(Utf8ByteLength(s))
    BY <1>1, RefWriteIs
  <2>2. WriteVarLong(Utf8ByteLength(s)) \in Seq(0..255)
    BY <1>1, VarLongLies
  <2> QED
    BY <1>1, <2>1, <2>2
<1>3. b = EncodeStringBytes(s) /\ b \in Seq(0..255)
  <2>1. b = EncodeStringBytes(s)
    BY <1>1, RefHandRolledIs DEF RefEncodeStringBytes, EncodeStringBytes
  <2> QED
    BY <2>1, StringLies
<1>4. RefPushed(out, s) = Cat(Cat(out, a), b) /\ WriteString(s) = Cat(a, b)
  <2>1. RefPushed(out, s) = Cat(Cat(out, a), b)
    BY Zenon DEF RefPushed, Cat
  <2>2. WriteString(s) = Cat(WriteVarLong(Utf8ByteLength(s)), EncodeStringBytes(s))
    BY Zenon DEF WriteString, Cat
  <2> HIDE DEF a, b
  <2> QED
    BY <1>2, <1>3, <2>1, <2>2
<1> HIDE DEF a, b
<1>5. Cat(Cat(out, a), b) = Cat(out, Cat(a, b))
  BY <1>2, <1>3, CatIs
<1> QED
  BY <1>4, <1>5, StringLies

\* What RefSerializeTags' recursive function is.
RefOutAt(f, i, list) ==
    IF i = 0 THEN RefWriteVarLong(Len(list))
    ELSE RefPushed(RefPushed(f[i - 1], list[i].name), list[i].value)
RefOuts(f, list) == f = [i \in 0..Len(list) |-> RefOutAt(f, i, list)]

\* Byte after byte, the tags are written as serializeTags() of the package
\* joins them.
LEMMA RefSerializeIs ==
  ASSUME NEW list \in Seq(Tag)
  PROVE  RefSerializeTags(list) = SerializeTags(list)
<1> DEFINE n == Len(list)
           ss == [k \in DOMAIN list |-> TagBytes(list[k])]
           W == WriteVarLong(n)
           h == CHOOSE h : RefOuts(h, list)
<1>0. n \in Nat /\ DOMAIN list = 1..n /\ \A i \in 1..n : list[i] \in Tag
  BY ElementOf
<1>1. ss \in Seq(Seq(0..255)) /\ Len(ss) = n /\ \A i \in 1..n : ss[i] = TagBytes(list[i])
  <2> DEFINE B == Seq(0..255)
  <2>1. \A i \in 1..n : TagBytes(list[i]) \in B
    BY <1>0, TagLies
  <2> HIDE DEF B, n
  <2>2. ss \in [1..n -> B]
    BY <1>0, <2>1
  <2>3. ss \in Seq(B) /\ Len(ss) = n
    <3> HIDE DEF ss
    <3> QED
      BY <1>0, <2>2, FunctionIsSeq
  <2> QED
    BY <1>0, <2>3 DEF B
<1>2. W \in Seq(0..255) /\ RefWriteVarLong(n) = W
  BY <1>0, VarLongLies, RefWriteIs
<1> HIDE DEF ss
<1>3. PICK F : /\ Flattens(F, Len(ss), ss)
               /\ Len(ss) = 0 => FlattenSeq(ss) = <<>>
               /\ Len(ss) # 0 => FlattenSeq(ss) = F[Len(ss)]
  BY <1>1, FlattenSeqIs
<1>4. \A i \in 1..n : F[i] = IF i = 1 THEN ss[i] ELSE Cat(F[i - 1], ss[i])
  <2>1. \A i \in 1..n : F[i] = FlatAt(F, i, ss)
    BY <1>1, <1>3, FlattensAt
  <2>2. \A i : FlatAt(F, i, ss) = IF i = 1 THEN ss[i] ELSE Cat(F[i - 1], ss[i])
    BY Zenon DEF FlatAt, Cat
  <2> QED
    BY <2>1, <2>2
<1>5. \A i \in 1..n : ss[i] \in Seq(0..255)
  BY <1>0, <1>1, TagLies
<1> DEFINE P == {i \in Nat : i \in 1..n => F[i] \in Seq(0..255)}
<1>6. \A i \in 1..n : F[i] \in Seq(0..255)
  <2>1. ASSUME NEW i \in Nat, \A m \in 0..(i - 1) : m \in P PROVE i \in P
    <3> SUFFICES ASSUME i \in 1..n PROVE F[i] \in Seq(0..255)
      OBVIOUS
    <3>1. CASE i = 1
      BY <1>4, <1>5, <3>1
    <3>2. CASE i # 1
      <4>1. i - 1 \in 0..(i - 1) /\ i - 1 \in 1..n
        BY <1>0, <3>2
      <4>2. F[i - 1] \in Seq(0..255)
        BY <2>1, <4>1
      <4>3. Cat(F[i - 1], ss[i]) \in Seq(0..255)
        BY <1>5, <4>2, CatIs
      <4> QED
        BY <1>4, <3>2, <4>3
    <3> QED
      BY <3>1, <3>2
  <2>2. Nat \subseteq P
    <3> HIDE DEF P
    <3> QED
      BY <2>1, Induction
  <2>3. \A i \in 1..n : i \in Nat
    OBVIOUS
  <2> QED
    BY <2>2, <2>3
<1> DEFINE g == [i \in 0..n |-> IF i = 0 THEN W ELSE Cat(W, F[i])]
<1>7. ASSUME NEW i \in 0..n PROVE g[i] = RefOutAt(g, i, list)
  <2>1. CASE i = 0
    BY <1>2, <2>1 DEF RefOutAt
  <2>2. CASE i # 0
    <3> DEFINE t == list[i]
               a == WriteString(t.name)
               b == WriteString(t.value)
    <3>1. i \in 1..n /\ i - 1 \in 0..n /\ t \in Tag
      BY <1>0, <2>2
    <3>2. g[i - 1] \in Seq(0..255) /\ g[i] = Cat(W, F[i])
      <4>1. CASE i = 1
        BY <1>2, <3>1, <4>1
      <4>2. CASE i # 1
        <5>1. i - 1 \in 1..n /\ i - 1 # 0
          BY <3>1, <4>2
        <5>2. F[i - 1] \in Seq(0..255)
          BY <1>6, <5>1
        <5>3. Cat(W, F[i - 1]) \in Seq(0..255)
          BY <1>2, <5>2, CatIs
        <5> HIDE DEF W
        <5> QED
          BY <2>2, <3>1, <5>1, <5>3
      <4> QED
        BY <4>1, <4>2
    <3>3. /\ t.name \in Seq(CodeUnits) /\ t.value \in Seq(CodeUnits)
          /\ a \in Seq(0..255) /\ b \in Seq(0..255)
      BY <3>1, TagLies, StringLies
    <3>4. ss[i] = Cat(a, b) /\ ss[i] \in Seq(0..255)
      BY <1>1, <1>5, <3>1 DEF TagBytes, Cat
    <3>5. g[i] = Cat(g[i - 1], ss[i])
      <4>1. CASE i = 1
        <5>1. g[i - 1] = W
          BY <3>1, <4>1
        <5>2. F[i] = ss[i]
          BY <1>4, <3>1, <4>1
        <5> HIDE DEF g, W
        <5> QED
          BY <3>2, <5>1, <5>2
      <4>2. CASE i # 1
        <5>1. i - 1 \in 1..n /\ i - 1 # 0
          BY <3>1, <4>2
        <5>2. g[i - 1] = Cat(W, F[i - 1])
          BY <3>1, <5>1
        <5>3. F[i] = Cat(F[i - 1], ss[i])
          BY <1>4, <3>1, <4>2
        <5>4. F[i - 1] \in Seq(0..255)
          BY <1>6, <5>1
        <5> HIDE DEF g, W
        <5>5. Cat(Cat(W, F[i - 1]), ss[i]) = Cat(W, Cat(F[i - 1], ss[i]))
          BY <1>2, <3>4, <5>4, CatIs
        <5> QED
          BY <3>2, <5>2, <5>3, <5>5
      <4> QED
        BY <4>1, <4>2
    <3> HIDE DEF g, t
    <3>6. RefPushed(g[i - 1], t.name) = Cat(g[i - 1], a) /\ Cat(g[i - 1], a) \in Seq(0..255)
      BY <3>2, <3>3, RefPushedIs, CatIs
    <3>7. RefPushed(Cat(g[i - 1], a), t.value) = Cat(Cat(g[i - 1], a), b)
      BY <3>3, <3>6, RefPushedIs
    <3>8. Cat(Cat(g[i - 1], a), b) = Cat(g[i - 1], Cat(a, b))
      BY <3>2, <3>3, CatIs
    <3>9. RefOutAt(g, i, list) = RefPushed(RefPushed(g[i - 1], t.name), t.value)
      BY <2>2 DEF RefOutAt, t
    <3> QED
      BY <3>4, <3>5, <3>6, <3>7, <3>8, <3>9
  <2> QED
    BY <2>1, <2>2
<1>8. RefOuts(g, list)
  <2>1. g = [i \in 0..n |-> g[i]]
    OBVIOUS
  <2> HIDE DEF g
  <2>2. g = [i \in 0..n |-> RefOutAt(g, i, list)]
    BY <1>7, <2>1
  <2> QED
    BY <2>2 DEF RefOuts
<1>9. RefOuts(h, list)
  BY <1>8
<1>10. list # <<>> => RefSerializeTags(list) = h[n] \o RefWriteVarLong(0)
  BY Zenon DEF RefSerializeTags, RefOuts, RefOutAt, RefPushed
<1> HIDE DEF h
<1>11. \A i \in 0..n : h[i] = RefOutAt(h, i, list)
  BY <1>9 DEF RefOuts
<1> DEFINE S == {k \in Nat : k \in 0..n => h[k] = g[k]}
<1>12. ASSUME NEW k \in Nat, \A m \in 0..(k - 1) : m \in S PROVE k \in S
  <2> SUFFICES ASSUME k \in 0..n PROVE h[k] = g[k]
    OBVIOUS
  <2>1. k # 0 => k - 1 \in 0..(k - 1) /\ k - 1 \in 0..n
    BY <1>0
  <2>2. k # 0 => h[k - 1] = g[k - 1]
    BY <1>12, <2>1
  <2> HIDE DEF g
  <2>3. RefOutAt(h, k, list) = RefOutAt(g, k, list)
    BY <2>2 DEF RefOutAt
  <2> QED
    BY <1>7, <1>11, <2>3
<1>13. Nat \subseteq S
  <2> HIDE DEF S
  <2> QED
    BY <1>12, Induction
<1>14. h[n] = g[n]
  <2>1. n \in S /\ n \in 0..n
    <3>1. n \in 0..n
      BY <1>0
    <3> HIDE DEF S
    <3> QED
      BY <1>0, <1>13, <3>1
  <2> HIDE DEF g
  <2> QED
    BY <2>1
<1>15. CASE list = <<>>
  BY <1>15 DEF RefSerializeTags, SerializeTags
<1>16. CASE list # <<>>
  <2>1. n # 0 /\ n \in 0..n
    BY <1>0, <1>16
  <2>2. g[n] = Cat(W, F[n])
    BY <2>1
  <2>3. TagsBytes(list) = F[n]
    BY <1>1, <1>3, <2>1 DEF TagsBytes, ss
  <2> HIDE DEF g, W
  <2>4. RefWriteVarLong(0) = WriteVarLong(0) /\ WriteVarLong(0) \in Seq(0..255)
    BY RefWriteIs, VarLongLies
  <2>5. RefSerializeTags(list) = Cat(Cat(W, F[n]), WriteVarLong(0))
    BY <1>10, <1>14, <1>16, <2>2, <2>4, Zenon DEF Cat
  <2>6. SerializeTags(list) = Cat(W, Cat(TagsBytes(list), WriteVarLong(0)))
    BY <1>16, RegionIs, Zenon DEF Cat, W
  <2>7. F[n] \in Seq(0..255)
    BY <1>0, <1>6, <2>1
  <2> QED
    BY <1>2, <2>3, <2>4, <2>5, <2>6, <2>7, CatIs
<1> QED
  BY <1>15, <1>16

---------------------------------------------------------------------------
(* The reference implementation: the item it writes *)

\* What is written so far, and the zeros that follow.
Zeros(m) == [i \in 1..m |-> 0]
Laid(x, m) == Cat(x, Zeros(m))

\* Zeros are bytes, and none are no bytes.
LEMMA ZerosLie ==
  ASSUME NEW m \in Nat
  PROVE  /\ Zeros(m) \in Seq(0..255) /\ Len(Zeros(m)) = m
         /\ \A i \in 1..m : Zeros(m)[i] = 0
         /\ m = 0 => Zeros(m) = <<>>
<1>1. Zeros(m) \in [1..m -> 0..255]
  BY DEF Zeros
<1>2. Zeros(m) \in Seq(0..255) /\ Len(Zeros(m)) = m
  BY <1>1, FunctionIsSeq
<1>3. \A i \in 1..m : Zeros(m)[i] = 0
  BY DEF Zeros
<1> QED
  BY <1>2, <1>3

\* Element by element, bytes with zeros after them.
LEMMA LaidIs ==
  ASSUME NEW x \in Seq(0..255), NEW m \in Nat
  PROVE  /\ Laid(x, m) \in Seq(0..255) /\ Len(Laid(x, m)) = Len(x) + m
         /\ DOMAIN Laid(x, m) = 1..(Len(x) + m)
         /\ \A i \in 1..(Len(x) + m) : Laid(x, m)[i] = IF i <= Len(x) THEN x[i] ELSE 0
<1> DEFINE s == Laid(x, m)
<1>1. /\ Zeros(m) \in Seq(0..255) /\ Len(Zeros(m)) = m
      /\ \A i \in 1..m : Zeros(m)[i] = 0
  BY ZerosLie
<1>2. /\ s \in Seq(0..255) /\ Len(s) = Len(x) + m
      /\ \A i \in 1..Len(x) : s[i] = x[i]
      /\ \A i \in 1..m : s[Len(x) + i] = Zeros(m)[i]
  <2>1. s = x \o Zeros(m)
    BY Zenon DEF Laid, Cat
  <2> DEFINE z == Zeros(m)
  <2>2. z \in Seq(0..255) /\ Len(z) = m
    BY <1>1
  <2> HIDE DEF z, s
  <2>3. /\ x \o z \in Seq(0..255) /\ Len(x \o z) = Len(x) + Len(z)
        /\ \A i \in 1..Len(x) : (x \o z)[i] = x[i]
        /\ \A i \in 1..Len(z) : (x \o z)[Len(x) + i] = z[i]
    BY <2>2, Joined
  <2> QED
    BY <2>1, <2>2, <2>3 DEF z
<1>3. Len(x) \in Nat
  BY ElementOf
<1> HIDE DEF s
<1>4. DOMAIN s = 1..(Len(x) + m)
  BY <1>2, ElementOf
<1>5. ASSUME NEW i \in 1..(Len(x) + m) PROVE s[i] = IF i <= Len(x) THEN x[i] ELSE 0
  <2>1. CASE i <= Len(x)
    <3>1. i \in 1..Len(x)
      BY <1>3, <2>1
    <3> QED
      BY <1>2, <2>1, <3>1
  <2>2. CASE ~(i <= Len(x))
    <3>1. i - Len(x) \in 1..m /\ Len(x) + (i - Len(x)) = i
      BY <1>3, <2>2
    <3>2. s[Len(x) + (i - Len(x))] = 0
      BY <1>1, <1>2, <3>1
    <3> QED
      BY <2>2, <3>1, <3>2
  <2> QED
    BY <2>1, <2>2
<1> QED
  BY <1>2, <1>4, <1>5 DEF s

\* Bytes that are set where the zeros begin follow what was written.
LEMMA SetNext ==
  ASSUME NEW x \in Seq(0..255), NEW b \in Seq(0..255), NEW m \in Nat, Len(b) <= m
  PROVE  SetAt(Laid(x, m), Len(x), b) = Laid(Cat(x, b), m - Len(b))
<1> DEFINE n == Len(x)
           l == Len(b)
           xb == Cat(x, b)
           s == Laid(x, m)
           t == Laid(xb, m - l)
           u == SetAt(s, n, b)
<1>1. n \in Nat /\ l \in Nat /\ m - l \in Nat /\ DOMAIN b = 1..l /\ l <= m
  BY ElementOf
<1>2. /\ xb \in Seq(0..255) /\ Len(xb) = n + l
      /\ \A i \in 1..n : xb[i] = x[i]
      /\ \A i \in 1..l : xb[n + i] = b[i]
  BY Joined DEF Cat
<1>3. DOMAIN s = 1..(n + m) /\ \A i \in 1..(n + m) : s[i] = IF i <= n THEN x[i] ELSE 0
  BY LaidIs
<1> HIDE DEF n, l, xb, s
<1>4. /\ t \in Seq(0..255) /\ Len(t) = n + m
      /\ \A i \in 1..(n + m) : t[i] = IF i <= n + l THEN xb[i] ELSE 0
  <2>1. /\ t \in Seq(0..255) /\ Len(t) = Len(xb) + (m - l)
        /\ \A i \in 1..(Len(xb) + (m - l)) : t[i] = IF i <= Len(xb) THEN xb[i] ELSE 0
    BY <1>1, <1>2, LaidIs
  <2>2. Len(xb) + (m - l) = n + m
    BY <1>1, <1>2
  <2> QED
    BY <1>2, <2>1, <2>2
<1> HIDE DEF t
<1>5. ASSUME NEW i \in 1..(n + m)
      PROVE  (IF i - n \in DOMAIN b THEN b[i - n] ELSE s[i]) = t[i]
  <2>1. CASE i <= n
    <3>1. i - n \notin 1..l /\ i <= n + l /\ i \in 1..n
      BY <1>1, <2>1
    <3> QED
      BY <1>1, <1>2, <1>3, <1>4, <2>1, <3>1
  <2>2. CASE ~(i <= n) /\ i <= n + l
    <3>1. i - n \in 1..l /\ n + (i - n) = i
      BY <1>1, <2>2
    <3>2. xb[n + (i - n)] = b[i - n]
      BY <1>2, <3>1
    <3> QED
      BY <1>1, <1>4, <2>2, <3>1, <3>2
  <2>3. CASE ~(i <= n + l)
    <3>1. i - n \notin 1..l /\ ~(i <= n)
      BY <1>1, <2>3
    <3> QED
      BY <1>1, <1>3, <1>4, <2>3, <3>1
  <2> QED
    BY <1>1, <2>1, <2>2, <2>3
<1>6. u = [i \in 1..(n + m) |-> t[i]]
  BY <1>3, <1>5 DEF SetAt
<1>7. t = [i \in 1..(n + m) |-> t[i]]
  BY <1>4
<1>8. u = t
  BY <1>6, <1>7
<1> QED
  BY <1>8 DEF n, l, xb, s, t

\* What RefCreateDataItem's recursive function is.
RefBufAt(f, k, fields, total) ==
    IF k = 0 THEN [i \in 1..total |-> 0] ELSE SetAt(f[k - 1], fields[k].at, fields[k].bytes)
RefBufs(f, fields, total) == f = [k \in 0..Len(fields) |-> RefBufAt(f, k, fields, total)]

\* Each field follows what was written before it, or zeros that do.
RefFollows(xs, k, at, bytes) ==
    /\ bytes \in Seq(0..255) /\ xs[k - 1] \in Seq(0..255)
    /\ \E gap \in Nat :
          at = Len(xs[k - 1]) + gap /\ xs[k] = Cat(Cat(xs[k - 1], Zeros(gap)), bytes)

\* One step: what is written, with zeros up to the size of the item.
LEMMA RefBufStep ==
  ASSUME NEW xs, NEW k \in Nat, NEW at, NEW bytes, RefFollows(xs, k, at, bytes),
         NEW total \in Nat, Len(xs[k]) <= total
  PROVE  /\ SetAt(Laid(xs[k - 1], total - Len(xs[k - 1])), at, bytes) = Laid(xs[k], total - Len(xs[k]))
<1> DEFINE x == xs[k - 1]
           y == xs[k]
<1>1. PICK gap \in Nat : at = Len(x) + gap /\ y = Cat(Cat(x, Zeros(gap)), bytes)
  BY DEF RefFollows
<1>2. x \in Seq(0..255) /\ bytes \in Seq(0..255)
  BY DEF RefFollows
<1> HIDE DEF x, y
<1> DEFINE z == Cat(x, Zeros(gap))
           m == total - Len(x)
<1>3. Zeros(gap) \in Seq(0..255) /\ Len(Zeros(gap)) = gap
  BY ZerosLie
<1>4. z \in Seq(0..255) /\ Len(z) = Len(x) + gap
  BY <1>2, <1>3, Joined DEF Cat
<1>5. y \in Seq(0..255) /\ Len(y) = Len(z) + Len(bytes)
  BY <1>1, <1>2, <1>4, Joined DEF Cat
<1>6. Len(x) \in Nat /\ Len(bytes) \in Nat /\ Len(y) <= total
  BY <1>2, ElementOf DEF y
<1>7. m \in Nat /\ m - gap \in Nat /\ Len(bytes) <= m - gap /\ (m - gap) - Len(bytes) = total - Len(y)
  BY <1>4, <1>5, <1>6
<1> HIDE DEF z, m
<1>8. Laid(x, m) = Laid(z, m - gap)
  <2> DEFINE s == Laid(x, m)
             t == Laid(z, m - gap)
  <2>1. /\ s \in Seq(0..255) /\ Len(s) = Len(x) + m
        /\ \A i \in 1..(Len(x) + m) : s[i] = IF i <= Len(x) THEN x[i] ELSE 0
    BY <1>2, <1>7, LaidIs
  <2>2. /\ t \in Seq(0..255) /\ Len(t) = Len(z) + (m - gap)
        /\ \A i \in 1..(Len(z) + (m - gap)) : t[i] = IF i <= Len(z) THEN z[i] ELSE 0
    BY <1>4, <1>7, LaidIs
  <2>3. \A i \in 1..(Len(x) + gap) : z[i] = IF i <= Len(x) THEN x[i] ELSE 0
    BY <1>2, LaidIs DEF Laid, z
  <2>4. Len(z) + (m - gap) = Len(x) + m
    BY <1>4, <1>6, <1>7
  <2> HIDE DEF s, t
  <2>5. ASSUME NEW i \in 1..Len(s) PROVE s[i] = t[i]
    <3>1. i \in 1..(Len(x) + m) /\ i \in 1..(Len(z) + (m - gap))
      BY <2>1, <2>4
    <3>2. i <= Len(z) => i \in 1..(Len(x) + gap)
      BY <1>4, <1>6, <3>1
    <3>3. i <= Len(x) => i <= Len(z)
      BY <1>4, <1>6, <3>1
    <3> QED
      BY <2>1, <2>2, <2>3, <3>1, <3>2, <3>3
  <2>6. s = t
    BY <2>1, <2>2, <2>4, <2>5, SameSeq
  <2> QED
    BY <2>6 DEF s, t
<1>9. SetAt(Laid(z, m - gap), Len(z), bytes) = Laid(Cat(z, bytes), (m - gap) - Len(bytes))
  BY <1>2, <1>4, <1>7, SetNext
<1> QED
  BY <1>1, <1>4, <1>7, <1>8, <1>9 DEF x, y, z, m

\* Field after field, the buffer holds what they come to.
LEMMA RefFilled ==
  ASSUME NEW fields, Len(fields) \in Nat, NEW total \in Nat, NEW xs, xs[0] = <<>>,
         \A k \in 1..Len(fields) :
             RefFollows(xs, k, fields[k].at, fields[k].bytes) /\ Len(xs[k]) <= total,
         xs[Len(fields)] \in Seq(0..255), Len(xs[Len(fields)]) = total
  PROVE  (CHOOSE f : RefBufs(f, fields, total))[Len(fields)] = xs[Len(fields)]
<1> DEFINE n == Len(fields)
           h == CHOOSE f : RefBufs(f, fields, total)
           g == [k \in 0..n |-> Laid(xs[k], total - Len(xs[k]))]
<1>0. n \in Nat
  OBVIOUS
<1>1. ASSUME NEW k \in 0..n PROVE g[k] = RefBufAt(g, k, fields, total)
  <2>1. CASE k = 0
    <3>1. Len(xs[0]) = 0 /\ total - 0 = total
      OBVIOUS
    <3>2. g[k] = Laid(<<>>, total)
      BY <2>1, <3>1
    <3>3. Laid(<<>>, total) = Zeros(total)
      BY ZerosLie, Concatenates DEF Laid, Cat
    <3> QED
      BY <2>1, <3>2, <3>3 DEF RefBufAt, Zeros
  <2>2. CASE k # 0
    <3>1. k \in 1..n /\ k - 1 \in 0..n
      BY <2>2
    <3>2. /\ g[k] = Laid(xs[k], total - Len(xs[k]))
          /\ g[k - 1] = Laid(xs[k - 1], total - Len(xs[k - 1]))
      BY <3>1
    <3> HIDE DEF g
    <3>3. RefFollows(xs, k, fields[k].at, fields[k].bytes) /\ Len(xs[k]) <= total
      BY <3>1
    <3> DEFINE at == fields[k].at
               bytes == fields[k].bytes
    <3>5. RefFollows(xs, k, at, bytes)
      BY <3>3
    <3> HIDE DEF at, bytes
    <3>4. SetAt(Laid(xs[k - 1], total - Len(xs[k - 1])), at, bytes) = Laid(xs[k], total - Len(xs[k]))
      <4>1. Len(xs[k]) <= total
        BY <3>3
      <4> QED
        BY <3>1, <3>5, <4>1, RefBufStep
    <3> QED
      BY <2>2, <3>2, <3>4 DEF RefBufAt, at, bytes
  <2> QED
    BY <2>1, <2>2
<1>2. RefBufs(g, fields, total)
  <2>1. g = [k \in 0..n |-> g[k]]
    OBVIOUS
  <2> HIDE DEF g
  <2>2. g = [k \in 0..n |-> RefBufAt(g, k, fields, total)]
    BY <1>1, <2>1
  <2> QED
    BY <2>2 DEF RefBufs
<1>3. RefBufs(h, fields, total)
  BY <1>2
<1> HIDE DEF h
<1>4. \A k \in 0..n : h[k] = RefBufAt(h, k, fields, total)
  BY <1>3 DEF RefBufs
<1> DEFINE S == {k \in Nat : k \in 0..n => h[k] = g[k]}
<1>5. ASSUME NEW k \in Nat, \A m \in 0..(k - 1) : m \in S PROVE k \in S
  <2> SUFFICES ASSUME k \in 0..n PROVE h[k] = g[k]
    OBVIOUS
  <2>1. k # 0 => k - 1 \in 0..(k - 1) /\ k - 1 \in 0..n
    BY <1>0
  <2>2. k # 0 => h[k - 1] = g[k - 1]
    BY <1>5, <2>1
  <2> HIDE DEF g
  <2>3. RefBufAt(h, k, fields, total) = RefBufAt(g, k, fields, total)
    BY <2>2 DEF RefBufAt
  <2> QED
    BY <1>1, <1>4, <2>3
<1>6. Nat \subseteq S
  <2> HIDE DEF S
  <2> QED
    BY <1>5, Induction
<1>7. h[n] = g[n] /\ n \in 0..n
  <2>1. n \in 0..n
    BY <1>0
  <2>2. n \in S
    <3> HIDE DEF S
    <3> QED
      BY <1>0, <1>6
  <2> HIDE DEF g
  <2> QED
    BY <2>1, <2>2
<1>8. g[n] = xs[n]
  <2>1. g[n] = Laid(xs[n], 0)
    BY <1>7
  <2>2. Laid(xs[n], 0) = xs[n]
    BY ZerosLie, Concatenates DEF Laid, Cat
  <2> QED
    BY <2>1, <2>2
<1> QED
  BY <1>7, <1>8 DEF h

\* The anchor's bytes, by the form in which it is given.
RefAnchor(o) ==
    CASE o.anchor.form = "absent" -> <<>>
      [] o.anchor.form = "bytes" -> o.anchor.value
      [] o.anchor.form = "text" -> Utf8Encode(o.anchor.value)

\* The anchor is the package's, whatever its form.
LEMMA RefAnchorIs ==
  ASSUME NEW o \in Options
  PROVE  RefAnchor(o) = AnchorBytes(o)
<1>1. o.anchor.form \in {"absent", "bytes", "text"}
  <2>1. o.anchor \in Forms(Seq(CodeUnits))
    BY OptionsAssumption
  <2> QED
    BY <2>1 DEF Forms, Absent
<1> QED
  BY <1>1 DEF RefAnchor, AnchorBytes

\* A byte that says whether a field is there, and the field.
LEMMA RefFieldBytes ==
  ASSUME NEW b \in Seq(0..255)
  PROVE  <<IF b = <<>> THEN 0 ELSE 1>> \o b = Field(b) /\ Len(Field(b)) = 1 + Len(b) /\ Field(b) \in Seq(0..255)
<1> DEFINE d == IF b = <<>> THEN 0 ELSE 1
<1>1. d \in 0..255 /\ <<d>> \in Seq(0..255) /\ Len(<<d>>) = 1
  OBVIOUS
<1>2. <<d>> \o b \in Seq(0..255) /\ Len(<<d>> \o b) = 1 + Len(b)
  <2> HIDE DEF d
  <2> QED
    BY <1>1, Joined
<1>3. <<d>> \o b = Field(b)
  <2>1. CASE b = <<>>
    BY <2>1 DEF Field
  <2>2. CASE b # <<>>
    BY <2>2 DEF Field
  <2> QED
    BY <2>1, <2>2
<1> HIDE DEF d
<1>4. Len(Field(b)) = 1 + Len(b) /\ Field(b) \in Seq(0..255)
  BY <1>2, <1>3
<1> QED
  BY <1>3, <1>4 DEF d

\* The fields that createDataItem() of the reference sets, each at its offset.
RefFields(o, target, anchor, tagBytes) ==
    LET cfg == SigConfig[SIG_TYPE_ARWEAVE]
        targetStart == 2 + cfg.sigLength + cfg.ownerLength
        anchorStart == targetStart + 1 + Len(target)
        tagsStart == anchorStart + 1 + Len(anchor)
        dataStart == tagsStart + 2 * LongLength + Len(tagBytes)
    IN  <<[at |-> 0, bytes |-> RefLongToNByteArray(2, SIG_TYPE_ARWEAVE)],
          [at |-> 2 + cfg.sigLength, bytes |-> o.owner],
          [at |-> targetStart, bytes |-> <<IF target = <<>> THEN 0 ELSE 1>> \o target],
          [at |-> anchorStart, bytes |-> <<IF anchor = <<>> THEN 0 ELSE 1>> \o anchor],
          [at |-> tagsStart, bytes |-> RefLongToNByteArray(LongLength, Len(o.tags))],
          [at |-> tagsStart + LongLength, bytes |-> RefLongToNByteArray(LongLength, Len(tagBytes))],
          [at |-> tagsStart + 2 * LongLength, bytes |-> tagBytes],
          [at |-> dataStart, bytes |-> o.data]>>
RefSize(o, target, anchor, tagBytes) ==
    LET cfg == SigConfig[SIG_TYPE_ARWEAVE]
        targetStart == 2 + cfg.sigLength + cfg.ownerLength
        anchorStart == targetStart + 1 + Len(target)
        tagsStart == anchorStart + 1 + Len(anchor)
        dataStart == tagsStart + 2 * LongLength + Len(tagBytes)
    IN  dataStart + Len(o.data)

\* The item is the last of the buffers, each with one field more than the one before.
LEMMA RefCreateUnfolds ==
  ASSUME NEW o
  PROVE  LET fields == RefFields(o, TargetBytes(o), RefAnchor(o), RefSerializeTags(o.tags))
             total == RefSize(o, TargetBytes(o), RefAnchor(o), RefSerializeTags(o.tags))
         IN  RefCreateDataItem(o) = (CHOOSE f : RefBufs(f, fields, total))[Len(fields)]
BY Zenon DEF RefCreateDataItem, RefFields, RefSize, RefAnchor, RefBufs, RefBufAt

\* A field that is set where the last one ends.
LEMMA FollowsAtOnce ==
  ASSUME NEW xs, NEW k \in Nat, NEW b \in Seq(0..255), xs[k - 1] \in Seq(0..255),
         xs[k] = Cat(xs[k - 1], b)
  PROVE  /\ RefFollows(xs, k, Len(xs[k - 1]), b)
         /\ xs[k] \in Seq(0..255) /\ Len(xs[k]) = Len(xs[k - 1]) + Len(b)
<1> DEFINE x == xs[k - 1]
           y == xs[k]
<1>1. x \in Seq(0..255) /\ Len(x) \in Nat /\ y = Cat(x, b)
  BY ElementOf
<1>2. Cat(x, Zeros(0)) = x
  <2> HIDE DEF x
  <2> QED
    BY <1>1, ZerosLie, Concatenates DEF Cat
<1>3. y = Cat(Cat(x, Zeros(0)), b)
  BY <1>1, <1>2
<1>4. y \in Seq(0..255) /\ Len(y) = Len(x) + Len(b)
  <2> HIDE DEF x, y
  <2> QED
    BY <1>1, Joined DEF Cat
<1>5. Len(x) = Len(x) + 0 /\ 0 \in Nat
  BY <1>1
<1> QED
  BY <1>1, <1>3, <1>4, <1>5 DEF RefFollows

\* Eight fields at their offsets, room for a signature before the second.
Eight(fields, sig, total) ==
    /\ Len(fields) = 8
    /\ \A k \in 1..8 : fields[k].bytes \in Seq(0..255)
    /\ fields[1].at = 0
    /\ fields[2].at = Len(fields[1].bytes) + sig
    /\ \A k \in 3..8 : fields[k].at = fields[k - 1].at + Len(fields[k - 1].bytes)
    /\ total = fields[8].at + Len(fields[8].bytes)
EndOf(fields, k) == fields[k].at + Len(fields[k].bytes)

\* What is written after each of them.
Written(xs, fields, sig) ==
    /\ xs[0] = <<>> /\ xs[1] = fields[1].bytes
    /\ xs[2] = Cat(Cat(xs[1], Zeros(sig)), fields[2].bytes)
    /\ \A k \in 3..8 : xs[k] = Cat(xs[k - 1], fields[k].bytes)

\* What is written, field by field, and the whole of it.
LEMMA WrittenExist ==
  ASSUME NEW fields, NEW sig
  PROVE  \E xs : /\ Written(xs, fields, sig)
                 /\ xs[8] = fields[1].bytes \o Zeros(sig) \o fields[2].bytes \o fields[3].bytes
                              \o fields[4].bytes \o fields[5].bytes \o fields[6].bytes
                              \o fields[7].bytes \o fields[8].bytes
<1> DEFINE b(k) == fields[k].bytes
           x2 == Cat(Cat(b(1), Zeros(sig)), b(2))
           x3 == Cat(x2, b(3))
           x4 == Cat(x3, b(4))
           x5 == Cat(x4, b(5))
           x6 == Cat(x5, b(6))
           x7 == Cat(x6, b(7))
           x8 == Cat(x7, b(8))
           nine == <<<<>>, b(1), x2, x3, x4, x5, x6, x7, x8>>
           xs == [k \in 0..8 |-> nine[k + 1]]
<1> HIDE DEF b
<1>1. /\ xs[0] = <<>> /\ xs[1] = b(1) /\ xs[2] = Cat(Cat(xs[1], Zeros(sig)), b(2))
      /\ xs[3] = Cat(xs[2], b(3)) /\ xs[4] = Cat(xs[3], b(4)) /\ xs[5] = Cat(xs[4], b(5))
      /\ xs[6] = Cat(xs[5], b(6)) /\ xs[7] = Cat(xs[6], b(7)) /\ xs[8] = Cat(xs[7], b(8))
      /\ xs[8] = x8
  OBVIOUS
<1>2. x8 = b(1) \o Zeros(sig) \o b(2) \o b(3) \o b(4) \o b(5) \o b(6) \o b(7) \o b(8)
  BY Zenon DEF Cat
<1> HIDE DEF xs, x8
<1>3. ASSUME NEW k \in 3..8 PROVE xs[k] = Cat(xs[k - 1], b(k))
  <2>1. k = 3 \/ k = 4 \/ k = 5 \/ k = 6 \/ k = 7 \/ k = 8
    OBVIOUS
  <2>2. 3 - 1 = 2 /\ 4 - 1 = 3 /\ 5 - 1 = 4 /\ 6 - 1 = 5 /\ 7 - 1 = 6 /\ 8 - 1 = 7
    OBVIOUS
  <2> QED
    BY <1>1, <2>1, <2>2
<1>4. Written(xs, fields, sig)
  BY <1>1, <1>3 DEF Written, b
<1>5. xs[8] = b(1) \o Zeros(sig) \o b(2) \o b(3) \o b(4) \o b(5) \o b(6) \o b(7) \o b(8)
  BY <1>1, <1>2, Zenon
<1> QED
  BY <1>4, <1>5, Zenon DEF b

\* The first two of them.
LEMMA WrittenFirst ==
  ASSUME NEW fields, NEW sig \in Nat, NEW total, Eight(fields, sig, total),
         NEW xs, Written(xs, fields, sig)
  PROVE  /\ RefFollows(xs, 1, fields[1].at, fields[1].bytes)
         /\ xs[1] \in Seq(0..255) /\ Len(xs[1]) = EndOf(fields, 1)
         /\ RefFollows(xs, 2, fields[2].at, fields[2].bytes)
         /\ xs[2] \in Seq(0..255) /\ Len(xs[2]) = EndOf(fields, 2)
         /\ fields[2].at \in Nat
<1> DEFINE a == fields[1].at
           b == fields[1].bytes
           a2 == fields[2].at
           b2 == fields[2].bytes
           z == Zeros(sig)
           y == Cat(b, z)
<1>1. /\ a = 0 /\ b \in Seq(0..255) /\ a2 = Len(b) + sig /\ b2 \in Seq(0..255)
  BY DEF Eight
<1>2. xs[0] = <<>> /\ xs[1] = b /\ xs[2] = Cat(y, b2)
  BY DEF Written
<1>3. z \in Seq(0..255) /\ Len(z) = sig
  BY ZerosLie
<1> HIDE DEF a, b, a2, b2, z
<1>4. Len(b) \in Nat /\ Len(b2) \in Nat
  BY <1>1, ElementOf
<1>5. y \in Seq(0..255) /\ Len(y) = Len(b) + sig
  BY <1>1, <1>3, Joined DEF Cat
<1>6. RefFollows(xs, 2, a2, b2)
  <2>1. 2 - 1 = 1
    OBVIOUS
  <2> QED
    BY <1>1, <1>2, <2>1 DEF RefFollows, y, z
<1> HIDE DEF y
<1>7. xs[2] \in Seq(0..255) /\ Len(xs[2]) = Len(y) + Len(b2)
  <2>1. y \o b2 \in Seq(0..255) /\ Len(y \o b2) = Len(y) + Len(b2)
    BY <1>1, <1>5, Joined
  <2>2. xs[2] = y \o b2
    BY <1>2, Zenon DEF Cat
  <2> QED
    BY <2>1, <2>2, Zenon
<1>8. RefFollows(xs, 1, a, b)
  <2>1. xs[1 - 1] = <<>> /\ <<>> \in Seq(0..255) /\ Len(<<>>) = 0
    BY <1>2
  <2>2. Cat(<<>>, b) = b
    BY <1>1, Concatenates DEF Cat
  <2>3. xs[1 - 1] \in Seq(0..255) /\ xs[1] = Cat(xs[1 - 1], b) /\ Len(xs[1 - 1]) = 0
    BY <1>2, <2>1, <2>2
  <2>4. RefFollows(xs, 1, Len(xs[1 - 1]), b)
    BY <1>1, <2>3, FollowsAtOnce
  <2> QED
    BY <1>1, <2>3, <2>4
<1> QED
  BY <1>1, <1>2, <1>4, <1>5, <1>6, <1>7, <1>8 DEF EndOf, a, b, a2, b2

\* And all of them: each begins where the last one ends.
LEMMA WrittenFollow ==
  ASSUME NEW fields, NEW sig \in Nat, NEW total, Eight(fields, sig, total),
         NEW xs, Written(xs, fields, sig)
  PROVE  /\ \A k \in 1..8 : RefFollows(xs, k, fields[k].at, fields[k].bytes) /\ Len(xs[k]) <= total
         /\ xs[8] \in Seq(0..255) /\ Len(xs[8]) = total /\ total \in Nat
<1> DEFINE a(k) == fields[k].at
           b(k) == fields[k].bytes
           Good(k) == /\ RefFollows(xs, k, a(k), b(k)) /\ xs[k] \in Seq(0..255)
                      /\ Len(xs[k]) = a(k) + Len(b(k)) /\ a(k) \in Nat
           S == {k \in Nat : k \in 2..8 => Good(k)}
<1>1. /\ \A k \in 1..8 : b(k) \in Seq(0..255)
      /\ \A k \in 3..8 : a(k) = a(k - 1) + Len(b(k - 1)) /\ xs[k] = Cat(xs[k - 1], b(k))
      /\ total = a(8) + Len(b(8))
      /\ a(2) = Len(b(1)) + sig /\ a(1) = 0
  BY DEF Eight, Written
<1>11. a(1) = 0 /\ a(2) = Len(b(1)) + sig /\ total = a(8) + Len(b(8))
  BY DEF Eight
<1>2. Good(2) /\ RefFollows(xs, 1, a(1), b(1)) /\ Len(xs[1]) = a(1) + Len(b(1))
  BY WrittenFirst DEF EndOf
<1>3. \A k \in 1..8 : Len(b(k)) \in Nat
  BY <1>1, ElementOf
<1> HIDE DEF a, b
<1>4. ASSUME NEW k \in Nat, \A m \in 0..(k - 1) : m \in S PROVE k \in S
  <2> SUFFICES ASSUME k \in 2..8 PROVE Good(k)
    OBVIOUS
  <2>1. CASE k = 2
    BY <1>2, <2>1
  <2>2. CASE k # 2
    <3>1. k \in 3..8 /\ k - 1 \in 2..8 /\ k - 1 \in 0..(k - 1) /\ k \in 1..8 /\ k - 1 \in 1..8
      BY <2>2
    <3>2. Good(k - 1)
      BY <1>4, <3>1
    <3>3. xs[k] = Cat(xs[k - 1], b(k)) /\ xs[k - 1] \in Seq(0..255) /\ b(k) \in Seq(0..255)
      BY <1>1, <3>1, <3>2
    <3>4. RefFollows(xs, k, Len(xs[k - 1]), b(k)) /\ xs[k] \in Seq(0..255) /\ Len(xs[k]) = Len(xs[k - 1]) + Len(b(k))
      BY <3>3, FollowsAtOnce
    <3>5. Len(xs[k - 1]) = a(k) /\ a(k) \in Nat
      <4>1. a(k) = a(k - 1) + Len(b(k - 1)) /\ Len(b(k - 1)) \in Nat
        BY <1>1, <1>3, <3>1
      <4>2. Len(xs[k - 1]) = a(k - 1) + Len(b(k - 1)) /\ a(k - 1) \in Nat
        BY <3>2
      <4> QED
        BY <4>1, <4>2
    <3> QED
      BY <3>4, <3>5
  <2> QED
    BY <2>1, <2>2
<1>5. Nat \subseteq S
  <2> HIDE DEF S
  <2> QED
    BY <1>4, Induction
<1>6. ASSUME NEW k \in 2..8 PROVE Good(k)
  <2>1. k \in S
    <3>1. k \in Nat
      OBVIOUS
    <3> HIDE DEF S
    <3> QED
      BY <1>5, <3>1
  <2> HIDE DEF Good
  <2> QED
    BY <2>1
<1> HIDE DEF S
<1> DEFINE end(k) == a(k) + Len(b(k))
<1>7. /\ end(8) = total /\ end(8) \in Nat /\ end(7) <= end(8) /\ end(6) <= end(7) /\ end(5) <= end(6)
      /\ end(4) <= end(5) /\ end(3) <= end(4) /\ end(2) <= end(3) /\ end(1) <= end(2)
      /\ \A k \in 1..8 : end(k) \in Nat
  <2>1. \A k \in 1..8 : a(k) \in Nat
    <3>1. \A k \in 2..8 : a(k) \in Nat
      BY <1>6
    <3>2. \A k \in 1..8 : k = 1 \/ k \in 2..8
      OBVIOUS
    <3>3. a(1) \in Nat
      BY <1>11
    <3> QED
      BY <3>1, <3>2, <3>3
  <2>2. \A k \in 3..8 : a(k) = end(k - 1)
    BY <1>1
  <2>3. a(3) = end(2) /\ a(4) = end(3) /\ a(5) = end(4) /\ a(6) = end(5) /\ a(7) = end(6) /\ a(8) = end(7)
    <3>1. 3 - 1 = 2 /\ 4 - 1 = 3 /\ 5 - 1 = 4 /\ 6 - 1 = 5 /\ 7 - 1 = 6 /\ 8 - 1 = 7
      OBVIOUS
    <3> HIDE DEF end
    <3> QED
      BY <2>2, <3>1
  <2>4. ASSUME NEW k \in 1..8 PROVE end(k) \in Nat /\ a(k) <= end(k)
    <3>1. a(k) \in Nat /\ Len(b(k)) \in Nat
      BY <1>3, <2>1
    <3> QED
      BY <3>1
  <2>5. end(8) = total
    BY <1>11
  <2>6. a(2) >= end(1)
    <3>1. a(2) = end(1) + sig /\ end(1) \in Nat
      <4>1. Len(b(1)) \in Nat
        BY <1>3
      <4> QED
        BY <1>11, <4>1
    <3> HIDE DEF end
    <3> QED
      BY <3>1
  <2>7. /\ 1 \in 1..8 /\ 2 \in 1..8 /\ 3 \in 1..8 /\ 4 \in 1..8 /\ 5 \in 1..8 /\ 6 \in 1..8
        /\ 7 \in 1..8 /\ 8 \in 1..8
    OBVIOUS
  <2> HIDE DEF end
  <2>8. /\ a(2) <= end(2) /\ a(3) <= end(3) /\ a(4) <= end(4) /\ a(5) <= end(5) /\ a(6) <= end(6)
        /\ a(7) <= end(7) /\ a(8) <= end(8) /\ end(1) \in Nat /\ end(2) \in Nat /\ a(2) \in Nat
    BY <2>1, <2>4, <2>7
  <2>9. end(1) <= end(2)
    BY <2>6, <2>8
  <2>10. end(8) \in Nat
    BY <2>4, <2>7
  <2> QED
    BY <2>3, <2>4, <2>5, <2>8, <2>9, <2>10, Zenon
<1>8. \A k \in 1..8 : end(k) <= total
  <2> HIDE DEF end
  <2>1. \A k \in 1..8 : k = 1 \/ k = 2 \/ k = 3 \/ k = 4 \/ k = 5 \/ k = 6 \/ k = 7 \/ k = 8
    OBVIOUS
  <2>2. /\ end(1) <= total /\ end(2) <= total /\ end(3) <= total /\ end(4) <= total /\ end(5) <= total
        /\ end(6) <= total /\ end(7) <= total /\ end(8) <= total
    <3>1. /\ end(1) \in Nat /\ end(2) \in Nat /\ end(3) \in Nat /\ end(4) \in Nat /\ end(5) \in Nat
          /\ end(6) \in Nat /\ end(7) \in Nat /\ end(8) \in Nat
      BY <1>7
    <3> QED
      BY <1>7, <3>1
  <2> QED
    BY <2>1, <2>2
<1>9. ASSUME NEW k \in 1..8 PROVE RefFollows(xs, k, a(k), b(k)) /\ Len(xs[k]) <= total
  <2>1. CASE k = 1
    BY <1>2, <1>8, <2>1
  <2>2. CASE k # 1
    <3>1. k \in 2..8
      BY <2>2
    <3> QED
      BY <1>6, <1>8, <3>1
  <2> QED
    BY <2>1, <2>2
<1>10. Good(8)
  BY <1>6
<1> QED
  BY <1>1, <1>7, <1>9, <1>10 DEF a, b

\* They come to nine parts that follow one another.
LEMMA EightFields ==
  ASSUME NEW fields, NEW sig \in Nat, NEW total, Eight(fields, sig, total)
  PROVE  (CHOOSE f : RefBufs(f, fields, total))[Len(fields)]
            = fields[1].bytes \o Zeros(sig) \o fields[2].bytes \o fields[3].bytes
                 \o fields[4].bytes \o fields[5].bytes \o fields[6].bytes
                 \o fields[7].bytes \o fields[8].bytes
<1>1. PICK xs : /\ Written(xs, fields, sig)
                /\ xs[8] = fields[1].bytes \o Zeros(sig) \o fields[2].bytes \o fields[3].bytes
                              \o fields[4].bytes \o fields[5].bytes \o fields[6].bytes
                              \o fields[7].bytes \o fields[8].bytes
  BY WrittenExist
<1>2. /\ \A k \in 1..8 : RefFollows(xs, k, fields[k].at, fields[k].bytes) /\ Len(xs[k]) <= total
      /\ xs[8] \in Seq(0..255) /\ Len(xs[8]) = total /\ total \in Nat
  BY <1>1, WrittenFollow
<1>3. Len(fields) = 8 /\ 8 \in Nat /\ xs[0] = <<>>
  BY <1>1 DEF Eight, Written
<1>4. (CHOOSE f : RefBufs(f, fields, total))[Len(fields)] = xs[Len(fields)]
  BY <1>2, <1>3, RefFilled, Zenon
<1> QED
  BY <1>1, <1>3, <1>4, Zenon

\* createDataItem() of either makes the same item of the same options: the
\* fields set at their offsets in a buffer of zeros are the fields written one
\* after another.
THEOREM SameItem ==
  ASSUME NEW o \in Options, CanCreate(o), o.type = SIG_TYPE_ARWEAVE
  PROVE  RefCreateDataItem(o) = CreateDataItem(o)
<1> DEFINE T == TargetBytes(o)
           N == AnchorBytes(o)
           R == SerializeTags(o.tags)
           fields == RefFields(o, T, N, R)
           total == RefSize(o, T, N, R)
           sig == SigConfig[1].sigLength
           own == SigConfig[1].ownerLength
           two == LongToNByteArray(2, 1)
           count == LongToNByteArray(LongLength, Len(o.tags))
           long == LongToNByteArray(LongLength, Len(R))
<1>1. /\ o.owner \in Seq(0..255) /\ Len(o.owner) = own /\ o.data \in Seq(0..255)
      /\ T \in Seq(0..255) /\ N \in Seq(0..255) /\ o.tags \in Seq(Tag)
      /\ sig \in Nat /\ own \in Nat
  BY CreatedLies DEF WellMade, IsField, SIG_TYPE_ARWEAVE
<1>2. R \in Seq(0..255) /\ Len(R) \in Nat /\ Len(o.tags) \in Nat /\ LongLength \in Nat
  BY <1>1, RegionIs, WidthsAssumption
<1>3. RefSerializeTags(o.tags) = R /\ RefAnchor(o) = N
  BY <1>1, RefSerializeIs, RefAnchorIs
<1>4. RefCreateDataItem(o) = (CHOOSE f : RefBufs(f, fields, total))[Len(fields)]
  BY <1>3, RefCreateUnfolds, Zenon
<1>5. /\ two \in Seq(0..255) /\ Len(two) = 2 /\ RefLongToNByteArray(2, 1) = two
      /\ count \in Seq(0..255) /\ Len(count) = LongLength
      /\ RefLongToNByteArray(LongLength, Len(o.tags)) = count
      /\ long \in Seq(0..255) /\ Len(long) = LongLength
      /\ RefLongToNByteArray(LongLength, Len(R)) = long
  <2>1. 2 \in Nat /\ 1 \in Nat
    OBVIOUS
  <2> QED
    BY <1>2, <2>1, LongIsRead, RefLongIs
<1>6. /\ <<IF T = <<>> THEN 0 ELSE 1>> \o T = Field(T) /\ Len(Field(T)) = 1 + Len(T) /\ Field(T) \in Seq(0..255)
      /\ <<IF N = <<>> THEN 0 ELSE 1>> \o N = Field(N) /\ Len(Field(N)) = 1 + Len(N) /\ Field(N) \in Seq(0..255)
  BY <1>1, RefFieldBytes
<1>7. Len(T) \in Nat /\ Len(N) \in Nat /\ Len(o.data) \in Nat
  BY <1>1, ElementOf
<1> DEFINE ts == 2 + sig + own
           as == ts + 1 + Len(T)
           cs == as + 1 + Len(N)
           ds == cs + 2 * LongLength + Len(R)
<1> HIDE DEF T, N, R, sig, own, two, count, long
<1>8. /\ fields = <<[at |-> 0, bytes |-> two], [at |-> 2 + sig, bytes |-> o.owner],
                    [at |-> ts, bytes |-> Field(T)], [at |-> as, bytes |-> Field(N)],
                    [at |-> cs, bytes |-> count], [at |-> cs + LongLength, bytes |-> long],
                    [at |-> cs + 2 * LongLength, bytes |-> R], [at |-> ds, bytes |-> o.data]>>
      /\ total = ds + Len(o.data)
  <2>1. SIG_TYPE_ARWEAVE = 1
    BY DEF SIG_TYPE_ARWEAVE
  <2> QED
    BY <1>5, <1>6, <2>1, Zenon DEF RefFields, RefSize, sig, own
<1> HIDE DEF fields, total
<1>9. /\ Len(fields) = 8
      /\ fields[1].at = 0 /\ fields[1].bytes = two
      /\ fields[2].at = 2 + sig /\ fields[2].bytes = o.owner
      /\ fields[3].at = ts /\ fields[3].bytes = Field(T)
      /\ fields[4].at = as /\ fields[4].bytes = Field(N)
      /\ fields[5].at = cs /\ fields[5].bytes = count
      /\ fields[6].at = cs + LongLength /\ fields[6].bytes = long
      /\ fields[7].at = cs + 2 * LongLength /\ fields[7].bytes = R
      /\ fields[8].at = ds /\ fields[8].bytes = o.data
  <2> HIDE DEF ts, as, cs, ds
  <2> QED
    BY <1>8
<1>10. Eight(fields, sig, total)
  <2> DEFINE a(k) == fields[k].at
             b(k) == fields[k].bytes
  <2>1. /\ a(1) = 0 /\ b(1) = two /\ a(2) = 2 + sig /\ b(2) = o.owner /\ a(3) = ts /\ b(3) = Field(T)
        /\ a(4) = as /\ b(4) = Field(N) /\ a(5) = cs /\ b(5) = count /\ a(6) = cs + LongLength /\ b(6) = long
        /\ a(7) = cs + 2 * LongLength /\ b(7) = R /\ a(8) = ds /\ b(8) = o.data
    BY <1>9
  <2> HIDE DEF a, b
  <2>2. \A k \in 1..8 : k = 1 \/ k = 2 \/ k = 3 \/ k = 4 \/ k = 5 \/ k = 6 \/ k = 7 \/ k = 8
    OBVIOUS
  <2>3. \A k \in 1..8 : b(k) \in Seq(0..255)
    <3> DEFINE B == Seq(0..255)
    <3>1. b(1) \in B /\ b(2) \in B /\ b(3) \in B /\ b(4) \in B /\ b(5) \in B /\ b(6) \in B /\ b(7) \in B /\ b(8) \in B
      BY <1>1, <1>2, <1>5, <1>6, <2>1
    <3> HIDE DEF B
    <3>2. \A k \in 1..8 : b(k) \in B
      BY <2>2, <3>1
    <3> QED
      BY <3>2 DEF B
  <2>4. /\ a(2) = Len(b(1)) + sig
        /\ a(3) = a(2) + Len(b(2)) /\ a(4) = a(3) + Len(b(3)) /\ a(5) = a(4) + Len(b(4))
    <3>1. Len(b(1)) = 2 /\ Len(b(2)) = own /\ Len(b(3)) = 1 + Len(T) /\ Len(b(4)) = 1 + Len(N)
      BY <1>1, <1>5, <1>6, <2>1
    <3>2. a(2) = Len(b(1)) + sig
      BY <2>1, <3>1
    <3>3. ts = (2 + sig) + own /\ ts \in Nat
      BY <1>1
    <3>4. as = ts + (1 + Len(T)) /\ as \in Nat
      <4> HIDE DEF ts
      <4> QED
        BY <1>7, <3>3
    <3>5. cs = as + (1 + Len(N))
      <4> HIDE DEF as
      <4> QED
        BY <1>7, <3>4
    <3> HIDE DEF ts, as, cs
    <3> QED
      BY <2>1, <3>1, <3>2, <3>3, <3>4, <3>5, Zenon
  <2>5. a(6) = a(5) + Len(b(5)) /\ a(7) = a(6) + Len(b(6)) /\ a(8) = a(7) + Len(b(7)) /\ total = a(8) + Len(b(8))
    <3>1. Len(b(5)) = LongLength /\ Len(b(6)) = LongLength /\ Len(b(7)) = Len(R) /\ Len(b(8)) = Len(o.data)
      BY <1>5, <2>1
    <3>2. cs \in Nat
      BY <1>1, <1>7
    <3> HIDE DEF cs
    <3> QED
      BY <1>2, <1>7, <1>8, <2>1, <3>1, <3>2
  <2>6. \A k \in 3..8 : a(k) = a(k - 1) + Len(b(k - 1))
    <3>1. 3 - 1 = 2 /\ 4 - 1 = 3 /\ 5 - 1 = 4 /\ 6 - 1 = 5 /\ 7 - 1 = 6 /\ 8 - 1 = 7
      OBVIOUS
    <3>2. \A k \in 3..8 : k = 3 \/ k = 4 \/ k = 5 \/ k = 6 \/ k = 7 \/ k = 8
      OBVIOUS
    <3> QED
      BY <2>4, <2>5, <3>1, <3>2, Zenon
  <2> QED
    BY <1>9, <2>1, <2>3, <2>4, <2>5, <2>6, Zenon DEF Eight, a, b
<1>11. (CHOOSE f : RefBufs(f, fields, total))[Len(fields)]
          = two \o Zeros(sig) \o o.owner \o Field(T) \o Field(N) \o count \o long \o R \o o.data
  <2>1. (CHOOSE f : RefBufs(f, fields, total))[Len(fields)]
            = fields[1].bytes \o Zeros(sig) \o fields[2].bytes \o fields[3].bytes
                 \o fields[4].bytes \o fields[5].bytes \o fields[6].bytes
                 \o fields[7].bytes \o fields[8].bytes
    BY <1>1, <1>10, EightFields
  <2> QED
    BY <1>9, <2>1, Zenon
<1>12. CreateDataItem(o)
          = two \o Zeros(sig) \o o.owner \o Field(T) \o Field(N) \o count \o long \o R \o o.data
  <2>1. o.type = 1
    BY DEF SIG_TYPE_ARWEAVE
  <2> QED
    BY <2>1, Zenon DEF CreateDataItem, Layout, Zeros, T, N, R, sig, two, count, long
<1> QED
  BY <1>4, <1>11, <1>12, Zenon

---------------------------------------------------------------------------
(* Loops of the reference *)

\* A loop as a function of its state: it stops there with a result, or goes on.
TurnAt(f, s, stops, result, onward) == IF stops[s] THEN result[s] ELSE f[onward[s]]
LoopOver(f, D, stops, result, onward) == f = [s \in D |-> TurnAt(f, s, stops, result, onward)]
EndsOver(D, rank, stops, onward) ==
    /\ rank \in [D -> Nat] /\ onward \in [D -> D]
    /\ \A s \in D : ~stops[s] => rank[onward[s]] < rank[s]

\* A loop that has fewer and fewer turns before it comes to an end.
LEMMA LoopExists ==
  ASSUME NEW D, NEW rank, NEW stops, NEW result, NEW onward, NEW most \in Nat,
         EndsOver(D, rank, stops, onward), \A s \in D : rank[s] <= most
  PROVE  \E f : LoopOver(f, D, stops, result, onward)
<1> DEFINE Near(n) == {s \in D : rank[s] <= n}
           S == {n \in Nat : \E f : LoopOver(f, Near(n), stops, result, onward)}
<1>0. \A s \in D : rank[s] \in Nat /\ onward[s] \in D /\ (~stops[s] => rank[onward[s]] < rank[s])
  BY DEF EndsOver
<1>1. ASSUME NEW n \in Nat, \A m \in 0..(n - 1) : m \in S PROVE n \in S
  <2> SUFFICES \E f : LoopOver(f, Near(n), stops, result, onward)
    OBVIOUS
  <2>1. \E f : \A s \in Near(n) : rank[s] < n => f[s] = TurnAt(f, s, stops, result, onward)
    <3>1. CASE n = 0
      BY <1>0, <3>1
    <3>2. CASE n # 0
      <4>1. n - 1 \in 0..(n - 1)
        BY <3>2
      <4>2. PICK f : LoopOver(f, Near(n - 1), stops, result, onward)
        BY <1>1, <4>1
      <4>3. \A s \in Near(n - 1) : f[s] = TurnAt(f, s, stops, result, onward)
        <5> HIDE DEF Near
        <5> DEFINE turn(s) == TurnAt(f, s, stops, result, onward)
        <5>1. f = [s \in Near(n - 1) |-> turn(s)]
          BY <4>2 DEF LoopOver
        <5> HIDE DEF turn
        <5>2. \A s \in Near(n - 1) : f[s] = turn(s)
          BY <5>1
        <5> QED
          BY <5>2 DEF turn
      <4>4. \A s \in Near(n) : rank[s] < n => s \in Near(n - 1)
        BY <1>0
      <4> QED
        BY <4>3, <4>4
    <3> QED
      BY <3>1, <3>2
  <2>2. PICK f : \A s \in Near(n) : rank[s] < n => f[s] = TurnAt(f, s, stops, result, onward)
    BY <2>1
  <2> DEFINE turn(s) == TurnAt(f, s, stops, result, onward)
             g == [s \in Near(n) |-> turn(s)]
  <2>3. ASSUME NEW s \in Near(n) PROVE g[s] = TurnAt(g, s, stops, result, onward)
    <3>1. CASE stops[s]
      BY <3>1 DEF TurnAt
    <3>2. CASE ~stops[s]
      <4>1. onward[s] \in Near(n) /\ rank[onward[s]] < n
        BY <1>0, <3>2
      <4>2. g[onward[s]] = f[onward[s]]
        BY <2>2, <4>1
      <4> QED
        BY <3>2, <4>2 DEF TurnAt
    <3> QED
      BY <3>1, <3>2
  <2>4. g = [s \in Near(n) |-> g[s]]
    <3> HIDE DEF turn
    <3> QED
      OBVIOUS
  <2> HIDE DEF g
  <2>5. LoopOver(g, Near(n), stops, result, onward)
    BY <2>3, <2>4 DEF LoopOver
  <2> QED
    BY <2>5
<1>2. most \in S
  <2> HIDE DEF S
  <2> QED
    BY <1>1, Induction
<1>3. Near(most) = D
  OBVIOUS
<1> QED
  BY <1>2, <1>3

\* Such a loop ends as anything does that is the same after a turn.
LEMMA LoopIs ==
  ASSUME NEW D, NEW rank, NEW stops, NEW result, NEW onward, EndsOver(D, rank, stops, onward),
         NEW f, LoopOver(f, D, stops, result, onward), NEW g,
         \A s \in D : g[s] = TurnAt(g, s, stops, result, onward)
  PROVE  \A s \in D : f[s] = g[s]
<1> DEFINE S == {n \in Nat : \A s \in D : rank[s] = n => f[s] = g[s]}
<1>0. \A s \in D : rank[s] \in Nat /\ onward[s] \in D /\ (~stops[s] => rank[onward[s]] < rank[s])
  BY DEF EndsOver
<1>1. \A s \in D : f[s] = TurnAt(f, s, stops, result, onward)
  <2> DEFINE turn(s) == TurnAt(f, s, stops, result, onward)
  <2>1. f = [s \in D |-> turn(s)]
    BY DEF LoopOver
  <2> HIDE DEF turn
  <2>2. \A s \in D : f[s] = turn(s)
    BY <2>1
  <2> QED
    BY <2>2 DEF turn
<1>2. ASSUME NEW n \in Nat, \A m \in 0..(n - 1) : m \in S PROVE n \in S
  <2> SUFFICES ASSUME NEW s \in D, rank[s] = n PROVE f[s] = g[s]
    OBVIOUS
  <2>1. CASE stops[s]
    BY <1>1, <2>1 DEF TurnAt
  <2>2. CASE ~stops[s]
    <3>1. onward[s] \in D /\ rank[onward[s]] \in 0..(n - 1)
      BY <1>0, <2>2
    <3>2. f[onward[s]] = g[onward[s]]
      BY <1>2, <3>1
    <3> QED
      BY <1>1, <2>2, <3>2 DEF TurnAt
  <2> QED
    BY <2>1, <2>2
<1>3. Nat \subseteq S
  <2> HIDE DEF S
  <2> QED
    BY <1>2, Induction
<1> QED
  BY <1>0, <1>3

---------------------------------------------------------------------------
(* Numbers, read by the reference *)

\* A byte is an integer, and so are its seven bits.
LEMMA ByteLies ==
  ASSUME NEW buf \in Seq(0..255)
  PROVE  /\ Len(buf) \in Nat
         /\ \A k \in 1..Len(buf) : buf[k] \in Int /\ buf[k] % VarintBase \in Nat
<1>1. \A x \in 0..255 : x \in Int /\ x % VarintBase \in Nat
  BY DEF VarintBase
<1>2. Len(buf) \in Nat /\ \A k \in 1..Len(buf) : buf[k] \in 0..255
  BY ElementOf
<1> QED
  BY <1>1, <1>2, Zenon

\* The last byte of a number is the first one below 128.
LastAt(buf, at, k) ==
    k \in at..Len(buf) /\ buf[k] < VarintBase /\ \A j \in at..(k - 1) : buf[j] >= VarintBase

\* A number that is there has such a byte ...
LEMMA LastIsThere ==
  ASSUME NEW buf \in Seq(0..255), NEW at \in Nat, HasVarLong(buf, at)
  PROVE  LastAt(buf, at, VarEnd(buf, at))
<1> DEFINE L == Len(buf)
           Ends == {k \in at..L : buf[k] < VarintBase}
           P(k) == buf[k] < VarintBase /\ \A j \in at..(k - 1) : buf[j] >= VarintBase
<1>1. L \in Nat /\ \A k \in 1..L : buf[k] \in Int
  BY ByteLies
<1>2. at >= 1 /\ Ends # {} /\ Ends \subseteq Nat
  BY DEF HasVarLong
<1>3. PICK k \in Ends : \A m \in Ends : k <= m
  <2> HIDE DEF Ends
  <2> QED
    BY <1>2, LeastNumber
<1>4. P(k) /\ k \in at..L
  <2>1. ASSUME NEW j \in at..(k - 1) PROVE buf[j] >= VarintBase
    <3>1. j \in at..L /\ j \in 1..L /\ ~(k <= j)
      BY <1>1, <1>2, <1>3
    <3>2. j \notin Ends
      <4> HIDE DEF Ends
      <4> QED
        BY <1>3, <3>1
    <3>3. buf[j] \in Int /\ ~(buf[j] < VarintBase)
      BY <1>1, <3>1, <3>2
    <3> QED
      BY <3>3, SMT DEF VarintBase
  <2> QED
    BY <1>3, <2>1
<1>5. VarEnd(buf, at) = CHOOSE n \in at..L : P(n)
  BY DEF VarEnd
<1> DEFINE e == VarEnd(buf, at)
<1>6. e \in at..L /\ P(e)
  <2> HIDE DEF P
  <2> QED
    BY <1>4, <1>5
<1> QED
  BY <1>6 DEF LastAt

\* ... and only one, where the package finds it.
LEMMA LastIsOne ==
  ASSUME NEW buf \in Seq(0..255), NEW at \in Nat, at >= 1, NEW k, LastAt(buf, at, k)
  PROVE  HasVarLong(buf, at) /\ VarEnd(buf, at) = k
<1> DEFINE e == VarEnd(buf, at)
<1>1. HasVarLong(buf, at)
  BY DEF HasVarLong, LastAt
<1>2. LastAt(buf, at, e)
  BY <1>1, LastIsThere
<1> HIDE DEF e
<1>3. Len(buf) \in Nat /\ \A j \in 1..Len(buf) : buf[j] \in Int
  BY ByteLies
<1>4. \A x \in Int : ~(x < VarintBase /\ x >= VarintBase)
  BY DEF VarintBase
<1>5. k \in at..Len(buf) /\ e \in at..Len(buf)
  BY <1>2 DEF LastAt
<1>6. ~(k < e)
  <2> SUFFICES ASSUME k < e PROVE FALSE
    OBVIOUS
  <2>1. k \in at..(e - 1) /\ k \in 1..Len(buf)
    BY <1>3, <1>5
  <2> QED
    BY <1>2, <1>3, <1>4, <2>1 DEF LastAt
<1>7. ~(e < k)
  <2> SUFFICES ASSUME e < k PROVE FALSE
    OBVIOUS
  <2>1. e \in at..(k - 1) /\ e \in 1..Len(buf)
    BY <1>3, <1>5
  <2> QED
    BY <1>2, <1>3, <1>4, <2>1 DEF LastAt
<1> QED
  BY <1>1, <1>3, <1>5, <1>6, <1>7 DEF e

\* The number whose seven bits each byte from k on holds.
Bits(buf, k) == Number(Low(SubSeq(buf, k, VarEnd(buf, k))), VarintBase)

\* A byte below 128 is a number ...
LEMMA LastByte ==
  ASSUME NEW buf \in Seq(0..255), NEW k \in 1..Len(buf), buf[k] < VarintBase
  PROVE  HasVarLong(buf, k) /\ VarEnd(buf, k) = k /\ Bits(buf, k) = buf[k] % VarintBase
<1>1. Len(buf) \in Nat /\ buf[k] \in 0..255
  BY ElementOf
<1>2. HasVarLong(buf, k) /\ VarEnd(buf, k) = k
  <2>1. LastAt(buf, k, k)
    BY <1>1 DEF LastAt
  <2> QED
    BY <1>1, <2>1, LastIsOne
<1> DEFINE w == SubSeq(buf, k, k)
           t == Low(w)
<1>3. w \in Seq(0..255) /\ Len(w) = 1 /\ w[1] = buf[k]
  <2> DEFINE S == 0..255
  <2>1. buf \in Seq(S) /\ k \in 1..(Len(buf) + 1) /\ k \in (k - 1)..Len(buf)
    BY <1>1
  <2> HIDE DEF S, w
  <2>2. SubSeq(buf, k, k) \in Seq(S) /\ Len(SubSeq(buf, k, k)) = k - k + 1
        /\ SubSeq(buf, k, k)[1] = buf[k + 1 - 1]
    BY <2>1, SubSeqProperties
  <2> QED
    BY <2>2, <1>1 DEF S, w
<1> HIDE DEF w
<1>4. t \in Seq(Nat) /\ Len(t) = 1 /\ t[1] = buf[k] % VarintBase
  BY <1>3, LowIs
<1> HIDE DEF t
<1>5. Number(t, VarintBase) = t[1] + VarintBase * Number(<<>>, VarintBase)
  <2>1. <<>> \in Seq(Nat) /\ Len(t) = Len(<<>>) + 1 /\ \A j \in 1..Len(<<>>) : t[j + 1] = <<>>[j]
    BY <1>4
  <2>2. VarintBase \in Nat
    BY DEF VarintBase
  <2> QED
    BY <1>4, <2>1, <2>2, NumberUnfolds
<1>6. Number(<<>>, VarintBase) = 0
  BY NumberUnfolds DEF VarintBase
<1>7. buf[k] % VarintBase \in Nat
  BY ByteLies
<1>8. Number(t, VarintBase) = buf[k] % VarintBase
  BY <1>4, <1>5, <1>6, <1>7 DEF VarintBase
<1> QED
  BY <1>2, <1>8 DEF Bits, t, w

\* ... and another is the lowest digit of the number that follows.
LEMMA ByteBefore ==
  ASSUME NEW buf \in Seq(0..255), NEW k \in 1..Len(buf), ~(buf[k] < VarintBase)
  PROVE  /\ HasVarLong(buf, k) <=> HasVarLong(buf, k + 1)
         /\ HasVarLong(buf, k) =>
              /\ VarEnd(buf, k) = VarEnd(buf, k + 1)
              /\ Bits(buf, k + 1) \in Nat
              /\ Bits(buf, k) = (buf[k] % VarintBase) + VarintBase * Bits(buf, k + 1)
<1>1. Len(buf) \in Nat /\ buf[k] \in Int
  BY ByteLies
<1>2. buf[k] >= VarintBase
  BY <1>1 DEF VarintBase
<1>3. HasVarLong(buf, k) <=> HasVarLong(buf, k + 1)
  <2>1. \A j \in k..Len(buf) : buf[j] < VarintBase => j \in (k + 1)..Len(buf)
    BY <1>1
  <2> QED
    BY <1>1, <2>1 DEF HasVarLong
<1> SUFFICES ASSUME HasVarLong(buf, k)
             PROVE  /\ VarEnd(buf, k) = VarEnd(buf, k + 1)
                    /\ Bits(buf, k + 1) \in Nat
                    /\ Bits(buf, k) = (buf[k] % VarintBase) + VarintBase * Bits(buf, k + 1)
  BY <1>3
<1> DEFINE e == VarEnd(buf, k + 1)
<1>4. LastAt(buf, k + 1, e)
  <2>1. HasVarLong(buf, k + 1) /\ k + 1 \in Nat
    BY <1>3
  <2> QED
    BY <2>1, LastIsThere
<1> HIDE DEF e
<1>5. LastAt(buf, k, e)
  <2>1. e \in (k + 1)..Len(buf) /\ e \in k..Len(buf) /\ \A j \in k..(e - 1) : j = k \/ j \in (k + 1)..(e - 1)
    BY <1>1, <1>4 DEF LastAt
  <2> QED
    BY <1>2, <1>4, <2>1 DEF LastAt
<1>6. VarEnd(buf, k) = e
  BY <1>5, LastIsOne
<1> DEFINE w == SubSeq(buf, k, e)
           v == SubSeq(buf, k + 1, e)
           t == Low(w)
           s == Low(v)
<1>7. e \in (k + 1)..Len(buf)
  BY <1>4 DEF LastAt
<1>8. /\ w \in Seq(0..255) /\ Len(w) = e - k + 1 /\ \A j \in 1..Len(w) : w[j] = buf[k + j - 1]
      /\ v \in Seq(0..255) /\ Len(v) = e - k /\ \A j \in 1..Len(v) : v[j] = buf[k + j]
  <2> DEFINE S == 0..255
  <2>1. buf \in Seq(S) /\ k \in 1..(Len(buf) + 1) /\ e \in (k - 1)..Len(buf)
        /\ k + 1 \in 1..(Len(buf) + 1) /\ e \in (k + 1 - 1)..Len(buf)
    BY <1>1, <1>7
  <2> HIDE DEF S, w, v
  <2>2. SubSeq(buf, k, e) \in Seq(S) /\ Len(SubSeq(buf, k, e)) = e - k + 1
        /\ \A i \in 1..(e - k + 1) : SubSeq(buf, k, e)[i] = buf[k + i - 1]
    BY <2>1, SubSeqProperties
  <2>3. SubSeq(buf, k + 1, e) \in Seq(S) /\ Len(SubSeq(buf, k + 1, e)) = e - (k + 1) + 1
        /\ \A i \in 1..(e - (k + 1) + 1) : SubSeq(buf, k + 1, e)[i] = buf[k + 1 + i - 1]
    BY <2>1, SubSeqProperties
  <2>4. e - (k + 1) + 1 = e - k /\ \A i \in Int : k + 1 + i - 1 = k + i
    BY <1>7
  <2> QED
    BY <2>2, <2>3, <2>4 DEF S, w, v
<1> HIDE DEF w, v
<1>9. /\ t \in Seq(Nat) /\ Len(t) = Len(w) /\ \A j \in 1..Len(w) : t[j] = w[j] % VarintBase
      /\ s \in Seq(Nat) /\ Len(s) = Len(v) /\ \A j \in 1..Len(v) : s[j] = v[j] % VarintBase
  BY <1>8, LowIs
<1> HIDE DEF s, t
<1>10. Len(t) = Len(s) + 1 /\ \A j \in 1..Len(s) : t[j + 1] = s[j]
  <2>1. Len(t) = Len(s) + 1
    BY <1>7, <1>8, <1>9
  <2>2. ASSUME NEW j \in 1..Len(s) PROVE t[j + 1] = s[j]
    <3>1. j \in 1..Len(v) /\ j + 1 \in 1..Len(w) /\ k + (j + 1) - 1 = k + j
      BY <1>7, <1>8, <1>9
    <3>2. t[j + 1] = w[j + 1] % VarintBase /\ s[j] = v[j] % VarintBase
      BY <1>9, <3>1
    <3>3. w[j + 1] = buf[k + j] /\ v[j] = buf[k + j]
      BY <1>8, <3>1
    <3> QED
      BY <3>2, <3>3
  <2> QED
    BY <2>1, <2>2
<1>11. t[1] = buf[k] % VarintBase
  <2>1. 1 \in 1..Len(w) /\ k + 1 - 1 = k
    BY <1>7, <1>8
  <2> QED
    BY <1>8, <1>9, <2>1
<1>12. VarintBase \in Nat
  BY DEF VarintBase
<1>13. Number(s, VarintBase) \in Nat /\ Number(t, VarintBase) = t[1] + VarintBase * Number(s, VarintBase)
  BY <1>9, <1>10, <1>12, NumberUnfolds
<1>14. Bits(buf, k) = Number(t, VarintBase)
  BY <1>6 DEF Bits, t, w
<1>15. Bits(buf, k + 1) = Number(s, VarintBase)
  BY DEF Bits, s, v, e
<1> QED
  BY <1>6, <1>11, <1>13, <1>14, <1>15 DEF e

\* The reference's loop: a byte, what it adds, and the weight of the next.
Reading128(buf) == [at : 1..(Len(buf) + 1), n : Nat, weight : Nat]
AddedAt(buf, s) == s.n + (buf[s.at] % 128) * s.weight
NumberStops(buf) == [s \in Reading128(buf) |-> s.at > Len(buf) \/ buf[s.at] < 128]
NumberThere(buf) == [s \in Reading128(buf) |->
    IF s.at > Len(buf) THEN NoNumber ELSE [n |-> AddedAt(buf, s), next |-> s.at + 1]]
NumberOnward(buf) == [s \in Reading128(buf) |->
    IF s.at > Len(buf) THEN s ELSE [at |-> s.at + 1, n |-> AddedAt(buf, s), weight |-> s.weight * 128]]
NumberRank(buf) == [s \in Reading128(buf) |-> Len(buf) + 1 - s.at]
ReadsNumber(f, buf) ==
    LoopOver(f, Reading128(buf), NumberStops(buf), NumberThere(buf), NumberOnward(buf))

\* What it comes to from each state.
NumberFrom(buf) == [s \in Reading128(buf) |->
    IF HasVarLong(buf, s.at) THEN [n |-> s.n + s.weight * Bits(buf, s.at), next |-> VarEnd(buf, s.at) + 1]
    ELSE NoNumber]

\* A sum that is carried is a sum.
LEMMA CarriedSum ==
  ASSUME NEW n \in Nat, NEW d \in Nat, NEW w \in Nat, NEW more \in Nat
  PROVE  (n + d * w) + (w * 128) * more = n + w * (d + 128 * more)
OBVIOUS

\* What is carried is a number.
LEMMA CarriedIn ==
  ASSUME NEW n \in Nat, NEW d \in Nat, NEW w \in Nat
  PROVE  n + d * w \in Nat /\ w * 128 \in Nat /\ n + d * w = n + w * d
OBVIOUS

\* One byte read, and the state the loop goes on in.
LEMMA ReadingStep ==
  ASSUME NEW buf \in Seq(0..255), NEW s \in Reading128(buf), ~(s.at > Len(buf))
  PROVE  /\ s.at \in 1..Len(buf) /\ buf[s.at] % 128 \in Nat /\ buf[s.at] \in Int
         /\ s.n \in Nat /\ s.weight \in Nat
         /\ AddedAt(buf, s) \in Nat /\ AddedAt(buf, s) = s.n + s.weight * (buf[s.at] % 128)
         /\ [at |-> s.at + 1, n |-> AddedAt(buf, s), weight |-> s.weight * 128] \in Reading128(buf)
<1>1. Len(buf) \in Nat /\ s.at \in 1..(Len(buf) + 1) /\ s.n \in Nat /\ s.weight \in Nat
  BY ElementOf DEF Reading128
<1>2. s.at \in 1..Len(buf) /\ s.at + 1 \in 1..(Len(buf) + 1)
  BY <1>1
<1>3. buf[s.at] % 128 \in Nat /\ buf[s.at] \in Int
  BY <1>2, ByteLies DEF VarintBase
<1> DEFINE d == buf[s.at] % 128
           n == s.n
           w == s.weight
<1>4. d \in Nat /\ n \in Nat /\ w \in Nat
  BY <1>1, <1>3
<1>5. AddedAt(buf, s) = n + d * w
  BY DEF AddedAt
<1> HIDE DEF d, n, w
<1>6. n + d * w \in Nat /\ w * 128 \in Nat /\ n + d * w = n + w * d
  BY <1>4, CarriedIn
<1>7. AddedAt(buf, s) \in Nat /\ w * 128 \in Nat /\ AddedAt(buf, s) = n + w * d
  BY <1>5, <1>6, Zenon
<1> QED
  BY <1>1, <1>2, <1>3, <1>7 DEF Reading128, d, n, w

\* The loop ends: every turn leaves less of the buffer.
LEMMA NumberEnds ==
  ASSUME NEW buf \in Seq(0..255)
  PROVE  /\ EndsOver(Reading128(buf), NumberRank(buf), NumberStops(buf), NumberOnward(buf))
         /\ Len(buf) \in Nat /\ \A s \in Reading128(buf) : NumberRank(buf)[s] <= Len(buf)
<1> DEFINE D == Reading128(buf)
<1>1. Len(buf) \in Nat
  BY ElementOf
<1>2. ASSUME NEW s \in D
      PROVE  /\ NumberRank(buf)[s] = Len(buf) + 1 - s.at /\ Len(buf) + 1 - s.at \in 0..Len(buf)
             /\ NumberOnward(buf)[s] \in D
             /\ ~NumberStops(buf)[s] => NumberRank(buf)[NumberOnward(buf)[s]] < NumberRank(buf)[s]
  <2>1. s.at \in 1..(Len(buf) + 1)
    BY DEF Reading128
  <2>2. NumberRank(buf)[s] = Len(buf) + 1 - s.at /\ Len(buf) + 1 - s.at \in 0..Len(buf)
    BY <1>1, <2>1 DEF NumberRank
  <2>3. CASE s.at > Len(buf)
    <3>1. NumberOnward(buf)[s] = s /\ NumberStops(buf)[s]
      BY <2>3 DEF NumberOnward, NumberStops
    <3> QED
      BY <2>2, <3>1
  <2>4. CASE ~(s.at > Len(buf))
    <3> DEFINE t == [at |-> s.at + 1, n |-> AddedAt(buf, s), weight |-> s.weight * 128]
    <3>1. t \in D /\ t.at = s.at + 1
      BY <2>4, ReadingStep
    <3>2. NumberOnward(buf)[s] = t
      BY <2>4 DEF NumberOnward
    <3> HIDE DEF t, D
    <3>3. NumberRank(buf)[t] = Len(buf) + 1 - t.at
      BY <3>1 DEF NumberRank, D
    <3> QED
      BY <1>1, <2>1, <2>2, <3>1, <3>2, <3>3
  <2> QED
    BY <2>3, <2>4
<1>3. DOMAIN NumberRank(buf) = D /\ DOMAIN NumberOnward(buf) = D
      /\ NumberRank(buf) = [s \in D |-> NumberRank(buf)[s]]
      /\ NumberOnward(buf) = [s \in D |-> NumberOnward(buf)[s]]
  BY DEF NumberRank, NumberOnward
<1> HIDE DEF D
<1>4. \A s \in D : NumberRank(buf)[s] \in Nat /\ NumberRank(buf)[s] <= Len(buf)
  BY <1>1, <1>2
<1>5. NumberRank(buf) \in [D -> Nat] /\ NumberOnward(buf) \in [D -> D]
  BY <1>2, <1>3, <1>4
<1> QED
  BY <1>1, <1>2, <1>4, <1>5 DEF EndsOver, D

\* What the package reads follows from what it would read a byte on, as the
\* reference's loop has it.
LEMMA NumberTurns ==
  ASSUME NEW buf \in Seq(0..255), NEW s \in Reading128(buf)
  PROVE  NumberFrom(buf)[s]
           = TurnAt(NumberFrom(buf), s, NumberStops(buf), NumberThere(buf), NumberOnward(buf))
<1> DEFINE g == NumberFrom(buf)
           turn == TurnAt(g, s, NumberStops(buf), NumberThere(buf), NumberOnward(buf))
           k == s.at
           d == buf[k] % 128
<1>1. Len(buf) \in Nat /\ k \in 1..(Len(buf) + 1)
  BY ElementOf DEF Reading128
<1>2. CASE k > Len(buf)
  <2>1. ~HasVarLong(buf, k)
    BY <1>1, <1>2 DEF HasVarLong
  <2>2. g[s] = NoNumber
    BY <2>1 DEF NumberFrom
  <2>3. turn = NoNumber
    BY <1>2 DEF TurnAt, NumberStops, NumberThere
  <2> QED
    BY <2>2, <2>3
<1>3. CASE ~(k > Len(buf))
  <2>0. /\ k \in 1..Len(buf) /\ d \in Nat /\ s.n \in Nat /\ s.weight \in Nat
        /\ AddedAt(buf, s) = s.n + s.weight * d /\ AddedAt(buf, s) = s.n + d * s.weight
    BY <1>3, ReadingStep DEF AddedAt
  <2>1. CASE buf[k] < 128
    <3>1. HasVarLong(buf, k) /\ VarEnd(buf, k) = k /\ Bits(buf, k) = d
      BY <2>0, <2>1, LastByte DEF VarintBase
    <3>2. g[s] = [n |-> s.n + s.weight * d, next |-> k + 1]
      BY <3>1 DEF NumberFrom
    <3>3. turn = [n |-> AddedAt(buf, s), next |-> k + 1]
      BY <1>3, <2>1 DEF TurnAt, NumberStops, NumberThere
    <3> QED
      BY <2>0, <3>2, <3>3
  <2>2. CASE ~(buf[k] < 128)
    <3> DEFINE t == [at |-> k + 1, n |-> AddedAt(buf, s), weight |-> s.weight * 128]
    <3>1. t \in Reading128(buf) /\ t.at = k + 1 /\ t.n = AddedAt(buf, s) /\ t.weight = s.weight * 128
      BY <1>3, ReadingStep
    <3>2. turn = g[t]
      BY <1>3, <2>2 DEF TurnAt, NumberStops, NumberOnward
    <3> HIDE DEF t, g, turn
    <3>3. /\ HasVarLong(buf, k) <=> HasVarLong(buf, k + 1)
          /\ HasVarLong(buf, k) =>
               /\ VarEnd(buf, k) = VarEnd(buf, k + 1)
               /\ Bits(buf, k + 1) \in Nat
               /\ Bits(buf, k) = d + 128 * Bits(buf, k + 1)
      <4> HIDE DEF k
      <4> QED
        BY <2>0, <2>2, ByteBefore DEF VarintBase
    <3>4. g[t] = IF HasVarLong(buf, k + 1)
                 THEN [n |-> t.n + t.weight * Bits(buf, k + 1), next |-> VarEnd(buf, k + 1) + 1]
                 ELSE NoNumber
      BY <3>1 DEF NumberFrom, g
    <3>5. g[s] = IF HasVarLong(buf, k)
                 THEN [n |-> s.n + s.weight * Bits(buf, k), next |-> VarEnd(buf, k) + 1]
                 ELSE NoNumber
      BY DEF NumberFrom, g
    <3> HIDE DEF k, d
    <3>6. HasVarLong(buf, k) => t.n + t.weight * Bits(buf, k + 1) = s.n + s.weight * Bits(buf, k)
      BY <2>0, <3>1, <3>3, CarriedSum
    <3> QED
      BY <3>2, <3>3, <3>4, <3>5, <3>6 DEF g, turn
  <2> QED
    BY <2>1, <2>2
<1> QED
  BY <1>2, <1>3

\* readVarLong() of either reads the same number, and ends at the same place.
LEMMA RefReadIs ==
  ASSUME NEW buf \in Seq(0..255), NEW at \in 1..(Len(buf) + 1)
  PROVE  RefReadVarLong(buf, at) =
             IF HasVarLong(buf, at) THEN [n |-> ReadVarLong(buf, at), next |-> VarEnd(buf, at) + 1]
             ELSE NoNumber
<1> DEFINE h == CHOOSE h : ReadsNumber(h, buf)
           first == [at |-> at, n |-> 0, weight |-> 1]
           zigzag(r) == [r EXCEPT !.n = IF @ % 2 = 1 THEN 0 - (@ + 1) \div 2 ELSE @ \div 2]
           D == Reading128(buf)
<1>1. \E f : ReadsNumber(f, buf)
  BY NumberEnds, LoopExists DEF ReadsNumber
<1>2. ReadsNumber(h, buf)
  BY <1>1
<1>3. RefReadVarLong(buf, at) = zigzag(h[first])
  <2> DEFINE body(f, s) == IF s.at > Len(buf) THEN NoNumber
                           ELSE LET n == s.n + (buf[s.at] % 128) * s.weight
                                IN  IF buf[s.at] < 128 THEN [n |-> n, next |-> s.at + 1]
                                    ELSE f[[at |-> s.at + 1, n |-> n, weight |-> s.weight * 128]]
             same(f) == f = [s \in D |-> body(f, s)]
  <2>1. ASSUME NEW f PROVE same(f) <=> ReadsNumber(f, buf)
    <3>1. ASSUME NEW s \in D
          PROVE  body(f, s) = TurnAt(f, s, NumberStops(buf), NumberThere(buf), NumberOnward(buf))
      BY DEF TurnAt, NumberStops, NumberThere, NumberOnward, AddedAt
    <3> HIDE DEF body
    <3> QED
      BY <3>1 DEF ReadsNumber, LoopOver
  <2>2. RefReadVarLong(buf, at) = zigzag((CHOOSE f : same(f))[first])
    BY DEF RefReadVarLong, Reading128
  <2> HIDE DEF same
  <2>3. (CHOOSE f : same(f)) = h
    BY <2>1
  <2> QED
    BY <2>2, <2>3
<1> HIDE DEF h
<1>4. first \in D
  BY DEF Reading128
<1>5. h[first] = NumberFrom(buf)[first]
  <2>1. EndsOver(D, NumberRank(buf), NumberStops(buf), NumberOnward(buf))
    BY NumberEnds
  <2>2. \A s \in D : NumberFrom(buf)[s]
           = TurnAt(NumberFrom(buf), s, NumberStops(buf), NumberThere(buf), NumberOnward(buf))
    BY NumberTurns
  <2>3. LoopOver(h, D, NumberStops(buf), NumberThere(buf), NumberOnward(buf))
    BY <1>2 DEF ReadsNumber
  <2> HIDE DEF D
  <2> QED
    BY <1>4, <2>1, <2>2, <2>3, LoopIs
<1>6. NumberFrom(buf)[first] = IF HasVarLong(buf, at)
                               THEN [n |-> 0 + 1 * Bits(buf, at), next |-> VarEnd(buf, at) + 1]
                               ELSE NoNumber
  BY <1>4 DEF NumberFrom
<1>7. CASE ~HasVarLong(buf, at)
  BY <1>3, <1>5, <1>6, <1>7 DEF NoNumber
<1>8. CASE HasVarLong(buf, at)
  <2>1. Bits(buf, at) \in Nat
    <3>1. at \in 1..Len(buf) /\ at \in Nat /\ Len(buf) \in Nat
      BY <1>8, ElementOf DEF HasVarLong
    <3>2. CASE buf[at] < VarintBase
      BY <3>1, <3>2, LastByte, ByteLies
    <3>3. CASE ~(buf[at] < VarintBase)
      <4>1. Bits(buf, at + 1) \in Nat /\ Bits(buf, at) = (buf[at] % VarintBase) + VarintBase * Bits(buf, at + 1)
        BY <1>8, <3>1, <3>3, ByteBefore
      <4>2. buf[at] % VarintBase \in Nat /\ VarintBase \in Nat
        BY <3>1, ByteLies DEF VarintBase
      <4> QED
        BY <4>1, <4>2 DEF VarintBase
    <3> QED
      BY <3>2, <3>3
  <2> DEFINE m == Bits(buf, at)
  <2>2. ReadVarLong(buf, at) = IF m % 2 = 1 THEN 0 - (m + 1) \div 2 ELSE m \div 2
    BY DEF ReadVarLong, Bits, Low
  <2> HIDE DEF m
  <2>3. 0 + 1 * m = m
    BY <2>1 DEF m
  <2>4. h[first] = [n |-> m, next |-> VarEnd(buf, at) + 1]
    BY <1>5, <1>6, <1>8, <2>3 DEF m
  <2> HIDE DEF first
  <2> QED
    BY <1>3, <1>8, <2>2, <2>4
<1> QED
  BY <1>7, <1>8

\* readString() of either reads the same text, to the same place; where the
\* reference throws or goes back, the package throws.
LEMMA RefStringIs ==
  ASSUME NEW buf \in Seq(0..255), NEW at \in 1..(Len(buf) + 1)
  PROVE  /\ FitsIn(buf, at) => /\ RefReadString(buf, at).end = "read"
                               /\ RefReadString(buf, at).next = EndIn(buf, at)
                               /\ EndIn(buf, at) \in (at + 1)..(Len(buf) + 1)
                               /\ RefReadString(buf, at).text \in Seq(Nat)
                               /\ TextIn(buf, at) = Units(Unmarked(RefReadString(buf, at).text))
         /\ ~FitsIn(buf, at) => RefReadString(buf, at).end \in {"throws", "goes back"}
<1> DEFINE len == RefReadVarLong(buf, at)
           e == VarEnd(buf, at)
           n == ReadVarLong(buf, at)
           L == Len(buf)
           from == len.next
           to == len.next + len.n - 1
           bytes == SubSeq(buf, from, to)
<1>1. L \in Nat /\ at \in Nat
  BY ElementOf
<1>2. len = IF HasVarLong(buf, at) THEN [n |-> n, next |-> e + 1] ELSE NoNumber
  BY RefReadIs
<1>3. HasVarLong(buf, at) => e \in at..L /\ n \in Int
  BY <1>1, VarLongIsThere
<1>4. RefReadString(buf, at) =
        IF len.next = 0 THEN [end |-> "throws"]
        ELSE IF len.n < 0 THEN [end |-> "goes back"]
        ELSE IF to > L THEN [end |-> "throws"]
        ELSE [end |-> "read", next |-> len.next + len.n, text |-> DecodedPoints(bytes)]
  BY DEF RefReadString
<1>5. FitsIn(buf, at) <=> HasVarLong(buf, at) /\ n >= 0 /\ e + n <= L
  BY DEF FitsIn
<1>6. TextIn(buf, at) = Utf8Decode(SubSeq(buf, e + 1, e + n)) /\ EndIn(buf, at) = e + n + 1
  BY DEF TextIn, EndIn
<1> HIDE DEF len, e, n, L, bytes
<1>7. CASE ~HasVarLong(buf, at)
  <2>1. len.next = 0 /\ len.n = 0
    BY <1>2, <1>7 DEF NoNumber
  <2>2. RefReadString(buf, at) = [end |-> "throws"]
    BY <1>4, <2>1
  <2> QED
    BY <1>5, <1>7, <2>2
<1>8. CASE HasVarLong(buf, at) /\ n < 0
  <2>1. len.next = e + 1 /\ len.n = n /\ e + 1 # 0
    BY <1>1, <1>2, <1>3, <1>8
  <2>2. RefReadString(buf, at) = [end |-> "goes back"]
    BY <1>3, <1>4, <1>8, <2>1
  <2> QED
    <3>1. ~FitsIn(buf, at)
      BY <1>3, <1>5, <1>8
    <3> DEFINE r == RefReadString(buf, at)
    <3> HIDE DEF r
    <3>2. r = [end |-> "goes back"]
      BY <2>2 DEF r
    <3>3. r.end \in {"throws", "goes back"}
      BY <3>2
    <3> QED
      BY <3>1, <3>3 DEF r
<1>9. CASE HasVarLong(buf, at) /\ ~(n < 0) /\ ~(e + n <= L)
  <2>1. len.next = e + 1 /\ len.n = n /\ e + 1 # 0 /\ to > L /\ n >= 0
    BY <1>1, <1>2, <1>3, <1>9
  <2>2. RefReadString(buf, at) = [end |-> "throws"]
    BY <1>3, <1>4, <1>9, <2>1
  <2> QED
    BY <1>5, <1>9, <2>2
<1>10. CASE HasVarLong(buf, at) /\ ~(n < 0) /\ e + n <= L
  <2>1. len.next = e + 1 /\ len.n = n /\ e + 1 # 0 /\ to = e + n /\ ~(to > L) /\ n >= 0
    BY <1>1, <1>2, <1>3, <1>10
  <2>2. RefReadString(buf, at) = [end |-> "read", next |-> e + 1 + n, text |-> DecodedPoints(bytes)]
    BY <1>3, <1>4, <1>10, <2>1
  <2>3. e + 1 + n = e + n + 1 /\ e + n + 1 \in (at + 1)..(L + 1)
    BY <1>1, <1>3, <2>1, <1>10
  <2>4. bytes = SubSeq(buf, e + 1, e + n)
    BY <2>1 DEF bytes
  <2>5. bytes \in Seq(0..255)
    <3> DEFINE S == 0..255
    <3>1. buf \in Seq(S) /\ e + 1 \in 1..(Len(buf) + 1) /\ e + n \in (e + 1 - 1)..Len(buf)
      BY <1>1, <1>3, <1>10 DEF L
    <3> HIDE DEF S
    <3>2. SubSeq(buf, e + 1, e + n) \in Seq(S)
      BY <3>1, SubSeqProperties
    <3> QED
      BY <2>4, <3>2 DEF S
  <2>6. DecodedPoints(bytes) \in Seq(Nat)
    <3>1. DecodedPoints(bytes) \in Seq(Points)
      BY <2>5, DecodedIsShorter
    <3>2. Points \subseteq Nat
      BY DEF Points
    <3> HIDE DEF bytes
    <3> QED
      BY <3>1, <3>2, SeqOfMore
  <2>7. TextIn(buf, at) = Units(Unmarked(DecodedPoints(bytes)))
    BY <1>6, <2>4, DecodeIs
  <2> QED
    <3> DEFINE r == RefReadString(buf, at)
               d == DecodedPoints(bytes)
    <3> HIDE DEF r, d, bytes
    <3>1. r = [end |-> "read", next |-> e + 1 + n, text |-> d]
      BY <2>2 DEF r, d
    <3>2. r.end = "read" /\ r.next = e + n + 1 /\ r.text = d
      BY <2>3, <3>1
    <3>3. EndIn(buf, at) = e + n + 1 /\ e + n + 1 \in (at + 1)..(Len(buf) + 1)
      BY <1>6, <2>3 DEF L
    <3>4. FitsIn(buf, at)
      BY <1>3, <1>5, <1>10
    <3> QED
      BY <2>6, <2>7, <3>2, <3>3, <3>4, Zenon DEF r, d
<1> QED
  BY <1>7, <1>8, <1>9, <1>10

---------------------------------------------------------------------------
(* Tags, read by the reference *)

\* The reference's loops over a region, as it has them ...
Region(buf) == [at : 1..(Len(buf) + 1), left : Nat, tags : Seq(Seq(Seq(Nat)))]
RefCountTurn(f, buf, s) ==
    LET count == RefReadVarLong(buf, s.at)
        size == RefReadVarLong(buf, count.next)
        block(at, many) == f[[at |-> at, left |-> many, tags |-> s.tags]]
    IN  IF count.next = 0 THEN Throws
        ELSE IF count.n = 0 THEN [end |-> "read", tags |-> s.tags]
        ELSE IF count.n > 0 THEN block(count.next, count.n)
        ELSE IF size.next = 0 THEN Throws
        ELSE block(size.next, 0 - count.n)
RefTagTurn(f, buf, s) ==
    LET name == RefReadString(buf, s.at)
        value == RefReadString(buf, name.next)
    IN  IF name.end # "read" THEN [end |-> name.end, tags |-> <<>>]
        ELSE IF value.end # "read" THEN [end |-> value.end, tags |-> <<>>]
        ELSE f[[at |-> value.next, left |-> s.left - 1,
                tags |-> Append(s.tags, <<name.text, value.text>>)]]
RefTurn(f, buf, s) == IF s.left = 0 THEN RefCountTurn(f, buf, s) ELSE RefTagTurn(f, buf, s)
RefReads(f, buf) == f = [s \in Region(buf) |-> RefTurn(f, buf, s)]

\* ... and as the package would: where the cursor is after a block's count, ...
BlockGoesOn(buf, at) ==
    /\ HasVarLong(buf, at) /\ ReadVarLong(buf, at) # 0
    /\ ReadVarLong(buf, at) < 0 => HasVarLong(buf, VarEnd(buf, at) + 1)
BlockEnd(buf, at) ==
    IF ReadVarLong(buf, at) > 0 THEN VarEnd(buf, at) + 1 ELSE VarEnd(buf, VarEnd(buf, at) + 1) + 1
BlockTags(buf, at) ==
    IF ReadVarLong(buf, at) > 0 THEN ReadVarLong(buf, at) ELSE 0 - ReadVarLong(buf, at)

\* ... and what a tag is, and where it ends.
FitsTwice(buf, at) == FitsIn(buf, at) /\ FitsIn(buf, EndIn(buf, at))
TwoTexts(buf, at) == <<RefReadString(buf, at).text, RefReadString(buf, EndIn(buf, at)).text>>

GoesOn(buf, s) == IF s.left = 0 THEN BlockGoesOn(buf, s.at) ELSE FitsTwice(buf, s.at)
AfterTurn(buf, s) ==
    IF s.left = 0 THEN [at |-> BlockEnd(buf, s.at), left |-> BlockTags(buf, s.at), tags |-> s.tags]
    ELSE [at |-> EndIn(buf, EndIn(buf, s.at)), left |-> s.left - 1,
          tags |-> Append(s.tags, TwoTexts(buf, s.at))]
LastTurn(buf, s) ==
    IF s.left = 0
    THEN IF HasVarLong(buf, s.at) /\ ReadVarLong(buf, s.at) = 0 THEN [end |-> "read", tags |-> s.tags]
         ELSE Throws
    ELSE IF ~FitsIn(buf, s.at) THEN [end |-> RefReadString(buf, s.at).end, tags |-> <<>>]
    ELSE [end |-> RefReadString(buf, EndIn(buf, s.at)).end, tags |-> <<>>]

\* A count that is followed by tags ends before the region does.
LEMMA BlockLies ==
  ASSUME NEW buf \in Seq(0..255), NEW at \in 1..(Len(buf) + 1), BlockGoesOn(buf, at)
  PROVE  BlockEnd(buf, at) \in (at + 1)..(Len(buf) + 1) /\ BlockTags(buf, at) \in Nat \ {0}
<1> DEFINE L == Len(buf)
           e == VarEnd(buf, at)
           n == ReadVarLong(buf, at)
<1>1. L \in Nat /\ at \in Nat
  BY ElementOf
<1>2. e \in at..L /\ n \in Int /\ n # 0 /\ (n < 0 => HasVarLong(buf, e + 1))
  BY <1>1, VarLongIsThere DEF BlockGoesOn
<1>3. n < 0 => VarEnd(buf, e + 1) \in (e + 1)..L
  <2> HIDE DEF n, e
  <2>1. e + 1 \in Nat
    BY <1>1, <1>2
  <2> QED
    BY <1>2, <2>1, VarLongIsThere DEF L
<1>4. BlockEnd(buf, at) = IF n > 0 THEN e + 1 ELSE VarEnd(buf, e + 1) + 1
  BY DEF BlockEnd
<1>5. BlockTags(buf, at) = IF n > 0 THEN n ELSE 0 - n
  BY DEF BlockTags
<1> HIDE DEF n, e, L
<1>6. L = Len(buf)
  BY DEF L
<1> QED
  BY <1>1, <1>2, <1>3, <1>4, <1>5, <1>6

\* The count of a block, or the end of the region.
LEMMA RefCountIs ==
  ASSUME NEW buf \in Seq(0..255), NEW s \in Region(buf), s.left = 0, NEW f
  PROVE  RefCountTurn(f, buf, s) =
             IF BlockGoesOn(buf, s.at)
             THEN f[[at |-> BlockEnd(buf, s.at), left |-> BlockTags(buf, s.at), tags |-> s.tags]]
             ELSE IF HasVarLong(buf, s.at) /\ ReadVarLong(buf, s.at) = 0
             THEN [end |-> "read", tags |-> s.tags]
             ELSE Throws
<1> DEFINE L == Len(buf)
           at == s.at
           e == VarEnd(buf, at)
           n == ReadVarLong(buf, at)
           count == RefReadVarLong(buf, at)
           size == RefReadVarLong(buf, count.next)
           turn == RefCountTurn(f, buf, s)
           block(next, many) == [at |-> next, left |-> many, tags |-> s.tags]
<1>1. L \in Nat /\ at \in 1..(L + 1) /\ at \in Nat
  BY ElementOf DEF Region
<1>3. turn = IF count.next = 0 THEN Throws
             ELSE IF count.n = 0 THEN [end |-> "read", tags |-> s.tags]
             ELSE IF count.n > 0 THEN f[block(count.next, count.n)]
             ELSE IF size.next = 0 THEN Throws
             ELSE f[block(size.next, 0 - count.n)]
  BY DEF RefCountTurn
<1>4. count = IF HasVarLong(buf, at) THEN [n |-> n, next |-> e + 1] ELSE NoNumber
  <2> HIDE DEF at
  <2> QED
    BY <1>1, RefReadIs DEF L
<1>5. HasVarLong(buf, at) => e \in at..L /\ n \in Int
  <2> HIDE DEF at
  <2> QED
    BY <1>1, VarLongIsThere
<1>6. CASE ~HasVarLong(buf, at)
  <2>1. count.next = 0
    BY <1>4, <1>6 DEF NoNumber
  <2>2. turn = Throws
    BY <1>3, <2>1
  <2> QED
    BY <1>6, <2>2 DEF BlockGoesOn
<1>7. CASE HasVarLong(buf, at)
  <2>1. count.next = e + 1 /\ count.n = n /\ e + 1 # 0 /\ e + 1 \in 1..(L + 1) /\ n \in Int
    BY <1>1, <1>4, <1>5, <1>7
  <2>2. CASE n = 0
    <3>1. turn = [end |-> "read", tags |-> s.tags]
      BY <1>3, <2>1, <2>2
    <3> QED
      BY <1>7, <2>2, <3>1 DEF BlockGoesOn
  <2>3. CASE n > 0
    <3>1. turn = f[block(e + 1, n)]
      BY <1>3, <2>1, <2>3
    <3>2. BlockGoesOn(buf, at) /\ BlockEnd(buf, at) = e + 1 /\ BlockTags(buf, at) = n
      BY <1>7, <2>1, <2>3 DEF BlockGoesOn, BlockEnd, BlockTags
    <3> QED
      BY <3>1, <3>2
  <2>4. CASE n < 0
    <3> DEFINE k == e + 1
    <3>1. size = IF HasVarLong(buf, k) THEN [n |-> ReadVarLong(buf, k), next |-> VarEnd(buf, k) + 1] ELSE NoNumber
      <4>1. count.next = k /\ k \in 1..(Len(buf) + 1)
        BY <2>1
      <4> HIDE DEF k, count
      <4> QED
        BY <4>1, RefReadIs
    <3>2. CASE ~HasVarLong(buf, k)
      <4>1. size.next = 0
        BY <3>1, <3>2 DEF NoNumber
      <4>2. turn = Throws
        BY <1>3, <2>1, <2>4, <4>1
      <4> QED
        BY <2>1, <2>4, <3>2, <4>2 DEF BlockGoesOn
    <3>3. CASE HasVarLong(buf, k)
      <4>1. VarEnd(buf, k) \in k..L /\ k \in Nat
        <5>1. k \in Nat
          BY <2>1
        <5> HIDE DEF k
        <5> QED
          BY <3>3, <5>1, VarLongIsThere
      <4>2. size.next = VarEnd(buf, k) + 1 /\ VarEnd(buf, k) + 1 # 0
        BY <1>1, <3>1, <3>3, <4>1
      <4>3. turn = f[block(VarEnd(buf, k) + 1, 0 - n)]
        BY <1>3, <2>1, <2>4, <4>2
      <4>4. BlockGoesOn(buf, at) /\ BlockEnd(buf, at) = VarEnd(buf, k) + 1 /\ BlockTags(buf, at) = 0 - n
        BY <1>7, <2>1, <2>4, <3>3 DEF BlockGoesOn, BlockEnd, BlockTags
      <4> QED
        BY <4>3, <4>4
    <3> QED
      BY <3>2, <3>3
  <2> QED
    BY <2>1, <2>2, <2>3, <2>4
<1> QED
  BY <1>6, <1>7

\* A tag that is there is two texts, and ends before the region does.
LEMMA TwoTextsLie ==
  ASSUME NEW buf \in Seq(0..255), NEW at \in 1..(Len(buf) + 1), FitsTwice(buf, at)
  PROVE  /\ RefReadString(buf, at).end = "read" /\ RefReadString(buf, at).next = EndIn(buf, at)
         /\ RefReadString(buf, EndIn(buf, at)).end = "read"
         /\ RefReadString(buf, EndIn(buf, at)).next = EndIn(buf, EndIn(buf, at))
         /\ EndIn(buf, EndIn(buf, at)) \in (at + 1)..(Len(buf) + 1)
         /\ TwoTexts(buf, at) \in Seq(Seq(Nat))
         /\ TextIn(buf, at) = Units(Unmarked(TwoTexts(buf, at)[1]))
         /\ TextIn(buf, EndIn(buf, at)) = Units(Unmarked(TwoTexts(buf, at)[2]))
<1> DEFINE mid == EndIn(buf, at)
           a == RefReadString(buf, at).text
           b == RefReadString(buf, mid).text
<1>1. FitsIn(buf, at) /\ FitsIn(buf, mid)
  BY DEF FitsTwice
<1>2. /\ RefReadString(buf, at).end = "read" /\ RefReadString(buf, at).next = mid
      /\ mid \in (at + 1)..(Len(buf) + 1) /\ a \in Seq(Nat)
      /\ TextIn(buf, at) = Units(Unmarked(a))
  BY <1>1, RefStringIs
<1>3. Len(buf) \in Nat
  BY ElementOf
<1>4. TwoTexts(buf, at) = <<a, b>>
  BY DEF TwoTexts
<1> HIDE DEF mid, a
<1>5. mid \in 1..(Len(buf) + 1)
  BY <1>2, <1>3
<1>6. /\ RefReadString(buf, mid).end = "read" /\ RefReadString(buf, mid).next = EndIn(buf, mid)
      /\ EndIn(buf, mid) \in (mid + 1)..(Len(buf) + 1) /\ b \in Seq(Nat)
      /\ TextIn(buf, mid) = Units(Unmarked(b))
  BY <1>1, <1>5, RefStringIs
<1> HIDE DEF b
<1>7. EndIn(buf, mid) \in (at + 1)..(Len(buf) + 1)
  BY <1>2, <1>3, <1>6
<1>8. <<a, b>> \in Seq(Seq(Nat)) /\ <<a, b>>[1] = a /\ <<a, b>>[2] = b
  BY <1>2, <1>6
<1> QED
  BY <1>2, <1>4, <1>6, <1>7, <1>8, Zenon DEF mid

\* A tag, or the end of the check.
LEMMA RefTagIs ==
  ASSUME NEW buf \in Seq(0..255), NEW s \in Region(buf), s.left # 0, NEW f
  PROVE  RefTagTurn(f, buf, s) =
             IF FitsTwice(buf, s.at)
             THEN f[[at |-> EndIn(buf, EndIn(buf, s.at)), left |-> s.left - 1,
                     tags |-> Append(s.tags, TwoTexts(buf, s.at))]]
             ELSE IF ~FitsIn(buf, s.at) THEN [end |-> RefReadString(buf, s.at).end, tags |-> <<>>]
             ELSE [end |-> RefReadString(buf, EndIn(buf, s.at)).end, tags |-> <<>>]
<1> DEFINE at == s.at
           name == RefReadString(buf, at)
           value == RefReadString(buf, name.next)
           turn == RefTagTurn(f, buf, s)
<1>1. Len(buf) \in Nat /\ at \in 1..(Len(buf) + 1)
  BY ElementOf DEF Region
<1>2. turn = IF name.end # "read" THEN [end |-> name.end, tags |-> <<>>]
             ELSE IF value.end # "read" THEN [end |-> value.end, tags |-> <<>>]
             ELSE f[[at |-> value.next, left |-> s.left - 1,
                     tags |-> Append(s.tags, <<name.text, value.text>>)]]
  BY DEF RefTagTurn
<1>3. CASE FitsTwice(buf, at)
  <2>1. /\ name.end = "read" /\ name.next = EndIn(buf, at) /\ value.end = "read"
        /\ value.next = EndIn(buf, EndIn(buf, at))
    <3> HIDE DEF at
    <3> QED
      BY <1>1, <1>3, TwoTextsLie
  <2>2. <<name.text, value.text>> = TwoTexts(buf, at)
    BY <2>1 DEF TwoTexts
  <2>3. turn = f[[at |-> value.next, left |-> s.left - 1, tags |-> Append(s.tags, <<name.text, value.text>>)]]
    BY <1>2, <2>1
  <2> HIDE DEF name, value
  <2> QED
    BY <1>3, <2>1, <2>2, <2>3
<1>4. CASE ~FitsIn(buf, at)
  <2>1. name.end # "read"
    <3>1. name.end \in {"throws", "goes back"}
      <4> HIDE DEF at
      <4> QED
        BY <1>1, <1>4, RefStringIs
    <3> QED
      BY <3>1
  <2>2. turn = [end |-> name.end, tags |-> <<>>]
    BY <1>2, <2>1
  <2> QED
    BY <1>4, <2>2 DEF FitsTwice
<1>5. CASE FitsIn(buf, at) /\ ~FitsTwice(buf, at)
  <2> DEFINE mid == EndIn(buf, at)
  <2>1. name.end = "read" /\ name.next = mid /\ mid \in (at + 1)..(Len(buf) + 1)
    <3> HIDE DEF at
    <3> QED
      BY <1>1, <1>5, RefStringIs
  <2>2. mid \in 1..(Len(buf) + 1)
    <3> HIDE DEF mid
    <3> QED
      BY <1>1, <2>1
  <2>3. value = RefReadString(buf, mid)
    BY <2>1
  <2>4. ~FitsIn(buf, mid)
    BY <1>5 DEF FitsTwice
  <2>5. RefReadString(buf, mid).end # "read"
    <3>1. RefReadString(buf, mid).end \in {"throws", "goes back"}
      <4> HIDE DEF mid
      <4> QED
        BY <2>2, <2>4, RefStringIs
    <3> QED
      BY <3>1
  <2>6. turn = [end |-> value.end, tags |-> <<>>]
    BY <1>2, <2>1, <2>3, <2>5
  <2> QED
    BY <1>5, <2>3, <2>6
<1> QED
  BY <1>3, <1>4, <1>5

\* A turn of the reference's loops is one that the package would take.
LEMMA RefTurnIs ==
  ASSUME NEW buf \in Seq(0..255), NEW s \in Region(buf), NEW f
  PROVE  RefTurn(f, buf, s) = IF GoesOn(buf, s) THEN f[AfterTurn(buf, s)] ELSE LastTurn(buf, s)
<1>1. CASE s.left = 0
  <2>1. RefTurn(f, buf, s) = RefCountTurn(f, buf, s)
    BY <1>1 DEF RefTurn
  <2> QED
    BY <1>1, <2>1, RefCountIs DEF GoesOn, AfterTurn, LastTurn
<1>2. CASE s.left # 0
  <2>1. RefTurn(f, buf, s) = RefTagTurn(f, buf, s)
    BY <1>2 DEF RefTurn
  <2> QED
    BY <1>2, <2>1, RefTagIs DEF GoesOn, AfterTurn, LastTurn
<1> QED
  BY <1>1, <1>2

\* It leaves the cursor further on.
LEMMA AfterTurnLies ==
  ASSUME NEW buf \in Seq(0..255), NEW s \in Region(buf), GoesOn(buf, s)
  PROVE  AfterTurn(buf, s) \in Region(buf) /\ AfterTurn(buf, s).at > s.at
<1>1. Len(buf) \in Nat /\ s.at \in 1..(Len(buf) + 1) /\ s.left \in Nat /\ s.tags \in Seq(Seq(Seq(Nat)))
  BY ElementOf DEF Region
<1> DEFINE r(next, many, list) == [at |-> next, left |-> many, tags |-> list]
<1>2. ASSUME NEW next \in (s.at + 1)..(Len(buf) + 1), NEW many \in Nat, NEW list \in Seq(Seq(Seq(Nat)))
      PROVE  r(next, many, list) \in Region(buf) /\ r(next, many, list).at > s.at
  <2>1. next \in 1..(Len(buf) + 1) /\ next > s.at
    BY <1>1
  <2> QED
    BY <2>1 DEF Region
<1>3. CASE s.left = 0
  <2>1. BlockEnd(buf, s.at) \in (s.at + 1)..(Len(buf) + 1) /\ BlockTags(buf, s.at) \in Nat
    BY <1>1, <1>3, BlockLies DEF GoesOn
  <2>2. AfterTurn(buf, s) = r(BlockEnd(buf, s.at), BlockTags(buf, s.at), s.tags)
    BY <1>3 DEF AfterTurn
  <2> HIDE DEF r
  <2> QED
    BY <1>1, <1>2, <2>1, <2>2
<1>4. CASE s.left # 0
  <2> DEFINE next == EndIn(buf, EndIn(buf, s.at))
             list == Append(s.tags, TwoTexts(buf, s.at))
  <2>1. next \in (s.at + 1)..(Len(buf) + 1) /\ TwoTexts(buf, s.at) \in Seq(Seq(Nat))
    BY <1>1, <1>4, TwoTextsLie DEF GoesOn
  <2>2. list \in Seq(Seq(Seq(Nat))) /\ s.left - 1 \in Nat
    <3> DEFINE T == Seq(Seq(Nat))
    <3> HIDE DEF T
    <3>1. s.tags \in Seq(T) /\ TwoTexts(buf, s.at) \in T
      BY <1>1, <2>1 DEF T
    <3>2. list \in Seq(T)
      BY <3>1
    <3> QED
      BY <1>1, <1>4, <3>2 DEF T
  <2>3. AfterTurn(buf, s) = r(next, s.left - 1, list)
    BY <1>4 DEF AfterTurn
  <2> HIDE DEF r, next, list
  <2> QED
    BY <1>2, <2>1, <2>2, <2>3
<1> QED
  BY <1>3, <1>4

\* deserializeTags() of the reference, turn by turn.
RefLoops(buf) == CHOOSE h : RefReads(h, buf)

\* It is what the package would read, turn by turn.
LEMMA RefTagsAreRead ==
  ASSUME NEW buf \in Seq(0..255)
  PROVE  /\ RefDeserializeTags(buf) = RefLoops(buf)[[at |-> 1, left |-> 0, tags |-> <<>>]]
         /\ \A s \in Region(buf) :
              RefLoops(buf)[s] =
                  IF GoesOn(buf, s) THEN RefLoops(buf)[AfterTurn(buf, s)] ELSE LastTurn(buf, s)
<1> DEFINE D == Region(buf)
           L == Len(buf)
           rank == [s \in D |-> L + 1 - s.at]
           stops == [s \in D |-> ~GoesOn(buf, s)]
           result == [s \in D |-> LastTurn(buf, s)]
           onward == [s \in D |-> IF GoesOn(buf, s) THEN AfterTurn(buf, s) ELSE s]
           h == RefLoops(buf)
<1>1. L \in Nat
  BY ElementOf
<1>2. ASSUME NEW s \in D PROVE s.at \in 1..(L + 1) /\ rank[s] = L + 1 - s.at /\ rank[s] \in 0..L
  BY <1>1 DEF Region
<1>3. EndsOver(D, rank, stops, onward) /\ \A s \in D : rank[s] <= L
  <2>1. ASSUME NEW s \in D
        PROVE  onward[s] \in D /\ (~stops[s] => rank[onward[s]] < rank[s])
    <3>1. CASE ~GoesOn(buf, s)
      BY <3>1
    <3>2. CASE GoesOn(buf, s)
      <4> DEFINE t == AfterTurn(buf, s)
      <4>1. t \in D /\ t.at > s.at
        BY <3>2, AfterTurnLies
      <4>2. onward[s] = t
        BY <3>2
      <4> HIDE DEF t, D, L, rank, onward
      <4>3. t.at \in 1..(L + 1) /\ rank[t] = L + 1 - t.at /\ rank[s] = L + 1 - s.at /\ s.at \in 1..(L + 1)
        BY <1>2, <4>1
      <4> QED
        BY <1>1, <4>1, <4>2, <4>3
    <3> QED
      BY <3>1, <3>2
  <2>2. rank \in [D -> Nat] /\ \A s \in D : rank[s] <= L
    <3>1. rank = [s \in D |-> rank[s]]
      OBVIOUS
    <3> HIDE DEF rank, D
    <3>2. \A s \in D : rank[s] \in Nat /\ rank[s] <= L
      BY <1>1, <1>2
    <3> QED
      BY <3>1, <3>2
  <2>3. onward \in [D -> D]
    <3>1. onward = [s \in D |-> onward[s]]
      OBVIOUS
    <3> HIDE DEF onward, D
    <3> QED
      BY <2>1, <3>1
  <2> HIDE DEF D, L, rank, stops, onward
  <2> QED
    BY <2>1, <2>2, <2>3 DEF EndsOver
<1>4. PICK f : LoopOver(f, D, stops, result, onward)
  <2> HIDE DEF D, L, rank, stops, onward, result
  <2> QED
    BY <1>1, <1>3, LoopExists
<1>5. ASSUME NEW f1, NEW s \in D PROVE RefTurn(f1, buf, s) = TurnAt(f1, s, stops, result, onward)
  BY RefTurnIs DEF TurnAt
<1>6. RefReads(f, buf)
  <2> HIDE DEF stops, result, onward
  <2> QED
    BY <1>4, <1>5 DEF LoopOver, RefReads
<1>7. RefReads(h, buf)
  BY <1>6 DEF RefLoops
<1>8. RefDeserializeTags(buf) = h[[at |-> 1, left |-> 0, tags |-> <<>>]]
  BY DEF RefDeserializeTags, RefLoops, RefReads, RefTurn, RefCountTurn, RefTagTurn, Region
<1> HIDE DEF h
<1>9. ASSUME NEW s \in D
      PROVE  h[s] = IF GoesOn(buf, s) THEN h[AfterTurn(buf, s)] ELSE LastTurn(buf, s)
  <2> DEFINE turn(x) == RefTurn(h, buf, x)
  <2>1. h = [x \in D |-> turn(x)]
    BY <1>7 DEF RefReads
  <2> HIDE DEF turn, D
  <2>2. h[s] = turn(s)
    BY <2>1
  <2> QED
    BY <2>2, RefTurnIs DEF turn, D
<1> QED
  BY <1>8, <1>9 DEF h

---------------------------------------------------------------------------
(* The check, beside the reference's *)

\* An item begins with its type, as far as it goes.
Begins(buf, type) == (Len(buf) >= 1 => buf[1] = type) /\ (Len(buf) >= 2 => buf[2] = 0)

\* The type that is read of such an item is its own, or 0 if the item is empty.
LEMMA TypeIsRead ==
  ASSUME NEW buf \in Seq(0..255), NEW type \in 1..255, Begins(buf, type)
  PROVE  SigType(buf) \in {0, type}
<1> DEFINE s == Slice(buf, 1, 2)
           L == Len(buf)
           none == <<>>
<1>1. L \in Nat /\ type \in Nat /\ Base \in Nat
  BY ElementOf DEF Base
<1>2. SigType(buf) = Number(s, Base)
  BY DEF SigType, ByteArrayToLong
<1>3. none \in Seq(Nat) /\ Len(none) = 0 /\ Number(none, Base) = 0
  BY <1>1, NumberUnfolds
<1> HIDE DEF none
<1>4. \A d \in Nat, t \in Seq(Nat) : <<d>> \o t \in Seq(Nat) /\ Number(<<d>> \o t, Base) = d + Base * Number(t, Base)
  <2> TAKE d \in Nat, t \in Seq(Nat)
  <2> DEFINE r == <<d>> \o t
  <2>1. r \in Seq(Nat) /\ Len(r) = Len(t) + 1 /\ r[1] = d /\ \A k \in 1..Len(t) : r[k + 1] = t[k]
    <3>1. r \in Seq(Nat) /\ DOMAIN r = 1..(Len(t) + 1) /\ Len(t) \in Nat
          /\ r[1] = d /\ \A k \in 1..Len(t) : r[k + 1] = t[k]
      BY FirstApplied
    <3> HIDE DEF r
    <3> QED
      BY <3>1
  <2> HIDE DEF r
  <2>2. Number(r, Base) = r[1] + Base * Number(t, Base)
    BY <1>1, <2>1, NumberUnfolds
  <2> QED
    BY <2>1, <2>2 DEF r
<1>5. CASE L = 0
  <2>1. s = none
    <3>1. s = SubSeq(buf, 1, 0)
      BY <1>5 DEF Slice
    <3> QED
      BY <3>1 DEF none
  <2> QED
    BY <1>2, <1>3, <2>1
<1>6. CASE L = 1
  <2>1. s = <<type>> \o none
    <3>1. s = SubSeq(buf, 1, 1)
      BY <1>6 DEF Slice
    <3>2. SubSeq(buf, 1, 1) = <<type>>
      <4>1. buf[1] = type /\ 1 \in Nat /\ 1 <= Len(buf)
        BY <1>6 DEF Begins
      <4>2. /\ SubSeq(buf, 1, 1) \in Seq(0..255) /\ Len(SubSeq(buf, 1, 1)) = 1
            /\ \A i \in 1..1 : SubSeq(buf, 1, 1)[i] = buf[i]
        BY <4>1, FirstPart
      <4> DEFINE r == SubSeq(buf, 1, 1)
      <4> HIDE DEF r
      <4>3. r \in Seq(0..255) /\ Len(r) = 1 /\ r[1] = type
        BY <4>1, <4>2 DEF r
      <4>4. r = <<type>>
        BY <4>3
      <4> QED
        BY <4>4 DEF r
    <3>3. <<type>> \o none = <<type>>
      BY DEF none
    <3> QED
      BY <3>1, <3>2, <3>3
  <2>2. Number(<<type>> \o none, Base) = type + Base * Number(none, Base)
    BY <1>1, <1>3, <1>4
  <2> QED
    BY <1>1, <1>2, <1>3, <2>1, <2>2 DEF Base
<1>7. CASE L >= 2
  <2>1. s = <<type>> \o (<<0>> \o none)
    <3>1. s = SubSeq(buf, 1, 2)
      BY <1>7 DEF Slice
    <3>2. SubSeq(buf, 1, 2) = <<type, 0>>
      <4>1. buf[1] = type /\ buf[2] = 0 /\ 2 \in Nat /\ 2 <= Len(buf)
        BY <1>1, <1>7 DEF Begins
      <4>2. /\ SubSeq(buf, 1, 2) \in Seq(0..255) /\ Len(SubSeq(buf, 1, 2)) = 2
            /\ \A i \in 1..2 : SubSeq(buf, 1, 2)[i] = buf[i]
        BY <4>1, FirstPart
      <4> DEFINE r == SubSeq(buf, 1, 2)
      <4> HIDE DEF r
      <4>3. r \in Seq(0..255) /\ Len(r) = 2 /\ r[1] = type /\ r[2] = 0
        BY <4>1, <4>2 DEF r
      <4>4. r = <<type, 0>>
        BY <4>3
      <4> QED
        BY <4>4 DEF r
    <3>3. <<0>> \o none = <<0>>
      BY DEF none
    <3>4. <<type>> \o <<0>> = <<type, 0>>
      <4> DEFINE r == <<type>> \o <<0>>
      <4>1. <<0>> \in Seq(Nat) /\ Len(<<0>>) = 1 /\ <<0>>[1] = 0
        OBVIOUS
      <4>2. r \in Seq(Nat) /\ DOMAIN r = 1..2 /\ r[1] = type /\ r[2] = 0
        <5>1. r \in Seq(Nat) /\ DOMAIN r = 1..(1 + 1) /\ r[1] = type
              /\ \A i \in 1..1 : r[i + 1] = <<0>>[i]
          BY <1>1, <4>1, FirstApplied
        <5> HIDE DEF r
        <5> QED
          BY <4>1, <5>1
      <4> HIDE DEF r
      <4>3. Len(r) = 2 /\ <<type, 0>> \in Seq(Nat) /\ Len(<<type, 0>>) = 2
        BY <1>1, <4>2
      <4>4. \A i \in 1..2 : r[i] = <<type, 0>>[i]
        BY <4>2
      <4>5. r = <<type, 0>>
        BY <4>2, <4>3, <4>4, SameSeq
      <4> QED
        BY <4>5 DEF r
    <3> QED
      BY <3>1, <3>2, <3>3, <3>4
  <2>2. <<0>> \o none \in Seq(Nat) /\ Number(<<0>> \o none, Base) = 0 + Base * Number(none, Base)
    BY <1>1, <1>3, <1>4
  <2> DEFINE z == <<0>> \o none
  <2> HIDE DEF z
  <2>3. z \in Seq(Nat) /\ Number(z, Base) = 0 + Base * Number(none, Base)
    BY <2>2 DEF z
  <2>4. Number(<<type>> \o z, Base) = type + Base * Number(z, Base)
    BY <1>1, <1>4, <2>3
  <2>5. s = <<type>> \o z
    BY <2>1 DEF z
  <2> QED
    <3>1. Number(z, Base) = 0
      BY <1>3, <2>3 DEF Base
    <3>2. Number(s, Base) = type
      <4>1. Number(s, Base) = type + Base * Number(z, Base)
        BY <2>4, <2>5, Zenon
      <4> QED
        BY <1>1, <3>1, <4>1
    <3> QED
      BY <1>2, <3>2
<1> HIDE DEF L
<1>8. L = 0 \/ L = 1 \/ L >= 2
  BY <1>1
<1> QED
  BY <1>5, <1>6, <1>7, <1>8

\* What is laid out begins with the type.
LEMMA LayoutBegins ==
  ASSUME NEW o, WellMade(o), NEW count \in Nat, NEW declared \in Nat, NEW region \in Seq(0..255)
  PROVE  Begins(Layout(o, count, declared, region), o.type)
<1> DEFINE B == 0..255
           a == LongToNByteArray(2, o.type)
           b == [i \in 1..SigConfig[o.type].sigLength |-> 0]
           c == o.owner
           d == Field(TargetBytes(o))
           e == Field(AnchorBytes(o))
           f == LongToNByteArray(LongLength, count)
           g == LongToNByteArray(LongLength, declared)
           i == o.data
           First(x) == x \in Seq(B) /\ Len(x) >= 2 /\ x[1] = o.type /\ x[2] = 0
<1>1. /\ o.type \in 1..255 /\ SigConfig[o.type].sigLength \in Nat
      /\ c \in Seq(B) /\ i \in Seq(B) /\ IsField(TargetBytes(o)) /\ IsField(AnchorBytes(o))
  BY DEF WellMade
<1>0. \A x \in 1..255 : x \in Nat /\ x % 256 = x /\ x \div 256 = 0
  OBVIOUS
<1>a. o.type \in Nat /\ o.type % 256 = o.type /\ o.type \div 256 = 0
  BY <1>0, <1>1, Zenon
<1>2. First(a)
  <2>1. a \in Seq(B) /\ Len(a) = 2
    BY <1>a, LongIsRead
  <2> DEFINE l == LeftOf(o.type, 2)
  <2>2. l[0] = o.type /\ l[1] = l[0] \div Base
    <3>0. 2 \in Nat
      OBVIOUS
    <3>1. \A k \in 1..2 : l[k] = l[k - 1] \div Base
      BY <1>a, <3>0, LeftOfUnfolds, Zenon
    <3>2. l[0] = o.type
      BY <1>a, <3>0, LeftOfUnfolds, Zenon
    <3>3. 1 \in 1..2 /\ 1 - 1 = 0
      OBVIOUS
    <3> HIDE DEF l
    <3> QED
      BY <3>1, <3>2, <3>3
  <2>3. a = [k \in 1..2 |-> l[k - 1] % Base]
    BY DEF LongToNByteArray
  <2> HIDE DEF l, a
  <2>4. a[1] = l[0] % Base /\ a[2] = l[1] % Base
    BY <2>3
  <2>5. a[1] = o.type /\ a[2] = 0
    BY <1>a, <2>2, <2>4 DEF Base
  <2> QED
    BY <2>1, <2>5
<1>3. b \in Seq(B)
  <2> DEFINE n == SigConfig[o.type].sigLength
  <2>1. b \in [1..n -> B]
    OBVIOUS
  <2>2. n \in Nat
    BY <1>1
  <2> HIDE DEF b, B, n
  <2> QED
    BY <2>1, <2>2, FunctionIsSeq
<1>4. d \in Seq(B) /\ e \in Seq(B)
  BY <1>1, FieldLies
<1>5. f \in Seq(B) /\ g \in Seq(B)
  BY WidthsAssumption, LongIsRead
<1>6. region \in Seq(B)
  OBVIOUS
<1>7. Layout(o, count, declared, region) = a \o b \o c \o d \o e \o f \o g \o region \o i
  BY DEF Layout
<1> HIDE DEF B, a, b, c, d, e, f, g, i
<1>8. ASSUME NEW x, First(x), NEW y \in Seq(B) PROVE First(x \o y)
  <2>1. Len(x) \in Nat /\ Len(y) \in Nat /\ 1 \in 1..Len(x) /\ 2 \in 1..Len(x)
    BY <1>8, ElementOf
  <2>2. x \o y \in Seq(B) /\ Len(x \o y) = Len(x) + Len(y) /\ \A k \in 1..Len(x) : (x \o y)[k] = x[k]
    BY <1>8, Joined
  <2> DEFINE z == x \o y
  <2> HIDE DEF z
  <2>3. z \in Seq(B) /\ Len(z) >= 2 /\ z[1] = x[1] /\ z[2] = x[2]
    BY <1>8, <2>1, <2>2 DEF z
  <2> QED
    BY <1>8, <2>3 DEF z
<1> DEFINE s == a \o b \o c \o d \o e \o f \o g \o region \o i
<1>9. First(s)
  <2>1. First(a \o b)
    BY <1>2, <1>3, <1>8
  <2>2. First(a \o b \o c)
    BY <1>1, <1>8, <2>1
  <2>3. First(a \o b \o c \o d)
    BY <1>4, <1>8, <2>2
  <2>4. First(a \o b \o c \o d \o e)
    BY <1>4, <1>8, <2>3
  <2>5. First(a \o b \o c \o d \o e \o f)
    BY <1>5, <1>8, <2>4
  <2>6. First(a \o b \o c \o d \o e \o f \o g)
    BY <1>5, <1>8, <2>5
  <2>7. First(a \o b \o c \o d \o e \o f \o g \o region)
    BY <1>6, <1>8, <2>6
  <2> QED
    BY <1>1, <1>8, <2>7
<1> HIDE DEF s
<1> QED
  BY <1>7, <1>9 DEF Begins, s

\* Every item that is checked begins with the type it was made of, as far as it
\* goes.
LEMMA ItemBegins ==
  ASSUME Inputs
  PROVE  Begins(item, opts.type)
<1>1. opts \in Options /\ CanCreate(opts)
  BY DEF Inputs, Created
<1>2. WellMade(opts) /\ opts.tags \in Seq(Tag)
  BY <1>1, CreatedLies
<1> DEFINE tagBytes == SerializeTags(opts.tags)
           s == CreateDataItem(opts)
<1>3. tagBytes \in Seq(0..255) /\ Len(tagBytes) \in Nat
  BY <1>2, RegionIs
<1>4. Len(opts.tags) \in Nat
  BY <1>2, ElementOf
<1>5. s = Layout(opts, Len(opts.tags), Len(tagBytes), tagBytes)
  BY DEF CreateDataItem
<1>6. s \in Seq(0..255) /\ Len(s) \in Nat
  BY <1>1, CreatedIsParsed, ElementOf
<1> HIDE DEF tagBytes
<1>7. Begins(s, opts.type)
  <2> DEFINE many == Len(opts.tags)
             long == Len(tagBytes)
  <2>1. many \in Nat /\ long \in Nat /\ s = Layout(opts, many, long, tagBytes)
    BY <1>3, <1>4, <1>5
  <2> HIDE DEF many, long, s
  <2> QED
    BY <1>2, <1>3, <2>1, LayoutBegins
<1>8. CASE item = s
  BY <1>7, <1>8
<1> HIDE DEF s
<1>9. CASE \E count \in 0..3 : item = Layout(opts, count, Len(tagBytes), tagBytes)
  <2>1. PICK count \in 0..3 : item = Layout(opts, count, Len(tagBytes), tagBytes)
    BY <1>9
  <2>2. count \in Nat
    OBVIOUS
  <2> QED
    BY <1>2, <1>3, <2>1, <2>2, LayoutBegins
<1>10. CASE \E n \in 0..Len(s) : item = SubSeq(s, 1, n)
  <2>1. PICK n \in 0..Len(s) : item = SubSeq(s, 1, n)
    BY <1>10
  <2>2. n \in Nat /\ n <= Len(s)
    BY <1>6
  <2>3. Len(SubSeq(s, 1, n)) = n /\ \A i \in 1..n : SubSeq(s, 1, n)[i] = s[i]
    BY <1>6, <2>2, FirstPart
  <2>4. Len(item) = n /\ \A i \in 1..n : item[i] = s[i]
    BY <2>1, <2>3
  <2>5. n >= 1 => item[1] = s[1] /\ Len(s) >= 1
    BY <1>6, <2>2, <2>4
  <2>6. n >= 2 => item[2] = s[2] /\ Len(s) >= 2
    BY <1>6, <2>2, <2>4
  <2> QED
    BY <1>7, <2>4, <2>5, <2>6 DEF Begins
<1>11. CASE \E region \in Regions, count \in 0..2, more \in {0, 1, MaxTagBytes} :
              item = Layout(opts, count, Len(region) + more, region)
  <2>1. PICK region \in Regions, count \in 0..2, more \in {0, 1, MaxTagBytes} :
             item = Layout(opts, count, Len(region) + more, region)
    BY <1>11
  <2>2. region \in Seq(0..255)
    BY RegionsAssumption DEF Base
  <2>3. count \in Nat /\ Len(region) + more \in Nat
    <3>1. Len(region) \in Nat /\ MaxTagBytes \in Nat
      BY <2>2, ElementOf, WidthsAssumption
    <3> QED
      BY <3>1
  <2> QED
    BY <1>2, <2>1, <2>2, <2>3, LayoutBegins
<1> QED
  BY <1>8, <1>9, <1>10, <1>11 DEF Inputs, Input, s, tagBytes

\* parseDataItem() of either throws for the same items of type 1.
LEMMA SameItemsParsed ==
  ASSUME Inputs, opts.type = SIG_TYPE_ARWEAVE
  PROVE  (RefParseable(item) <=> Parseable(item)) /\ 1 \in DOMAIN SigConfig
<1>1. opts \in Options /\ CanCreate(opts)
  BY DEF Inputs, Created
<1>2. 1 \in DOMAIN SigConfig
  BY <1>1 DEF CanCreate, SIG_TYPE_ARWEAVE
<1>3. item \in Seq(0..255) /\ Begins(item, 1)
  BY ItemLies, ItemBegins DEF SIG_TYPE_ARWEAVE
<1>4. SigType(item) \in {0, 1}
  <2> DEFINE one == 1
  <2>1. one \in 1..255 /\ Begins(item, one)
    BY <1>3
  <2>2. SigType(item) \in {0, one}
    <3> HIDE DEF one
    <3> QED
      BY <1>3, <2>1, TypeIsRead
  <2> QED
    BY <2>2
<1>5. RefByteArrayToLong(Slice(item, 1, 2)) = SigType(item)
  <2>1. 1 \in Nat /\ 1 >= 1 /\ 2 \in Int
    OBVIOUS
  <2> QED
    BY <1>3, <2>1, RefSliceNumber DEF SigType
<1>6. 0 \notin DOMAIN SigConfig
  <2>1. 0 \notin 1..(Base - 1)
    BY DEF Base
  <2> QED
    BY <2>1, SigConfigAssumption
<1> QED
  BY <1>2, <1>4, <1>5, <1>6 DEF RefParseable, Parseable, SIG_TYPE_ARWEAVE

\* verifyDataItem() of the reference, before it reads the tags and after.
LEMMA RefVerdictIs ==
  ASSUME NEW buf
  PROVE  /\ ~RefParseable(buf) => RefVerdict(buf) = "refused"
         /\ RefParseable(buf) /\ RefTagBytesLen(buf) > MaxTagBytes => RefVerdict(buf) = "refused"
         /\ RefParseable(buf) /\ ~(RefTagBytesLen(buf) > MaxTagBytes) =>
              RefVerdict(buf) =
                IF RefTagCount(buf) = 0 THEN "accepted"
                ELSE IF RefDeserializeTags(RefRawTags(buf)).end = "goes back" THEN "lost"
                ELSE IF /\ RefDeserializeTags(RefRawTags(buf)).end = "read"
                        /\ Len(RefDeserializeTags(RefRawTags(buf)).tags) = RefTagCount(buf)
                THEN "accepted" ELSE "refused"
BY DEF RefVerdict

\* The reference's tags, as texts of code points, say what the package's do.
SaysTags(list) ==
    /\ list \in Seq(Seq(Seq(Nat))) /\ Len(list) = Len(tags)
    /\ \A i \in 1..Len(tags) :
         tags[i] = [name |-> Units(Unmarked(list[i][1])), value |-> Units(Unmarked(list[i][2]))]

\* The reference's loops, at the package's cursor.
Here(list) == [at |-> pos, left |-> IF pc = "count" THEN 0 ELSE left, tags |-> list]
Abreast(list) ==
    /\ SaysTags(list)
    /\ Here(list) \in Region(it.rawTags)
    /\ RefDeserializeTags(it.rawTags) = RefLoops(it.rawTags)[Here(list)]

\* What the reference makes of the item, at the end.
Concluded ==
    /\ RefVerdict(item) \in IF verdict = "accepted" THEN {"accepted"} ELSE {"refused", "lost"}
    /\ verdict = "accepted" /\ it.tagCount > 0 => SaysTags(RefDeserializeTags(RefRawTags(item)).tags)

\* Both read the item's tags alike, turn by turn.
Agreeing ==
    opts.type = SIG_TYPE_ARWEAVE =>
        /\ pc \in {"count", "tags"} =>
             /\ RefParseable(item) /\ ~(RefTagBytesLen(item) > MaxTagBytes)
             /\ it.rawTags = RefRawTags(item) /\ it.tagCount = RefTagCount(item)
             /\ \E list : Abreast(list)
        /\ pc = "done" => Concluded

\* A turn that both take.
LEMMA TurnsTogether ==
  ASSUME TypeOK, NEW list, pc \in {"count", "tags"}, Abreast(list)
  PROVE  LET here == Here(list)
             buf == it.rawTags
         IN  /\ GoesOn(buf, here) =>
                  /\ AfterTurn(buf, here) \in Region(buf)
                  /\ RefDeserializeTags(buf) = RefLoops(buf)[AfterTurn(buf, here)]
             /\ ~GoesOn(buf, here) => RefDeserializeTags(buf) = LastTurn(buf, here)
<1> DEFINE here == Here(list)
           buf == it.rawTags
<1>1. buf \in Seq(0..255) /\ here \in Region(buf) /\ RefDeserializeTags(buf) = RefLoops(buf)[here]
  BY DEF TypeOK, Abreast
<1> HIDE DEF here, buf
<1>2. RefLoops(buf)[here] = IF GoesOn(buf, here) THEN RefLoops(buf)[AfterTurn(buf, here)] ELSE LastTurn(buf, here)
  BY <1>1, RefTagsAreRead
<1>3. GoesOn(buf, here) => AfterTurn(buf, here) \in Region(buf)
  BY <1>1, AfterTurnLies
<1> QED
  BY <1>1, <1>2, <1>3 DEF here, buf

\* One more tag, said alike.
LEMMA OneMoreTag ==
  ASSUME NEW list, SaysTags(list), NEW texts \in Seq(Seq(Nat)), tags \in Seq(Tag),
         NEW t \in Tag, tags' = Append(tags, t),
         t = [name |-> Units(Unmarked(texts[1])), value |-> Units(Unmarked(texts[2]))]
  PROVE  SaysTags(Append(list, texts))'
<1> DEFINE n == Len(tags)
           more == Append(list, texts)
           T == Seq(Seq(Nat))
           said(x) == [name |-> Units(Unmarked(x[1])), value |-> Units(Unmarked(x[2]))]
<1>1. n \in Nat /\ list \in Seq(T) /\ Len(list) = n /\ \A i \in 1..n : tags[i] = said(list[i])
  BY DEF SaysTags
<1>2. texts \in T /\ t = said(texts)
  OBVIOUS
<1>3. Len(tags') = n + 1 /\ tags'[n + 1] = t /\ \A i \in 1..n : tags'[i] = tags[i]
  OBVIOUS
<1> HIDE DEF n, T, said
<1>4. more \in Seq(T) /\ Len(more) = n + 1 /\ more[n + 1] = texts /\ \A i \in 1..n : more[i] = list[i]
  BY <1>1, <1>2
<1> HIDE DEF more
<1>5. \A i \in 1..(n + 1) : i = n + 1 \/ i \in 1..n
  BY <1>1
<1>6. \A i \in 1..Len(tags') : tags'[i] = said(more[i])
  BY <1>1, <1>2, <1>3, <1>4, <1>5
<1>7. more \in Seq(Seq(Seq(Nat))) /\ Len(more) = Len(tags')
  BY <1>3, <1>4 DEF T
<1> QED
  BY <1>6, <1>7 DEF SaysTags, said, more

\* What both know of the item while they read its tags.
BothRead ==
    /\ RefParseable(item) /\ ~(RefTagBytesLen(item) > MaxTagBytes)
    /\ it.rawTags = RefRawTags(item) /\ it.tagCount = RefTagCount(item) /\ it.tagCount # 0

\* The reference's verdict, when its loops end ...
LEMMA VerdictIs ==
  ASSUME BothRead, NEW r, RefDeserializeTags(it.rawTags) = r
  PROVE  RefVerdict(item) = IF r.end = "goes back" THEN "lost"
                            ELSE IF r.end = "read" /\ Len(r.tags) = it.tagCount THEN "accepted"
                            ELSE "refused"
<1>1. RefDeserializeTags(RefRawTags(item)) = r /\ RefTagCount(item) = it.tagCount /\ RefTagCount(item) # 0
  BY DEF BothRead
<1>2. RefVerdict(item) =
        IF RefTagCount(item) = 0 THEN "accepted"
        ELSE IF RefDeserializeTags(RefRawTags(item)).end = "goes back" THEN "lost"
        ELSE IF /\ RefDeserializeTags(RefRawTags(item)).end = "read"
                /\ Len(RefDeserializeTags(RefRawTags(item)).tags) = RefTagCount(item)
        THEN "accepted" ELSE "refused"
  BY RefVerdictIs DEF BothRead
<1> QED
  BY <1>1, <1>2

\* ... and the package's, when it gives up.
LEMMA BothGiveUp ==
  ASSUME BothRead, NEW r, RefDeserializeTags(it.rawTags) = r, r.end \in {"throws", "goes back"},
         Finish("refused"), UNCHANGED it
  PROVE  Concluded'
<1>1. RefVerdict(item) \in {"refused", "lost"}
  <2>1. r.end # "read"
    OBVIOUS
  <2> QED
    BY <2>1, VerdictIs
<1>2. UNCHANGED <<inputVars, it>> /\ verdict' = "refused"
  BY DEF Finish
<1>3. item' = item
  BY <1>2 DEF inputVars
<1> QED
  BY <1>1, <1>2, <1>3 DEF Concluded

\* The header: both throw, or both have the count and the region.
LEMMA HeadersAgree ==
  ASSUME Inputs, opts.type = SIG_TYPE_ARWEAVE
  PROVE  /\ ~Parseable(item) => RefVerdict(item) = "refused"
         /\ Parseable(item) =>
              /\ RefParseable(item)
              /\ RefTagCount(item) = ParseDataItem(item).tagCount
              /\ RefTagBytesLen(item) = ParseDataItem(item).declared
              /\ RefRawTags(item) = ParseDataItem(item).rawTags
<1>1. (RefParseable(item) <=> Parseable(item)) /\ 1 \in DOMAIN SigConfig /\ item \in Seq(0..255)
  BY SameItemsParsed, ItemLies
<1>2. ~RefParseable(item) => RefVerdict(item) = "refused"
  BY RefVerdictIs
<1>3. RefParseable(item) => /\ RefTagCount(item) = ParseDataItem(item).tagCount
                            /\ RefTagBytesLen(item) = ParseDataItem(item).declared
                            /\ RefRawTags(item) = ParseDataItem(item).rawTags
  BY <1>1, RefTagsAre
<1> QED
  BY <1>1, <1>2, <1>3

\* The item is refused before its tags are read.
LEMMA RefuseAgrees ==
  ASSUME Inputs, opts.type = SIG_TYPE_ARWEAVE, RefuseHeader
  PROVE  Agreeing'
<1>1. RefVerdict(item) = "refused"
  <2>1. CASE ~Parseable(item)
    BY <2>1, HeadersAgree
  <2>2. CASE Parseable(item)
    <3>1. RefParseable(item) /\ RefTagBytesLen(item) > MaxTagBytes
      BY <2>2, HeadersAgree DEF RefuseHeader
    <3> QED
      BY <3>1, RefVerdictIs
  <2> QED
    BY <2>1, <2>2
<1>2. pc' = "done" /\ verdict' = "refused" /\ item' = item
  BY DEF RefuseHeader, Finish, inputVars
<1>3. Concluded'
  BY <1>1, <1>2 DEF Concluded
<1> QED
  BY <1>2, <1>3 DEF Agreeing

\* The header is parsed, and the loops begin.
LEMMA HeaderAgrees ==
  ASSUME TypeOK, Progress, opts.type = SIG_TYPE_ARWEAVE, ParseHeader
  PROVE  Agreeing'
<1> DEFINE p == ParseDataItem(item)
           buf == RefRawTags(item)
           first == [at |-> 1, left |-> 0, tags |-> <<>>]
<1>0. Inputs /\ Parseable(item) /\ ~(p.declared > MaxTagBytes)
  <2>1. Inputs /\ Parseable(item) /\ p.declared <= MaxTagBytes
    BY DEF TypeOK, ParseHeader
  <2>2. p.declared \in Nat /\ MaxTagBytes \in Nat
    <3>1. RefTagBytesLen(item) = p.declared
      BY <2>1, HeadersAgree
    <3>2. DeclaredIn(item) = p.declared
      BY ParsedIs DEF DeclaredIn
    <3>3. DeclaredIn(item) \in Nat
      BY <2>1, ItemLies, StartsLie
    <3> QED
      BY <3>2, <3>3, WidthsAssumption
  <2> HIDE DEF p
  <2> QED
    BY <2>1, <2>2
<1>1. /\ it' = [tagCount |-> p.tagCount, rawTags |-> p.rawTags]
      /\ it' \in [tagCount : Nat, rawTags : Seq(0..255)]
      /\ \/ it'.tagCount = 0 /\ Finish("accepted")
         \/ it'.tagCount # 0 /\ pc' = "count" /\ UNCHANGED <<inputVars, pos, left, tags, verdict>>
  BY <1>0, HeaderIsThere
<1>2. /\ RefParseable(item) /\ RefTagCount(item) = p.tagCount /\ RefTagBytesLen(item) = p.declared
      /\ buf = p.rawTags
  BY <1>0, HeadersAgree
<1> HIDE DEF p
<1>3. it'.tagCount = RefTagCount(item) /\ it'.rawTags = buf /\ buf \in Seq(0..255) /\ it'.tagCount \in Nat
  BY <1>1, <1>2
<1>4. ~(RefTagBytesLen(item) > MaxTagBytes)
  BY <1>0, <1>2
<1>5. CASE it'.tagCount = 0 /\ Finish("accepted")
  <2>1. RefVerdict(item) = "accepted"
    BY <1>2, <1>3, <1>4, <1>5, RefVerdictIs
  <2>2. pc' = "done" /\ verdict' = "accepted" /\ item' = item
    BY <1>5 DEF Finish, inputVars
  <2>3. Concluded'
    BY <1>5, <2>1, <2>2 DEF Concluded
  <2> QED
    BY <2>2, <2>3 DEF Agreeing
<1>6. CASE it'.tagCount # 0 /\ pc' = "count" /\ UNCHANGED <<inputVars, pos, left, tags, verdict>>
  <2>1. tags' = <<>> /\ pos' = 1 /\ item' = item
    BY <1>6 DEF Progress, ParseHeader, inputVars
  <2> HIDE DEF buf
  <2>2. Here(<<>>)' = first
    BY <1>6, <2>1 DEF Here
  <2>3. first \in Region(buf)
    <3>1. 1 \in 1..(Len(buf) + 1) /\ <<>> \in Seq(Seq(Seq(Nat)))
      BY <1>3, ElementOf
    <3> QED
      BY <3>1 DEF Region
  <2>4. RefDeserializeTags(buf) = RefLoops(buf)[first]
    BY <1>3, RefTagsAreRead
  <2>5. SaysTags(<<>>)'
    BY <2>1 DEF SaysTags
  <2> HIDE DEF first
  <2>6. Abreast(<<>>)'
    BY <1>3, <2>2, <2>3, <2>4, <2>5 DEF Abreast
  <2>7. (\E list : Abreast(list))'
    BY <2>6
  <2> QED
    BY <1>2, <1>3, <1>4, <1>6, <2>1, <2>7 DEF Agreeing, buf
<1> QED
  BY <1>1, <1>5, <1>6

\* Both go on to the same place, with the same tags.
LEMMA BothGoOn ==
  ASSUME BothRead, UNCHANGED <<inputVars, it>>, pc' \in {"count", "tags"}, NEW list,
         Here(list)' \in Region(it.rawTags), SaysTags(list)',
         RefDeserializeTags(it.rawTags) = RefLoops(it.rawTags)[Here(list)']
  PROVE  Agreeing'
<1>1. item' = item /\ it' = it
  BY DEF inputVars
<1>2. Abreast(list)'
  BY <1>1 DEF Abreast
<1>3. (\E l : Abreast(l))'
  BY <1>2
<1> QED
  BY <1>1, <1>3 DEF Agreeing, BothRead

\* Where the reference's loops are, by what is read next.
LEMMA HereIs ==
  ASSUME TypeOK, NEW list, pc \in {"count", "tags"}, Abreast(list)
  PROVE  /\ Here(list).at = pos /\ Here(list).tags = list
         /\ pc = "count" => Here(list).left = 0
         /\ pc = "tags" => Here(list).left = left /\ left # 0
         /\ pos \in 1..(Len(it.rawTags) + 1)
         /\ it.rawTags \in Seq(0..255)
<1>1. /\ Here(list).at = pos /\ Here(list).tags = list
      /\ Here(list).left = IF pc = "count" THEN 0 ELSE left
  BY DEF Here
<1>2. Here(list).at \in 1..(Len(it.rawTags) + 1)
  BY DEF Abreast, Region
<1>3. it.rawTags \in Seq(0..255) /\ left \in Nat /\ (pc = "tags" => left >= 1)
  BY DEF TypeOK
<1> QED
  BY <1>1, <1>2, <1>3

\* The end of the region.
LEMMA EndAgrees ==
  ASSUME TypeOK, BothRead, NEW list, Abreast(list), EndOfTags
  PROVE  Agreeing'
<1> DEFINE buf == it.rawTags
           here == Here(list)
           r == [end |-> "read", tags |-> list]
<1>1. /\ pc = "count" /\ HasVarLong(buf, pos) /\ ReadVarLong(buf, pos) = 0 /\ UNCHANGED it
      /\ Finish(IF Len(tags) = it.tagCount THEN "accepted" ELSE "refused")
  BY DEF EndOfTags
<1>2. here.at = pos /\ here.tags = list /\ here.left = 0
  BY <1>1, HereIs
<1>3. RefDeserializeTags(buf) = LastTurn(buf, here)
  <2>1. ~GoesOn(buf, here)
    BY <1>1, <1>2 DEF GoesOn, BlockGoesOn
  <2> QED
    BY <1>1, <2>1, TurnsTogether
<1>4. LastTurn(buf, here) = r
  BY <1>1, <1>2 DEF LastTurn
<1> HIDE DEF here
<1>5. RefDeserializeTags(it.rawTags) = r /\ r.end = "read" /\ r.tags = list
  BY <1>3, <1>4
<1> HIDE DEF r
<1>6. RefVerdict(item) = IF Len(list) = it.tagCount THEN "accepted" ELSE "refused"
  BY <1>5, VerdictIs
<1>7. SaysTags(list) /\ Len(list) = Len(tags)
  BY DEF Abreast, SaysTags
<1>8. /\ item' = item /\ it' = it /\ pc' = "done" /\ tags' = tags
      /\ verdict' = IF Len(tags) = it.tagCount THEN "accepted" ELSE "refused"
  BY <1>1 DEF Finish, inputVars
<1>9. SaysTags(list)'
  BY <1>7, <1>8 DEF SaysTags
<1>10. RefDeserializeTags(RefRawTags(item')).tags = list
  BY <1>5, <1>8 DEF BothRead
<1>11. Concluded'
  BY <1>6, <1>7, <1>8, <1>9, <1>10 DEF Concluded
<1> QED
  BY <1>8, <1>11 DEF Agreeing

\* A count of a block.
LEMMA CountAgrees ==
  ASSUME TypeOK, BothRead, NEW list, Abreast(list), ReadCount
  PROVE  Agreeing'
<1> DEFINE buf == it.rawTags
           here == Here(list)
           n == ReadVarLong(buf, pos)
           next == VarEnd(buf, pos) + 1
           after == [at |-> BlockEnd(buf, pos), left |-> BlockTags(buf, pos), tags |-> list]
<1>1. /\ pc = "count" /\ HasVarLong(buf, pos) /\ UNCHANGED it
      /\ \/ n > 0 /\ Block(n, next)
         \/ /\ n < 0
            /\ IF HasVarLong(buf, next)
               THEN Block(0 - n, VarEnd(buf, next) + 1)
               ELSE Finish("refused")
  BY DEF ReadCount
<1>2. here.at = pos /\ here.tags = list /\ here.left = 0 /\ buf \in Seq(0..255) /\ pos \in 1..(Len(buf) + 1)
  BY <1>1, HereIs
<1>a. n \in Int
  <2>1. pos \in Nat /\ pos >= 1
    BY DEF TypeOK
  <2> QED
    BY <1>1, <1>2, <2>1, VarLongIsThere
<1>3. /\ GoesOn(buf, here) =>
           /\ AfterTurn(buf, here) \in Region(buf)
           /\ RefDeserializeTags(buf) = RefLoops(buf)[AfterTurn(buf, here)]
      /\ ~GoesOn(buf, here) => RefDeserializeTags(buf) = LastTurn(buf, here)
  BY <1>1, TurnsTogether
<1>4. GoesOn(buf, here) <=> BlockGoesOn(buf, pos)
  BY <1>2 DEF GoesOn
<1>5. AfterTurn(buf, here) = after
  BY <1>2 DEF AfterTurn
<1>6. LastTurn(buf, here) = IF n = 0 THEN [end |-> "read", tags |-> list] ELSE Throws
  BY <1>1, <1>2 DEF LastTurn
<1> HIDE DEF here
<1>7. ASSUME BlockGoesOn(buf, pos), Block(BlockTags(buf, pos), BlockEnd(buf, pos))
      PROVE  Agreeing'
  <2>1. /\ left' = BlockTags(buf, pos) /\ pos' = BlockEnd(buf, pos) /\ pc' = "tags"
        /\ UNCHANGED <<inputVars, tags>>
    BY <1>7 DEF Block
  <2>2. Here(list)' = after
    BY <2>1 DEF Here
  <2>3. SaysTags(list)'
    <3>1. SaysTags(list)
      BY DEF Abreast
    <3> QED
      BY <2>1, <3>1 DEF SaysTags
  <2> HIDE DEF after
  <2>4. Here(list)' \in Region(it.rawTags) /\ RefDeserializeTags(it.rawTags) = RefLoops(it.rawTags)[Here(list)']
    BY <1>3, <1>4, <1>5, <1>7, <2>2
  <2> QED
    BY <1>1, <2>1, <2>3, <2>4, BothGoOn
<1>8. CASE n > 0 /\ Block(n, next)
  <2>1. BlockGoesOn(buf, pos)
    BY <1>1, <1>8, <1>a DEF BlockGoesOn
  <2>2. BlockTags(buf, pos) = n /\ BlockEnd(buf, pos) = next
    BY <1>8 DEF BlockTags, BlockEnd
  <2> QED
    BY <1>7, <1>8, <2>1, <2>2
<1>9. CASE n < 0 /\ HasVarLong(buf, next) /\ Block(0 - n, VarEnd(buf, next) + 1)
  <2>1. BlockGoesOn(buf, pos)
    BY <1>1, <1>9, <1>a DEF BlockGoesOn
  <2>2. BlockTags(buf, pos) = 0 - n /\ BlockEnd(buf, pos) = VarEnd(buf, next) + 1
    BY <1>9, <1>a DEF BlockTags, BlockEnd
  <2> QED
    BY <1>7, <1>9, <2>1, <2>2
<1>10. CASE n < 0 /\ ~HasVarLong(buf, next) /\ Finish("refused")
  <2>1. ~BlockGoesOn(buf, pos)
    BY <1>10 DEF BlockGoesOn
  <2>2. RefDeserializeTags(buf) = Throws
    BY <1>3, <1>4, <1>6, <1>10, <1>a, <2>1
  <2>3. Throws.end \in {"throws", "goes back"}
    BY DEF Throws
  <2>4. Concluded'
    BY <1>1, <1>10, <2>2, <2>3, BothGiveUp
  <2>5. pc' = "done"
    BY <1>10 DEF Finish
  <2> QED
    BY <2>4, <2>5 DEF Agreeing
<1> QED
  BY <1>1, <1>8, <1>9, <1>10

\* No count where one should be.
LEMMA RunOffAgrees ==
  ASSUME TypeOK, BothRead, NEW list, Abreast(list), CountRunsOff
  PROVE  Agreeing'
<1> DEFINE buf == it.rawTags
           here == Here(list)
<1>1. pc = "count" /\ ~HasVarLong(buf, pos) /\ UNCHANGED it /\ Finish("refused")
  BY DEF CountRunsOff
<1>2. here.at = pos /\ here.left = 0
  BY <1>1, HereIs
<1>3. ~GoesOn(buf, here) /\ LastTurn(buf, here) = Throws
  BY <1>1, <1>2 DEF GoesOn, BlockGoesOn, LastTurn
<1>4. RefDeserializeTags(buf) = Throws
  BY <1>1, <1>3, TurnsTogether
<1>5. Throws.end \in {"throws", "goes back"}
  BY DEF Throws
<1>6. Concluded'
  BY <1>1, <1>4, <1>5, BothGiveUp
<1>7. pc' = "done"
  BY <1>1 DEF Finish
<1> QED
  BY <1>6, <1>7 DEF Agreeing

\* A tag.
LEMMA TagAgrees ==
  ASSUME TypeOK, BothRead, NEW list, Abreast(list), ReadTag
  PROVE  Agreeing'
<1> DEFINE buf == it.rawTags
           here == Here(list)
<1>0. PICK texts : texts = TwoTexts(buf, pos)
  OBVIOUS
<1>a. PICK more : more = Append(list, texts)
  OBVIOUS
<1> DEFINE after == [at |-> EndIn(buf, EndIn(buf, pos)), left |-> left - 1, tags |-> more]
<1>1. /\ pc = "tags" /\ FitsTwice(buf, pos) /\ pos' = EndIn(buf, EndIn(buf, pos))
      /\ left' = left - 1 /\ pc' = (IF left = 1 THEN "count" ELSE "tags")
      /\ UNCHANGED <<inputVars, it>>
  BY DEF ReadTag, TagFits, StringFits, StringEnd, FitsTwice, FitsIn, EndIn
<1>2. /\ here.at = pos /\ here.tags = list /\ here.left = left /\ left # 0
      /\ buf \in Seq(0..255) /\ pos \in 1..(Len(buf) + 1)
  BY <1>1, HereIs
<1>3. AfterTurn(buf, here) \in Region(buf) /\ RefDeserializeTags(buf) = RefLoops(buf)[AfterTurn(buf, here)]
  <2>1. GoesOn(buf, here)
    BY <1>1, <1>2 DEF GoesOn
  <2> QED
    BY <1>1, <2>1, TurnsTogether
<1>4. AfterTurn(buf, here) = after
  BY <1>0, <1>a, <1>2 DEF AfterTurn
<1> HIDE DEF here
<1>5. texts \in Seq(Seq(Nat)) /\ NextTag = [name |-> Units(Unmarked(texts[1])), value |-> Units(Unmarked(texts[2]))]
  <2>1. /\ TwoTexts(buf, pos) \in Seq(Seq(Nat))
        /\ TextIn(buf, pos) = Units(Unmarked(TwoTexts(buf, pos)[1]))
        /\ TextIn(buf, EndIn(buf, pos)) = Units(Unmarked(TwoTexts(buf, pos)[2]))
    BY <1>1, <1>2, TwoTextsLie
  <2> QED
    BY <1>0, <2>1 DEF NextTag
<1>6. NextTag \in Tag /\ tags' = Append(tags, NextTag) /\ tags \in Seq(Tag) /\ SaysTags(list)
  BY TagIsThere DEF TypeOK, Abreast
<1>7. SaysTags(more)'
  <2>1. SaysTags(Append(list, texts))'
    BY <1>5, <1>6, OneMoreTag
  <2> QED
    BY <1>a, <2>1
<1>8. Here(more)' = after
  <2>1. (IF pc' = "count" THEN 0 ELSE left') = left - 1
    <3>1. left \in Nat
      BY DEF TypeOK
    <3> QED
      BY <1>1, <3>1
  <2>2. Here(more)' = [at |-> pos', left |-> IF pc' = "count" THEN 0 ELSE left', tags |-> more]
    BY DEF Here
  <2> QED
    BY <1>1, <2>1, <2>2
<1>9. pc' \in {"count", "tags"}
  BY <1>1
<1> HIDE DEF after
<1>10. Here(more)' \in Region(it.rawTags) /\ RefDeserializeTags(it.rawTags) = RefLoops(it.rawTags)[Here(more)']
  BY <1>3, <1>4, <1>8
<1> QED
  BY <1>1, <1>7, <1>9, <1>10, BothGoOn

\* A tag that is cut short, or whose length is negative.
LEMMA TagOffAgrees ==
  ASSUME TypeOK, BothRead, NEW list, Abreast(list), TagRunsOff
  PROVE  Agreeing'
<1> DEFINE buf == it.rawTags
           here == Here(list)
           mid == EndIn(buf, pos)
           r == LastTurn(buf, here)
<1>1. pc = "tags" /\ ~FitsTwice(buf, pos) /\ UNCHANGED it /\ Finish("refused")
  BY DEF TagRunsOff, TagFits, StringFits, StringEnd, FitsTwice, FitsIn, EndIn
<1>2. /\ here.at = pos /\ here.left = left /\ left # 0
      /\ buf \in Seq(0..255) /\ pos \in 1..(Len(buf) + 1)
  BY <1>1, HereIs
<1>3. RefDeserializeTags(buf) = r
  <2>1. ~GoesOn(buf, here)
    BY <1>1, <1>2 DEF GoesOn
  <2> QED
    BY <1>1, <2>1, TurnsTogether
<1>4. r = IF ~FitsIn(buf, pos) THEN [end |-> RefReadString(buf, pos).end, tags |-> <<>>]
          ELSE [end |-> RefReadString(buf, mid).end, tags |-> <<>>]
  BY <1>2 DEF LastTurn
<1> HIDE DEF here, r
<1>5. r.end \in {"throws", "goes back"}
  <2>1. CASE ~FitsIn(buf, pos)
    <3>1. RefReadString(buf, pos).end \in {"throws", "goes back"}
      BY <1>2, <2>1, RefStringIs
    <3> QED
      BY <1>4, <2>1, <3>1
  <2>2. CASE FitsIn(buf, pos)
    <3>1. ~FitsIn(buf, mid)
      BY <1>1, <2>2 DEF FitsTwice
    <3>2. mid \in 1..(Len(buf) + 1)
      <4>1. mid \in (pos + 1)..(Len(buf) + 1) /\ Len(buf) \in Nat
        BY <1>2, <2>2, RefStringIs, ElementOf
      <4> HIDE DEF mid
      <4> QED
        BY <1>2, <4>1
    <3> HIDE DEF mid
    <3>3. RefReadString(buf, mid).end \in {"throws", "goes back"}
      BY <1>2, <3>1, <3>2, RefStringIs
    <3> QED
      BY <1>4, <2>2, <3>3
  <2> QED
    BY <2>1, <2>2
<1>6. Concluded'
  BY <1>1, <1>3, <1>5, BothGiveUp
<1>7. pc' = "done"
  BY <1>1 DEF Finish
<1> QED
  BY <1>6, <1>7 DEF Agreeing

\* The check and the reference's begin together ...
LEMMA AgreeInit == Init => Agreeing
BY DEF Init, Agreeing

\* ... and stay so.
LEMMA AgreeStep == TypeOK /\ Progress /\ Agreeing /\ [Next]_vars => Agreeing'
<1> SUFFICES ASSUME TypeOK, Progress, Agreeing, [Next]_vars, opts'.type = SIG_TYPE_ARWEAVE
             PROVE  Agreeing'
  BY DEF Agreeing
<1>0. UNCHANGED inputVars
  BY DEF Next, RefuseHeader, ParseHeader, EndOfTags, ReadCount, Block, CountRunsOff, ReadTag, TagRunsOff,
         Checked, Finish, vars
<1>1. opts.type = SIG_TYPE_ARWEAVE /\ Inputs
  BY <1>0 DEF inputVars, TypeOK
<1>2. ASSUME pc \in {"count", "tags"}
      PROVE  BothRead /\ \E list : Abreast(list)
  BY <1>1, <1>2 DEF Agreeing, Progress, BothRead
<1>3. CASE RefuseHeader
  BY <1>1, <1>3, RefuseAgrees
<1>4. CASE ParseHeader
  BY <1>1, <1>4, HeaderAgrees
<1>5. CASE EndOfTags
  <2>1. pc \in {"count", "tags"}
    BY <1>5 DEF EndOfTags
  <2>2. PICK list : Abreast(list)
    BY <1>2, <2>1
  <2> QED
    BY <1>2, <1>5, <2>1, <2>2, EndAgrees
<1>6. CASE ReadCount
  <2>1. pc \in {"count", "tags"}
    BY <1>6 DEF ReadCount
  <2>2. PICK list : Abreast(list)
    BY <1>2, <2>1
  <2> QED
    BY <1>2, <1>6, <2>1, <2>2, CountAgrees
<1>7. CASE CountRunsOff
  <2>1. pc \in {"count", "tags"}
    BY <1>7 DEF CountRunsOff
  <2>2. PICK list : Abreast(list)
    BY <1>2, <2>1
  <2> QED
    BY <1>2, <1>7, <2>1, <2>2, RunOffAgrees
<1>8. CASE ReadTag
  <2>1. pc \in {"count", "tags"}
    BY <1>8 DEF ReadTag
  <2>2. PICK list : Abreast(list)
    BY <1>2, <2>1
  <2> QED
    BY <1>2, <1>8, <2>1, <2>2, TagAgrees
<1>9. CASE TagRunsOff
  <2>1. pc \in {"count", "tags"}
    BY <1>9 DEF TagRunsOff
  <2>2. PICK list : Abreast(list)
    BY <1>2, <2>1
  <2> QED
    BY <1>2, <1>9, <2>1, <2>2, TagOffAgrees
<1>10. CASE UNCHANGED vars
  <2>1. /\ opts' = opts /\ item' = item /\ it' = it /\ pc' = pc /\ pos' = pos /\ left' = left
        /\ tags' = tags /\ verdict' = verdict
    BY <1>10 DEF vars, inputVars
  <2>2. ASSUME NEW list PROVE SaysTags(list)' <=> SaysTags(list)
    BY <2>1 DEF SaysTags
  <2>3. ASSUME NEW list PROVE Abreast(list)' <=> Abreast(list)
    BY <2>1, <2>2 DEF Abreast, Here
  <2>4. Concluded' <=> Concluded
    BY <2>1 DEF Concluded, SaysTags
  <2>5. CASE pc = "done"
    BY <1>1, <2>1, <2>4, <2>5 DEF Agreeing
  <2>6. CASE pc \in {"count", "tags"}
    <3>1. PICK list : Abreast(list)
      BY <1>2, <2>6
    <3>2. (\E l : Abreast(l))'
      BY <2>3, <3>1
    <3> QED
      BY <1>1, <2>1, <2>6, <3>2 DEF Agreeing
  <2> QED
    BY <2>1, <2>5, <2>6 DEF Agreeing
<1> QED
  BY <1>3, <1>4, <1>5, <1>6, <1>7, <1>8, <1>9, <1>10 DEF Next, Checked

\* "Two implementations disagree about what the item SAYS while both agree the
\* signature is valid" (src/core/ans104.js), for items of type 1 of any length:
\* the package and src/conformance/reference-signer.js write the same item from
\* the same options, sign the same message for every binary they parse, accept
\* the same ones and read the same tags in them; where the reference would be
\* lost in a region that goes back, the package refuses.
THEOREM AgreeWithReference == Spec => []AgreesWithReference
<1>1. IInv /\ Agreeing => AgreesWithReference
  <2> SUFFICES ASSUME IInv, Agreeing, opts.type = SIG_TYPE_ARWEAVE
               PROVE  AgreesWithReference
    BY DEF AgreesWithReference
  <2>1. Inputs
    BY DEF IInv, TypeOK
  <2>2. ASSUME origin = "created" PROVE item = RefCreateDataItem(opts)
    <3>1. opts \in Options /\ CanCreate(opts) /\ item = CreateDataItem(opts)
      BY <2>1, <2>2 DEF Inputs, Created, Input
    <3> QED
      BY <3>1, SameItem
  <2>3. ASSUME RefParseable(item) PROVE SignatureData(ParseDataItem(item)) = RefSignatureData(item)
    BY <2>1, <2>3, ItemLies, SameItemsParsed, SameMessage
  <2>4. ASSUME pc = "done", verdict = "accepted", it.tagCount > 0, NEW i \in DOMAIN tags
        PROVE  tags[i] = [name |-> Units(Unmarked(RefDeserializeTags(RefRawTags(item)).tags[i][1])),
                          value |-> Units(Unmarked(RefDeserializeTags(RefRawTags(item)).tags[i][2]))]
    <3>1. SaysTags(RefDeserializeTags(RefRawTags(item)).tags)
      BY <2>4 DEF Agreeing, Concluded
    <3>2. i \in 1..Len(tags)
      BY <2>4 DEF IInv, TypeOK
    <3> QED
      BY <3>1, <3>2 DEF SaysTags
  <2>5. pc = "done" => RefVerdict(item) \in IF verdict = "accepted" THEN {"accepted"} ELSE {"refused", "lost"}
    BY DEF Agreeing, Concluded
  <2> QED
    BY <2>2, <2>3, <2>4, <2>5 DEF AgreesWithReference, Units, Unmarked
<1>2. Init => IInv /\ Agreeing
  BY IInvInit, AgreeInit
<1>3. IInv /\ Agreeing /\ [Next]_vars => (IInv /\ Agreeing)'
  BY IInvStep, AgreeStep DEF IInv
<1> QED
  BY <1>1, <1>2, <1>3, PTL DEF Spec
=============================================================================
