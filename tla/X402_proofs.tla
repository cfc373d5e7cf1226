----------------------------- MODULE X402_proofs -----------------------------
(***************************************************************************)
(* What an x402 upload may sign, submit, send and say, for every set of    *)
(* offers and options, every cap and every number of retries.              *)
(***************************************************************************)
EXTENDS X402, Bytes_proofs

---------------------------------------------------------------------------
(* The inductive invariant: what each place of the protocol guarantees *)

\* The wallet comes after the terms, and the network after the wallet.
MoneyPlaces ==
    /\ pc \in {"begin", "quote"} => chosen = {}
    /\ pc \in {"begin", "quote", "sign"} => signatures = 0
    /\ pc = "sign" => chosen # {}
    /\ signatures > 0 => chosen # {}
    /\ pc = "pay" => signatures = 1
    /\ submitted <= signatures
    /\ settled => submitted > 0

ChosenAcceptable == \A o \in chosen : Acceptable(o, options)

OutcomePlaces == pc # "done" => outcome = "pending" /\ says = "none"

\* Only what was accepted is sent: a URL that may carry a payment, and an
\* envelope that fits.
SentPlaces ==
    /\ pc \in {"quote", "sign", "pay"} \/ carried # {} => Accepts(options)
    /\ pc = "begin" => carried = {} /\ call = "idle" /\ callTries = 0
    /\ pc = "sign" => call = "idle"
    /\ pc = "quote" /\ call = "wire" => carried # {}
    /\ pc \in {"sign", "pay"} \/ submitted > 0 => carried # {}

IInv ==
    /\ X402TypeOK
    /\ MoneyPlaces
    /\ ChosenAcceptable
    /\ OutcomePlaces
    /\ SentPlaces
    /\ NothingInCleartext
    /\ NothingPaidIsTrue
    /\ FailureWarns

---------------------------------------------------------------------------
(* Lemmas about the checks *)

\* A network that is resolved is the one the URL implies and the caller names.
LEMMA ResolvedAgrees ==
    ASSUME NEW url, NEW network, ResolveNetwork(url, network) # NoNetwork
    PROVE  /\ Implied(url) \in {NoNetwork, ResolveNetwork(url, network)}
           /\ network \in {NoNetwork, ResolveNetwork(url, network)}
  BY DEF ResolveNetwork

\* What is selected can be signed for, and there is one of it.
LEMMA SelectSound ==
    ASSUME NEW accepts \in Answers, Accepts(options)
    PROVE  /\ Select(accepts) \subseteq Offers
           /\ \A o \in Select(accepts) : Acceptable(o, options)
           /\ \A o, p \in Select(accepts) : o = p
<1> DEFINE N == ResolveNetwork(options.url, options.network)
<1>1. PICK n \in 0..MaxOffers : accepts \in [1..n -> Offers]
  BY DEF Answers
<1>2. N # NoNetwork
  BY DEF Accepts
<1>3. /\ Implied(options.url) \in {NoNetwork, N}
      /\ options.network \in {NoNetwork, N}
  BY <1>2, ResolvedAgrees
<1>4. DOMAIN accepts \subseteq Nat
  BY <1>1, MaxOffersAssumption
<1>5. ASSUME NEW o \in Select(accepts) PROVE o \in Offers /\ Acceptable(o, options)
  <2>1. PICK i \in InUsdc(accepts) :
            o = accepts[i] /\ accepts[i].wellFormed /\ accepts[i].amount \in 1..Cap
    BY <1>5 DEF Select, FirstOf
  <2>2. i \in DOMAIN accepts /\ o.scheme = "exact" /\ o.network = N /\ o.asset = "usdc"
    BY <2>1 DEF InUsdc
  <2> QED
    BY <1>1, <1>3, <2>1, <2>2 DEF Acceptable
<1>6. ASSUME NEW o \in Select(accepts), NEW p \in Select(accepts) PROVE o = p
  <2>1. PICK i \in FirstOf(InUsdc(accepts)) : o = accepts[i]
    BY <1>6 DEF Select
  <2>2. PICK j \in FirstOf(InUsdc(accepts)) : p = accepts[j]
    BY <1>6 DEF Select
  <2>3. i \in Nat /\ j \in Nat /\ i <= j /\ j <= i
    BY <1>4, <2>1, <2>2 DEF FirstOf, InUsdc
  <2> QED
    BY <2>1, <2>2, <2>3
<1> QED
  BY <1>5, <1>6

\* A request to a URL that may carry a payment is not in cleartext.
LEMMA SecureConnection ==
    ASSUME NEW url, Secure(url)
    PROVE  Connection(url) \in {"tls", "loopback"}
  BY DEF Secure, Connection

---------------------------------------------------------------------------
(* The envelope *)

\* What Sum's recursive function is, up to n.
Totals(f, n, tags, field) ==
    f = [i \in 0..n |-> IF i = 0 THEN 0 ELSE f[i - 1] + tags[i][field]]

\* What it adds at a place.
LEMMA TotalsAt ==
  ASSUME NEW n \in Nat, NEW f, NEW tags, NEW field, Totals(f, n, tags, field), NEW m \in 0..n
  PROVE  f[m] = IF m = 0 THEN 0 ELSE f[m - 1] + tags[m][field]
<1> DEFINE h(i) == IF i = 0 THEN 0 ELSE f[i - 1] + tags[i][field]
<1>1. f = [i \in 0..n |-> h(i)]
  BY DEF Totals
<1> HIDE DEF h
<1>2. f[m] = h(m)
  BY <1>1
<1> QED
  BY <1>2 DEF h

\* There is such a function, as Sum's LET supposes.
LEMMA TotalsExist ==
  ASSUME NEW tags, NEW field
  PROVE  \A n \in Nat : \E f : Totals(f, n, tags, field)
<1> DEFINE S == {n \in Nat : \E f : Totals(f, n, tags, field)}
<1> SUFFICES Nat \subseteq S
  OBVIOUS
<1>1. ASSUME NEW n \in Nat, \A m \in 0..(n - 1) : m \in S PROVE n \in S
  <2>1. CASE n = 0
    <3> DEFINE g == [i \in 0..0 |-> 0]
    <3>1. g = [i \in 0..0 |-> IF i = 0 THEN 0 ELSE g[i - 1] + tags[i][field]]
      OBVIOUS
    <3> HIDE DEF g
    <3>2. Totals(g, n, tags, field)
      BY <2>1, <3>1 DEF Totals
    <3> QED
      BY <3>2
  <2>2. CASE n # 0
    <3>1. n - 1 \in S /\ n - 1 \in Nat
      BY <1>1, <2>2
    <3>2. PICK f : Totals(f, n - 1, tags, field)
      BY <3>1
    <3> HIDE DEF S
    <3> DEFINE last == f[n - 1] + tags[n][field]
               h(i) == IF i = 0 THEN 0 ELSE f[i - 1] + tags[i][field]
               g == [i \in 0..n |-> IF i = n THEN last ELSE f[i]]
    <3>3. \A i \in 0..(n - 1) : f[i] = h(i)
      BY <3>1, <3>2, TotalsAt
    <3> HIDE DEF last
    <3>4. \A i \in 0..(n - 1) : g[i] = f[i]
      BY <3>1
    <3>5. g[n] = last
      OBVIOUS
    <3>6. \A i \in 0..n : g[i] = IF i = 0 THEN 0 ELSE g[i - 1] + tags[i][field]
      <4> SUFFICES ASSUME NEW i \in 0..n PROVE g[i] = IF i = 0 THEN 0 ELSE g[i - 1] + tags[i][field]
        OBVIOUS
      <4> HIDE DEF g
      <4>1. CASE i = n
        <5>1. g[n - 1] = f[n - 1]
          BY <3>1, <3>4
        <5> QED
          BY <2>2, <3>5, <4>1, <5>1 DEF last
      <4>2. CASE i # n
        <5>1. i \in 0..(n - 1) /\ (i # 0 => i - 1 \in 0..(n - 1))
          BY <4>2
        <5>2. g[i] = h(i) /\ (i # 0 => g[i - 1] = f[i - 1])
          BY <3>3, <3>4, <5>1
        <5> QED
          BY <5>2
      <4> QED
        BY <4>1, <4>2
    <3>7. g = [i \in 0..n |-> g[i]]
      OBVIOUS
    <3> HIDE DEF g, h
    <3>8. Totals(g, n, tags, field)
      BY <3>6, <3>7 DEF Totals
    <3> QED
      BY <3>8 DEF S
  <2> QED
    BY <2>1, <2>2
<1> HIDE DEF S
<1> QED
  BY <1>1, Induction

\* Sizes add up to a number, that of no tags to none.
LEMMA SumIsSize ==
  ASSUME NEW T, NEW field, \A t \in T : t[field] \in Nat, NEW tags \in Seq(T)
  PROVE  Sum(tags, field) \in Nat /\ (tags = <<>> => Sum(tags, field) = 0)
<1> DEFINE n == Len(tags)
           f == CHOOSE f : Totals(f, n, tags, field)
           S == {i \in Nat : i <= n => f[i] \in Nat}
<1>1. n \in Nat
  OBVIOUS
<1>2. Totals(f, n, tags, field)
  <2> HIDE DEF n
  <2> QED
    BY <1>1, TotalsExist
<1>3. Sum(tags, field) = f[n]
  BY DEF Sum, Totals
<1> HIDE DEF f
<1>4. \A m \in 0..n : f[m] = IF m = 0 THEN 0 ELSE f[m - 1] + tags[m][field]
  <2> HIDE DEF n
  <2> QED
    BY <1>1, <1>2, TotalsAt
<1>5. \A m \in 1..n : tags[m][field] \in Nat
  OBVIOUS
<1> HIDE DEF n
<1>6. ASSUME NEW i \in Nat, \A j \in 0..(i - 1) : j \in S PROVE i \in S
  <2>1. CASE i = 0
    BY <1>1, <1>4, <2>1
  <2>2. CASE i # 0 /\ i <= n
    <3>1. i - 1 \in 0..(i - 1) /\ i \in 1..n /\ i - 1 <= n
      BY <1>1, <2>2
    <3>2. f[i - 1] \in Nat
      BY <1>6, <3>1
    <3>3. f[i] = f[i - 1] + tags[i][field]
      BY <1>4, <2>2, <3>1
    <3> QED
      BY <1>5, <3>1, <3>2, <3>3
  <2> QED
    BY <2>1, <2>2
<1>7. n \in S
  <2> HIDE DEF S
  <2> QED
    BY <1>1, <1>6, Induction
<1>8. tags = <<>> => f[n] = 0
  BY <1>4 DEF n
<1> QED
  BY <1>3, <1>7, <1>8

\* A sequence without its element at a place.
LEMMA Removed ==
  ASSUME NEW T, NEW s \in Seq(T), NEW at \in 1..Len(s)
  PROVE  /\ RemoveAt(s, at) \in Seq(T) /\ Len(RemoveAt(s, at)) = Len(s) - 1
         /\ \A i \in 1..(Len(s) - 1) : RemoveAt(s, at)[i] = s[IF i < at THEN i ELSE i + 1]
<1> DEFINE front == SubSeq(s, 1, at - 1)
           back == SubSeq(s, at + 1, Len(s))
<1>1. Len(s) \in Nat /\ at \in Nat
  OBVIOUS
<1>2. front \in Seq(T) /\ Len(front) = at - 1 /\ \A i \in 1..(at - 1) : front[i] = s[i]
  BY <1>1
<1>3. back \in Seq(T) /\ Len(back) = Len(s) - at /\ \A i \in 1..(Len(s) - at) : back[i] = s[i + at]
  BY <1>1
<1>4. RemoveAt(s, at) = front \o back
  BY DEF RemoveAt
<1> HIDE DEF front, back
<1>5. /\ front \o back \in Seq(T) /\ Len(front \o back) = Len(s) - 1
      /\ \A i \in 1..Len(front) : (front \o back)[i] = front[i]
      /\ \A i \in 1..Len(back) : (front \o back)[Len(front) + i] = back[i]
  <2>1. Len(front) + Len(back) = Len(s) - 1
    BY <1>1, <1>2, <1>3
  <2>2. front \in Seq(T) /\ back \in Seq(T)
    BY <1>2, <1>3
  <2> DEFINE whole == front \o back
  <2>3. /\ whole \in Seq(T) /\ Len(whole) = Len(front) + Len(back)
        /\ \A i \in 1..Len(front) : whole[i] = front[i]
        /\ \A i \in 1..Len(back) : whole[Len(front) + i] = back[i]
    BY <2>2, Joined
  <2> QED
    BY <2>1, <2>3
<1>6. ASSUME NEW i \in 1..(Len(s) - 1) PROVE (front \o back)[i] = s[IF i < at THEN i ELSE i + 1]
  <2>1. CASE i < at
    <3>1. i \in 1..(at - 1)
      BY <1>1, <2>1
    <3> QED
      BY <1>2, <1>5, <2>1, <3>1
  <2>2. CASE ~(i < at)
    <3> DEFINE j == i - (at - 1)
    <3>1. j \in 1..Len(back) /\ j + at = i + 1 /\ Len(front) + j = i
      BY <1>1, <1>2, <1>3, <2>2
    <3> HIDE DEF j
    <3>2. (front \o back)[i] = back[j] /\ back[j] = s[i + 1]
      BY <1>3, <1>5, <3>1
    <3> QED
      BY <2>2, <3>2
  <2> QED
    BY <1>1, <2>1, <2>2
<1> QED
  BY <1>4, <1>5, <1>6

\* Two sequences have the same elements, each as often, if one is the other
\* with its places moved about.
LEMMA SameBag ==
  ASSUME NEW T, NEW s \in Seq(T), NEW t \in Seq(T), NEW f \in Bijection(DOMAIN s, DOMAIN t),
         \A i \in DOMAIN s : s[i] = t[f[i]]
  PROVE  ToBag(s) = ToBag(t)
<1> DEFINE At(r, x) == {i \in DOMAIN r : r[i] = x}
<1>1. /\ f \in [DOMAIN s -> DOMAIN t]
      /\ \A i, j \in DOMAIN s : f[i] = f[j] => i = j
      /\ \A k \in DOMAIN t : \E i \in DOMAIN s : f[i] = k
  BY DEF Bijection, Injection, Surjection, IsInjective
<1>2. Range(s) = Range(t)
  BY <1>1 DEF Range
<1>3. ASSUME NEW x PROVE Cardinality(At(s, x)) = Cardinality(At(t, x))
  <2> DEFINE g == [i \in At(s, x) |-> f[i]]
  <2>1. IsFiniteSet(At(s, x))
    <3>1. DOMAIN s = 1..Len(s) /\ Len(s) \in Nat
      OBVIOUS
    <3>2. IsFiniteSet(DOMAIN s)
      BY <3>1, FS_Interval
    <3> QED
      BY <3>2, FS_Subset
  <2>2. g \in Bijection(At(s, x), At(t, x))
    BY <1>1 DEF Bijection, Injection, Surjection, IsInjective
  <2> HIDE DEF g, At
  <2> QED
    BY <2>1, <2>2, FS_Bijection DEF ExistsBijection
<1>4. ToBag(s) = [x \in Range(s) |-> Cardinality(At(s, x))] /\ ToBag(t) = [x \in Range(t) |-> Cardinality(At(t, x))]
  BY DEF ToBag
<1> HIDE DEF At
<1> QED
  BY <1>2, <1>3, <1>4

\* A sequence whose element at a place has moved to the front has the same
\* elements, each as often, and the others in their order.
LEMMA MovedToFront ==
  ASSUME NEW T, NEW s \in Seq(T), NEW at \in 1..Len(s)
  PROVE  ToBag(<<s[at]>> \o RemoveAt(s, at)) = ToBag(s) /\ InOrder(RemoveAt(s, at), s)
<1> DEFINE rest == RemoveAt(s, at)
           one == <<s[at]>>
           moved == one \o rest
           n == Len(s)
<1>1. n \in Nat /\ at \in 1..n /\ DOMAIN s = 1..n
  OBVIOUS
<1>2. rest \in Seq(T) /\ Len(rest) = n - 1 /\ \A i \in 1..(n - 1) : rest[i] = s[IF i < at THEN i ELSE i + 1]
  BY Removed
<1>3. one \in Seq(T) /\ Len(one) = 1 /\ one[1] = s[at]
  OBVIOUS
<1> HIDE DEF rest, one, n
<1>4. DOMAIN rest = 1..(n - 1)
  BY <1>1, <1>2
<1>5. /\ moved \in Seq(T) /\ Len(moved) = n
      /\ moved[1] = s[at] /\ \A i \in 1..(n - 1) : moved[i + 1] = rest[i]
  <2>1. one \in Seq(T) /\ rest \in Seq(T)
    BY <1>2, <1>3
  <2>2. /\ moved \in Seq(T) /\ Len(moved) = Len(one) + Len(rest)
        /\ \A i \in 1..Len(one) : moved[i] = one[i]
        /\ \A i \in 1..Len(rest) : moved[Len(one) + i] = rest[i]
    BY <2>1, Joined
  <2> HIDE DEF moved
  <2> QED
    BY <1>1, <1>2, <1>3, <2>2
<1> HIDE DEF moved
<1>6. ToBag(moved) = ToBag(s)
  <2> DEFINE place == [i \in 1..n |-> IF i = 1 THEN at ELSE IF i <= at THEN i - 1 ELSE i]
  <2>1. place \in [1..n -> 1..n]
    BY <1>1
  <2>2. \A i, j \in 1..n : place[i] = place[j] => i = j
    BY <1>1
  <2>3. ASSUME NEW k \in 1..n PROVE \E i \in 1..n : place[i] = k
    <3> DEFINE i == IF k = at THEN 1 ELSE IF k < at THEN k + 1 ELSE k
    <3>1. i \in 1..n /\ place[i] = k
      BY <1>1
    <3> QED
      BY <3>1
  <2>4. \A i \in 1..n : moved[i] = s[place[i]]
    <3> SUFFICES ASSUME NEW i \in 1..n PROVE moved[i] = s[place[i]]
      OBVIOUS
    <3>1. CASE i = 1
      BY <1>1, <1>5, <3>1
    <3>2. CASE i # 1
      <4>1. i - 1 \in 1..(n - 1) /\ (i - 1) + 1 = i
        BY <1>1, <3>2
      <4>2. moved[i] = rest[i - 1]
        BY <1>5, <4>1
      <4>3. rest[i - 1] = s[IF i - 1 < at THEN i - 1 ELSE (i - 1) + 1]
        BY <1>2, <4>1
      <4>4. place[i] = IF i - 1 < at THEN i - 1 ELSE (i - 1) + 1
        BY <1>1, <3>2
      <4> HIDE DEF place
      <4> QED
        BY <4>2, <4>3, <4>4
    <3> QED
      BY <3>1, <3>2
  <2>5. DOMAIN moved = 1..n
    BY <1>5
  <2> HIDE DEF place
  <2>6. place \in Bijection(DOMAIN moved, DOMAIN s)
    BY <1>1, <2>1, <2>2, <2>3, <2>5 DEF Bijection, Injection, Surjection, IsInjective
  <2> QED
    BY <1>5, <2>4, <2>5, <2>6, SameBag
<1>7. InOrder(rest, s)
  <2> DEFINE place == [i \in 1..(n - 1) |-> IF i < at THEN i ELSE i + 1]
  <2>1. place \in [DOMAIN rest -> DOMAIN s]
    BY <1>1, <1>4
  <2>2. \A i \in DOMAIN rest : rest[i] = s[place[i]]
    BY <1>2, <1>4
  <2>3. \A i, j \in DOMAIN rest : i < j => place[i] < place[j]
    BY <1>1, <1>4
  <2> HIDE DEF place
  <2> QED
    BY <2>1, <2>2, <2>3 DEF InOrder
<1> QED
  BY <1>6, <1>7 DEF moved, rest, one

\* Whatever the tags are, all of them travel, and in their order.
LEMMA EnvelopeCarriesAll ==
  ASSUME NEW T, NEW tags \in Seq(T)
  PROVE  /\ ToBag(Envelope(tags).contentType \o Envelope(tags).tags) = ToBag(tags)
         /\ InOrder(Envelope(tags).tags, tags)
<1> DEFINE I == {i \in 1..Len(tags) : tags[i].name = "content-type"}
           ct == ContentTypeAt(tags)
<1>1. ct = IF I # {} THEN Min(I) ELSE 0
  BY DEF ContentTypeAt, SelectInSeq
<1>2. CASE I = {}
  <2>1. ct = 0
    BY <1>1, <1>2
  <2>2. Envelope(tags).contentType = <<>> /\ Envelope(tags).tags = tags
    BY <2>1 DEF Envelope
  <2>3. <<>> \o tags = tags
    OBVIOUS
  <2>4. InOrder(tags, tags)
    <3> DEFINE place == [i \in DOMAIN tags |-> i]
    <3>1. /\ place \in [DOMAIN tags -> DOMAIN tags]
          /\ \A i \in DOMAIN tags : tags[i] = tags[place[i]]
          /\ \A i, j \in DOMAIN tags : i < j => place[i] < place[j]
      OBVIOUS
    <3> HIDE DEF place
    <3> QED
      BY <3>1 DEF InOrder
  <2> QED
    BY <2>2, <2>3, <2>4
<1>3. CASE I # {}
  <2>1. \E i \in I : \A j \in I : i <= j
    <3>1. I \subseteq Nat
      OBVIOUS
    <3> HIDE DEF I
    <3> QED
      BY <1>3, <3>1, LeastNumber
  <2>2. ct \in 1..Len(tags) /\ ct # 0
    <3>1. Min(I) \in I
      <4> HIDE DEF I
      <4> QED
        BY <2>1 DEF Min
    <3>2. ct \in I
      BY <1>1, <1>3, <3>1, Zenon
    <3> HIDE DEF ct
    <3> QED
      BY <3>2
  <2>3. Envelope(tags).contentType = <<tags[ct]>> /\ Envelope(tags).tags = RemoveAt(tags, ct)
    <3>1. Envelope(tags) = [contentType |-> <<tags[ct]>>, tags |-> RemoveAt(tags, ct)]
      BY <2>2, Zenon DEF Envelope
    <3> HIDE DEF ct
    <3> QED
      BY <3>1
  <2> HIDE DEF ct
  <2> QED
    BY <2>2, <2>3, MovedToFront
<1> QED
  BY <1>2, <1>3

\* What fits leaves room for the tags the service adds, and without tags of
\* its own the data is within the limit that is documented.
LEMMA FitsLeavesRoom ==
    ASSUME NEW o \in Options, Fits(o.dataBytes, o.tags)
    PROVE  /\ TagBytes(o.tags) + Reserve <= MaxTagBytes
           /\ o.tags = <<>> => o.dataBytes <= X402_MAX_DATA_BYTES
<1> DEFINE n == o.dataBytes
           bytes == Sum(o.tags, "bytes")
           json == Sum(o.tags, "json")
<1>1. n \in Nat /\ o.tags \in Seq(Tags(o)) /\ \A t \in Tags(o) : t["bytes"] \in Nat /\ t["json"] \in Nat
  BY X402OptionsAssumption
<1>2. bytes \in Nat
  BY <1>1, SumIsSize
<1>3. json \in Nat /\ (o.tags = <<>> => json = 0)
  BY <1>1, SumIsSize
<1>4. bytes <= MaxTagBytes - Reserve
  BY DEF Fits, TagBytes, X402_MAX_TAG_BYTES
<1>5. EmptyEnvelope + 4 * ((n + 2) \div 3) + json <= MaxBodyBytes
  BY DEF Fits, EnvelopeBytes, Base64Bytes
<1> HIDE DEF n, bytes, json
<1>6. bytes + Reserve <= MaxTagBytes
  BY <1>2, <1>4, X402LimitsAssumption
<1>7. json = 0 => n <= X402_MAX_DATA_BYTES
  <2> DEFINE q == (n + 2) \div 3
             most == (MaxBodyBytes - EmptyEnvelope) \div 4
  <2>1. q \in Nat /\ n <= 3 * q
    BY <1>1 DEF n
  <2>2. json = 0 => 4 * q <= MaxBodyBytes - EmptyEnvelope
    <3> HIDE DEF q
    <3> QED
      BY <1>5, <2>1, X402LimitsAssumption DEF q, EmptyEnvelope
  <2>3. most \in Nat /\ MaxBodyBytes - EmptyEnvelope < 4 * (most + 1)
    BY X402LimitsAssumption DEF EmptyEnvelope
  <2> HIDE DEF q
  <2>4. json = 0 => q <= most
    <3> HIDE DEF most
    <3> QED
      BY <2>1, <2>2, <2>3, X402LimitsAssumption DEF EmptyEnvelope
  <2> HIDE DEF most
  <2>5. json = 0 => n <= most * 3
    BY <1>1, <2>1, <2>3, <2>4 DEF n
  <2> QED
    BY <2>5 DEF X402_MAX_DATA_BYTES, most
<1> QED
  BY <1>3, <1>6, <1>7 DEF TagBytes, n, bytes, json

---------------------------------------------------------------------------
(* The invariant is inductive *)

LEMMA InitInvariant == Init => IInv
<1> SUFFICES ASSUME Init PROVE IInv
  OBVIOUS
<1>1. X402TypeOK
  <2>1. callTries \in 0..Retries /\ signatures \in 0..1 /\ submitted \in Nat
    BY X402RetriesAssumption DEF Init
  <2>2. /\ aborted \in BOOLEAN /\ wrapped \in BOOLEAN /\ settled \in BOOLEAN
        /\ options \in Options
    BY DEF Init
  <2>3. /\ pc = "begin" /\ call = "idle" /\ chosen = {} /\ carried = {} /\ stored = {}
        /\ outcome = "pending" /\ thrown = "none" /\ says = "none"
    BY DEF Init
  <2> QED
    BY <2>1, <2>2, <2>3 DEF X402TypeOK
<1>2. MoneyPlaces /\ ChosenAcceptable
  BY DEF Init, MoneyPlaces, ChosenAcceptable
<1>3. OutcomePlaces /\ SentPlaces /\ NothingInCleartext /\ NothingPaidIsTrue /\ FailureWarns
  BY DEF Init, OutcomePlaces, SentPlaces, NothingInCleartext, NothingPaidIsTrue, FailureWarns
<1> QED
  BY <1>1, <1>2, <1>3 DEF IInv

LEMMA StartType == aborted \in BOOLEAN => Start \in {"wire", "barred"}
  BY DEF Start

\* The steps before the wallet is asked leave no authorization behind.
LEMMA QuoteInvariant == IInv /\ QuoteStep => IInv'
<1> SUFFICES ASSUME IInv, QuoteStep PROVE IInv'
  OBVIOUS
<1> USE X402RetriesAssumption
    DEF IInv, X402TypeOK, MoneyPlaces, ChosenAcceptable, OutcomePlaces, SentPlaces,
        NothingInCleartext, NothingPaidIsTrue, FailureWarns, Thrown,
        inputVars, walletVars, serviceVars, resultVars, callVars, Reject, Finish
<1>1. CASE Refused
  BY <1>1 DEF Refused
<1>2. CASE QuoteSent
  <2>1. Accepts(options) /\ Secure(options.url)
    BY <1>2 DEF QuoteSent, Accepts
  <2>2. Connection(options.url) \in {"tls", "loopback"}
    BY <2>1, SecureConnection
  <2>3. /\ pc = "begin" /\ pc' = "quote" /\ call' \in {"wire", "barred"}
        /\ carried' \subseteq {"tls", "loopback"}
        /\ call' = "wire" => carried' # {}
    <3>1. CASE aborted
      BY <1>2, <3>1 DEF QuoteSent, Start
    <3>2. CASE ~aborted
      BY <1>2, <2>2, <3>2 DEF QuoteSent, Start
    <3> QED
      BY <3>1, <3>2
  <2>4. UNCHANGED <<callTries, inputVars, walletVars, submitted, serviceVars, resultVars>>
    BY <1>2 DEF QuoteSent
  <2> QED
    BY <2>1, <2>3, <2>4
<1>3. ASSUME NEW accepts \in Answers, QuoteAsksPayment(accepts) PROVE IInv'
  <2>1. Accepts(options)
    BY <1>3 DEF QuoteAsksPayment
  <2>2. /\ Select(accepts) \subseteq Offers
        /\ \A o \in Select(accepts) : Acceptable(o, options)
        /\ \A o, p \in Select(accepts) : o = p
    BY <2>1, SelectSound
  <2>3. /\ pc = "quote" /\ call = "wire" /\ chosen' = Select(accepts)
        /\ UNCHANGED <<inputVars, signatures, submitted, carried, serviceVars>>
    BY <1>3 DEF QuoteAsksPayment
  <2>4. CASE chosen' = {}
    <3>1. Reject("terms", "nothing")
      BY <1>3, <2>4 DEF QuoteAsksPayment
    <3> QED
      BY <2>3, <2>4, <3>1
  <2>5. CASE chosen' # {}
    <3>1. pc' = "sign" /\ call' = "idle" /\ callTries' = 0 /\ UNCHANGED resultVars
      BY <1>3, <2>5 DEF QuoteAsksPayment
    <3> QED
      BY <2>1, <2>2, <2>3, <2>5, <3>1
  <2> QED
    BY <2>4, <2>5
<1>4. CASE QuoteTaken
  BY <1>4 DEF QuoteTaken, Receipt
<1>5. CASE QuoteRefused
  BY <1>5 DEF QuoteRefused, QuoteRetries, CanRetry
<1>6. CASE QuoteThrows
  BY <1>6 DEF QuoteThrows, QuoteRetries, CanRetry
<1>7. CASE QuoteResumes
  <2>1. Secure(options.url)
    BY <1>7 DEF QuoteResumes, Accepts
  <2>2. Connection(options.url) \in {"tls", "loopback"}
    BY <2>1, SecureConnection
  <2>3. CASE aborted
    <3>1. /\ pc = "quote"
          /\ Reject("reason", "none")
          /\ UNCHANGED <<inputVars, walletVars, submitted, carried, serviceVars>>
      BY <1>7, <2>3 DEF QuoteResumes
    <3> QED
      BY <3>1
  <2>4. CASE ~aborted
    <3>1. carried' \subseteq {"tls", "loopback"}
      BY <1>7, <2>2, <2>4 DEF QuoteResumes
    <3> QED
      BY <1>7, <2>4, <3>1 DEF QuoteResumes
  <2> QED
    BY <2>3, <2>4
<1> QED
  BY <1>1, <1>2, <1>3, <1>4, <1>5, <1>6, <1>7 DEF QuoteStep

\* The wallet signs once, and what it signed is submitted once.
LEMMA PayInvariant == IInv /\ (SignStep \/ PayStep) => IInv'
<1> SUFFICES ASSUME IInv, SignStep \/ PayStep PROVE IInv'
  OBVIOUS
<1> USE X402RetriesAssumption
    DEF IInv, X402TypeOK, MoneyPlaces, ChosenAcceptable, OutcomePlaces, SentPlaces,
        NothingInCleartext, NothingPaidIsTrue, FailureWarns, Thrown,
        inputVars, walletVars, serviceVars, resultVars, callVars, Reject, Finish
<1>1. CASE SignerThrows
  BY <1>1 DEF SignerThrows
<1>2. CASE WalletSigns
  BY <1>2, StartType DEF WalletSigns
<1>3. CASE PaidTaken
  BY <1>3 DEF PaidTaken, Receipt
<1>4. CASE PaidRefused
  BY <1>4 DEF PaidRefused
<1>5. CASE PaidThrows
  BY <1>5 DEF PaidThrows
<1> QED
  BY <1>1, <1>2, <1>3, <1>4, <1>5 DEF SignStep, PayStep

\* The caller and the service take nothing back of what was said.
LEMMA ServiceInvariant == IInv /\ (CallerAborts \/ ServiceStep) => IInv'
<1> SUFFICES ASSUME IInv, CallerAborts \/ ServiceStep PROVE IInv'
  OBVIOUS
<1> USE DEF IInv, X402TypeOK, MoneyPlaces, ChosenAcceptable, OutcomePlaces, SentPlaces,
        NothingInCleartext, NothingPaidIsTrue, FailureWarns, Thrown,
        inputVars, walletVars, serviceVars, resultVars, callVars
<1>1. CASE CallerAborts
  <2>1. /\ aborted' \in BOOLEAN
        /\ UNCHANGED <<pc, callVars, options, wrapped, walletVars, submitted, carried, serviceVars, resultVars>>
    BY <1>1 DEF CallerAborts
  <2> QED
    BY <2>1
<1>2. CASE ServiceSettles
  BY <1>2 DEF ServiceSettles
<1>3. CASE ServiceStores
  <2>1. /\ stored' \subseteq {"unpaid", "paid"}
        /\ UNCHANGED <<pc, callVars, inputVars, walletVars, submitted, carried, settled, resultVars>>
    BY <1>3 DEF ServiceStores
  <2> QED
    BY <2>1
<1> QED
  BY <1>1, <1>2, <1>3 DEF ServiceStep

LEMMA StepInvariant == IInv /\ [Next]_vars => IInv'
<1> SUFFICES ASSUME IInv, [Next]_vars PROVE IInv'
  OBVIOUS
<1>1. CASE UNCHANGED vars
  BY <1>1 DEF vars, IInv, X402TypeOK, MoneyPlaces, ChosenAcceptable, OutcomePlaces, SentPlaces,
     NothingInCleartext, NothingPaidIsTrue, FailureWarns,
     inputVars, walletVars, serviceVars, resultVars, callVars
<1> QED
  BY <1>1, QuoteInvariant, PayInvariant, ServiceInvariant DEF Next, Settled

---------------------------------------------------------------------------
(* Theorems *)

\* Every variable keeps its type, and one offer at most is chosen and signed.
THEOREM TypeCorrect == Spec => []X402TypeOK
<1>1. IInv => X402TypeOK
  BY DEF IInv
<1> QED
  BY <1>1, InitInvariant, StepInvariant, PTL DEF Spec

\* Whatever terms the service answers, one payment in USDC on the network of
\* the URL, of no more than maxUsdc, is all that is signed and can settle.
THEOREM TermsAreKept == Spec => []PaysOnlyTheTerms
<1>1. IInv => PaysOnlyTheTerms
  <2> SUFFICES ASSUME IInv, pc = "sign" \/ signatures > 0 \/ settled PROVE
                 signatures <= 1 /\ \E o \in chosen : chosen = {o} /\ Acceptable(o, options)
    BY DEF PaysOnlyTheTerms
  <2>1. signatures <= 1 /\ chosen # {}
    BY DEF IInv, X402TypeOK, MoneyPlaces
  <2>2. PICK o \in chosen : TRUE
    BY <2>1
  <2>3. chosen = {o}
    BY <2>2 DEF IInv, X402TypeOK
  <2> QED
    BY <2>1, <2>2, <2>3 DEF IInv, ChosenAcceptable
<1> QED
  BY <1>1, InitInvariant, StepInvariant, PTL DEF Spec

\* An authorization is put on the network once at most, whatever is retried.
THEOREM SubmittedAtMostOnce == Spec => []SubmittedOnce
<1>1. IInv => SubmittedOnce
  BY DEF IInv, MoneyPlaces, SubmittedOnce
<1> QED
  BY <1>1, InitInvariant, StepInvariant, PTL DEF Spec

\* "Nothing was paid" is true when it is said, and stays true.
THEOREM NothingPaidStaysTrue == Spec => []NothingPaidIsTrue
<1>1. IInv => NothingPaidIsTrue
  BY DEF IInv
<1> QED
  BY <1>1, InitInvariant, StepInvariant, PTL DEF Spec

\* A failure after which money may move says so.
THEOREM FailureIsReported == Spec => []FailureWarns
<1>1. IInv => FailureWarns
  BY DEF IInv
<1> QED
  BY <1>1, InitInvariant, StepInvariant, PTL DEF Spec

\* Neither the bytes nor a payment travel in cleartext.
THEOREM CredentialIsPrivate == Spec => []NothingInCleartext
<1>1. IInv => NothingInCleartext
  BY DEF IInv
<1> QED
  BY <1>1, InitInvariant, StepInvariant, PTL DEF Spec

\* What is sent to be paid for is the whole upload: every tag, as often as it
\* was given and in order, within the room the service's own tags leave.
THEOREM EnvelopeTravelsWhole == Spec => []EnvelopeIsWhole
<1>1. IInv => EnvelopeIsWhole
  <2> SUFFICES ASSUME IInv, carried # {} PROVE EnvelopeIsWhole
    BY DEF EnvelopeIsWhole
  <2> DEFINE tags == options.tags
  <2>1. options \in Options /\ Accepts(options)
    BY DEF IInv, X402TypeOK, SentPlaces
  <2>2. /\ TagBytes(tags) + Reserve <= MaxTagBytes
        /\ tags = <<>> => options.dataBytes <= X402_MAX_DATA_BYTES
    BY <2>1, FitsLeavesRoom DEF Accepts
  <2>3. tags \in Seq(Tags(options))
    BY <2>1, X402OptionsAssumption
  <2>4. /\ ToBag(Envelope(tags).contentType \o Envelope(tags).tags) = ToBag(tags)
        /\ InOrder(Envelope(tags).tags, tags)
    BY <2>3, EnvelopeCarriesAll
  <2> QED
    BY <2>2, <2>4, Zenon DEF EnvelopeIsWhole
<1> QED
  BY <1>1, InitInvariant, StepInvariant, PTL DEF Spec

\* An x402 upload keeps the promise of an upload: it resolves only when the
\* service has stored what it was sent, and asks for nothing after giving up.
THEOREM Refinement == Spec => ImplementsPromise
<1> USE DEF Promise!Complete, Promise!Ask, Promise!Charge, Promise!Resolve,
            Promise!Reject, Promise!Next, Promise!vars
<1>1. Init => Promise!Init
  BY DEF Init, Promise!Init
<1>2. ASSUME IInv, [Next]_vars PROVE [Promise!Next]_Promise!vars
  <2> USE DEF inputVars, walletVars, serviceVars, resultVars, callVars
  <2>0. pc # "done" => outcome = "pending"
    BY <1>2 DEF IInv, OutcomePlaces
  <2>1. CASE Refused \/ QuoteTaken \/ QuoteRefused \/ QuoteThrows
    BY <2>0, <2>1 DEF Refused, QuoteTaken, QuoteRefused, QuoteThrows, QuoteRetries,
       Receipt, Reject, Finish
  <2>2. CASE QuoteSent \/ QuoteResumes
    BY <1>2, <2>0, <2>2 DEF QuoteSent, QuoteResumes, Reject, Finish, IInv, SentPlaces
  <2>3. ASSUME NEW accepts \in Answers, QuoteAsksPayment(accepts)
        PROVE  [Promise!Next]_Promise!vars
    BY <2>0, <2>3 DEF QuoteAsksPayment, Reject, Finish
  <2>4. CASE SignStep \/ PayStep
    BY <2>0, <2>4 DEF SignStep, PayStep, SignerThrows, WalletSigns, PaidTaken, PaidRefused,
       PaidThrows, Receipt, Reject, Finish
  <2>5. CASE CallerAborts \/ ServiceSettles
    BY <2>5 DEF CallerAborts, ServiceSettles
  <2>6. CASE ServiceStores
    <3>1. carried # {} /\ stored' # {}
      BY <1>2, <2>6 DEF ServiceStores, IInv, MoneyPlaces, SentPlaces
    <3>2. UNCHANGED <<carried, outcome>>
      BY <2>6 DEF ServiceStores
    <3> QED
      BY <3>1, <3>2
  <2>7. CASE UNCHANGED vars
    BY <2>7 DEF vars
  <2> QED
    BY <1>2, <2>1, <2>2, <2>3, <2>4, <2>5, <2>6, <2>7
    DEF Next, QuoteStep, ServiceStep, Settled
<1> QED
  BY <1>1, <1>2, InitInvariant, StepInvariant, PTL DEF Spec, ImplementsPromise, Promise!Spec

=============================================================================
