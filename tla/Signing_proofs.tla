-------------------------- MODULE Signing_proofs ---------------------------
(***************************************************************************)
(* What is signed and what is verified, for keys and clients of any kind   *)
(* and with others writing to the buffer at any time.                      *)
(***************************************************************************)
EXTENDS Signing, WalletSigner, Bytes_proofs

---------------------------------------------------------------------------
(* The message that is signed *)

\* A list of three elements, unfolded.
Three(a, b, c) == Sha384(<<Sha384(<<Sha384(<<Sha384(<<"list", 3>>), a>>), b>>), c>>)

LEMMA DeepHashOfThree ==
  ASSUME NEW a, NEW b, NEW c
  PROVE  DeepHashList(<<a, b, c>>) = Three(a, b, c)
  <1> DEFINE hashes == <<a, b, c>>
             Acc(f) == f = [n \in 0..Len(hashes) |->
                         IF n = 0 THEN Sha384(<<"list", Len(hashes)>>) ELSE Sha384(<<f[n - 1], hashes[n]>>)]
             one == Sha384(<<Sha384(<<"list", 3>>), a>>)
             two == Sha384(<<one, b>>)
             f0 == [n \in 0..3 |-> IF n = 0 THEN Sha384(<<"list", 3>>) ELSE IF n = 1 THEN one
                                   ELSE IF n = 2 THEN two ELSE Sha384(<<two, c>>)]
             acc == CHOOSE f : Acc(f)
  <1>1. Len(hashes) = 3 /\ hashes[1] = a /\ hashes[2] = b /\ hashes[3] = c
    OBVIOUS
  <1>2. Acc(f0)
    <2>1. f0[0] = Sha384(<<"list", 3>>) /\ f0[1] = one /\ f0[2] = two /\ f0[3] = Sha384(<<two, c>>)
      OBVIOUS
    <2>2. ASSUME NEW n \in 0..3
          PROVE f0[n] = IF n = 0 THEN Sha384(<<"list", Len(hashes)>>) ELSE Sha384(<<f0[n - 1], hashes[n]>>)
      <3>1. CASE n = 0
        BY <3>1, <2>1, <1>1
      <3>2. CASE n = 1
        BY <3>2, <2>1, <1>1
      <3>3. CASE n = 2
        BY <3>3, <2>1, <1>1
      <3>4. CASE n = 3
        BY <3>4, <2>1, <1>1
      <3> QED BY <3>1, <3>2, <3>3, <3>4
    <2> HIDE DEF hashes
    <2> QED BY <1>1, <2>2
  <1>3. Acc(acc)
    <2> HIDE DEF Acc, f0
    <2> QED BY <1>2
  <1>4. acc[0] = Sha384(<<"list", 3>>) /\ acc[1] = one /\ acc[2] = two /\ acc[3] = Sha384(<<two, c>>)
    <2> HIDE DEF acc, hashes
    <2>1. acc = [n \in 0..3 |-> IF n = 0 THEN Sha384(<<"list", 3>>) ELSE Sha384(<<acc[n - 1], hashes[n]>>)]
      BY <1>1, <1>3
    <2>2. acc[0] = Sha384(<<"list", 3>>)
      BY <2>1
    <2>3. acc[1] = one
      BY <2>1, <2>2, <1>1
    <2>4. acc[2] = two
      BY <2>1, <2>3, <1>1
    <2>5. acc[3] = Sha384(<<two, c>>)
      BY <2>1, <2>4, <1>1
    <2> QED BY <2>2, <2>3, <2>4, <2>5
  <1>5. DeepHashList(<<a, b, c>>) = acc[Len(hashes)]
    BY DEF DeepHashList
  <1> QED BY <1>1, <1>4, <1>5 DEF Three

\* Items with one message are one item but for the signature.
LEMMA MessageTells ==
  ASSUME NEW x, NEW y, SignatureData(x) = SignatureData(y)
  PROVE  x.owner = y.owner /\ x.data = y.data
  <1>1. /\ SignatureData(x) = Three(Blob(<<x.type>>), Blob(x.owner), Blob(x.data))
        /\ SignatureData(y) = Three(Blob(<<y.type>>), Blob(y.owner), Blob(y.data))
    BY DeepHashOfThree DEF SignatureData
  <1>2. ASSUME NEW a, NEW b, NEW c, NEW d, NEW e, NEW f, Three(a, b, c) = Three(d, e, f)
        PROVE  b = e /\ c = f
    <2>1. ASSUME NEW p, NEW q, NEW r, NEW s, Sha384(<<p, q>>) = Sha384(<<r, s>>)  PROVE p = r /\ q = s
      <3>1. <<p, q>> = <<r, s>>
        BY <2>1 DEF Sha384
      <3> QED BY <3>1
    <2> QED BY <1>2, <2>1 DEF Three
  <1>3. Blob(x.owner) = Blob(y.owner) /\ Blob(x.data) = Blob(y.data)
    <2> DEFINE a == Blob(<<x.type>>)
               b == Blob(x.owner)
               c == Blob(x.data)
               d == Blob(<<y.type>>)
               e == Blob(y.owner)
               f == Blob(y.data)
    <2>1. Three(a, b, c) = Three(d, e, f)
      BY <1>1
    <2> HIDE DEF a, b, c, d, e, f
    <2>2. b = e /\ c = f
      BY <2>1, <1>2
    <2> QED BY <2>2 DEF b, c, e, f
  <1>4. ASSUME NEW a, NEW b, Blob(a) = Blob(b)  PROVE a = b
    <2>1. Sha384(a) = Sha384(b)
      BY <1>4 DEF Blob, DeepHashBlob, Sha384
    <2> QED BY <2>1 DEF Sha384
  <1> QED BY <1>3, <1>4

---------------------------------------------------------------------------
(* The client *)

\* What the constructor makes: of a key of the process its own, of an EVM
\* wallet one that is not the stranger.
LEMMA ClientFacts ==
  ASSUME NEW o \in Options, NEW c, c = Construct(o), c # Refused
  PROVE  /\ c.type \in {1, 3, 4}
         /\ c.type = 1 => o.signer = NoSigner
         /\ o.signer = NoSigner =>
              /\ o.platform = "node" /\ c.type # 3
              /\ c.type = 4 => c.held.type = 4 /\ PublicKeyFromSeed(c.held.seed) = c.owner
              /\ c.type = 1 => c.held.type = 1 /\ c.held.n = c.owner /\ c.held.e = "AQAB"
         /\ c.type = 3 => c.owner # Stranger /\ AnotherOwner(c.owner) # Stranger
  <1>1. CASE o.signer = NoSigner
    <2>1. c = LoadKey(o.platform, o.key, Given(o.token, "arweave"))
      BY <1>1 DEF Construct
    <2>2. o.platform = "node"
      BY <2>1, PlatformsAssumption DEF LoadKey
    <2>3. CASE Given(o.token, "arweave") = "solana"
      <3>1. /\ ParseSolanaKey(o.key) # Refused
            /\ c = [type |-> 4, owner |-> ParseSolanaKey(o.key).publicKey, held |-> ParseSolanaKey(o.key),
                    address |-> EncodeBase58(ParseSolanaKey(o.key).publicKey)]
        BY <2>1, <2>2, <2>3 DEF LoadKey
      <3>2. /\ ParseSolanaKey(o.key).type = 4
            /\ PublicKeyFromSeed(ParseSolanaKey(o.key).seed) = ParseSolanaKey(o.key).publicKey
        BY <3>1 DEF ParseSolanaKey
      <3> QED BY <1>1, <2>2, <3>1, <3>2
    <2>4. CASE Given(o.token, "arweave") # "solana"
      <3>1. /\ LoadJwk(o.key) # Refused
            /\ c = [type |-> 1, owner |-> LoadJwk(o.key).n, held |-> LoadJwk(o.key),
                    address |-> AddressFromOwner(LoadJwk(o.key).n)]
        BY <2>1, <2>2, <2>4 DEF LoadKey
      <3>2. LoadJwk(o.key).type = 1 /\ LoadJwk(o.key).e = "AQAB"
        BY <3>1 DEF LoadJwk
      <3> QED BY <1>1, <2>2, <3>1, <3>2
    <2> QED BY <2>3, <2>4
  <1>2. CASE o.signer # NoSigner
    <2>1. c = NormalizeEthereumSigner(o.signer) \/ c = NormalizeSigner(o.signer)
      BY <1>2 DEF Construct
    <2>2. CASE c = NormalizeSigner(o.signer)
      <3> DEFINE own == PublicKeyBytes(o.signer.publicKey)
      <3>1. c.type = 4
        <4>1. c = [type |-> 4, owner |-> own, held |-> o.signer, address |-> EncodeBase58(own)]
          BY <2>2, Zenon DEF NormalizeSigner
        <4> QED BY <4>1
      <3> QED BY <1>2, <3>1
    <2>3. CASE c = NormalizeEthereumSigner(o.signer)
      <3>1. /\ o.signer.kind = "ethereum" /\ c.type = 3
            /\ c.owner = IF o.signer.publicKey = <<>> THEN o.signer.key ELSE o.signer.publicKey
            /\ o.signer.publicKey # <<>> =>
                 AddressFromPublicKey(o.signer.publicKey) = ToChecksumAddress(o.signer.address)
        BY <2>3 DEF NormalizeEthereumSigner
      <3>2. o.signer.publicKey # <<>> => o.signer.publicKey # Stranger
        BY <3>1, StrangerAssumption DEF AddressFromPublicKey, ToChecksumAddress
      <3> QED BY <1>2, <3>1, <3>2, StrangerAssumption
    <2> QED BY <2>1, <2>2, <2>3
  <1> QED BY <1>1, <1>2

---------------------------------------------------------------------------
(* What the options mean *)

\* A key that is read as these bytes is written so, and the other way about.
LEMMA WrittenIsRead ==
  ASSUME NEW key, key.form = "base58" => key.value \in Seq(Nat),
         key.form \in {"json", "bytes", "object"} => key.value \in Seq(0..255),
         key.form \in {"base58", "json", "bytes", "object"}, NEW bytes \in Seq(0..255)
  PROVE  Written(key, bytes) <=> /\ key.form = "base58" => IsBase58(key.value)
                                 /\ bytes = IF key.form = "base58" THEN DecodeBase58(key.value) ELSE key.value
  <1>1. CASE key.form = "base58"
    <2>1. Written(key, bytes) <=> key.value = EncodeBase58(bytes)
      BY <1>1 DEF Written
    <2>2. IsBase58(key.value) => EncodeBase58(DecodeBase58(key.value)) = key.value
      BY <1>1, Base58RoundTrip
    <2>3. IsBase58(EncodeBase58(bytes)) /\ DecodeBase58(EncodeBase58(bytes)) = bytes
      BY Base58RoundTrip
    <2> QED BY <1>1, <2>1, <2>2, <2>3
  <1>2. CASE key.form # "base58"
    BY <1>2 DEF Written
  <1> QED BY <1>1, <1>2

\* A seed is the first half of what follows it.
LEMMA SeedFirst ==
  ASSUME NEW seed \in DOMAIN PublicKeyOf
  PROVE  /\ seed \in Seq(0..255) /\ PublicKeyOf[seed] \in Seq(0..255) /\ seed \o PublicKeyOf[seed] \in Seq(0..255)
         /\ Len(seed) = KeyLength /\ Len(seed \o PublicKeyOf[seed]) = 2 * KeyLength
         /\ SubSeq(seed, 1, KeyLength) = seed /\ SubSeq(seed \o PublicKeyOf[seed], 1, KeyLength) = seed
  <1> DEFINE public == PublicKeyOf[seed]
             both == seed \o public
  <1>1. seed \in Seq(0..255) /\ Len(seed) = KeyLength /\ KeyLength \in Nat
    BY KeysAssumption
  <1>2. public \in Seq(0..255) /\ Len(public) = KeyLength
    BY KeysAssumption DEF PublicKeys
  <1> HIDE DEF public
  <1>3. both \in Seq(0..255) /\ Len(both) = 2 * KeyLength /\ \A i \in 1..KeyLength : both[i] = seed[i]
    BY <1>1, <1>2
  <1> HIDE DEF both
  <1>4. SubSeq(seed, 1, KeyLength) = seed
    BY <1>1
  <1>5. SubSeq(both, 1, KeyLength) = seed
    <2>1. /\ SubSeq(both, 1, KeyLength) \in Seq(0..255) /\ Len(SubSeq(both, 1, KeyLength)) = KeyLength
          /\ \A i \in 1..KeyLength : SubSeq(both, 1, KeyLength)[i] = both[i]
      <3>1. KeyLength \in Nat /\ KeyLength <= Len(both)
        BY <1>1, <1>3
      <3> QED BY <1>3, <3>1, FirstPart
    <2> QED BY <1>1, <1>3, <2>1, SameSeq
  <1> QED BY <1>1, <1>2, <1>3, <1>4, <1>5 DEF both, public

---------------------------------------------------------------------------
(* What the constructor takes is what is meant *)

\* parseSolanaKey() takes a seed, or a secret key whose halves agree.
LEMMA SolanaKeyMeans ==
  ASSUME NEW o \in Options, ParseSolanaKey(o.key) # Refused
  PROVE  /\ ParseSolanaKey(o.key).seed \in DOMAIN PublicKeyOf
         /\ ParseSolanaKey(o.key).publicKey = PublicKeyOf[ParseSolanaKey(o.key).seed]
         /\ o.key.form \in {"base58", "json", "bytes"}
         /\ \/ Written(o.key, ParseSolanaKey(o.key).seed)
            \/ Written(o.key, ParseSolanaKey(o.key).seed \o PublicKeyOf[ParseSolanaKey(o.key).seed])
  <1> DEFINE bytes == SolanaKeyBytes(o.key)
             seed == SubSeq(bytes, 1, KeyLength)
  <1>1. IsSolanaKey(o.key) /\ bytes \in {seed, seed \o PublicKeyOf[seed]}
    BY DEF ParseSolanaKey, PublicKeyFromSeed
  <1>2. ParseSolanaKey(o.key) = [type |-> 4, seed |-> seed, publicKey |-> PublicKeyOf[seed]]
    BY <1>1 DEF ParseSolanaKey, PublicKeyFromSeed
  <1>3. seed \in DOMAIN PublicKeyOf
    BY <1>1, SeedsAssumption
  <1>4. o.key.form \in {"base58", "json", "bytes"} /\ (o.key.form = "base58" => IsBase58(o.key.value))
    BY <1>1 DEF IsSolanaKey
  <1>5. bytes = IF o.key.form = "base58" THEN DecodeBase58(o.key.value) ELSE o.key.value
    BY DEF SolanaKeyBytes
  <1> HIDE DEF bytes, seed
  <1>6. bytes \in Seq(0..255)
    BY <1>1, <1>3, SeedFirst
  <1>7. Written(o.key, bytes)
    BY <1>4, <1>5, <1>6, WrittenAssumption, WrittenIsRead
  <1>8. ParseSolanaKey(o.key).seed = seed /\ ParseSolanaKey(o.key).publicKey = PublicKeyOf[seed]
    BY <1>2
  <1>9. Written(o.key, seed) \/ Written(o.key, seed \o PublicKeyOf[seed])
    <2>1. bytes = seed \/ bytes = seed \o PublicKeyOf[seed]
      BY <1>1
    <2> QED BY ONLY <1>7, <2>1, Zenon
  <1> QED BY <1>3, <1>4, <1>8, <1>9, Zenon

\* And it takes each of them.
LEMMA MeantSolanaKey ==
  ASSUME NEW o \in Options, NEW seed \in DOMAIN PublicKeyOf, o.key.form \in {"base58", "json", "bytes"},
         Written(o.key, seed) \/ Written(o.key, seed \o PublicKeyOf[seed])
  PROVE  ParseSolanaKey(o.key) # Refused
  <1> DEFINE bytes == SolanaKeyBytes(o.key)
  <1>1. bytes = IF o.key.form = "base58" THEN DecodeBase58(o.key.value) ELSE o.key.value
    BY DEF SolanaKeyBytes
  <1>2. /\ o.key.form = "base58" => IsBase58(o.key.value)
        /\ bytes \in {seed, seed \o PublicKeyOf[seed]}
    <2>1. ASSUME NEW b \in Seq(0..255), Written(o.key, b)
          PROVE  (o.key.form = "base58" => IsBase58(o.key.value)) /\ b = bytes
      <3>1. /\ o.key.form = "base58" => o.key.value \in Seq(Nat)
            /\ o.key.form \in {"json", "bytes", "object"} => o.key.value \in Seq(0..255)
        BY WrittenAssumption
      <3> HIDE DEF bytes
      <3> QED BY <1>1, <2>1, <3>1, WrittenIsRead
    <2> HIDE DEF bytes
    <2>2. seed \in Seq(0..255) /\ seed \o PublicKeyOf[seed] \in Seq(0..255)
      BY SeedFirst
    <2> QED BY <2>1, <2>2
  <1> HIDE DEF bytes
  <1>3. Len(bytes) \in {KeyLength, 2 * KeyLength} /\ SubSeq(bytes, 1, KeyLength) = seed
    BY <1>2, SeedFirst
  <1>4. IsSolanaKey(o.key)
    BY <1>2, <1>3 DEF IsSolanaKey, bytes
  <1>5. ParseSolanaKey(o.key) = [type |-> 4, seed |-> seed, publicKey |-> PublicKeyOf[seed]]
    BY <1>2, <1>3, <1>4 DEF ParseSolanaKey, PublicKeyFromSeed, bytes
  <1> QED BY <1>5 DEF Refused

\* normalizeSigner() takes the wallets whose public key has the right length.
LEMMA WalletMeans ==
  ASSUME NEW o \in Options, o.signer.kind = "solana"
  PROVE  /\ HasPublicKey(o.signer.publicKey) =>
              PublicKeyBytes(o.signer.publicKey) \in PublicKeys
                /\ Written(o.signer.publicKey, PublicKeyBytes(o.signer.publicKey))
         /\ \A public \in PublicKeys :
              /\ o.signer.publicKey.form \in {"base58", "bytes", "object"}
              /\ Written(o.signer.publicKey, public)
              => HasPublicKey(o.signer.publicKey)
  <1> DEFINE key == o.signer.publicKey
             bytes == PublicKeyBytes(key)
  <1>1. bytes = IF key.form = "base58" THEN DecodeBase58(key.value) ELSE key.value
    BY DEF PublicKeyBytes
  <1>2. /\ key.form = "base58" => key.value \in Seq(Nat)
        /\ key.form \in {"bytes", "object"} => key.value \in Seq(0..255)
    BY WrittenAssumption
  <1>3. \A public \in PublicKeys : public \in Seq(0..255) /\ Len(public) = KeyLength
    BY KeysAssumption DEF PublicKeys
  <1>4. \A s \in Seq(0..255) : Len(s) = KeyLength => s \in PublicKeys
    BY ElementOf DEF PublicKeys
  <1>5. HasPublicKey(key) <=> /\ key.form \in {"base58", "bytes", "object"}
                              /\ key.form = "base58" => IsBase58(key.value)
                              /\ Len(bytes) = KeyLength
    BY DEF HasPublicKey
  <1> HIDE DEF key, bytes
  <1>6. ASSUME HasPublicKey(key)  PROVE bytes \in PublicKeys /\ Written(key, bytes)
    <2>1. bytes \in Seq(0..255)
      BY <1>1, <1>2, <1>5, <1>6, Base58RoundTrip
    <2>2. Written(key, bytes)
      BY <1>1, <1>2, <1>5, <1>6, <2>1, WrittenIsRead
    <2> QED BY <1>4, <1>5, <1>6, <2>1, <2>2
  <1>7. ASSUME NEW public \in PublicKeys, key.form \in {"base58", "bytes", "object"}, Written(key, public)
        PROVE  HasPublicKey(key)
    <2>1. (key.form = "base58" => IsBase58(key.value)) /\ public = bytes
      BY <1>1, <1>2, <1>3, <1>7, WrittenIsRead
    <2> QED BY <1>3, <1>5, <1>7, <2>1
  <1> QED BY <1>6, <1>7 DEF key, bytes

\* publicKeyFrom() reads one key from an address' account.
LEMMA SameAccount ==
  ASSUME NEW k \in Seq(Nat), NEW l \in Seq(Nat), IsPublicKey(k), IsPublicKey(l), Len(Stranger) > 0, Tail(k) = Tail(l)
  PROVE  k = l
  <1>1. Len(k) = Len(l) /\ Len(k) > 0 /\ k[1] = l[1]
    BY DEF IsPublicKey
  <1>2. ASSUME NEW i \in 1..Len(k)  PROVE k[i] = l[i]
    <2>1. CASE i = 1
      BY <1>1, <2>1
    <2>2. CASE i # 1
      <3>1. i - 1 \in 1..(Len(k) - 1) /\ (i - 1) + 1 = i
        BY <1>1, <2>2
      <3>2. Tail(k)[i - 1] = k[i] /\ Tail(l)[i - 1] = l[i]
        BY <1>1, <3>1
      <3> QED BY <3>2
    <2> QED BY <2>1, <2>2
  <1> QED BY <1>1, <1>2, SameSeq

\* A client's address is that of its key.
Addressed(c) ==
    /\ c.type = 3 => c.address = AddressFromPublicKey(c.owner)
    /\ c.type = 4 => DecodeBase58(c.address) = c.owner

\* What the constructor takes stands for one public key, which it signs for.
LEMMA ConstructsWhatIsMeant ==
  ASSUME NEW o \in Options, NEW c, c = Construct(o), c # Refused
  PROVE  c.owner \in Meant(o) /\ Addressed(c)
  <1>1. SettingsHold(o)
    BY DEF Construct
  <1>2. CASE o.signer = NoSigner
    <2>1. c = LoadKey(o.platform, o.key, Given(o.token, "arweave"))
      BY <1>1, <1>2 DEF Construct
    <2>2. o.platform = "node" /\ Given(o.token, "arweave") \in {"arweave", "solana"}
      BY <2>1, PlatformsAssumption DEF LoadKey
    <2>3. CASE Given(o.token, "arweave") = "solana"
      <3> DEFINE key == ParseSolanaKey(o.key)
      <3>1. key # Refused /\ c = [type |-> 4, owner |-> key.publicKey, held |-> key, address |-> EncodeBase58(key.publicKey)]
        BY <2>1, <2>2, <2>3 DEF LoadKey
      <3>2. o.token = "solana"
        BY <2>3 DEF Given
      <3>3. key.seed \in DOMAIN PublicKeyOf /\ key.publicKey = PublicKeyOf[key.seed] /\ IsKeyOf(o, key.seed)
        BY <1>2, <2>2, <3>1, <3>2, SolanaKeyMeans DEF IsKeyOf
      <3> HIDE DEF key
      <3>4. c.owner = PublicKeyOf[key.seed] /\ c.type = 4 /\ c.address = EncodeBase58(c.owner)
        BY <3>1, <3>3
      <3>5. c.owner \in Seq(0..255)
        BY <3>3, <3>4, SeedFirst
      <3>6. DecodeBase58(c.address) = c.owner
        BY <3>4, <3>5, Base58RoundTrip
      <3> QED BY <1>1, <3>3, <3>4, <3>6 DEF Meant, Addressed
    <2>4. CASE Given(o.token, "arweave") = "arweave"
      <3>1. /\ LoadJwk(o.key) # Refused
            /\ c = [type |-> 1, owner |-> LoadJwk(o.key).n, held |-> LoadJwk(o.key),
                    address |-> AddressFromOwner(LoadJwk(o.key).n)]
        BY <2>1, <2>2, <2>4 DEF LoadKey
      <3>2. o.token \in {"absent", "arweave"}
        BY <2>4 DEF Given
      <3>3. IsRsaKey(o) /\ LoadJwk(o.key).n = o.key.n
        BY <1>2, <2>2, <3>1, <3>2 DEF LoadJwk, IsJwk, IsRsaKey
      <3>4. c.type = 1 /\ c.owner = o.key.n
        BY <3>1, <3>3
      <3> QED BY <1>1, <3>3, <3>4 DEF Meant, Addressed
    <2> QED BY <2>2, <2>3, <2>4
  <1>3. CASE o.signer # NoSigner
    <2>1. o.key = NoKey
      BY <1>1, <1>3 DEF Construct
    <2>2. CASE o.token \in Tokens
      <3> DEFINE s == o.signer
      <3>1. c = NormalizeEthereumSigner(s)
        BY <1>1, <1>3, <2>1, <2>2 DEF Construct
      <3>2. /\ s.kind = "ethereum" /\ s.signs /\ IsAddress(s.address)
            /\ s.publicKey # <<>> => /\ IsPublicKey(s.publicKey)
                                     /\ AddressFromPublicKey(s.publicKey) = ToChecksumAddress(s.address)
        BY <3>1 DEF NormalizeEthereumSigner
      <3>3. /\ c.type = 3 /\ c.address = ToChecksumAddress(s.address)
            /\ c.owner = IF s.publicKey = <<>> THEN s.key ELSE s.publicKey
        <4>1. c = [type |-> 3, held |-> s, address |-> ToChecksumAddress(s.address),
                   owner |-> IF s.publicKey = <<>> THEN s.key ELSE s.publicKey]
          BY <3>1 DEF NormalizeEthereumSigner
        <4> HIDE DEF s
        <4> QED BY <4>1
      <3>4. /\ s.key \in Seq(Nat) /\ s.publicKey \in Seq(Nat) /\ IsPublicKey(s.key)
            /\ s.address.account = <<"keccak256", Tail(s.key)>>
        BY <3>2, AccountsAssumption
      <3>5. ASSUME s.publicKey # <<>>  PROVE s.publicKey = s.key
        <4>1. <<"keccak256", Tail(s.publicKey)>> = <<"keccak256", Tail(s.key)>>
          BY <3>2, <3>4, <3>5 DEF AddressFromPublicKey, ToChecksumAddress
        <4>2. Tail(s.publicKey) = Tail(s.key)
          BY <4>1
        <4>3. Len(Stranger) > 0
          BY <3>2, <3>4, <3>5 DEF IsPublicKey
        <4> QED BY <3>2, <3>4, <3>5, <4>2, <4>3, SameAccount
      <3>6. c.owner = s.key /\ c.address = AddressFromPublicKey(s.key)
        BY <3>3, <3>4, <3>5 DEF AddressFromPublicKey, ToChecksumAddress
      <3>7. s.address.letters # "mixed"
        BY <3>2 DEF IsAddress
      <3>8. IsEvmWallet(o)
        BY <2>1, <2>2, <3>2, <3>4, <3>5, <3>7 DEF IsEvmWallet
      <3> QED BY <1>1, <3>3, <3>6, <3>8 DEF Meant, Addressed
    <2>3. CASE o.token \notin Tokens
      <3>1. SolanaSignerTaken(o) /\ c = NormalizeSigner(o.signer)
        BY <1>1, <1>3, <2>1, <2>3 DEF Construct
      <3> DEFINE own == PublicKeyBytes(o.signer.publicKey)
      <3>2. /\ o.signer.kind = "solana" /\ o.signer.signs /\ o.signer.verify # "no function"
            /\ HasPublicKey(o.signer.publicKey)
        BY <3>1 DEF NormalizeSigner
      <3>3. c = [type |-> 4, owner |-> own, held |-> o.signer, address |-> EncodeBase58(own)]
        BY <3>1, Zenon DEF NormalizeSigner
      <3>4. o.token \in {"absent", "solana"}
        BY <3>1 DEF SolanaSignerTaken, Given
      <3>5. own \in PublicKeys /\ Written(o.signer.publicKey, own)
        BY <3>2, WalletMeans
      <3> HIDE DEF own
      <3>6. IsSolanaWalletOf(o, own)
        BY <2>1, <3>2, <3>4, <3>5 DEF IsSolanaWalletOf, HasPublicKey
      <3>7. own \in Seq(0..255)
        <4>1. \A n \in Nat : \A f \in [1..n -> 0..255] : f \in Seq(0..255)
          OBVIOUS
        <4> QED BY <3>5, <4>1, KeysAssumption DEF PublicKeys
      <3>8. c.type = 4 /\ c.owner = own /\ DecodeBase58(c.address) = own
        BY <3>3, <3>7, Base58RoundTrip
      <3> QED BY <1>1, <3>5, <3>6, <3>8 DEF Meant, Addressed
    <2> QED BY <2>2, <2>3
  <1> QED BY <1>2, <1>3

\* Whatever is meant, it takes.
LEMMA WhatIsMeantConstructs ==
  ASSUME NEW o \in Options, Meant(o) # {}
  PROVE  Construct(o) # Refused
  <1>1. SettingsHold(o)
    BY DEF Meant
  <1>2. \/ \E seed \in DOMAIN PublicKeyOf : IsKeyOf(o, seed)
        \/ \E public \in PublicKeys : IsSolanaWalletOf(o, public)
        \/ IsRsaKey(o) \/ IsEvmWallet(o)
    BY <1>1 DEF Meant
  <1>3. ASSUME NEW seed \in DOMAIN PublicKeyOf, IsKeyOf(o, seed)  PROVE Construct(o) # Refused
    <2>1. ParseSolanaKey(o.key) # Refused
      BY <1>3, MeantSolanaKey DEF IsKeyOf
    <2>2. Construct(o) = [type |-> 4, owner |-> ParseSolanaKey(o.key).publicKey, held |-> ParseSolanaKey(o.key),
                          address |-> EncodeBase58(ParseSolanaKey(o.key).publicKey)]
      BY <1>1, <1>3, <2>1 DEF Construct, LoadKey, IsKeyOf, Given
    <2> QED BY <2>2 DEF Refused
  <1>4. ASSUME NEW public \in PublicKeys, IsSolanaWalletOf(o, public)  PROVE Construct(o) # Refused
    <2>1. o.signer.kind = "solana" /\ o.signer # NoSigner /\ o.key = NoKey /\ o.token \notin Tokens
      <3>1. o.signer.kind = "solana" /\ o.key = NoKey
        BY <1>4 DEF IsSolanaWalletOf
      <3>2. o.token \notin Tokens
        BY <1>4 DEF IsSolanaWalletOf, Tokens
      <3>3. NoSigner.kind = "none"
        BY DEF NoSigner
      <3> QED BY <3>1, <3>2, <3>3
    <2>2. SolanaSignerTaken(o)
      BY <1>4, <2>1 DEF IsSolanaWalletOf, SolanaSignerTaken, Given
    <2>3. Construct(o) = NormalizeSigner(o.signer)
      BY <1>1, <2>1, <2>2 DEF Construct
    <2>4. HasPublicKey(o.signer.publicKey)
      BY <1>4, <2>1, WalletMeans DEF IsSolanaWalletOf
    <2> DEFINE own == PublicKeyBytes(o.signer.publicKey)
    <2>5. NormalizeSigner(o.signer) = [type |-> 4, owner |-> own, held |-> o.signer, address |-> EncodeBase58(own)]
      BY <1>4, <2>1, <2>4, Zenon DEF NormalizeSigner, IsSolanaWalletOf
    <2> HIDE DEF own
    <2> QED BY <2>3, <2>5 DEF Refused
  <1>5. ASSUME IsRsaKey(o)  PROVE Construct(o) # Refused
    <2>1. Given(o.token, "arweave") = "arweave" /\ o.signer = NoSigner /\ o.platform = "node"
      BY <1>5 DEF IsRsaKey, Given
    <2>2. LoadJwk(o.key) = [type |-> 1, n |-> o.key.n, e |-> o.key.e]
      BY <1>5 DEF IsRsaKey, LoadJwk, IsJwk
    <2>3. Construct(o) = [type |-> 1, owner |-> LoadJwk(o.key).n, held |-> LoadJwk(o.key),
                          address |-> AddressFromOwner(LoadJwk(o.key).n)]
      BY <1>1, <2>1, <2>2 DEF Construct, LoadKey, Refused
    <2> QED BY <2>3 DEF Refused
  <1>6. ASSUME IsEvmWallet(o)  PROVE Construct(o) # Refused
    <2> DEFINE s == o.signer
    <2>1. s.kind = "ethereum" /\ s # NoSigner /\ o.key = NoKey /\ o.token \in Tokens /\ s.signs
      BY <1>6 DEF IsEvmWallet, NoSigner
    <2>2. Construct(o) = NormalizeEthereumSigner(s)
      BY <1>1, <2>1 DEF Construct
    <2>3. IsAddress(s.address) /\ s.address.account = <<"keccak256", Tail(s.key)>>
      <3>1. <<"keccak256", Tail(s.key)>> # <<>>
        OBVIOUS
      <3> QED BY <1>6, <3>1 DEF IsEvmWallet, IsAddress
    <2>4. s.publicKey # <<>> => /\ IsPublicKey(s.publicKey)
                                /\ AddressFromPublicKey(s.publicKey) = ToChecksumAddress(s.address)
      BY <1>6, <2>1, <2>3, AccountsAssumption DEF IsEvmWallet, AddressFromPublicKey, ToChecksumAddress
    <2>5. NormalizeEthereumSigner(s) = [type |-> 3, held |-> s, address |-> ToChecksumAddress(s.address),
                                        owner |-> IF s.publicKey = <<>> THEN s.key ELSE s.publicKey]
      BY <2>1, <2>3, <2>4, Zenon DEF NormalizeEthereumSigner
    <2> HIDE DEF s
    <2> QED BY <2>2, <2>5 DEF Refused
  <1> QED BY <1>2, <1>3, <1>4, <1>5, <1>6

---------------------------------------------------------------------------
(* The inductive invariant *)

\* A signature that a client keeps, over the message of its item.
Genuine(it) ==
    LET by == it.signature.by
        over == it.signature.over
        salt == it.signature.salt
        v == it.signature.v
        parity == it.signature.parity
        high == it.signature.high
    IN  /\ it = [type |-> client.type, owner |-> client.owner, data |-> <<1>>,
                 signature |-> [by |-> by, over |-> over, salt |-> salt, v |-> v, parity |-> parity, high |-> high]]
        /\ it.type = 1 => /\ by = PublicKeyFromOwner(it.owner) /\ over = SignatureData(it)
                          /\ salt = PssSaltLength
        /\ it.type = 4 /\ ~Vouched => by = it.owner /\ over = HexMessage(SignatureData(it))
        /\ it.type = 3 => /\ by = it.owner /\ over = HashMessage(SignatureData(it))
                          /\ v \in {27, 28} /\ v = 27 + parity /\ ~high

\* What a verifier may try: nothing of the malleable half, and with the strict
\* options no other v.
MayTry(it, w) ==
    IF it.type = 3
    THEN /\ ~it.signature.high /\ w \in {27, 28}
         /\ mode.strict => w = it.signature.v
    ELSE w = 0

Failed(it, w) == MayTry(it, w) => ~Matches(it, w)

\* What an answer says of an item, and what is left to try of it.
Known(it, tries, reply) ==
    /\ reply = "true" => \E w : MayTry(it, w) /\ Matches(it, w)
    /\ reply = "false" => \A w : Failed(it, w)
    /\ \/ tries = <<>>
       \/ /\ reply = "none"
          /\ \/ \E w : /\ tries = <<w>> /\ MayTry(it, w)
                       /\ \A x : x # w => Failed(it, x)
             \/ /\ tries = <<27, 28>> /\ it.type = 3 /\ ~mode.strict
                /\ ~it.signature.high

\* A verifier that has begun holds what it was given, and knows something of it.
Holds(v) ==
    /\ given[v] \in Altered /\ held[v] = given[v]
    /\ Known(given[v], left[v], verdict[v])

Unbegun(v) == given[v] = NoItem /\ held[v] = NoItem /\ left[v] = <<>> /\ verdict[v] = "none"

Tables ==
    /\ given = [v \in Verifiers |-> given[v]] /\ held = [v \in Verifiers |-> held[v]]
    /\ left = [v \in Verifiers |-> left[v]] /\ verdict = [v \in Verifiers |-> verdict[v]]

SignIInv ==
    /\ Tables
    /\ options \in Options /\ mode.strict \in BOOLEAN
    /\ pc \in {"ready", "connect", "prompt", "signed", "unsent"} => client = Construct(options) /\ client # Refused
    /\ pc \in {"connect", "prompt"} => ~SignsSync(options)
    /\ pc \notin {"signed", "unsent"} => signed = NoItem
    /\ pc \in {"signed", "unsent"} => Genuine(signed)
    /\ pc = "signed" => item \in Altered
    /\ \A v \in Verifiers : IF pc = "signed" THEN Unbegun(v) \/ Holds(v) ELSE Unbegun(v)

LEMMA SignInitOK == Init => SignIInv
  <1> SUFFICES ASSUME Init  PROVE SignIInv
    OBVIOUS
  <1>1. pc = "new" /\ signed = NoItem /\ options \in Options
    BY DEF Init
  <1>2. mode.strict \in BOOLEAN
    BY DEF Init
  <1>3. Tables /\ \A v \in Verifiers : Unbegun(v)
    BY DEF Init, Tables, Unbegun
  <1> QED BY <1>1, <1>2, <1>3 DEF SignIInv

---------------------------------------------------------------------------
(* Items that others altered *)

\* An item of this client, with the message that was signed.
Item(own, data, by, salt, v, parity, high) ==
    [type |-> client.type, owner |-> own, data |-> data,
     signature |-> [by |-> by, over |-> signed.signature.over, salt |-> salt, v |-> v, parity |-> parity,
                    high |-> high]]

\* An item that differs in one respect from the one with signature s.
AlteredOnce(it, s) ==
    \/ it = signed
    \/ it = Item(client.owner, <<2>>, s.by, s.salt, s.v, s.parity, s.high)
    \/ it = Item(AnotherOwner(client.owner), <<1>>, s.by, s.salt, s.v, s.parity, s.high)
    \/ it = Item(client.owner, <<1>>, Stranger, s.salt, s.v, s.parity, s.high)
    \/ signed.type = 1 /\ it = Item(client.owner, <<1>>, s.by, 32, s.v, s.parity, s.high)
    \/ signed.type = 3 /\ \E v : it = Item(client.owner, <<1>>, s.by, s.salt, v, s.parity, s.high)
    \/ signed.type = 3 /\ \E v : it = Item(client.owner, <<1>>, s.by, s.salt, v, 1 - s.parity, TRUE)

LEMMA Altering ==
  ASSUME NEW it \in Altered, Genuine(signed)
  PROVE  AlteredOnce(it, signed.signature)
  <1> DEFINE s == signed.signature
  <1>1. signed = Item(client.owner, <<1>>, s.by, s.salt, s.v, s.parity, s.high)
    BY DEF Genuine, Item
  <1>2. [signed EXCEPT !.data = <<2>>] = Item(client.owner, <<2>>, s.by, s.salt, s.v, s.parity, s.high)
    BY <1>1 DEF Item
  <1>3. [signed EXCEPT !.owner = AnotherOwner(@)]
          = Item(AnotherOwner(client.owner), <<1>>, s.by, s.salt, s.v, s.parity, s.high)
    BY <1>1 DEF Item
  <1>4. /\ [signed EXCEPT !.signature.by = Stranger]
              = Item(client.owner, <<1>>, Stranger, s.salt, s.v, s.parity, s.high)
        /\ [signed EXCEPT !.signature.salt = 32] = Item(client.owner, <<1>>, s.by, 32, s.v, s.parity, s.high)
    BY <1>1 DEF Item
  <1>5. \A v : [signed EXCEPT !.signature.v = v] = Item(client.owner, <<1>>, s.by, s.salt, v, s.parity, s.high)
    BY <1>1 DEF Item
  <1>6. \A v : [signed EXCEPT !.signature = OtherHalf(@, v)]
                = Item(client.owner, <<1>>, s.by, s.salt, v, 1 - s.parity, TRUE)
    <2>1. \A new : [signed EXCEPT !.signature = new]
                     = [type |-> client.type, owner |-> client.owner, data |-> <<1>>, signature |-> new]
      BY <1>1 DEF Item
    <2>2. \A v : [signed EXCEPT !.signature = OtherHalf(@, v)] = [signed EXCEPT !.signature = OtherHalf(s, v)]
      OBVIOUS
    <2>3. \A v : OtherHalf(s, v) = [by |-> s.by, over |-> signed.signature.over, salt |-> s.salt, v |-> v,
                                    parity |-> 1 - s.parity, high |-> TRUE]
      BY DEF OtherHalf
    <2> QED BY <2>1, <2>2, <2>3, Zenon DEF Item
  <1>7. CASE it \in {signed, [signed EXCEPT !.data = <<2>>], [signed EXCEPT !.signature.by = Stranger]}
    <2>1. CASE it = signed
      BY <2>1 DEF AlteredOnce
    <2>2. CASE it = [signed EXCEPT !.data = <<2>>]
      BY <1>2, <2>2, Zenon DEF AlteredOnce
    <2>3. CASE it = [signed EXCEPT !.signature.by = Stranger]
      BY <1>4, <2>3, Zenon DEF AlteredOnce
    <2> QED BY <1>7, <2>1, <2>2, <2>3
  <1>8. CASE it = [signed EXCEPT !.owner = AnotherOwner(@)]
    BY <1>3, <1>8 DEF AlteredOnce
  <1>9. CASE signed.type = 1 /\ it = [signed EXCEPT !.signature.salt = 32]
    BY <1>4, <1>9 DEF AlteredOnce
  <1>10. CASE signed.type = 3 /\ \E v : it = [signed EXCEPT !.signature.v = v]
    BY <1>5, <1>10 DEF AlteredOnce
  <1>11. CASE signed.type = 3 /\ \E v : it = [signed EXCEPT !.signature = OtherHalf(@, v)]
    BY <1>6, <1>11, Zenon DEF AlteredOnce
  <1>12. \/ it \in {signed, [signed EXCEPT !.data = <<2>>], [signed EXCEPT !.signature.by = Stranger]}
         \/ it = [signed EXCEPT !.owner = AnotherOwner(@)]
         \/ signed.type = 1 /\ it = [signed EXCEPT !.signature.salt = 32]
         \/ signed.type = 3 /\ \E v : it = [signed EXCEPT !.signature.v = v]
         \/ signed.type = 3 /\ \E v : it = [signed EXCEPT !.signature = OtherHalf(@, v)]
    <2>1. CASE signed.type = 1
      BY <2>1, Zenon DEF Altered
    <2>2. CASE signed.type = 3
      BY <2>2, Zenon DEF Altered
    <2>3. CASE signed.type \notin {1, 3}
      BY <2>3, Zenon DEF Altered
    <2> QED BY <2>1, <2>2, <2>3
  <1> QED BY <1>7, <1>8, <1>9, <1>10, <1>11, <1>12

\* The signed item is one of its client's.
LEMMA SignedFacts ==
  ASSUME SignIInv, pc \in {"signed", "unsent"}
  PROVE  /\ signed.type \in {1, 3, 4} /\ Genuine(signed)
         /\ signed.type = client.type /\ signed.owner = client.owner /\ signed.data = <<1>>
         /\ signed.type = 3 => client.owner # Stranger /\ AnotherOwner(client.owner) # Stranger
  <1>1. Genuine(signed) /\ client = Construct(options) /\ client # Refused /\ options \in Options
    BY DEF SignIInv
  <1>2. signed.type = client.type /\ signed.owner = client.owner /\ signed.data = <<1>>
    BY <1>1 DEF Genuine
  <1> QED BY <1>1, <1>2, ClientFacts

\* An item without what tells its ids apart.
Bare(it) == [it EXCEPT !.signature.v = 0, !.signature.salt = 0]

LEMMA Normal ==
  ASSUME NEW own, NEW data, NEW by, NEW salt, NEW v, NEW parity, NEW high
  PROVE  Bare(Item(own, data, by, salt, v, parity, high)) = Item(own, data, by, 0, 0, parity, high)
  <1> DEFINE x == Item(own, data, by, salt, v, parity, high)
             y == [x EXCEPT !.signature.v = 0]
  <1>1. y = Item(own, data, by, salt, 0, parity, high)
    BY DEF Item
  <1>2. [y EXCEPT !.signature.salt = 0] = Item(own, data, by, 0, 0, parity, high)
    <2> HIDE DEF y
    <2> QED BY <1>1 DEF Item
  <1>3. Bare(x) = [y EXCEPT !.signature.salt = 0]
    BY DEF Bare
  <1> QED BY <1>2, <1>3

\* What is hashed or written in hex can be told from it.
LEMMA EncodingsTell ==
  ASSUME NEW a, NEW b
  PROVE  /\ HexMessage(a) = HexMessage(b) => a = b
         /\ HashMessage(a) = HashMessage(b) => a = b
  BY DEF HexMessage, HashMessage

LEMMA SaltIs478 == PssSaltLength = 478
  BY DEF PssSaltLength, MaxSaltLength

\* An altered item that verifies is the signed one, but for its ids.
LEMMA MatchTells ==
  ASSUME SignIInv, pc = "signed", ~Vouched,
         NEW it \in Altered, NEW w, MayTry(it, w), Matches(it, w)
  PROVE  /\ mode.strict => it = signed
         /\ Bare(it) = Bare(signed)
  <1> DEFINE s == signed.signature
             of == it.signature
  <1>1. /\ Genuine(signed) /\ AlteredOnce(it, s)
        /\ signed = Item(client.owner, <<1>>, s.by, s.salt, s.v, s.parity, s.high)
    BY SignedFacts, Altering DEF Genuine, Item
  <1>2. /\ it = Item(it.owner, it.data, of.by, of.salt, of.v, of.parity, of.high)
        /\ it.type = signed.type /\ of.over = s.over
        /\ it.owner \in {client.owner, AnotherOwner(client.owner)}
        /\ \/ /\ of.parity = s.parity /\ of.high = s.high
              /\ of.v = s.v \/ signed.type = 3
              /\ of.salt = s.salt \/ signed.type = 1
           \/ signed.type = 3 /\ of.high = TRUE
    <2>1. ASSUME NEW own, NEW data, NEW by, NEW salt, NEW v, NEW parity, NEW high,
                 it = Item(own, data, by, salt, v, parity, high)
          PROVE  /\ it = Item(it.owner, it.data, of.by, of.salt, of.v, of.parity, of.high)
                 /\ it.type = client.type /\ of.over = s.over /\ it.owner = own
                 /\ of.salt = salt /\ of.v = v /\ of.parity = parity /\ of.high = high
      BY <2>1 DEF Item
    <2>2. signed.type = client.type
      BY SignedFacts
    <2> HIDE DEF of, s
    <2>3. CASE \/ it = signed
               \/ it = Item(client.owner, <<2>>, s.by, s.salt, s.v, s.parity, s.high)
               \/ it = Item(AnotherOwner(client.owner), <<1>>, s.by, s.salt, s.v, s.parity, s.high)
               \/ it = Item(client.owner, <<1>>, Stranger, s.salt, s.v, s.parity, s.high)
      BY <1>1, <2>1, <2>2, <2>3
    <2>4. CASE signed.type = 1 /\ it = Item(client.owner, <<1>>, s.by, 32, s.v, s.parity, s.high)
      BY <2>1, <2>2, <2>4
    <2>5. CASE signed.type = 3 /\ \E v : it = Item(client.owner, <<1>>, s.by, s.salt, v, s.parity, s.high)
      BY <2>1, <2>2, <2>5
    <2>6. CASE signed.type = 3 /\ \E v : it = Item(client.owner, <<1>>, s.by, s.salt, v, 1 - s.parity, TRUE)
      <3>1. PICK v : it = Item(client.owner, <<1>>, s.by, s.salt, v, 1 - s.parity, TRUE)
        BY <2>6
      <3>2. of.high = TRUE
        BY <3>1 DEF Item, of
      <3>3. \A high : it = Item(client.owner, <<1>>, s.by, s.salt, v, 1 - s.parity, high) =>
              /\ it = Item(it.owner, it.data, of.by, of.salt, of.v, of.parity, of.high)
              /\ it.type = client.type /\ of.over = s.over /\ it.owner = client.owner
        BY <2>1
      <3> HIDE DEF of
      <3> QED BY <2>2, <2>6, <3>1, <3>2, <3>3, Zenon
    <2> QED BY <1>1, <2>3, <2>4, <2>5, <2>6 DEF AlteredOnce
  <1>3. /\ it.owner = client.owner /\ it.data = <<1>> /\ of.by = s.by
        /\ signed.type = 1 /\ mode.strict => of.salt = s.salt
        /\ signed.type = 3 => w = 27 + of.parity
    <2>1. CASE signed.type = 1
      <3>1. of.over = SignatureData(it) /\ s.over = SignatureData(signed)
        BY <1>1, <1>2, <2>1 DEF Matches, VerifyMessage, Genuine
      <3>2. it.owner = signed.owner /\ it.data = signed.data
        BY <1>2, <3>1, MessageTells
      <3>3. of.by = PublicKeyFromOwner(it.owner) /\ s.by = PublicKeyFromOwner(signed.owner)
        BY <1>1, <1>2, <2>1 DEF Matches, VerifyMessage, Genuine
      <3>4. (mode.strict => of.salt = PssSaltLength) /\ s.salt = PssSaltLength
        BY <1>1, <1>2, <2>1 DEF Matches, VerifyMessage, Genuine
      <3> QED BY <2>1, <3>2, <3>3, <3>4, SignedFacts
    <2>2. CASE signed.type = 4
      <3>1. of.over = HexMessage(SignatureData(it)) /\ s.over = HexMessage(SignatureData(signed))
        BY <1>1, <1>2, <2>2 DEF Matches, VerifyEd25519Raw, Genuine
      <3>2. SignatureData(it) = SignatureData(signed)
        BY <1>2, <3>1, EncodingsTell
      <3>3. it.owner = signed.owner /\ it.data = signed.data
        BY <3>2, MessageTells
      <3>4. of.by = it.owner /\ s.by = signed.owner
        BY <1>1, <1>2, <2>2 DEF Matches, VerifyEd25519Raw, Genuine
      <3> QED BY <2>2, <3>3, <3>4, SignedFacts
    <2>3. CASE signed.type = 3
      <3>1. Recover(HashMessage(SignatureData(it)), of, w) = it.owner
        BY <1>2, <2>3 DEF Matches
      <3>2. it.owner # Stranger
        BY <1>2, <2>3, SignedFacts
      <3>3. of.over = HashMessage(SignatureData(it)) /\ w = 27 + of.parity /\ of.by = it.owner
        BY <3>1, <3>2 DEF Recover
      <3>4. s.over = HashMessage(SignatureData(signed)) /\ s.by = signed.owner
        BY <1>1, <2>3 DEF Genuine
      <3>5. SignatureData(it) = SignatureData(signed)
        BY <1>2, <3>3, <3>4, EncodingsTell
      <3>6. it.owner = signed.owner /\ it.data = signed.data
        BY <3>5, MessageTells
      <3> QED BY <2>3, <3>3, <3>4, <3>6, SignedFacts
    <2> QED BY <2>1, <2>2, <2>3, SignedFacts
  <1>4. of.parity = s.parity /\ of.high = s.high /\ (of.v = s.v \/ signed.type = 3)
        /\ (of.salt = s.salt \/ signed.type = 1)
    BY <1>2 DEF MayTry
  <1>5. mode.strict => of.v = s.v /\ of.salt = s.salt
    <2>1. signed.type = 3 /\ mode.strict => w = of.v /\ s.v = 27 + s.parity
      BY <1>1, <1>2 DEF MayTry, Genuine
    <2> QED BY <1>3, <1>4, <2>1
  <1>6. mode.strict => it = signed
    BY <1>1, <1>2, <1>3, <1>4, <1>5
  <1>7. it = Item(client.owner, <<1>>, s.by, of.salt, of.v, s.parity, s.high)
    BY <1>2, <1>3, <1>4
  <1> HIDE DEF of, s
  <1>8. /\ Bare(it) = Item(client.owner, <<1>>, s.by, 0, 0, s.parity, s.high)
        /\ Bare(signed) = Item(client.owner, <<1>>, s.by, 0, 0, s.parity, s.high)
    BY <1>1, <1>7, Normal
  <1> QED BY <1>6, <1>8

\* What was signed verifies, with one of the values that a verifier may try.
LEMMA SignedMatches ==
  ASSUME SignIInv, pc = "signed", ~Vouched
  PROVE  \E w : MayTry(signed, w) /\ Matches(signed, w)
  <1> DEFINE s == signed.signature
  <1>1. Genuine(signed) /\ signed.type \in {1, 3, 4}
    BY SignedFacts
  <1>2. CASE signed.type = 1
    <2>1. MayTry(signed, 0) /\ Matches(signed, 0)
      BY <1>1, <1>2 DEF MayTry, Matches, VerifyMessage, Genuine
    <2> QED BY <2>1
  <1>3. CASE signed.type = 4
    <2>1. MayTry(signed, 0) /\ Matches(signed, 0)
      BY <1>1, <1>3 DEF MayTry, Matches, VerifyEd25519Raw, Genuine
    <2> QED BY <2>1
  <1>4. CASE signed.type = 3
    <2>1. /\ ~s.high /\ s.v \in {27, 28} /\ s.v = 27 + s.parity
          /\ s.by = signed.owner /\ s.over = HashMessage(SignatureData(signed))
      BY <1>1, <1>4 DEF Genuine
    <2>2. MayTry(signed, s.v)
      BY <1>4, <2>1 DEF MayTry
    <2>3. Recover(HashMessage(SignatureData(signed)), s, s.v) = signed.owner
      BY <2>1 DEF Recover
    <2>4. Matches(signed, s.v)
      BY <1>4, <2>3 DEF Matches
    <2> QED BY <2>2, <2>4
  <1> QED BY <1>1, <1>2, <1>3, <1>4

---------------------------------------------------------------------------
(* Every action preserves the invariant *)

\* Before the item is signed.
LEMMA EarlyStepsOK ==
  ASSUME SignIInv, MakeClient \/ RefuseCall \/ AskWallet \/ WalletConnects \/ WalletRefuses
  PROVE  SignIInv'
  <1>1. /\ pc \notin {"signed", "unsent"} /\ pc' \notin {"signed", "unsent"} /\ signed' = signed
        /\ UNCHANGED <<inputVars, checkVars>>
    BY DEF MakeClient, RefuseCall, AskWallet, WalletConnects, WalletRefuses
  <1>2. Tables' /\ \A v \in Verifiers : Unbegun(v)'
    BY <1>1 DEF SignIInv, Tables, Unbegun, checkVars
  <1>3. pc' \in {"ready", "connect", "prompt"} => client' = Construct(options') /\ client' # Refused
    BY DEF SignIInv, MakeClient, RefuseCall, AskWallet, WalletConnects, WalletRefuses, inputVars
  <1>4. pc' \in {"connect", "prompt"} => ~SignsSync(options')
    BY DEF SignIInv, MakeClient, RefuseCall, AskWallet, WalletConnects, WalletRefuses, inputVars
  <1> QED BY <1>1, <1>2, <1>3, <1>4 DEF SignIInv, inputVars

\* Stamping an unsigned item does not change its message.
LEMMA StampKeepsMessage ==
  ASSUME NEW u, NEW sig
  PROVE  SignatureData(Stamped(u, sig)) = SignatureData(u)
  BY DEF SignatureData, Stamped

LEMMA StampOK ==
  ASSUME SignIInv, pc \in {"ready", "prompt"}, NEW sig, Genuine(Stamped(Made, sig)),
         Stamp(sig), UNCHANGED <<inputVars, client, checkVars>>
  PROVE  SignIInv'
  <1>1. /\ pc' \in {"signed", "unsent"} /\ signed' = Stamped(Made, sig) /\ item' = signed'
        /\ client' = client /\ options' = options /\ mode' = mode /\ UNCHANGED <<inputVars, checkVars>>
    BY DEF Stamp, inputVars
  <1>2. Tables' /\ \A v \in Verifiers : Unbegun(v)'
    BY <1>1 DEF SignIInv, Tables, Unbegun, checkVars
  <1>3. Genuine(signed)'
    BY <1>1 DEF Genuine, Vouched
  <1>4. (item \in Altered)'
    BY <1>1 DEF Altered
  <1>5. client' = Construct(options') /\ client' # Refused
    BY <1>1 DEF SignIInv
  <1> QED BY <1>1, <1>2, <1>3, <1>4, <1>5 DEF SignIInv, inputVars

LEMMA SignAtOnceOK ==
  ASSUME SignIInv, SignAtOnce
  PROVE  SignIInv'
  <1> DEFINE data == SignatureData(Made)
             sig == SignWithKey(client.held, data)
             it == Stamped(Made, sig)
  <1>1. /\ client = Construct(options) /\ client # Refused /\ options \in Options
        /\ options.signer = NoSigner
    BY DEF SignIInv, SignAtOnce, SignsSync
  <1>2. /\ client.type \in {1, 4}
        /\ client.type = 4 => client.held.type = 4 /\ PublicKeyFromSeed(client.held.seed) = client.owner
        /\ client.type = 1 => client.held.type = 1 /\ client.held.n = client.owner /\ client.held.e = "AQAB"
    BY <1>1, ClientFacts
  <1>3. SignatureData(it) = data
    BY StampKeepsMessage
  <1>4. it = [type |-> client.type, owner |-> client.owner, data |-> <<1>>, signature |-> sig]
    BY DEF Stamped, Made, Unsigned
  <1>5. ASSUME NEW by, NEW over, NEW salt, NEW s,
               s = [by |-> by, over |-> over, salt |-> salt, v |-> 0, parity |-> 0, high |-> FALSE]
        PROVE  /\ s.by = by /\ s.over = over /\ s.salt = salt
               /\ s = [by |-> s.by, over |-> s.over, salt |-> s.salt, v |-> s.v, parity |-> s.parity, high |-> s.high]
    BY <1>5
  <1>6. /\ client.type = 4 =>
             sig = [by |-> client.owner, over |-> HexMessage(data), salt |-> 0, v |-> 0, parity |-> 0,
                    high |-> FALSE]
        /\ client.type = 1 =>
             sig = [by |-> <<client.owner, "AQAB">>, over |-> data, salt |-> PssSaltLength, v |-> 0, parity |-> 0,
                    high |-> FALSE]
    <2>1. CASE client.type = 4
      <3>1. sig = SignEd25519(client.held.seed, data)
        BY <1>2, <2>1 DEF SignWithKey
      <3> HIDE DEF data, sig
      <3>2. PublicKeyFromSeed(client.held.seed) = client.owner
        BY <1>2, <2>1
      <3>3. sig = [by |-> client.owner, over |-> HexMessage(data), salt |-> 0, v |-> 0, parity |-> 0,
                         high |-> FALSE]
        BY <3>1, <3>2, Zenon DEF SignEd25519, Signature
      <3> QED BY <2>1, <3>3
    <2>2. CASE client.type = 1
      <3>1. sig = SignMessage(client.held, data)
        BY <1>2, <2>2 DEF SignWithKey
      <3> HIDE DEF data, sig
      <3>2. sig = [Signature(<<client.held.n, client.held.e>>, data) EXCEPT !.salt = PssSaltLength]
        BY <3>1 DEF SignMessage
      <3>3. ASSUME NEW by, NEW over, NEW salt, NEW high
            PROVE  [[by |-> by, over |-> over, salt |-> 0, v |-> 0, parity |-> 0, high |-> high] EXCEPT !.salt = salt]
                     = [by |-> by, over |-> over, salt |-> salt, v |-> 0, parity |-> 0, high |-> high]
        OBVIOUS
      <3>4. <<client.held.n, client.held.e>> = <<client.owner, "AQAB">>
        BY <1>2, <2>2
      <3>5. sig = [by |-> <<client.owner, "AQAB">>, over |-> data, salt |-> PssSaltLength, v |-> 0, parity |-> 0,
                         high |-> FALSE]
        BY <3>2, <3>3, <3>4, Zenon DEF Signature
      <3> QED BY <2>2, <3>5
    <2> QED BY <1>2, <2>1, <2>2
  <1>7. Genuine(it)
    <2> HIDE DEF data, sig, it
    <2>1. it.type = client.type /\ it.owner = client.owner /\ it.data = <<1>> /\ it.signature = sig
      BY <1>4
    <2>2. CASE client.type = 4
      <3>1. sig.by = client.owner /\ sig.over = HexMessage(data)
        BY <1>5, <1>6, <2>2
      <3>2. sig = [by |-> sig.by, over |-> sig.over, salt |-> sig.salt, v |-> sig.v,
                   parity |-> sig.parity, high |-> sig.high]
        BY <1>5, <1>6, <2>2
      <3> QED BY <1>3, <1>4, <2>1, <2>2, <3>1, <3>2 DEF Genuine
    <2>3. CASE client.type = 1
      <3>1. sig.by = <<client.owner, "AQAB">> /\ sig.over = data /\ sig.salt = PssSaltLength
        BY <1>5, <1>6, <2>3
      <3>2. sig = [by |-> sig.by, over |-> sig.over, salt |-> sig.salt, v |-> sig.v,
                   parity |-> sig.parity, high |-> sig.high]
        BY <1>5, <1>6, <2>3
      <3> QED BY <1>3, <1>4, <2>1, <2>3, <3>1, <3>2 DEF Genuine, PublicKeyFromOwner
    <2> QED BY <1>2, <2>2, <2>3
  <1>8. pc = "ready" /\ Stamp(sig) /\ UNCHANGED <<inputVars, client, checkVars>>
    BY DEF SignAtOnce
  <1> HIDE DEF sig
  <1> QED BY <1>7, <1>8, StampOK

\* A wallet may write v as 0 or 1; the rest of its signature is left alone.
LEMMA Normalized ==
  ASSUME NEW c, NEW data, NEW a \in WalletAnswers(c, data), c.type = 3
  PROVE  LET n == NormalizeSignature(a)
         IN  /\ n = [by |-> n.by, over |-> n.over, salt |-> n.salt, v |-> n.v, parity |-> n.parity, high |-> n.high]
             /\ n.by = a.by /\ n.over = a.over /\ n.parity = a.parity /\ n.high = a.high
  <1> DEFINE w == IF a.v \in {0, 1} THEN a.v + 27 ELSE a.v
  <1>1. a = [by |-> a.by, over |-> a.over, salt |-> a.salt, v |-> a.v, parity |-> a.parity, high |-> a.high]
    BY DEF WalletAnswers
  <1>2. ASSUME NEW by, NEW over, NEW salt, NEW v, NEW parity, NEW high, NEW x, NEW y,
               x = [by |-> by, over |-> over, salt |-> salt, v |-> v, parity |-> parity, high |-> high]
        PROVE  LET n == [x EXCEPT !.v = y]
               IN  /\ n = [by |-> n.by, over |-> n.over, salt |-> n.salt, v |-> n.v, parity |-> n.parity,
                            high |-> n.high]
                   /\ n.by = x.by /\ n.over = x.over /\ n.parity = x.parity /\ n.high = x.high
    BY <1>2
  <1>3. NormalizeSignature(a) = [a EXCEPT !.v = w]
    BY DEF NormalizeSignature
  <1> HIDE DEF w
  <1> QED BY <1>1, <1>2, <1>3, Zenon

LEMMA WalletSignsOK ==
  ASSUME SignIInv, WalletSigns
  PROVE  SignIInv'
  <1> DEFINE data == SignatureData(Made)
             accepted(reply) == IF client.type = 3 THEN EthereumAccepts(client, data, reply)
                                ELSE SolanaAccepts(options.platform, mode.webCrypto, client, data, reply)
             kept(reply) == IF client.type = 3 THEN NormalizeSignature(reply) ELSE reply
  <1>1. /\ pc = "prompt" /\ client = Construct(options) /\ client # Refused /\ options \in Options
        /\ ~SignsSync(options) /\ UNCHANGED <<inputVars, client, checkVars>>
    BY DEF SignIInv, WalletSigns
  <1>2. PICK reply \in WalletAnswers(client, data) :
          IF accepted(reply) THEN Stamp(kept(reply)) ELSE pc' = "failed" /\ UNCHANGED <<signed, item>>
    BY DEF WalletSigns
  <1>3. options.signer # NoSigner /\ client.type \in {3, 4} /\ (client.type = 3 => client.owner # Stranger)
    BY <1>1, ClientFacts DEF SignsSync
  <1>4. CASE accepted(reply)
    <2> DEFINE s == kept(reply)
               it == Stamped(Made, s)
    <2>1. SignatureData(it) = data
      BY StampKeepsMessage
    <2>2. it = [type |-> client.type, owner |-> client.owner, data |-> <<1>>, signature |-> s]
      BY DEF Stamped, Made, Unsigned
    <2>3. it.type = client.type /\ it.owner = client.owner /\ it.data = <<1>> /\ it.signature = s
      <3> HIDE DEF it, s
      <3> QED BY <2>2
    <2>4. CASE client.type = 3
      <3>1. EthereumAccepts(client, data, reply) /\ s = NormalizeSignature(reply)
        BY <1>4, <2>4
      <3>2. /\ s = [by |-> s.by, over |-> s.over, salt |-> s.salt, v |-> s.v, parity |-> s.parity, high |-> s.high]
            /\ s.by = reply.by /\ s.over = reply.over /\ s.parity = reply.parity /\ s.high = reply.high
        BY <2>4, <3>1, Normalized
      <3> HIDE DEF s, it, data
      <3>3. /\ ~s.high /\ s.v \in {27, 28}
            /\ Recover(HashMessage(data), reply, s.v) = client.owner
        BY <3>1, <3>2 DEF EthereumAccepts, IsSignature, IsLowS
      <3>4. s.over = HashMessage(data) /\ s.v = 27 + s.parity /\ s.by = client.owner
        BY <1>3, <2>4, <3>2, <3>3 DEF Recover
      <3>5. Genuine(it)
        BY <2>1, <2>2, <2>3, <2>4, <3>2, <3>3, <3>4 DEF Genuine
      <3> QED BY <1>1, <1>2, <1>4, <3>5, StampOK DEF s, it
    <2>5. CASE client.type = 4
      <3>1. SolanaAccepts(options.platform, mode.webCrypto, client, data, reply) /\ s = reply
        BY <1>4, <2>5
      <3>2. PICK by, over : reply = Signature(by, over)
        BY <2>5 DEF WalletAnswers
      <3>3. reply = [by |-> by, over |-> over, salt |-> 0, v |-> 0, parity |-> 0, high |-> FALSE]
        BY <3>2, Zenon DEF Signature
      <3>4. s = [by |-> s.by, over |-> s.over, salt |-> s.salt, v |-> s.v, parity |-> s.parity, high |-> s.high]
        <4>1. ASSUME NEW salt, NEW v, NEW parity, NEW high, NEW x,
                     x = [by |-> by, over |-> over, salt |-> salt, v |-> v, parity |-> parity, high |-> high]
              PROVE  x = [by |-> x.by, over |-> x.over, salt |-> x.salt, v |-> x.v, parity |-> x.parity,
                          high |-> x.high]
          BY <4>1
        <4> HIDE DEF s
        <4> QED BY <3>1, <3>3, <4>1, Zenon
      <3> HIDE DEF s, it, data
      <3>5. ~Vouched => s.by = client.owner /\ s.over = HexMessage(data)
        BY <1>1, <1>3, <2>5, <3>1, PlatformsAssumption DEF SolanaAccepts, VerifyEd25519Raw, Vouched
      <3>6. Genuine(it)
        BY <2>1, <2>2, <2>3, <2>5, <3>4, <3>5 DEF Genuine
      <3> QED BY <1>1, <1>2, <1>4, <3>6, StampOK DEF s, it
    <2> QED BY <1>3, <2>4, <2>5
  <1>5. CASE ~accepted(reply)
    <2>1. pc' = "failed" /\ signed' = signed
      BY <1>2, <1>5
    <2>2. Tables' /\ \A v \in Verifiers : Unbegun(v)'
      BY <1>1 DEF SignIInv, Tables, Unbegun, checkVars
    <2> QED BY <1>1, <2>1, <2>2 DEF SignIInv, inputVars
  <1> QED BY <1>4, <1>5

\* What a verifier has found out stays true.
LEMMA HoldsNext ==
  ASSUME NEW v, signed' = signed, mode' = mode, given'[v] \in Altered, held'[v] = given'[v],
         Known(given'[v], left'[v], verdict'[v])
  PROVE  Holds(v)'
  <1>1. (given[v] \in Altered /\ held[v] = given[v])'
    BY DEF Altered
  <1>2. \A w : /\ MayTry(given[v], w)' <=> MayTry(given'[v], w)
               /\ Matches(given[v], w)' <=> Matches(given'[v], w)
    BY DEF MayTry, Matches, VerifyMessage
  <1>3. \A w : Failed(given[v], w)' <=> Failed(given'[v], w)
    BY <1>2 DEF Failed
  <1>4. Known(given[v], left[v], verdict[v])'
    BY <1>2, <1>3 DEF Known
  <1> QED BY <1>1, <1>4 DEF Holds

LEMMA HoldsKept ==
  ASSUME NEW v, Holds(v), signed' = signed, mode' = mode,
         given'[v] = given[v], held'[v] = held[v], left'[v] = left[v], verdict'[v] = verdict[v]
  PROVE  Holds(v)'
  BY HoldsNext DEF Holds

LEMMA OthersWriteOK ==
  ASSUME SignIInv, OthersWrite
  PROVE  SignIInv'
  <1>1. /\ pc = "signed" /\ pc' = "signed" /\ item' \in Altered /\ signed' = signed
        /\ client' = client /\ options' = options /\ mode' = mode /\ UNCHANGED <<inputVars, checkVars>>
    BY DEF OthersWrite, inputVars
  <1>2. Tables'
    BY <1>1 DEF SignIInv, Tables, checkVars
  <1>3. ASSUME NEW v \in Verifiers  PROVE (Unbegun(v) \/ Holds(v))'
    <2>1. CASE Unbegun(v)
      BY <1>1, <2>1 DEF Unbegun, checkVars
    <2>2. CASE Holds(v)
      BY <1>1, <2>2, HoldsKept DEF checkVars
    <2> QED BY <1>1, <2>1, <2>2 DEF SignIInv
  <1>4. Genuine(signed)' /\ (item \in Altered)'
    BY <1>1 DEF SignIInv, Genuine, Vouched, Altered
  <1>5. client' = Construct(options') /\ client' # Refused
    BY <1>1 DEF SignIInv
  <1> QED BY <1>1, <1>2, <1>3, <1>4, <1>5 DEF SignIInv, inputVars

\* A step of one verifier leaves the rest of the invariant alone.
LEMMA VerifierStep ==
  ASSUME SignIInv, NEW v \in Verifiers, pc = "signed",
         UNCHANGED <<inputVars, client, pc, signed, item>>, Tables', Holds(v)',
         \A u \in Verifiers \ {v} :
            given'[u] = given[u] /\ held'[u] = held[u] /\ left'[u] = left[u] /\ verdict'[u] = verdict[u]
  PROVE  SignIInv'
  <1>1. /\ pc' = "signed" /\ signed' = signed /\ item' = item
        /\ client' = client /\ options' = options /\ mode' = mode /\ UNCHANGED inputVars
    BY DEF inputVars
  <1>2. ASSUME NEW u \in Verifiers  PROVE (Unbegun(u) \/ Holds(u))'
    <2>1. CASE u = v
      BY <2>1
    <2>2. CASE u # v /\ Unbegun(u)
      BY <2>2 DEF Unbegun
    <2>3. CASE u # v /\ Holds(u)
      BY <1>1, <2>3, HoldsKept
    <2> QED BY <2>1, <2>2, <2>3 DEF SignIInv
  <1>3. Genuine(signed)' /\ (item \in Altered)'
    BY <1>1 DEF SignIInv, Genuine, Vouched, Altered
  <1>4. client' = Construct(options') /\ client' # Refused
    BY <1>1 DEF SignIInv
  <1> QED BY <1>1, <1>2, <1>3, <1>4 DEF SignIInv, inputVars

LEMMA AlteredType ==
  ASSUME SignIInv, pc = "signed", NEW it \in Altered
  PROVE  it.type = signed.type /\ it.type \in {1, 3, 4} /\ it # View
  <1> DEFINE s == signed.signature
  <1>1. AlteredOnce(it, s) /\ signed.type = client.type /\ signed.type \in {1, 3, 4}
    BY SignedFacts, Altering
  <1>2. \A own, data, by, salt, v, parity, high : Item(own, data, by, salt, v, parity, high).type = client.type
    BY DEF Item
  <1>3. it.type = signed.type
    <2> HIDE DEF s
    <2>1. \A x, own, data, by, salt, v, parity, high :
            x = Item(own, data, by, salt, v, parity, high) => x.type = client.type
      BY <1>2
    <2>2. \A x, own, data, by, salt, v, parity :
            x = Item(own, data, by, salt, v, parity, TRUE) => x.type = client.type
      BY <2>1, Zenon
    <2>3. CASE \E v : it = Item(client.owner, <<1>>, s.by, s.salt, v, 1 - s.parity, TRUE)
      BY <1>1, <2>2, <2>3, Zenon
    <2>4. CASE ~\E v : it = Item(client.owner, <<1>>, s.by, s.salt, v, 1 - s.parity, TRUE)
      <3>1. \/ it = signed
            \/ \E own, data, by, salt, v, parity, high : it = Item(own, data, by, salt, v, parity, high)
        BY <1>1, <2>4, Zenon DEF AlteredOnce
      <3> QED BY <1>1, <2>1, <3>1
    <2> QED BY <2>3, <2>4
  <1> QED BY <1>1, <1>3 DEF View

LEMMA BeginVerifyOK ==
  ASSUME SignIInv, NEW v \in Verifiers, BeginVerify(v)
  PROVE  SignIInv'
  <1>1. /\ pc = "signed" /\ verdict[v] = "none" /\ left[v] = <<>> /\ item \in Altered
        /\ UNCHANGED <<inputVars, client, pc, signed, item>> /\ mode' = mode /\ signed' = signed
        /\ mode.strict \in BOOLEAN /\ Tables
    BY DEF SignIInv, BeginVerify, inputVars
  <1>2. item.type \in {1, 3, 4}
    BY <1>1, AlteredType
  <1>3. /\ given' = [given EXCEPT ![v] = item] /\ held' = [held EXCEPT ![v] = item]
        /\ \/ verdict' = [verdict EXCEPT ![v] = "throws"] /\ left' = left
           \/ /\ item.type # 3 /\ left' = left
              /\ verdict' = [verdict EXCEPT ![v] = IF Matches(item, 0) THEN "true" ELSE "false"]
           \/ /\ left' = [left EXCEPT ![v] = IF item.type = 3 THEN Candidates(item.signature) ELSE <<0>>]
              /\ verdict' = [verdict EXCEPT ![v] = IF left'[v] = <<>> THEN "false" ELSE @]
    BY DEF BeginVerify, HoldCopy
  <1>4. /\ given'[v] = item /\ held'[v] = item
        /\ \/ verdict'[v] = "throws" /\ left'[v] = <<>>
           \/ item.type # 3 /\ left'[v] = <<>> /\ verdict'[v] = IF Matches(item, 0) THEN "true" ELSE "false"
           \/ /\ left'[v] = IF item.type = 3 THEN Candidates(item.signature) ELSE <<0>>
              /\ verdict'[v] = IF left'[v] = <<>> THEN "false" ELSE "none"
    BY <1>1, <1>3 DEF Tables
  <1>5. Known(item, left'[v], verdict'[v])
    <2>1. CASE verdict'[v] = "throws" /\ left'[v] = <<>>
      BY <2>1 DEF Known
    <2>2. CASE item.type # 3 /\ left'[v] = <<>> /\ verdict'[v] = IF Matches(item, 0) THEN "true" ELSE "false"
      <3>1. MayTry(item, 0) /\ \A w : MayTry(item, w) => w = 0
        BY <2>2 DEF MayTry
      <3> QED BY <2>2, <3>1 DEF Known, Failed
    <2>3. CASE item.type # 3 /\ left'[v] = <<0>> /\ verdict'[v] = "none"
      <3>1. MayTry(item, 0) /\ \A w : w # 0 => Failed(item, w)
        BY <2>3 DEF MayTry, Failed
      <3> QED BY <2>3, <3>1 DEF Known
    <2>4. CASE /\ item.type = 3 /\ left'[v] = Candidates(item.signature)
               /\ verdict'[v] = IF left'[v] = <<>> THEN "false" ELSE "none"
      <3> DEFINE s == item.signature
      <3>1. CASE s.high \/ (mode.strict /\ s.v \notin {27, 28})
        <4>1. left'[v] = <<>> /\ verdict'[v] = "false"
          BY <2>4, <3>1 DEF Candidates, IsLowS
        <4>2. \A w : Failed(item, w)
          BY <2>4, <3>1 DEF Failed, MayTry
        <4> QED BY <4>1, <4>2 DEF Known
      <3>2. CASE ~s.high /\ mode.strict /\ s.v \in {27, 28}
        <4>1. left'[v] = <<s.v>> /\ verdict'[v] = "none"
          BY <2>4, <3>2 DEF Candidates, IsLowS
        <4>2. MayTry(item, s.v) /\ \A x : x # s.v => Failed(item, x)
          BY <2>4, <3>2 DEF MayTry, Failed
        <4> QED BY <4>1, <4>2 DEF Known
      <3>3. CASE ~s.high /\ ~mode.strict
        <4>1. left'[v] = <<27, 28>> /\ verdict'[v] = "none"
          BY <2>4, <3>3 DEF Candidates, IsLowS
        <4> QED BY <2>4, <3>3, <4>1 DEF Known
      <3> QED BY <3>1, <3>2, <3>3
    <2> QED BY <1>4, <2>1, <2>2, <2>3, <2>4
  <1>6. Holds(v)'
    BY <1>1, <1>4, <1>5, HoldsNext
  <1>7. /\ Tables'
        /\ \A u \in Verifiers \ {v} :
              given'[u] = given[u] /\ held'[u] = held[u] /\ left'[u] = left[u] /\ verdict'[u] = verdict[u]
    BY <1>1, <1>3 DEF Tables
  <1> QED BY <1>1, <1>6, <1>7, VerifierStep

LEMMA VerifyAnswersOK ==
  ASSUME SignIInv, NEW v \in Verifiers, VerifyAnswers(v)
  PROVE  SignIInv'
  <1> DEFINE it == given[v]
             found == Matches(it, Head(left[v]))
  <1>1. /\ left[v] # <<>> /\ UNCHANGED <<inputVars, client, pc, signed, item>> /\ mode' = mode /\ signed' = signed
        /\ given' = given /\ held' = held /\ Tables
    BY DEF SignIInv, VerifyAnswers, inputVars
  <1>2. pc = "signed" /\ Holds(v)
    BY <1>1 DEF SignIInv, Unbegun
  <1>3. it \in Altered /\ held[v] = it /\ Known(it, left[v], verdict[v])
    BY <1>2 DEF Holds
  <1>4. Held(v) = it
    BY <1>2, <1>3, AlteredType DEF Held
  <1>5. /\ left' = [left EXCEPT ![v] = IF found THEN <<>> ELSE Tail(@)]
        /\ verdict' = [verdict EXCEPT ![v] = IF found THEN "true" ELSE IF Len(left[v]) = 1 THEN "false" ELSE @]
    BY <1>4 DEF VerifyAnswers
  <1>6. /\ left'[v] = IF found THEN <<>> ELSE Tail(left[v])
        /\ verdict'[v] = IF found THEN "true" ELSE IF Len(left[v]) = 1 THEN "false" ELSE verdict[v]
    BY <1>1, <1>5 DEF Tables
  <1>7. Known(it, left'[v], verdict'[v])
    <2> HIDE DEF it
    <2>1. CASE \E w : left[v] = <<w>> /\ MayTry(it, w) /\ \A x : x # w => Failed(it, x)
      <3>1. PICK w : left[v] = <<w>> /\ MayTry(it, w) /\ \A x : x # w => Failed(it, x)
        BY <2>1
      <3>2. Head(left[v]) = w /\ Tail(left[v]) = <<>> /\ Len(left[v]) = 1
        BY <3>1
      <3>3. CASE Matches(it, w)
        BY <1>6, <3>1, <3>2, <3>3 DEF Known
      <3>4. CASE ~Matches(it, w)
        <4>1. \A x : Failed(it, x)
          BY <3>1, <3>4 DEF Failed
        <4> QED BY <1>6, <3>2, <3>4, <4>1 DEF Known
      <3> QED BY <3>3, <3>4
    <2>2. CASE /\ left[v] = <<27, 28>> /\ it.type = 3 /\ ~mode.strict /\ ~it.signature.high
               /\ verdict[v] = "none"
      <3>1. Head(left[v]) = 27 /\ Tail(left[v]) = <<28>> /\ Len(left[v]) = 2
        BY <2>2
      <3>2. \A w : MayTry(it, w) <=> w \in {27, 28}
        BY <2>2 DEF MayTry
      <3>3. CASE Matches(it, 27)
        BY <1>6, <3>1, <3>2, <3>3 DEF Known
      <3>4. CASE ~Matches(it, 27)
        <4>1. \A x : x # 28 => Failed(it, x)
          BY <3>2, <3>4 DEF Failed
        <4> QED BY <1>6, <2>2, <3>1, <3>2, <3>4, <4>1 DEF Known
      <3> QED BY <3>3, <3>4
    <2> QED BY <1>1, <1>3, <2>1, <2>2 DEF Known
  <1>8. Holds(v)'
    BY <1>1, <1>3, <1>7, HoldsNext
  <1>9. /\ Tables'
        /\ \A u \in Verifiers \ {v} :
              given'[u] = given[u] /\ held'[u] = held[u] /\ left'[u] = left[u] /\ verdict'[u] = verdict[u]
    BY <1>1, <1>5 DEF Tables
  <1> QED BY <1>1, <1>2, <1>8, <1>9, VerifierStep

LEMMA SignNextOK ==
  ASSUME SignIInv, [Next]_vars
  PROVE  SignIInv'
  <1>1. CASE MakeClient \/ RefuseCall \/ AskWallet \/ WalletConnects \/ WalletRefuses
    BY <1>1, EarlyStepsOK
  <1>2. CASE SignAtOnce
    BY <1>2, SignAtOnceOK
  <1>3. CASE WalletSigns
    BY <1>3, WalletSignsOK
  <1>4. CASE OthersWrite
    BY <1>4, OthersWriteOK
  <1>5. CASE \E v \in Verifiers : BeginVerify(v)
    BY <1>5, BeginVerifyOK
  <1>6. CASE \E v \in Verifiers : VerifyAnswers(v)
    BY <1>6, VerifyAnswersOK
  <1>7. CASE UNCHANGED vars
    <2>1. /\ pc' = pc /\ signed' = signed /\ item' = item /\ client' = client
          /\ options' = options /\ mode' = mode /\ UNCHANGED <<inputVars, checkVars>>
      BY <1>7 DEF vars, inputVars, checkVars
    <2>2. Tables'
      BY <2>1 DEF SignIInv, Tables, checkVars
    <2>3. ASSUME NEW v \in Verifiers  PROVE IF pc = "signed" THEN (Unbegun(v) \/ Holds(v))' ELSE Unbegun(v)'
      <3>1. Unbegun(v) => Unbegun(v)'
        BY <2>1 DEF Unbegun, checkVars
      <3>2. Holds(v) => Holds(v)'
        BY <2>1, HoldsKept DEF checkVars
      <3> QED BY <3>1, <3>2 DEF SignIInv
    <2>4. /\ pc \in {"signed", "unsent"} => Genuine(signed)'
          /\ pc = "signed" => (item \in Altered)'
      BY <2>1 DEF SignIInv, Genuine, Vouched, Altered
    <2>5. /\ pc' \in {"ready", "connect", "prompt", "signed", "unsent"} =>
               client' = Construct(options') /\ client' # Refused
          /\ pc' \in {"connect", "prompt"} => ~SignsSync(options')
      BY <2>1 DEF SignIInv, inputVars
    <2> QED BY <2>1, <2>2, <2>3, <2>4, <2>5 DEF SignIInv, inputVars
  <1> QED BY <1>1, <1>2, <1>3, <1>4, <1>5, <1>6, <1>7 DEF Next

---------------------------------------------------------------------------
(* What the invariant says *)

\* The invariant that the properties below rest on: what was signed is by the
\* client's key over its item's message, and what each verifier has found out.
THEOREM SigningInvariant == Spec => []SignIInv
  <1>1. Init => SignIInv
    BY SignInitOK
  <1>2. SignIInv /\ [Next]_vars => SignIInv'
    BY SignNextOK
  <1> QED BY <1>1, <1>2, PTL DEF Spec

\* verifyDataItem() accepts what was signed and nothing else but its other ids,
\* as it was when the call was made: for keys and owners of any kind, with
\* others writing to the buffer between the recoveries.
THEOREM OnlyTheOriginalIsAccepted == Spec => []AcceptedIsTheOriginal
  <1>1. ASSUME SignIInv  PROVE AcceptedIsTheOriginal
    <2> SUFFICES ASSUME NEW v \in Verifiers, verdict[v] = "true", ~Vouched
                 PROVE  (mode.strict => given[v] = signed) /\ Bare(given[v]) = Bare(signed)
      BY DEF AcceptedIsTheOriginal, Bare
    <2>1. pc = "signed" /\ Holds(v)
      BY <1>1 DEF SignIInv, Unbegun
    <2>2. given[v] \in Altered /\ \E w : MayTry(given[v], w) /\ Matches(given[v], w)
      BY <2>1 DEF Holds, Known
    <2> QED BY <1>1, <2>1, <2>2, MatchTells
  <1> QED BY <1>1, SigningInvariant, PTL

\* signWithWallet(), signWithEthereumSigner() and the keys of the process leave
\* no item that a verifier rejects: for every wallet, whatever it answers.
THEOREM SignedItemsVerifyEverywhere == Spec => []SignedItemVerifies
  <1>1. ASSUME SignIInv  PROVE SignedItemVerifies
    <2>1. ASSUME NEW v \in Verifiers, verdict[v] = "false", given[v] = signed, ~Vouched  PROVE FALSE
      <3>1. pc = "signed" /\ Holds(v)
        BY <1>1, <2>1 DEF SignIInv, Unbegun
      <3>2. \A w : Failed(signed, w)
        BY <2>1, <3>1 DEF Holds, Known
      <3>3. \E w : MayTry(signed, w) /\ Matches(signed, w)
        BY <1>1, <2>1, <3>1, SignedMatches
      <3> QED BY <3>2, <3>3 DEF Failed
    <2>2. ASSUME signed.type = 1  PROVE signed.signature.salt = 478
      <3>1. pc \in {"signed", "unsent"}
        BY <1>1, <2>2 DEF SignIInv, NoItem
      <3> QED BY <1>1, <2>2, <3>1, SignedFacts, SaltIs478 DEF Genuine
    <2> QED BY <2>1, <2>2 DEF SignedItemVerifies
  <1> QED BY <1>1, SigningInvariant, PTL

\* The client is what the constructor made of the options.
ClientIInv == options \in Options /\ (pc # "new" => client = Construct(options))

LEMMA ClientInvariant == Spec => []ClientIInv
  <1>1. Init => ClientIInv
    BY DEF Init, ClientIInv
  <1>2. ClientIInv /\ [Next]_vars => ClientIInv'
    <2> SUFFICES ASSUME ClientIInv, [Next]_vars  PROVE ClientIInv'
      OBVIOUS
    <2>1. CASE MakeClient
      BY <2>1 DEF MakeClient, ClientIInv, inputVars
    <2>2. CASE RefuseCall \/ AskWallet \/ WalletConnects \/ WalletRefuses
      BY <2>2 DEF RefuseCall, AskWallet, WalletConnects, WalletRefuses, ClientIInv, inputVars
    <2>3. CASE SignAtOnce \/ WalletSigns
      <3>1. UNCHANGED <<options, client>> /\ pc # "new"
        BY <2>3 DEF SignAtOnce, WalletSigns, inputVars
      <3> QED BY <3>1 DEF ClientIInv
    <2>4. CASE OthersWrite \/ \E v \in Verifiers : BeginVerify(v) \/ VerifyAnswers(v)
      <3>1. UNCHANGED <<options, client, pc>>
        BY <2>4 DEF OthersWrite, BeginVerify, VerifyAnswers, inputVars
      <3> QED BY <3>1 DEF ClientIInv
    <2>5. CASE UNCHANGED vars
      BY <2>5 DEF vars, inputVars, ClientIInv
    <2> QED BY <2>1, <2>2, <2>3, <2>4, <2>5 DEF Next
  <1> QED BY <1>1, <1>2, PTL DEF Spec

\* The constructor (src/core/client.js) takes every documented form of a key or
\* a wallet, and nothing else, and the client signs for the key that was meant:
\* for keys of any length and value, with leading zeros or without.
THEOREM ClientsSignForTheirKey == Spec => []ClientIsItsKey
  <1>1. ASSUME ClientIInv  PROVE ClientIsItsKey
    <2> SUFFICES ASSUME pc # "new"
                 PROVE  /\ client # Refused <=> options.sound
                        /\ client # Refused => client.owner = options.public /\ Addressed(client)
      BY DEF ClientIsItsKey, Addressed
    <2>1. options \in Options /\ client = Construct(options)
      BY <1>1 DEF ClientIInv
    <2>2. options.sound = (Meant(options) # {}) /\ Meant(options) \subseteq {options.public}
      BY <2>1, SoundAssumption
    <2>3. client # Refused => client.owner \in Meant(options) /\ Addressed(client)
      BY <2>1, ConstructsWhatIsMeant
    <2>4. Meant(options) # {} => client # Refused
      BY <2>1, WhatIsMeantConstructs
    <2> QED BY <2>2, <2>3, <2>4
  <1> QED BY <1>1, ClientInvariant, PTL

---------------------------------------------------------------------------
(* Concurrent calls on one wallet: any number of calls, any number of      *)
(* accounts                                                                *)

\* The key is that of the client's account or is not known yet, and it is not
\* known while the wallet is asked to connect, which it is once.
ConnectOK ==
    /\ publicKey \in {Unknown, Address}
    /\ connecting \in {"none", "prompt", "recover", "rejected", "connected"}
    /\ connecting = "prompt" => publicKey = Unknown
    /\ prompts = IF connecting = "prompt" THEN 1 ELSE 0

\* A call waits only while there is an attempt, and it was asked by it, will be,
\* or shares it with calls that were.
WaitingOK ==
    \A c \in Calls : phase[c] = "connect" =>
        /\ connecting \in {"prompt", "recover", "rejected"}
        /\ connecting = "prompt" \/ answered[c] \/ \E d \in joined[c] : answered[d]

\* An attempt has somebody who waits for it, and once it was answered somebody
\* who was asked.
AskedOK ==
    /\ connecting = "prompt" => \E d \in Calls : phase[d] = "connect"
    /\ connecting \in {"recover", "rejected"} => \E d \in Calls : phase[d] = "connect" /\ answered[d]

\* The item names the client's account before the wallet sees it, and what is
\* verified is the call's own copy.
ItemOK ==
    \A c \in Calls :
        /\ phase[c] \in {"prompt", "verify", "signed"} => owner[c] = Address
        /\ phase[c] \in {"verify", "signed"} =>
               signature[c] \in Keys \cup {Garbage} /\ answered[c]
        /\ phase[c] = "signed" => signature[c] = Address

\* The inductive invariant.
SignerIInv == SignerTypeOK /\ ConnectOK /\ WaitingOK /\ AskedOK /\ ItemOK /\ FailsOnlyWhenAsked

---------------------------------------------------------------------------

LEMMA SignerInitOK == WalletInit => SignerIInv
  BY WalletKeysAssumption
     DEF WalletInit, SignerIInv, SignerTypeOK, ConnectOK, WaitingOK, AskedOK, ItemOK, FailsOnlyWhenAsked

\* A call that finds the key names its account at once.
LEMMA BeginWithKeyKeeps ==
  ASSUME SignerIInv, NEW c \in Calls, BeginWithKey(c)
  PROVE  SignerIInv'
  <1> USE DEF BeginWithKey, signerVars, connectVars, historyVars
  <1>1. SignerTypeOK'
    BY WalletKeysAssumption DEF SignerIInv, SignerTypeOK, ConnectOK
  <1>2. ConnectOK' /\ WaitingOK' /\ AskedOK'
    BY DEF SignerIInv, SignerTypeOK, ConnectOK, WaitingOK, AskedOK, CannotSign
  <1>3. ItemOK'
    BY DEF SignerIInv, SignerTypeOK, ConnectOK, ItemOK, CannotSign
  <1>4. FailsOnlyWhenAsked'
    BY DEF SignerIInv, SignerTypeOK, FailsOnlyWhenAsked, CannotSign
  <1> QED BY <1>1, <1>2, <1>3, <1>4 DEF SignerIInv

\* A call that does not waits for the prompt it opens or finds, or is refused
\* because nothing it would get could be verified.
LEMMA BeginConnectKeeps ==
  ASSUME SignerIInv, NEW c \in Calls, BeginConnect(c)
  PROVE  SignerIInv'
  <1> USE DEF BeginConnect, AnswerInHand, Waiting, signerVars, itemVars
  <1>1. SignerTypeOK'
    BY DEF SignerIInv, SignerTypeOK, ConnectOK
  <1>2. ConnectOK' /\ WaitingOK' /\ AskedOK'
    BY DEF SignerIInv, SignerTypeOK, ConnectOK, WaitingOK, AskedOK
  <1>3. ItemOK'
    BY DEF SignerIInv, SignerTypeOK, ItemOK
  <1>4. FailsOnlyWhenAsked'
    <2>1. ASSUME connecting = "rejected"  PROVE \E d \in joined'[c] : answered'[d]
      BY <2>1 DEF SignerIInv, SignerTypeOK, AskedOK
    <2> QED BY <2>1 DEF SignerIInv, SignerTypeOK, ConnectOK, FailsOnlyWhenAsked, CannotSign
  <1> QED BY <1>1, <1>2, <1>3, <1>4 DEF SignerIInv

\* The attempt is answered, recovered, and settles: no call is left waiting.
LEMMA ConnectStepKeeps ==
  ASSUME SignerIInv, ConnectStep
  PROVE  SignerIInv'
  <1>1. CASE ConnectAnswered
    <2> USE <1>1 DEF ConnectAnswered, Waiting, signerVars, itemVars
    <2>1. SignerTypeOK'
      BY DEF SignerIInv, SignerTypeOK, ConnectOK
    <2>2. ConnectOK' /\ WaitingOK' /\ AskedOK'
      <3>1. ConnectOK'
        BY DEF SignerIInv, SignerTypeOK, ConnectOK
      <3>2. WaitingOK'
        BY DEF SignerIInv, SignerTypeOK, WaitingOK
      <3>3. AskedOK'
        BY DEF SignerIInv, SignerTypeOK, ConnectOK, AskedOK
      <3> QED BY <3>1, <3>2, <3>3
    <2>3. ItemOK'
      BY DEF SignerIInv, SignerTypeOK, ItemOK
    <2>4. FailsOnlyWhenAsked'
      BY DEF SignerIInv, SignerTypeOK, WaitingOK, FailsOnlyWhenAsked, CannotSign
    <2> QED BY <2>1, <2>2, <2>3, <2>4 DEF SignerIInv
  <1>2. CASE ConnectedElsewhere
    <2> USE <1>2 DEF ConnectedElsewhere, signerVars, itemVars, historyVars
    <2>1. SignerTypeOK'
      BY DEF SignerIInv, SignerTypeOK, ConnectOK
    <2>2. ConnectOK' /\ WaitingOK' /\ AskedOK'
      BY DEF SignerIInv, SignerTypeOK, ConnectOK, WaitingOK, AskedOK
    <2>3. ItemOK'
      BY DEF SignerIInv, SignerTypeOK, ItemOK
    <2>4. FailsOnlyWhenAsked'
      BY DEF SignerIInv, SignerTypeOK, WaitingOK, FailsOnlyWhenAsked, CannotSign
    <2> QED BY <2>1, <2>2, <2>3, <2>4 DEF SignerIInv
  <1>3. CASE Connected
    <2> USE <1>3 DEF Connected, Waiting, signerVars, historyVars
    <2>1. SignerTypeOK'
      BY WalletKeysAssumption DEF SignerIInv, SignerTypeOK, ConnectOK
    <2>2. ConnectOK' /\ WaitingOK' /\ AskedOK'
      BY DEF SignerIInv, SignerTypeOK, ConnectOK, WaitingOK, AskedOK
    <2>3. ItemOK'
      BY DEF SignerIInv, SignerTypeOK, ItemOK
    <2>4. FailsOnlyWhenAsked'
      BY DEF SignerIInv, SignerTypeOK, WaitingOK, FailsOnlyWhenAsked, CannotSign
    <2> QED BY <2>1, <2>2, <2>3, <2>4 DEF SignerIInv
  <1>4. CASE ConnectFails
    <2> USE <1>4 DEF ConnectFails, Waiting, signerVars, itemVars, historyVars
    <2>1. SignerTypeOK'
      BY DEF SignerIInv, SignerTypeOK, ConnectOK
    <2>2. ConnectOK' /\ WaitingOK' /\ AskedOK'
      BY DEF SignerIInv, SignerTypeOK, ConnectOK, WaitingOK, AskedOK
    <2>3. ItemOK'
      BY DEF SignerIInv, SignerTypeOK, ItemOK
    <2>4. FailsOnlyWhenAsked'
      BY DEF SignerIInv, SignerTypeOK, WaitingOK, FailsOnlyWhenAsked, CannotSign
    <2> QED BY <2>1, <2>2, <2>3, <2>4 DEF SignerIInv
  <1> QED BY <1>1, <1>2, <1>3, <1>4 DEF ConnectStep

\* The wallet answers with any signature, or refuses.
LEMMA WalletAnswerKeeps ==
  ASSUME SignerIInv, NEW c \in Calls,
         (\E k \in Keys \cup {Garbage} : PromptSigned(c, k)) \/ PromptRefused(c)
  PROVE  SignerIInv'
  <1> USE DEF PromptSigned, PromptRefused, signerVars, connectVars, itemVars, historyVars
  <1>1. SignerTypeOK'
    <2>1. ASSUME NEW k \in Keys \cup {Garbage}, PromptSigned(c, k)
          PROVE  SignerTypeOK'
      BY <2>1 DEF SignerIInv, SignerTypeOK
    <2>2. ASSUME PromptRefused(c)
          PROVE  SignerTypeOK'
      BY <2>2 DEF SignerIInv, SignerTypeOK
    <2> QED BY <2>1, <2>2
  <1>2. ConnectOK' /\ WaitingOK' /\ AskedOK'
    BY DEF SignerIInv, SignerTypeOK, ConnectOK, WaitingOK, AskedOK
  <1>3. ItemOK'
    BY DEF SignerIInv, SignerTypeOK, ItemOK
  <1>4. FailsOnlyWhenAsked'
    BY DEF SignerIInv, SignerTypeOK, FailsOnlyWhenAsked, CannotSign
  <1> QED BY <1>1, <1>2, <1>3, <1>4 DEF SignerIInv

\* Whatever the wallet writes to its answer, the call has a copy.
LEMMA WalletWritesKeeps ==
  ASSUME SignerIInv, NEW c \in Calls, WalletWrites(c)
  PROVE  SignerIInv'
  BY DEF WalletWrites, signerVars, connectVars, historyVars, SignerIInv, SignerTypeOK, ConnectOK, WaitingOK,
         AskedOK, ItemOK, FailsOnlyWhenAsked, CannotSign

\* An item is signed only by the account that it names.
LEMMA VerifyKeeps ==
  ASSUME SignerIInv, NEW c \in Calls, Verify(c)
  PROVE  SignerIInv'
  <1> USE DEF Verify, signerVars, connectVars, itemVars, historyVars
  <1>1. SignerTypeOK'
    BY DEF SignerIInv, SignerTypeOK
  <1>2. ConnectOK' /\ WaitingOK' /\ AskedOK'
    BY DEF SignerIInv, SignerTypeOK, ConnectOK, WaitingOK, AskedOK
  <1>3. ItemOK'
    BY WalletKeysAssumption DEF SignerIInv, SignerTypeOK, ItemOK, HeldBytes
  <1>4. FailsOnlyWhenAsked'
    BY DEF SignerIInv, SignerTypeOK, ItemOK, FailsOnlyWhenAsked, CannotSign
  <1> QED BY <1>1, <1>2, <1>3, <1>4 DEF SignerIInv

---------------------------------------------------------------------------

LEMMA SignerNextKeeps == SignerIInv /\ [WalletNext]_walletVars => SignerIInv'
  <1> SUFFICES ASSUME SignerIInv, [WalletNext]_walletVars PROVE SignerIInv'
    OBVIOUS
  <1>1. CASE ConnectStep
    BY <1>1, ConnectStepKeeps
  <1>2. CASE \E c \in Calls : CallStep(c) \/ WalletWrites(c)
    <2> PICK c \in Calls : CallStep(c) \/ WalletWrites(c)
      BY <1>2
    <2>1. CASE BeginWithKey(c)
      BY <2>1, BeginWithKeyKeeps
    <2>2. CASE BeginConnect(c)
      BY <2>2, BeginConnectKeeps
    <2>3. CASE (\E k \in Keys \cup {Garbage} : PromptSigned(c, k)) \/ PromptRefused(c)
      BY <2>3, WalletAnswerKeeps
    <2>4. CASE Verify(c)
      BY <2>4, VerifyKeeps
    <2>5. CASE WalletWrites(c)
      BY <2>5, WalletWritesKeeps
    <2> QED BY <2>1, <2>2, <2>3, <2>4, <2>5 DEF CallStep
  <1>3. CASE UNCHANGED walletVars
    BY <1>3 DEF walletVars, signerVars, connectVars, itemVars, historyVars, SignerIInv, SignerTypeOK, ConnectOK, WaitingOK,
                AskedOK, ItemOK, FailsOnlyWhenAsked, CannotSign
  <1> QED BY <1>1, <1>2, <1>3 DEF WalletNext

LEMMA SignerInvariant == WalletSpec => []SignerIInv
  BY SignerInitOK, SignerNextKeeps, PTL DEF WalletSpec

\* Every variable has its type, and a wallet is only asked to sign an item
\* that names one of its accounts.
THEOREM SignersTypeCorrect == WalletSpec => []SignerTypeOK
  BY SignerInvariant, PTL DEF SignerIInv

\* Every signed item names the client's account and holds its signature.
THEOREM ItemsVerify == WalletSpec => []SignedItemsVerify
  <1>1. SignerIInv => SignedItemsVerify
    BY WalletKeysAssumption DEF SignerIInv, SignerTypeOK, ItemOK, SignedItemsVerify, HeldBytes
  <1> QED BY <1>1, SignerInvariant, PTL

\* However many calls there are, they share one connect prompt.
THEOREM PromptIsShared == WalletSpec => []OneConnectPrompt
  <1>1. SignerIInv => OneConnectPrompt
    BY WalletKeysAssumption DEF SignerIInv, ConnectOK, OneConnectPrompt
  <1> QED BY <1>1, SignerInvariant, PTL

\* Every call that fails was asked, or joined calls that had been and were
\* still waiting: a refusal that was told to anybody fails no later call.
THEOREM RefusalsAreNotKept == WalletSpec => []FailsOnlyWhenAsked
  BY SignerInvariant, PTL DEF SignerIInv
=============================================================================
